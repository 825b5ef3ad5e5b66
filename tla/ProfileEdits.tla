---------------------------- MODULE ProfileEdits ----------------------------
(***************************************************************************)
(* The avatar of one user: UserService.updateAvatar, called by the Media   *)
(* Service for an asset it has stored, and updateProfile, which saves the  *)
(* whole entity it has read.  The answer of updateAvatar names the URL     *)
(* that was replaced, and Media then removes that asset.                   *)
(***************************************************************************)
CONSTANTS
  Requests,  \* request slots
  Assets,    \* files Media may store, each once: bounds the avatars
  NoAsset

VARIABLES
  avatar,     \* users.avatar_url
  stored,     \* the assets Media has stored so far
  removed,    \* the assets Media has removed
  request,    \* what each handler in progress has read
  reverted,   \* history: assets that a profile edit has put back
  forgotten   \* history: assets nobody will name to Media any more

vars == <<avatar, stored, removed, request, reverted, forgotten>>

URL == Assets \cup {NoAsset}

\* read: the avatar of the entity; in an answer, the URL to remove.
Request == [pc : {"idle", "editing", "replacing", "answered"}, read : URL, new : URL]
Idle == [pc |-> "idle", read |-> NoAsset, new |-> NoAsset]

EditsTypeOK ==
  /\ avatar \in URL
  /\ stored \subseteq Assets /\ removed \subseteq stored
  /\ request \in [Requests -> Request]
  /\ reverted \subseteq stored /\ forgotten \subseteq stored

Init ==
  /\ avatar = NoAsset
  /\ stored = {} /\ removed = {}
  /\ request = [q \in Requests |-> Idle]
  /\ reverted = {} /\ forgotten = {}

At(q, pc) == request[q].pc = pc
Real(url) == {url} \ {NoAsset}
Finish(q) == request' = [request EXCEPT ![q] = Idle]

-----------------------------------------------------------------------------
\* updateProfile: the entity is read, and saved with another name or phone.
BeginEdit(q) ==
  /\ request[q] = Idle
  /\ request' = [request EXCEPT ![q] = [pc |-> "editing", read |-> avatar, new |-> NoAsset]]
  /\ UNCHANGED <<avatar, stored, removed, reverted, forgotten>>

\* save(user) writes each column that differs from the stored row, this one too.
SaveEdit(q) ==
  LET old == request[q].read IN
  /\ At(q, "editing")
  /\ avatar' = old
  /\ reverted' = IF avatar = old THEN reverted ELSE reverted \cup Real(old)
  /\ forgotten' = IF avatar = old THEN forgotten ELSE forgotten \cup Real(avatar)
  /\ Finish(q)
  /\ UNCHANGED <<stored, removed>>

\* updateAvatar, for an asset Media has just stored.
BeginReplace(q, a) ==
  /\ request[q] = Idle /\ a \notin stored
  /\ stored' = stored \cup {a}
  /\ request' = [request EXCEPT ![q] = [pc |-> "replacing", read |-> avatar, new |-> a]]
  /\ UNCHANGED <<avatar, removed, reverted, forgotten>>

\* Mutant: the old URL is taken from the entity after the new one was assigned.
NamedAfterAssignment(s) == s.new

\* Mutant: the answer names no URL.
NamedNothing(s) == NoAsset

\* The URL the answer names: the one the entity had when it was read.
Named(s) == s.read

SaveReplace(q) ==
  LET s == request[q] IN
  /\ At(q, "replacing")
  /\ avatar' = s.new
  /\ forgotten' = IF avatar = s.read THEN forgotten ELSE forgotten \cup Real(avatar)
  /\ request' = [request EXCEPT ![q] =
       [pc |-> "answered", read |-> Named(s), new |-> NoAsset]]
  /\ UNCHANGED <<stored, removed, reverted>>

\* The answer reaches Media, which removes the asset named.
Remove(q) ==
  /\ At(q, "answered")
  /\ removed' = removed \cup Real(request[q].read)
  /\ Finish(q)
  /\ UNCHANGED <<avatar, stored, reverted, forgotten>>

\* A statement fails, or the answer is lost: whatever the handler was to name
\* stays with Media.
Fail(q) ==
  /\ request[q] # Idle
  /\ forgotten' = forgotten \cup
       (IF At(q, "answered") THEN Real(request[q].read) ELSE Real(request[q].new))
  /\ Finish(q)
  /\ UNCHANGED <<avatar, stored, removed, reverted>>

Next ==
  \E q \in Requests :
    \/ BeginEdit(q) \/ SaveEdit(q)
    \/ \E a \in Assets : BeginReplace(q, a)
    \/ SaveReplace(q) \/ Remove(q) \/ Fail(q)

Spec == Init /\ [][Next]_vars

-----------------------------------------------------------------------------
\* internal-user.controller.ts, "return the old URL so that the calling service can
\* clean up the file": the profile shows an avatar whose file is gone only where a
\* profile edit has put it back; no order of replacements, removals and failures
\* alone does that.
GoneOnlyByEdit == avatar \in removed => avatar \in reverted

\* Whatever Media stored is the avatar, or removed, or still named by a handler,
\* unless a save overwrote an avatar it had not read, or something failed.
NoAssetForgotten ==
  \A a \in stored :
    \/ a = avatar \/ a \in removed \cup forgotten
    \/ \E q \in Requests : a = request[q].new \/ (At(q, "answered") /\ a = request[q].read)
=============================================================================
