----------------------------- MODULE Addresses ------------------------------
(***************************************************************************)
(* The delivery addresses of one user: UserService.createAddress,          *)
(* updateAddress and deleteAddress.  Each is a sequence of statements      *)
(* without a transaction or a lock, so that two requests interleave        *)
(* between any two of them.  A partial unique index admits one default.    *)
(* Addresses are numbered in the order of their creation.                  *)
(***************************************************************************)
EXTENDS Naturals, FiniteSets

CONSTANTS
  Requests,      \* request slots
  MaxAddresses,  \* the limit of the code, which says 5
  MaxInserts     \* bounds the addresses ever created

VARIABLES
  listed,   \* the rows of user_addresses
  default,  \* the row with is_default, or none
  created,  \* how many addresses were inserted
  request,  \* what each handler in progress has reached and remembers
  kept      \* history: a default was chosen, and since then not unset, with no overlap
            \* of requests, no failure and no moment without an address

vars == <<listed, default, created, request, kept>>

Ids == 1..MaxInserts
Wish == {"yes", "no", "unsaid"}   \* dto.isDefault: true, false, undefined

Working ==
  [pc : {"clearing", "inserting"}, id : {0}, wish : Wish, was : {FALSE}]  \* create
  \cup [pc : {"clearing", "saving"}, id : Ids, wish : Wish, was : BOOLEAN]  \* update
  \cup [pc : {"removing", "seeking", "promoting"}, id : Ids, wish : {"unsaid"}, was : BOOLEAN]

Idle == [pc |-> "idle"]

TypeOK ==
  /\ listed \subseteq Ids
  /\ default \subseteq Ids /\ Cardinality(default) <= 1
  /\ created \in 0..MaxInserts
  /\ request \in [Requests -> Working \cup {Idle}]
  /\ kept \in BOOLEAN

Init ==
  /\ listed = {} /\ default = {} /\ created = 0
  /\ request = [q \in Requests |-> Idle]
  /\ kept = FALSE

At(q, pc) == request[q].pc = pc
Finish(q) == request' = [request EXCEPT ![q] = Idle]
Alone(q) == \A p \in Requests \ {q} : request[p] = Idle

\* A handler begins with what it has read.
Begin(q, pc, n, wish, was) ==
  /\ request[q] = Idle
  /\ request' = [request EXCEPT ![q] = [pc |-> pc, id |-> n, wish |-> wish, was |-> was]]
  /\ kept' = (kept /\ Alone(q))
  /\ UNCHANGED <<listed, default, created>>

\* The row n gets the flag d; the index refuses a second default.
Admits(n, d) == d => default \subseteq {n}
Flag(n, d) == default' = IF d THEN {n} ELSE default \ {n}

-----------------------------------------------------------------------------
\* Mutant: one address too many.
RoomForOneMore == Cardinality(listed) <= MaxAddresses

Room == Cardinality(listed) < MaxAddresses

BeginCreate(q, wish) ==
  /\ Room
  /\ Begin(q, IF wish = "yes" THEN "clearing" ELSE "inserting", 0, wish, FALSE)

BeginUpdate(q, n, wish) ==
  /\ n \in listed
  /\ Begin(q, IF wish = "yes" /\ n \notin default THEN "clearing" ELSE "saving",
           n, wish, n \in default)

BeginDelete(q, n) ==
  /\ n \in listed
  /\ Begin(q, "removing", n, "unsaid", n \in default)

\* UPDATE ... SET is_default = false, for all of the user.
Clear(q) ==
  /\ At(q, "clearing")
  /\ default' = {}
  /\ request' = [request EXCEPT ![q].pc = IF request[q].id = 0 THEN "inserting" ELSE "saving"]
  /\ UNCHANGED <<listed, created, kept>>

Insert(q) ==
  LET d == request[q].wish = "yes" IN
  /\ At(q, "inserting") /\ created < MaxInserts /\ Admits(created + 1, d)
  /\ created' = created + 1
  /\ listed' = listed \cup {created + 1}
  /\ Flag(created + 1, d)
  /\ kept' = IF d THEN Alone(q) ELSE kept
  /\ Finish(q)

\* save(entity) compares with the row as it is now: it writes the flag that was
\* read, or asked for, and inserts a row that has been deleted meanwhile.
Save(q) ==
  LET s == request[q]
      d == s.wish = "yes" \/ (s.wish = "unsaid" /\ s.was) IN
  /\ At(q, "saving") /\ Admits(s.id, d)
  /\ listed' = listed \cup {s.id}
  /\ Flag(s.id, d)
  /\ kept' = IF d THEN Alone(q) ELSE kept /\ s.id \notin default
  /\ Finish(q)
  /\ UNCHANGED created

Remove(q) ==
  LET s == request[q] IN
  /\ At(q, "removing")
  /\ listed' = listed \ {s.id}
  /\ Flag(s.id, FALSE)
  /\ request' = [request EXCEPT ![q] = IF s.was THEN [s EXCEPT !.pc = "seeking"] ELSE Idle]
  /\ UNCHANGED <<created, kept>>

\* Mutant: the flag is not passed on.
SeekNothing(q) ==
  /\ At(q, "seeking")
  /\ Finish(q)
  /\ UNCHANGED <<listed, default, created, kept>>

\* findOne, the newest first.
Seek(q) ==
  /\ At(q, "seeking")
  /\ IF listed = {} THEN Finish(q)
     ELSE \E m \in listed :
            /\ \A k \in listed : k <= m
            /\ request' = [request EXCEPT ![q].pc = "promoting", ![q].id = m]
  /\ kept' = (kept /\ listed # {})
  /\ UNCHANGED <<listed, default, created>>

\* UPDATE by id: of no row when it is gone.
Promote(q) ==
  LET m == request[q].id IN
  /\ At(q, "promoting") /\ (m \in listed => Admits(m, TRUE))
  /\ IF m \in listed THEN Flag(m, TRUE) ELSE UNCHANGED default
  /\ Finish(q)
  /\ UNCHANGED <<listed, created, kept>>

\* The check of an update's address codes, the index or the database refuses, or
\* the process stops.
Fail(q) ==
  /\ request[q] # Idle
  /\ Finish(q)
  /\ kept' = FALSE
  /\ UNCHANGED <<listed, default, created>>

Next == \E q \in Requests :
  \/ \E wish \in Wish : BeginCreate(q, wish)
  \/ \E n \in Ids, wish \in Wish : BeginUpdate(q, n, wish)
  \/ \E n \in Ids : BeginDelete(q, n)
  \/ Clear(q)
  \/ Insert(q)
  \/ Save(q)
  \/ Remove(q)
  \/ Seek(q)
  \/ Promote(q)
  \/ Fail(q)

-----------------------------------------------------------------------------
(* The limit is tested before the insert and not held to it: requests in   *)
(* progress may pass it, but never by more than the others there are.      *)
LimitExceededByOverlapOnly ==
  Cardinality(listed) <= MaxAddresses + Cardinality(Requests) - 1

(* Between requests a user who has chosen a default address, and since     *)
(* then sent one request at a time, never unset it and kept an address,    *)
(* has a default - whatever was created, changed and deleted.              *)
DefaultPassesOn ==
  (kept /\ listed # {} /\ \A q \in Requests : request[q] = Idle) =>
    default # {} /\ default \subseteq listed

=============================================================================
