----------------------------- MODULE ListsProofs -----------------------------
(***************************************************************************)
(* Theorems about MCProfileLists: about Addresses, for every limit and any *)
(* number of requests, and about ProfileEdits, for any number of requests  *)
(* and assets, as they run beside RefundAccounts.                          *)
(***************************************************************************)
EXTENDS MCProfileLists, RefundAccountsProofs

-----------------------------------------------------------------------------
(* The inductive invariant of Addresses.                                   *)

\* Requests that have found room, and those that may insert again a row which
\* they have read and which is deleted meanwhile.
IsCreating(s) == s.pc \in {"clearing", "inserting"} /\ s.id = 0
IsSaving(s) == s.pc \in {"clearing", "saving"} /\ s.id # 0

Creating == {q \in Requests : IsCreating(addressRequest[q])}
Saving == {q \in Requests : IsSaving(addressRequest[q])}

\* The rows there are, or will be if every update in progress puts its row back.
Potential == addresses \cup {addressRequest[q].id : q \in Saving}

\* Room is tested by the first of them, while all of the others hold a row.
LimitOK ==
  Cardinality(Potential) + Cardinality(Creating) <=
    MaxAddresses + Cardinality(Requests) - 1

\* Rows and requests have numbers given out already: an insert makes a new row.
RowsNumbered ==
  /\ addresses \subseteq 1..inserted
  /\ \A q \in Requests : addressRequest[q] # A!Idle => addressRequest[q].id <= inserted

\* The request that will set the flag, or pass it on, when it ends.
Restores(s) ==
  \/ s.pc \in {"inserting", "saving"} /\ s.wish = "yes"
  \/ s.pc \in {"seeking", "promoting"}

\* A default that was chosen is there, or one request is about to restore it; what
\* a request read of it still holds.
FlagOK == kept =>
  /\ \A p, q \in Requests : addressRequest[p] # A!Idle /\ addressRequest[q] # A!Idle => p = q
  /\ (\A q \in Requests : ~Restores(addressRequest[q])) =>
       defaultAddress # {} /\ defaultAddress \subseteq addresses
  /\ \A q \in Requests :
       /\ A!At(q, "clearing") => addressRequest[q].wish = "yes"
       /\ A!At(q, "removing") =>
            addressRequest[q].was = (addressRequest[q].id \in defaultAddress)
       /\ A!At(q, "promoting") => addressRequest[q].id \in addresses

AddressInv == A!TypeOK /\ RowsNumbered /\ LimitOK /\ FlagOK

-----------------------------------------------------------------------------
(* The inductive invariant of ProfileEdits.                                *)

\* A request has an asset of its own while it replaces the avatar, no longer.
OwnOnlyReplacing ==
  \A q \in Requests : E!At(q, "replacing") \/ editRequest[q].new = NoAsset

\* The avatar and whatever was read of it were stored.
WasStored ==
  /\ avatar \in stored \cup {NoAsset}
  /\ \A q \in Requests : editRequest[q].read \in stored \cup {NoAsset}

\* Nobody has seen, removed or named the asset that is about to become the avatar.
Fresh ==
  \A q \in Requests : E!At(q, "replacing") =>
    /\ editRequest[q].new \in stored \ removed
    /\ editRequest[q].new # avatar
    /\ \A p \in Requests : editRequest[p].read # editRequest[q].new
    /\ \A p \in Requests \ {q} : editRequest[p].new # editRequest[q].new

\* An asset named for removal is not the avatar, unless an edit put it back.
NamedIsReplaced ==
  \A q \in Requests : E!At(q, "answered") /\ editRequest[q].read = avatar =>
    avatar \in reverted \cup {NoAsset}

EditsInv ==
  /\ E!EditsTypeOK /\ OwnOnlyReplacing /\ WasStored /\ Fresh /\ NamedIsReplaced
  /\ GoneOnlyByEdit /\ NoAssetForgotten

-----------------------------------------------------------------------------
(* ProfileEdits.                                                           *)

\* Before the first request nothing is stored.
LEMMA EditsInit == E!Init => EditsInv
BY DEF E!Init, E!Idle, E!At, E!EditsTypeOK, E!URL, E!Request, EditsInv, OwnOnlyReplacing,
       WasStored, Fresh, NamedIsReplaced, GoneOnlyByEdit, E!GoneOnlyByEdit,
       NoAssetForgotten, E!NoAssetForgotten

\* The request that a step moves, and what it remembers afterwards.
LEMMA EditMoves ==
  ASSUME E!EditsTypeOK, NEW q \in Requests, NEW t \in E!Request,
         editRequest' = [editRequest EXCEPT ![q] = t]
  PROVE  /\ editRequest' \in [Requests -> E!Request]
         /\ editRequest'[q] = t
         /\ \A p \in Requests \ {q} : editRequest'[p] = editRequest[p]
BY DEF E!EditsTypeOK

\* Each step leaves every asset in its place.
LEMMA EditsStep == EditsInv /\ [E!Next]_(E!vars) => EditsInv'
<1> SUFFICES ASSUME EditsInv, [E!Next]_(E!vars) PROVE EditsInv'
  OBVIOUS
<1> USE DEF E!At
<1>1. /\ E!EditsTypeOK /\ OwnOnlyReplacing /\ WasStored /\ Fresh /\ NamedIsReplaced
      /\ E!GoneOnlyByEdit /\ E!NoAssetForgotten
  BY DEF EditsInv, GoneOnlyByEdit, NoAssetForgotten
<1>2. E!Idle \in E!Request /\ E!Idle.pc = "idle" /\ E!Idle.new = NoAsset
      /\ E!Idle.read = NoAsset
  BY DEF E!Idle, E!Request, E!URL
<1>3. \A p \in Requests : editRequest[p] \in E!Request
  BY <1>1 DEF E!EditsTypeOK
<1>4. stored \subseteq Assets /\ NoAsset \notin stored
  BY <1>1, AssetsAssumption DEF E!EditsTypeOK
<1>5. ASSUME NEW q \in Requests, E!BeginEdit(q) PROVE EditsInv'
  <2> DEFINE t == [pc |-> "editing", read |-> avatar, new |-> NoAsset]
  <2>1. t \in E!Request /\ t.pc = "editing" /\ t.read = avatar /\ t.new = NoAsset
    BY <1>1 DEF E!EditsTypeOK, E!Request, E!URL
  <2>2. /\ editRequest' = [editRequest EXCEPT ![q] = t]
        /\ UNCHANGED <<avatar, stored, removed, reverted, forgotten>>
    BY <1>5 DEF E!BeginEdit
  <2>3. editRequest[q].new = NoAsset /\ editRequest[q].pc = "idle"
    BY <1>2, <1>5 DEF E!BeginEdit
  <2> HIDE DEF t
  <2>4. /\ editRequest' \in [Requests -> E!Request] /\ editRequest'[q] = t
        /\ \A p \in Requests \ {q} : editRequest'[p] = editRequest[p]
    BY <1>1, <2>1, <2>2, EditMoves
  <2>5. E!EditsTypeOK'
    BY <1>1, <2>2, <2>4 DEF E!EditsTypeOK
  <2>6. OwnOnlyReplacing' /\ WasStored' /\ NamedIsReplaced'
    BY <1>1, <2>1, <2>2, <2>4 DEF OwnOnlyReplacing, WasStored, NamedIsReplaced
  <2>7. Fresh'
    BY <1>1, <1>4, <2>1, <2>2, <2>4 DEF Fresh
  <2>8. E!GoneOnlyByEdit' /\ E!NoAssetForgotten'
    <3>1. E!GoneOnlyByEdit'
      BY <1>1, <2>2 DEF E!GoneOnlyByEdit
    <3>2. E!NoAssetForgotten'
      BY <1>1, <1>4, <2>1, <2>2, <2>3, <2>4 DEF E!NoAssetForgotten
    <3>3. QED
      BY <3>1, <3>2
  <2>9. QED
    BY <2>5, <2>6, <2>7, <2>8 DEF EditsInv, GoneOnlyByEdit, NoAssetForgotten
<1>6. ASSUME NEW q \in Requests, E!SaveEdit(q) PROVE EditsInv'
  <2>1. /\ editRequest' = [editRequest EXCEPT ![q] = E!Idle]
        /\ editRequest[q].pc = "editing" /\ editRequest[q].new = NoAsset
        /\ avatar' = editRequest[q].read /\ UNCHANGED <<stored, removed>>
    BY <1>1, <1>6 DEF E!SaveEdit, E!Finish, OwnOnlyReplacing
  <2>2. /\ reverted' = IF avatar = avatar' THEN reverted ELSE reverted \cup ({avatar'} \ {NoAsset})
        /\ forgotten' = IF avatar = avatar' THEN forgotten ELSE forgotten \cup ({avatar} \ {NoAsset})
    BY <1>6, <2>1 DEF E!SaveEdit, E!Real
  <2>3. /\ editRequest' \in [Requests -> E!Request] /\ editRequest'[q] = E!Idle
        /\ \A p \in Requests \ {q} : editRequest'[p] = editRequest[p]
    BY <1>1, <1>2, <2>1, EditMoves
  <2>4. avatar' \in stored \cup {NoAsset}
    BY <1>1, <2>1 DEF WasStored
  <2>5. E!EditsTypeOK'
    <3>1. avatar' \in E!URL
      BY <1>4, <2>4 DEF E!URL
    <3>2. reverted' \subseteq stored /\ forgotten' \subseteq stored
      BY <1>1, <2>2, <2>4 DEF E!EditsTypeOK, WasStored
    <3>3. QED
      BY <1>1, <2>1, <2>3, <3>1, <3>2 DEF E!EditsTypeOK
  <2>6. OwnOnlyReplacing' /\ WasStored'
    BY <1>1, <1>2, <2>1, <2>3, <2>4 DEF OwnOnlyReplacing, WasStored
  <2>7. NamedIsReplaced'
    BY <1>1, <1>2, <2>2, <2>3, <2>4 DEF NamedIsReplaced
  <2>8. Fresh'
    BY <1>1, <1>2, <1>4, <2>1, <2>3 DEF Fresh
  <2>9. E!GoneOnlyByEdit'
    BY <1>1, <1>4, <2>1, <2>2, <2>4 DEF E!GoneOnlyByEdit, E!EditsTypeOK
  <2>10. E!NoAssetForgotten'
    BY <1>1, <1>4, <2>1, <2>2, <2>3 DEF E!NoAssetForgotten
  <2>11. QED
    BY <2>5, <2>6, <2>7, <2>8, <2>9, <2>10 DEF EditsInv, GoneOnlyByEdit, NoAssetForgotten
<1>7. ASSUME NEW q \in Requests, NEW a \in Assets, E!BeginReplace(q, a) PROVE EditsInv'
  <2> DEFINE t == [pc |-> "replacing", read |-> avatar, new |-> a]
  <2>1. t \in E!Request /\ t.pc = "replacing" /\ t.read = avatar /\ t.new = a
    BY <1>1 DEF E!EditsTypeOK, E!Request, E!URL
  <2>2. /\ editRequest' = [editRequest EXCEPT ![q] = t]
        /\ stored' = stored \cup {a} /\ a \notin stored
        /\ UNCHANGED <<avatar, removed, reverted, forgotten>>
    BY <1>7 DEF E!BeginReplace
  <2>3. editRequest[q].new = NoAsset /\ editRequest[q].pc = "idle"
    BY <1>2, <1>7 DEF E!BeginReplace
  <2> HIDE DEF t
  <2>4. /\ editRequest' \in [Requests -> E!Request] /\ editRequest'[q] = t
        /\ \A p \in Requests \ {q} : editRequest'[p] = editRequest[p]
    BY <1>1, <2>1, <2>2, EditMoves
  <2>5. E!EditsTypeOK'
    BY <1>1, <2>2, <2>4 DEF E!EditsTypeOK
  <2>6. OwnOnlyReplacing' /\ WasStored' /\ NamedIsReplaced'
    BY <1>1, <2>1, <2>2, <2>4 DEF OwnOnlyReplacing, WasStored, NamedIsReplaced
  <2>7. a # NoAsset /\ a # avatar /\ a \notin removed
        /\ \A p \in Requests : editRequest[p].read # a /\ editRequest[p].new # a
    <3>1. a # NoAsset
      BY AssetsAssumption
    <3>2. \A p \in Requests : editRequest[p].new \in stored \cup {NoAsset}
      BY <1>1 DEF OwnOnlyReplacing, Fresh
    <3>3. QED
      BY <1>1, <2>2, <3>1, <3>2 DEF WasStored, E!EditsTypeOK
  <2>8. Fresh'
    <3> SUFFICES ASSUME NEW r \in Requests, editRequest'[r].pc = "replacing"
                 PROVE  /\ editRequest'[r].new \in stored' \ removed
                        /\ editRequest'[r].new # avatar
                        /\ \A p \in Requests : editRequest'[p].read # editRequest'[r].new
                        /\ \A p \in Requests \ {r} : editRequest'[p].new # editRequest'[r].new
      BY <2>2 DEF Fresh
    <3>1. CASE r = q
      BY <2>1, <2>2, <2>4, <2>7, <3>1
    <3>2. CASE r # q
      BY <1>1, <2>1, <2>2, <2>4, <2>7, <3>2 DEF Fresh
    <3>3. QED
      BY <3>1, <3>2
  <2>9. E!GoneOnlyByEdit' /\ E!NoAssetForgotten'
    BY <1>1, <1>4, <2>1, <2>2, <2>3, <2>4 DEF E!GoneOnlyByEdit, E!NoAssetForgotten
  <2>10. QED
    BY <2>5, <2>6, <2>8, <2>9 DEF EditsInv, GoneOnlyByEdit, NoAssetForgotten
<1>8. ASSUME NEW q \in Requests, E!SaveReplace(q) PROVE EditsInv'
  <2> DEFINE s == editRequest[q]
             t == [pc |-> "answered", read |-> s.read, new |-> NoAsset]
  <2>1. t \in E!Request /\ t.pc = "answered" /\ t.read = s.read /\ t.new = NoAsset
    BY <1>3 DEF E!Request, E!URL
  <2>2. /\ editRequest' = [editRequest EXCEPT ![q] = t] /\ s.pc = "replacing"
        /\ avatar' = s.new
        /\ forgotten' = IF avatar = s.read THEN forgotten ELSE forgotten \cup ({avatar} \ {NoAsset})
        /\ UNCHANGED <<stored, removed, reverted>>
    BY <1>8 DEF E!SaveReplace, E!Named, E!Real
  <2>3. /\ s.new \in stored \ removed /\ s.new # avatar
        /\ \A p \in Requests : editRequest[p].read # s.new
        /\ \A p \in Requests \ {q} : editRequest[p].new # s.new
    BY <1>1, <2>2 DEF Fresh
  <2> HIDE DEF s, t
  <2>4. /\ editRequest' \in [Requests -> E!Request] /\ editRequest'[q] = t
        /\ \A p \in Requests \ {q} : editRequest'[p] = editRequest[p]
    BY <1>1, <2>1, <2>2, EditMoves
  <2>5. s.read \in stored \cup {NoAsset} /\ s.read # s.new
    BY <1>1, <2>3 DEF WasStored, s
  <2>6. E!EditsTypeOK'
    <3>1. avatar' \in E!URL /\ forgotten' \subseteq stored
      BY <1>1, <1>4, <2>2, <2>3 DEF E!URL, E!EditsTypeOK, WasStored
    <3>2. QED
      BY <1>1, <2>2, <2>4, <3>1 DEF E!EditsTypeOK
  <2>7. OwnOnlyReplacing' /\ WasStored'
    BY <1>1, <2>1, <2>2, <2>3, <2>4, <2>5 DEF OwnOnlyReplacing, WasStored
  <2>8. NamedIsReplaced'
    BY <1>1, <2>1, <2>2, <2>3, <2>4, <2>5 DEF NamedIsReplaced
  <2>9. Fresh'
    <3>1. \A r \in Requests : editRequest'[r].pc = "replacing" => r # q
      BY <2>1, <2>4
    <3>2. s.read = editRequest[q].read /\ s.new = editRequest[q].new
      BY DEF s
    <3>3. QED
      BY <1>1, <1>4, <2>1, <2>2, <2>4, <3>1, <3>2 DEF Fresh
  <2>10. E!GoneOnlyByEdit'
    BY <2>2, <2>3 DEF E!GoneOnlyByEdit
  <2>11. E!NoAssetForgotten'
    <3> SUFFICES ASSUME NEW a \in stored,
                        a # avatar', a \notin removed \cup forgotten'
                 PROVE  \E p \in Requests : \/ a = editRequest'[p].new
                                            \/ editRequest'[p].pc = "answered" /\ a = editRequest'[p].read
      BY <2>2 DEF E!NoAssetForgotten
    <3>1. CASE a = avatar
      BY <1>4, <2>1, <2>2, <2>4, <3>1
    <3>2. CASE a # avatar
      <4>1. PICK p \in Requests : \/ a = editRequest[p].new
                                  \/ editRequest[p].pc = "answered" /\ a = editRequest[p].read
        BY <1>1, <2>2, <3>2 DEF E!NoAssetForgotten
      <4>2. p # q
        BY <2>2, <4>1 DEF s
      <4>3. QED
        BY <2>4, <4>1, <4>2
    <3>3. QED
      BY <3>1, <3>2
  <2>12. QED
    BY <2>6, <2>7, <2>8, <2>9, <2>10, <2>11 DEF EditsInv, GoneOnlyByEdit, NoAssetForgotten
<1>9. ASSUME NEW q \in Requests, E!Remove(q) \/ E!Fail(q) PROVE EditsInv'
  <2>1. editRequest' = [editRequest EXCEPT ![q] = E!Idle]
        /\ UNCHANGED <<avatar, stored, reverted>>
    BY <1>9 DEF E!Remove, E!Fail, E!Finish
  <2>2. /\ editRequest' \in [Requests -> E!Request] /\ editRequest'[q] = E!Idle
        /\ \A p \in Requests \ {q} : editRequest'[p] = editRequest[p]
    BY <1>1, <1>2, <2>1, EditMoves
  <2>3. /\ editRequest[q].read \in stored \cup {NoAsset}
        /\ editRequest[q].new \in stored \cup {NoAsset}
    BY <1>1 DEF WasStored, OwnOnlyReplacing, Fresh
  <2>4. /\ removed \subseteq removed' /\ removed' \subseteq removed \cup {editRequest[q].read}
        /\ removed' \subseteq stored
        /\ forgotten \subseteq forgotten' /\ forgotten' \subseteq stored
    BY <1>1, <1>4, <1>9, <2>3 DEF E!Remove, E!Fail, E!Real, E!EditsTypeOK
  <2>5. E!EditsTypeOK'
    BY <1>1, <2>1, <2>2, <2>4 DEF E!EditsTypeOK
  <2>6. OwnOnlyReplacing' /\ WasStored' /\ NamedIsReplaced'
    BY <1>1, <1>2, <2>1, <2>2 DEF OwnOnlyReplacing, WasStored, NamedIsReplaced
  <2>7. Fresh'
    BY <1>1, <1>2, <1>4, <2>1, <2>2, <2>4 DEF Fresh
  <2>8. E!GoneOnlyByEdit'
    <3>1. CASE removed' = removed
      BY <1>1, <2>1, <3>1 DEF E!GoneOnlyByEdit
    <3>2. CASE E!Remove(q)
      BY <1>1, <1>4, <2>1, <3>2 DEF E!GoneOnlyByEdit, E!Remove, E!Real, NamedIsReplaced
    <3>3. QED
      BY <1>9, <3>1, <3>2 DEF E!Fail
  <2>9. E!NoAssetForgotten'
    <3> SUFFICES ASSUME NEW a \in stored,
                        a # avatar, a \notin removed' \cup forgotten'
                 PROVE  \E p \in Requests : \/ a = editRequest'[p].new
                                            \/ editRequest'[p].pc = "answered" /\ a = editRequest'[p].read
      BY <2>1 DEF E!NoAssetForgotten
    <3>1. PICK p \in Requests : \/ a = editRequest[p].new
                                \/ editRequest[p].pc = "answered" /\ a = editRequest[p].read
      BY <1>1, <2>4 DEF E!NoAssetForgotten
    <3>2. CASE p # q
      BY <2>2, <3>1, <3>2
    <3>3. CASE p = q /\ editRequest[q].pc = "answered"
      <4>1. a = editRequest[q].read
        BY <1>1, <1>4, <3>1, <3>3 DEF OwnOnlyReplacing
      <4>2. a \in removed' \cup forgotten'
        BY <1>4, <1>9, <3>3, <4>1 DEF E!Remove, E!Fail, E!Real
      <4>3. QED
        BY <4>2
    <3>4. CASE p = q /\ editRequest[q].pc # "answered"
      <4>1. a = editRequest[q].new
        BY <3>1, <3>4
      <4>2. a \in forgotten'
        BY <1>4, <1>9, <3>4, <4>1 DEF E!Remove, E!Fail, E!Real
      <4>3. QED
        BY <4>2
    <3>5. QED
      BY <3>2, <3>3, <3>4
  <2>10. QED
    BY <2>5, <2>6, <2>7, <2>8, <2>9 DEF EditsInv, GoneOnlyByEdit, NoAssetForgotten
<1>10. CASE UNCHANGED E!vars
  BY <1>1, <1>10 DEF E!vars, E!EditsTypeOK, OwnOnlyReplacing, WasStored, Fresh,
     NamedIsReplaced, E!GoneOnlyByEdit, E!NoAssetForgotten, EditsInv, GoneOnlyByEdit,
     NoAssetForgotten
<1>11. QED
  BY <1>5, <1>6, <1>7, <1>8, <1>9, <1>10 DEF E!Next

-----------------------------------------------------------------------------
(* Addresses: the steps.                                                   *)

\* The instance counts as this module does.
LEMMA SameCardinality == \A S : A!Cardinality(S) = Cardinality(S)
BY DEF A!Cardinality, Cardinality

\* What the stage of a request says of what it remembers.
LEMMA AddressShape ==
  ASSUME A!TypeOK, NEW q \in Requests
  PROVE  \/ addressRequest[q] = A!Idle
         \/ /\ addressRequest[q] \in A!Working
            /\ addressRequest[q].pc = "inserting" => addressRequest[q].id = 0
            /\ addressRequest[q].id \in A!Ids \cup {0}
            /\ addressRequest[q].pc \in {"saving", "removing", "seeking", "promoting"} =>
                 addressRequest[q].id \in A!Ids
<1>1. addressRequest[q] \in A!Working \cup {A!Idle}
  BY DEF A!TypeOK
<1>2. CASE addressRequest[q] \in A!Working
  BY <1>2 DEF A!Working
<1>3. QED
  BY <1>1, <1>2

\* The request that a step moves, and what it remembers afterwards.
LEMMA AddressMoves ==
  ASSUME A!TypeOK, NEW q \in Requests, NEW t \in A!Working \cup {A!Idle},
         addressRequest' = [addressRequest EXCEPT ![q] = t]
  PROVE  /\ addressRequest' \in [Requests -> A!Working \cup {A!Idle}]
         /\ addressRequest'[q] = t
         /\ \A p \in Requests \ {q} : addressRequest'[p] = addressRequest[p]
BY DEF A!TypeOK

\* What the table makes of a flag that it is given.
LEMMA FlagTyped ==
  ASSUME A!TypeOK, NEW n \in A!Ids, NEW d \in BOOLEAN, A!Flag(n, d)
  PROVE  defaultAddress' \subseteq A!Ids /\ Cardinality(defaultAddress') <= 1
<1>1. CASE d
  <2>1. defaultAddress' = {n} /\ Cardinality({n}) = 1
    BY <1>1, FS_Singleton DEF A!Flag
  <2>2. QED
    BY <2>1
<1>2. CASE ~d
  <2>1. IsFiniteSet(A!Ids)
    BY AddressesAssumption, FS_Interval DEF A!Ids
  <2>2. IsFiniteSet(defaultAddress)
    BY <2>1, FS_Subset DEF A!TypeOK
  <2>3. defaultAddress' \in SUBSET defaultAddress
    BY <1>2 DEF A!Flag
  <2>4. /\ Cardinality(defaultAddress') <= Cardinality(defaultAddress)
        /\ Cardinality(defaultAddress) \in Nat /\ Cardinality(defaultAddress') \in Nat
    BY <2>2, <2>3, FS_Subset, FS_CardinalityType
  <2>5. Cardinality(defaultAddress) <= 1 /\ defaultAddress \subseteq A!Ids
    BY SameCardinality DEF A!TypeOK
  <2>6. QED
    BY <2>3, <2>4, <2>5
<1>3. QED
  BY <1>1, <1>2

\* A step as the invariant sees it: q goes from a stage to the record t, and the
\* rows, the default and the history change with it.
AddressStep(q, t) ==
  \/ /\ \E wish \in A!Wish : A!BeginCreate(q, wish)
     /\ t.pc \in {"clearing", "inserting"} /\ t.id = 0
     /\ t.pc = "clearing" => t.wish = "yes"
  \/ /\ \E n \in addresses, wish \in A!Wish : A!BeginUpdate(q, n, wish) /\ t.id = n
     /\ t.pc \in {"clearing", "saving"} /\ t.id \in A!Ids
     /\ t.pc = "clearing" => t.wish = "yes"
  \/ /\ \E n \in addresses : A!BeginDelete(q, n) /\ t.id = n
     /\ t.pc = "removing" /\ t.was = (t.id \in defaultAddress)
  \/ /\ A!Clear(q)
     /\ t.id = addressRequest[q].id /\ t.wish = addressRequest[q].wish
     /\ IF t.id = 0 THEN t.pc = "inserting" ELSE t.pc = "saving"
  \/ A!Insert(q) /\ t = A!Idle
  \/ A!Save(q) /\ t = A!Idle
  \/ A!Remove(q) /\ (IF addressRequest[q].was
                     THEN t.pc = "seeking" /\ t.id = addressRequest[q].id ELSE t = A!Idle)
  \/ A!Seek(q) /\ (IF addresses = {} THEN t = A!Idle
                                    ELSE t.pc = "promoting" /\ t.id \in addresses)
  \/ A!Promote(q) /\ t = A!Idle
  \/ A!Fail(q) /\ t = A!Idle

\* Every step is one of these, and t has the type of a request.
LEMMA AddressSteps ==
  ASSUME A!TypeOK, A!Next
  PROVE  \E q \in Requests, t \in A!Working \cup {A!Idle} :
           addressRequest' = [addressRequest EXCEPT ![q] = t] /\ AddressStep(q, t)
<1> USE DEF A!At
<1>1. PICK q \in Requests :
        \/ \E wish \in A!Wish : A!BeginCreate(q, wish)
        \/ \E n \in A!Ids, wish \in A!Wish : A!BeginUpdate(q, n, wish)
        \/ \E n \in A!Ids : A!BeginDelete(q, n)
        \/ A!Clear(q) \/ A!Insert(q) \/ A!Save(q) \/ A!Remove(q) \/ A!Seek(q)
        \/ A!Promote(q) \/ A!Fail(q)
  BY DEF A!Next
<1> DEFINE s == addressRequest[q]
           Moved(t) == /\ t \in A!Working \cup {A!Idle}
                       /\ addressRequest' = [addressRequest EXCEPT ![q] = t]
                       /\ AddressStep(q, t)
<1> SUFFICES \E t : Moved(t)
  OBVIOUS
<1>2. ASSUME NEW wish \in A!Wish, A!BeginCreate(q, wish) PROVE \E t : Moved(t)
  <2> DEFINE t == [pc |-> IF wish = "yes" THEN "clearing" ELSE "inserting",
                   id |-> 0, wish |-> wish, was |-> FALSE]
  <2>1. /\ t \in A!Working /\ t.pc \in {"clearing", "inserting"} /\ t.id = 0
        /\ t.pc = "clearing" => t.wish = "yes"
    BY DEF A!Working
  <2>2. addressRequest' = [addressRequest EXCEPT ![q] = t]
    BY <1>2 DEF A!BeginCreate, A!Begin
  <2> HIDE DEF t
  <2>3. QED
    BY <1>2, <2>1, <2>2 DEF AddressStep
<1>3. ASSUME NEW n \in A!Ids, NEW wish \in A!Wish, A!BeginUpdate(q, n, wish)
      PROVE  \E t : Moved(t)
  <2> DEFINE pc == IF wish = "yes" /\ n \notin defaultAddress THEN "clearing" ELSE "saving"
             was == n \in defaultAddress
             t == [pc |-> pc, id |-> n, wish |-> wish, was |-> was]
  <2>1. pc \in {"clearing", "saving"} /\ was \in BOOLEAN
    OBVIOUS
  <2>2. addressRequest' = [addressRequest EXCEPT ![q] = t]
    BY <1>3 DEF A!BeginUpdate, A!Begin
  <2>3. t.pc = "clearing" => t.wish = "yes"
    OBVIOUS
  <2> HIDE DEF pc, was
  <2>4. t \in A!Working /\ t.pc \in {"clearing", "saving"} /\ t.id = n
    BY <2>1 DEF A!Working
  <2>5. addressRequest' = [addressRequest EXCEPT ![q] = t] /\ n \in addresses
    BY <1>3, <2>2 DEF A!BeginUpdate
  <2> HIDE DEF t
  <2>6. QED
    BY <1>3, <2>3, <2>4, <2>5 DEF AddressStep
<1>4. ASSUME NEW n \in A!Ids, A!BeginDelete(q, n) PROVE \E t : Moved(t)
  <2> DEFINE t == [pc |-> "removing", id |-> n, wish |-> "unsaid", was |-> n \in defaultAddress]
  <2>1. /\ t \in A!Working /\ t.pc = "removing" /\ t.id = n
        /\ t.was = (t.id \in defaultAddress)
    BY DEF A!Working
  <2>2. addressRequest' = [addressRequest EXCEPT ![q] = t] /\ n \in addresses
    BY <1>4 DEF A!BeginDelete, A!Begin
  <2> HIDE DEF t
  <2>3. QED
    BY <1>4, <2>1, <2>2 DEF AddressStep
<1>5. CASE A!Clear(q)
  <2> DEFINE t == [s EXCEPT !.pc = IF s.id = 0 THEN "inserting" ELSE "saving"]
  <2>1. s \in A!Working /\ s.pc = "clearing"
    BY <1>5, AddressShape DEF A!Clear, A!Idle
  <2>2. t \in A!Working
    <3>1. s \in [pc : {"clearing", "inserting"}, id : {0}, wish : A!Wish, was : {FALSE}]
            \cup [pc : {"clearing", "saving"}, id : A!Ids, wish : A!Wish, was : BOOLEAN]
      BY <2>1 DEF A!Working
    <3>2. s.id = 0 => [s EXCEPT !.pc = "inserting"] \in A!Working
      <4>1. s.id = 0 =>
              s \in [pc : {"clearing", "inserting"}, id : {0}, wish : A!Wish, was : {FALSE}]
        <5>1. 0 \notin A!Ids
          BY AddressesAssumption DEF A!Ids
        <5>2. CASE s \in [pc : {"clearing", "saving"}, id : A!Ids, wish : A!Wish, was : BOOLEAN]
          <6>1. s.id \in A!Ids
            BY <5>2
          <6>2. QED
            BY <5>1, <6>1
        <5>3. QED
          BY <3>1, <5>2
      <4>2. QED
        BY <4>1 DEF A!Working
    <3>3. s.id # 0 => [s EXCEPT !.pc = "saving"] \in A!Working
      BY <3>1 DEF A!Working
    <3>4. QED
      BY <3>2, <3>3
  <2>3. /\ t.id = s.id /\ t.wish = s.wish
        /\ t.pc = IF t.id = 0 THEN "inserting" ELSE "saving"
    BY <2>1 DEF A!Working
  <2>4. addressRequest' = [addressRequest EXCEPT ![q] = t]
    BY <1>5 DEF A!Clear
  <2> HIDE DEF t
  <2>5. QED
    BY <1>5, <2>2, <2>3, <2>4 DEF AddressStep
<1>6. CASE A!Insert(q) \/ A!Save(q) \/ A!Promote(q) \/ A!Fail(q)
  <2>1. addressRequest' = [addressRequest EXCEPT ![q] = A!Idle]
    BY <1>6 DEF A!Insert, A!Save, A!Promote, A!Fail, A!Finish
  <2>2. QED
    BY <1>6, <2>1 DEF AddressStep
<1>7. CASE A!Remove(q)
  <2> DEFINE t == IF s.was THEN [s EXCEPT !.pc = "seeking"] ELSE A!Idle
  <2>1. s \in A!Working /\ s.pc = "removing"
    BY <1>7, AddressShape DEF A!Remove, A!Idle
  <2>2. /\ [s EXCEPT !.pc = "seeking"] \in A!Working
        /\ [s EXCEPT !.pc = "seeking"].pc = "seeking" /\ [s EXCEPT !.pc = "seeking"].id = s.id
    BY <2>1 DEF A!Working
  <2>3. addressRequest' = [addressRequest EXCEPT ![q] = t]
    BY <1>7 DEF A!Remove
  <2>4. /\ t \in A!Working \cup {A!Idle}
        /\ IF s.was THEN t.pc = "seeking" /\ t.id = s.id ELSE t = A!Idle
    BY <2>2
  <2> HIDE DEF t
  <2>5. QED
    BY <1>7, <2>3, <2>4 DEF AddressStep
<1>8. CASE A!Seek(q)
  <2>1. CASE addresses = {}
    <3>1. addressRequest' = [addressRequest EXCEPT ![q] = A!Idle]
      BY <1>8, <2>1 DEF A!Seek, A!Finish
    <3>2. QED
      BY <1>8, <2>1, <3>1 DEF AddressStep
  <2>2. CASE addresses # {}
    <3>1. PICK m \in addresses :
            addressRequest' = [addressRequest EXCEPT ![q].pc = "promoting", ![q].id = m]
      BY <1>8, <2>2 DEF A!Seek
    <3> DEFINE t == [s EXCEPT !.pc = "promoting", !.id = m]
    <3>2. s \in A!Working /\ s.pc = "seeking" /\ m \in A!Ids
      BY <1>8, AddressShape DEF A!Seek, A!Idle, A!TypeOK
    <3>3. t \in A!Working /\ t.pc = "promoting" /\ t.id = m
      BY <3>2 DEF A!Working
    <3>4. addressRequest' = [addressRequest EXCEPT ![q] = t]
      BY <3>1
    <3> HIDE DEF t
    <3>5. QED
      BY <1>8, <2>2, <3>3, <3>4 DEF AddressStep
  <2>3. QED
    BY <2>1, <2>2
<1>9. QED
  BY <1>1, <1>2, <1>3, <1>4, <1>5, <1>6, <1>7, <1>8

-----------------------------------------------------------------------------
(* Addresses: the invariant.                                               *)

\* The rows, the default and the requests keep their types.
LEMMA AddressTypeStep ==
  ASSUME A!TypeOK, NEW q \in Requests, NEW t \in A!Working \cup {A!Idle},
         addressRequest' = [addressRequest EXCEPT ![q] = t], AddressStep(q, t)
  PROVE  A!TypeOK'
<1> USE DEF A!At
<1>1. /\ addresses \subseteq A!Ids /\ inserted \in 0..MaxInserts /\ kept \in BOOLEAN
      /\ defaultAddress \subseteq A!Ids /\ Cardinality(defaultAddress) <= 1
  BY SameCardinality DEF A!TypeOK
<1>2. addressRequest' \in [Requests -> A!Working \cup {A!Idle}]
  BY AddressMoves
<1>3. /\ addressRequest[q].pc \in {"saving", "removing", "seeking", "promoting"} =>
           addressRequest[q].id \in A!Ids
  BY AddressShape DEF A!Idle
<1>4. kept' \in BOOLEAN
  BY <1>1 DEF AddressStep, A!BeginCreate, A!BeginUpdate, A!BeginDelete, A!Begin, A!Clear,
     A!Insert, A!Save, A!Remove, A!Seek, A!Promote, A!Fail, A!Alone
<1>5. inserted' \in 0..MaxInserts
  <2>1. inserted' = inserted \/ (inserted' = inserted + 1 /\ inserted < MaxInserts)
    BY DEF AddressStep, A!BeginCreate, A!BeginUpdate, A!BeginDelete, A!Begin, A!Clear,
       A!Insert, A!Save, A!Remove, A!Seek, A!Promote, A!Fail
  <2>2. QED
    BY <1>1, <2>1, AddressesAssumption
<1>6. A!Insert(q) => inserted + 1 \in A!Ids
  BY <1>1, AddressesAssumption DEF A!Insert, A!Ids
<1>7. addresses' \subseteq A!Ids
  <2>1. CASE A!Insert(q)
    BY <1>1, <1>6, <2>1 DEF A!Insert
  <2>2. CASE A!Save(q)
    BY <1>1, <1>3, <2>2 DEF A!Save
  <2>3. CASE ~A!Insert(q) /\ ~A!Save(q)
    <3>1. addresses' \subseteq addresses
      BY <2>3 DEF AddressStep, A!BeginCreate, A!BeginUpdate, A!BeginDelete, A!Begin,
         A!Clear, A!Remove, A!Seek, A!Promote, A!Fail
    <3>2. QED
      BY <1>1, <3>1
  <2>4. QED
    BY <2>1, <2>2, <2>3
<1>8. \/ defaultAddress' \in {defaultAddress, {}}
      \/ \E n \in A!Ids, d \in BOOLEAN : A!Flag(n, d)
  <2>1. CASE A!Insert(q)
    BY <1>6, <2>1 DEF A!Insert
  <2>2. CASE A!Save(q) \/ A!Remove(q) \/ A!Promote(q)
    BY <1>3, <2>2 DEF A!Save, A!Remove, A!Promote
  <2>3. CASE ~(A!Insert(q) \/ A!Save(q) \/ A!Remove(q) \/ A!Promote(q))
    BY <2>3 DEF AddressStep, A!BeginCreate, A!BeginUpdate, A!BeginDelete, A!Begin,
       A!Clear, A!Seek, A!Fail
  <2>4. QED
    BY <2>1, <2>2, <2>3
<1>9. defaultAddress' \subseteq A!Ids /\ Cardinality(defaultAddress') <= 1
  <2>1. Cardinality({}) = 0
    BY FS_EmptySet
  <2>2. QED
    BY <1>1, <1>8, <2>1, FlagTyped
<1>10. QED
  BY <1>2, <1>4, <1>5, <1>7, <1>9, SameCardinality DEF A!TypeOK

\* The sets that the limit counts are finite.
LEMMA Counted ==
  ASSUME A!TypeOK
  PROVE  /\ IsFiniteSet(addresses) /\ IsFiniteSet(Potential)
         /\ IsFiniteSet(Creating) /\ IsFiniteSet(Saving)
         /\ Cardinality(addresses) \in Nat /\ Cardinality(Potential) \in Nat
         /\ Cardinality(Creating) \in Nat /\ Cardinality(Saving) \in Nat
         /\ Cardinality(Requests) \in Nat
         /\ MaxAddresses + Cardinality(Requests) - 1 \in Nat
<1>1. IsFiniteSet(A!Ids)
  BY AddressesAssumption, FS_Interval DEF A!Ids
<1>2. \A q \in Saving : addressRequest[q].id \in A!Ids
  BY AddressShape DEF Saving, IsSaving, A!Idle
<1>3. addresses \in SUBSET A!Ids /\ Potential \in SUBSET A!Ids
  BY <1>2 DEF A!TypeOK, Potential
<1>4. Creating \in SUBSET Requests /\ Saving \in SUBSET Requests
  BY DEF Creating, Saving
<1>5. /\ IsFiniteSet(addresses) /\ IsFiniteSet(Potential)
      /\ IsFiniteSet(Creating) /\ IsFiniteSet(Saving)
  BY <1>1, <1>3, <1>4, RequestsAssumption, FS_Subset
<1>6. Cardinality(Requests) \in Nat /\ Cardinality(Requests) # 0
  BY RequestsAssumption, FS_CardinalityType, FS_EmptySet
<1>7. MaxAddresses + Cardinality(Requests) - 1 \in Nat
  BY <1>6, AddressesAssumption
<1>8. QED
  BY <1>5, <1>6, <1>7, FS_CardinalityType

\* Where nothing is promised beyond what was, the limit stays kept.
LEMMA LimitShrinks ==
  ASSUME A!TypeOK, A!TypeOK', LimitOK,
         Potential' \subseteq Potential, Creating' \subseteq Creating
  PROVE  LimitOK'
<1>1. /\ Cardinality(Potential') <= Cardinality(Potential)
      /\ Cardinality(Creating') <= Cardinality(Creating)
  BY Counted, FS_Subset
<1>2. Cardinality(Potential') \in Nat /\ Cardinality(Creating') \in Nat
  BY Counted, FS_Subset, FS_CardinalityType
<1>3. QED
  BY <1>1, <1>2, Counted DEF LimitOK

\* Each update in progress may put back one row at most.
LEMMA PotentialBound ==
  ASSUME A!TypeOK
  PROVE  Cardinality(Potential) <= Cardinality(addresses) + Cardinality(Saving)
<1> DEFINE named == {addressRequest[q].id : q \in Saving}
           f == [q \in Saving |-> addressRequest[q].id]
<1>1. f \in Surjection(Saving, named)
  BY DEF Surjection
<1>2. IsFiniteSet(named) /\ Cardinality(named) <= Cardinality(Saving)
  BY <1>1, Counted, FS_Surjection
<1>3. Potential = addresses \cup named
  BY DEF Potential
<1> HIDE DEF named, f
<1>4. /\ Cardinality(addresses \cup named) =
           Cardinality(addresses) + Cardinality(named) - Cardinality(addresses \cap named)
  BY <1>2, Counted, FS_Union
<1>5. Cardinality(addresses \cap named) \in Nat /\ Cardinality(named) \in Nat
  <2>1. addresses \cap named \in SUBSET named
    OBVIOUS
  <2>2. QED
    BY <1>2, <2>1, FS_Subset, FS_CardinalityType
<1>6. QED
  BY <1>2, <1>3, <1>4, <1>5, Counted

\* The request that finds room is one more, and none of those that hold a row.
LEMMA LimitCreates ==
  ASSUME A!TypeOK, A!TypeOK', NEW q \in Requests, addressRequest[q] = A!Idle,
         Cardinality(addresses) < MaxAddresses,
         Potential' = Potential, Creating' = Creating \cup {q}
  PROVE  LimitOK'
<1>1. q \notin Creating \cup Saving
  BY DEF Creating, Saving, IsCreating, IsSaving, A!Idle
<1>2. Creating \cap Saving = {}
  BY DEF Creating, Saving, IsCreating, IsSaving
<1>3. /\ IsFiniteSet(Creating \cup Saving)
      /\ Cardinality(Creating \cup Saving) = Cardinality(Creating) + Cardinality(Saving)
  <2>1. Cardinality(Creating \cap Saving) = 0
    BY <1>2, FS_EmptySet
  <2>2. /\ IsFiniteSet(Creating \cup Saving)
        /\ Cardinality(Creating \cup Saving) =
             Cardinality(Creating) + Cardinality(Saving) - Cardinality(Creating \cap Saving)
    BY Counted, FS_Union
  <2>3. QED
    BY <2>1, <2>2, Counted
<1>4. Cardinality(Creating) + Cardinality(Saving) + 1 <= Cardinality(Requests)
  <2>1. Cardinality((Creating \cup Saving) \cup {q}) = Cardinality(Creating \cup Saving) + 1
    BY <1>1, <1>3, FS_AddElement
  <2>2. (Creating \cup Saving) \cup {q} \in SUBSET Requests
    BY DEF Creating, Saving
  <2>3. Cardinality((Creating \cup Saving) \cup {q}) <= Cardinality(Requests)
    BY <2>2, RequestsAssumption, FS_Subset
  <2>4. QED
    BY <1>3, <2>1, <2>3
<1>5. Cardinality(Creating') = Cardinality(Creating) + 1
  BY <1>1, Counted, FS_AddElement
<1>6. Cardinality(Potential') <= Cardinality(addresses) + Cardinality(Saving)
  BY PotentialBound
<1>7. QED
  BY <1>4, <1>5, <1>6, Counted, AddressesAssumption DEF LimitOK

\* The row that is inserted is the one its request held.
LEMMA LimitInserts ==
  ASSUME A!TypeOK, A!TypeOK', LimitOK, NEW q \in Creating, NEW n,
         Potential' \subseteq Potential \cup {n}, Creating' = Creating \ {q}
  PROVE  LimitOK'
<1>1. /\ IsFiniteSet(Potential \cup {n})
      /\ Cardinality(Potential \cup {n}) <= Cardinality(Potential) + 1
      /\ Cardinality(Potential \cup {n}) \in Nat
  <2>1. /\ IsFiniteSet(Potential \cup {n})
        /\ Cardinality(Potential \cup {n}) =
             IF n \in Potential THEN Cardinality(Potential) ELSE Cardinality(Potential) + 1
    BY Counted, FS_AddElement
  <2>2. QED
    BY <2>1, Counted
<1>2. Cardinality(Potential') <= Cardinality(Potential \cup {n})
      /\ Cardinality(Potential') \in Nat
  BY <1>1, FS_Subset, FS_CardinalityType
<1>3. Cardinality(Creating') = Cardinality(Creating) - 1
  BY Counted, FS_RemoveElement
<1>4. QED
  BY <1>1, <1>2, <1>3, Counted DEF LimitOK

\* Between the test for room and the insert nobody promises more than its row.
LEMMA LimitStep ==
  ASSUME A!TypeOK, A!TypeOK', LimitOK,
         NEW q \in Requests, NEW t \in A!Working \cup {A!Idle},
         addressRequest' = [addressRequest EXCEPT ![q] = t], AddressStep(q, t)
  PROVE  LimitOK'
<1> USE DEF A!At
<1>1. /\ addressRequest'[q] = t
      /\ \A p \in Requests \ {q} : addressRequest'[p] = addressRequest[p]
  BY AddressMoves
<1>2. /\ Creating' = {p \in Requests : IsCreating(addressRequest'[p])}
      /\ Saving' = {p \in Requests : IsSaving(addressRequest'[p])}
      /\ Potential' = addresses' \cup {addressRequest'[p].id : p \in Saving'}
  BY DEF Creating, Saving, Potential
<1>3. /\ IF IsCreating(t) THEN Creating' = Creating \cup {q} ELSE Creating' = Creating \ {q}
      /\ IF IsSaving(t) THEN Saving' = Saving \cup {q} ELSE Saving' = Saving \ {q}
  BY <1>1, <1>2 DEF Creating, Saving
<1>4. \A p \in Saving' \ {q} : p \in Saving /\ addressRequest'[p].id = addressRequest[p].id
  BY <1>1, <1>3 DEF Saving
<1>5. ~IsCreating(A!Idle) /\ ~IsSaving(A!Idle)
  BY DEF IsCreating, IsSaving, A!Idle
<1>6. ASSUME NEW wish \in A!Wish, A!BeginCreate(q, wish),
             t.pc \in {"clearing", "inserting"}, t.id = 0
      PROVE  LimitOK'
  <2>1. /\ addressRequest[q] = A!Idle /\ addresses' = addresses
        /\ Cardinality(addresses) < MaxAddresses
    BY <1>6, SameCardinality DEF A!BeginCreate, A!Begin, A!Room
  <2>2. IsCreating(t) /\ ~IsSaving(t)
    BY <1>6 DEF IsCreating, IsSaving
  <2>3. Saving' = Saving /\ q \notin Saving
    BY <1>3, <1>5, <2>1, <2>2 DEF Saving
  <2>4. Potential' = Potential
    BY <1>2, <1>4, <2>1, <2>3 DEF Potential
  <2>5. Creating' = Creating \cup {q}
    BY <1>3, <2>2
  <2>6. QED
    BY <2>1, <2>4, <2>5, LimitCreates
<1>7. CASE A!Insert(q) /\ t = A!Idle
  <2>1. addresses' = addresses \cup {inserted + 1} /\ addressRequest[q].pc = "inserting"
    BY <1>7 DEF A!Insert
  <2>2. addressRequest[q].id = 0
    BY <2>1, AddressShape DEF A!Idle
  <2>3. q \in Creating
    BY <2>1, <2>2 DEF Creating, IsCreating
  <2>4. Creating' = Creating \ {q} /\ Saving' \subseteq Saving
    BY <1>3, <1>5, <1>7
  <2>5. q \notin Saving'
    BY <1>3, <1>5, <1>7
  <2>6. Potential' \subseteq Potential \cup {inserted + 1}
    BY <1>2, <1>4, <2>1, <2>4, <2>5 DEF Potential
  <2>7. QED
    BY <2>3, <2>4, <2>6, LimitInserts
<1>8. ASSUME addresses' \subseteq Potential, ~IsCreating(t) \/ IsCreating(addressRequest[q]),
             IsSaving(t) => t.id \in Potential
      PROVE  LimitOK'
  <2>1. Creating' \subseteq Creating
    BY <1>3, <1>8 DEF Creating
  <2>2. q \in Saving' => addressRequest'[q].id \in Potential
    BY <1>1, <1>3, <1>8
  <2>3. Potential' \subseteq Potential
    BY <1>2, <1>4, <1>8, <2>2 DEF Potential
  <2>4. QED
    BY <2>1, <2>3, LimitShrinks
<1>9. addresses \subseteq Potential
      /\ (IsSaving(addressRequest[q]) => addressRequest[q].id \in Potential)
  BY DEF Potential, Saving
<1>10. ASSUME NEW n \in addresses, NEW wish \in A!Wish, A!BeginUpdate(q, n, wish), t.id = n,
              t.id \in A!Ids
       PROVE  LimitOK'
  <2>1. addresses' = addresses
    BY <1>10 DEF A!BeginUpdate, A!Begin
  <2>2. ~IsCreating(t)
    BY <1>10, AddressesAssumption DEF IsCreating, A!Ids
  <2>3. QED
    BY <1>8, <1>9, <1>10, <2>1, <2>2
<1>11. CASE A!Clear(q) /\ t.id = addressRequest[q].id
            /\ IF t.id = 0 THEN t.pc = "inserting" ELSE t.pc = "saving"
  <2>1. addresses' = addresses /\ addressRequest[q].pc = "clearing"
    BY <1>11 DEF A!Clear
  <2>2. ~IsCreating(t) \/ IsCreating(addressRequest[q])
    BY <1>11, <2>1 DEF IsCreating
  <2>3. IsSaving(t) => IsSaving(addressRequest[q])
    BY <1>11, <2>1 DEF IsSaving
  <2>4. QED
    BY <1>8, <1>9, <1>11, <2>1, <2>2, <2>3
<1>12. CASE A!Save(q) /\ t = A!Idle
  <2>1. addresses' = addresses \cup {addressRequest[q].id} /\ addressRequest[q].pc = "saving"
    BY <1>12 DEF A!Save
  <2>2. addressRequest[q].id \in A!Ids /\ 0 \notin A!Ids
    BY <2>1, AddressShape, AddressesAssumption DEF A!Idle, A!Ids
  <2>3. IsSaving(addressRequest[q])
    BY <2>1, <2>2 DEF IsSaving
  <2>4. QED
    BY <1>5, <1>8, <1>9, <1>12, <2>1, <2>3
<1>13. CASE /\ \/ \E n \in addresses : A!BeginDelete(q, n)
               \/ A!Remove(q) \/ A!Seek(q) \/ A!Promote(q) \/ A!Fail(q)
            /\ t.pc \notin {"clearing", "inserting", "saving"}
  <2>1. addresses' \subseteq addresses
    BY <1>13 DEF A!BeginDelete, A!Begin, A!Remove, A!Seek, A!Promote, A!Fail
  <2>2. ~IsCreating(t) /\ ~IsSaving(t)
    BY <1>13 DEF IsCreating, IsSaving
  <2>3. QED
    BY <1>8, <1>9, <2>1, <2>2
<1>14. QED
  BY <1>6, <1>7, <1>10, <1>11, <1>12, <1>13 DEF AddressStep, A!Idle

\* No request names a number that was not given out.
LEMMA NumbersStep ==
  ASSUME A!TypeOK, RowsNumbered, NEW q \in Requests, NEW t \in A!Working \cup {A!Idle},
         addressRequest' = [addressRequest EXCEPT ![q] = t], AddressStep(q, t)
  PROVE  RowsNumbered'
<1> USE DEF A!At
<1>1. inserted \in Nat /\ addresses \subseteq 1..inserted
  BY AddressesAssumption DEF A!TypeOK, RowsNumbered
<1>2. /\ addressRequest'[q] = t
      /\ \A p \in Requests \ {q} : addressRequest'[p] = addressRequest[p]
  BY AddressMoves
<1>3. \A p \in Requests : addressRequest[p] # A!Idle =>
        addressRequest[p].id \in Nat /\ addressRequest[p].id <= inserted
  BY AddressShape, AddressesAssumption DEF RowsNumbered, A!Ids
<1>4. ASSUME inserted' \in Nat, inserted <= inserted', addresses' \subseteq 1..inserted',
             t # A!Idle => t.id <= inserted'
      PROVE  RowsNumbered'
  BY <1>1, <1>2, <1>3, <1>4 DEF RowsNumbered
<1>5. ASSUME NEW n \in A!Ids, n <= inserted PROVE addresses \cup {n} \subseteq 1..inserted
  BY <1>1, <1>5, AddressesAssumption DEF A!Ids
<1>6. CASE A!Insert(q) /\ t = A!Idle
  BY <1>1, <1>4, <1>6 DEF A!Insert
<1>7. CASE A!Save(q) /\ t = A!Idle
  <2>1. addressRequest[q] # A!Idle /\ addressRequest[q].pc = "saving"
    BY <1>7 DEF A!Save, A!Idle
  <2>2. addressRequest[q].id \in A!Ids /\ addressRequest[q].id <= inserted
    BY <1>3, <2>1, AddressShape
  <2>3. inserted' = inserted /\ addresses' = addresses \cup {addressRequest[q].id}
    BY <1>7 DEF A!Save
  <2>4. QED
    BY <1>1, <1>4, <1>5, <1>7, <2>2, <2>3
<1>8. CASE /\ inserted' = inserted /\ addresses' \subseteq addresses
           /\ t # A!Idle => t.id <= inserted
  BY <1>1, <1>4, <1>8
<1>9. CASE \/ (\E wish \in A!Wish : A!BeginCreate(q, wish)) /\ t.id = 0
           \/ \E n \in addresses, wish \in A!Wish : A!BeginUpdate(q, n, wish) /\ t.id = n
           \/ \E n \in addresses : A!BeginDelete(q, n) /\ t.id = n
  <2>1. inserted' = inserted /\ addresses' = addresses
    BY <1>9 DEF A!BeginCreate, A!BeginUpdate, A!BeginDelete, A!Begin
  <2>2. t.id <= inserted
    BY <1>1, <1>9
  <2>3. QED
    BY <1>8, <2>1, <2>2
<1>10. CASE \/ A!Clear(q) /\ t.id = addressRequest[q].id
            \/ /\ A!Remove(q)
               /\ IF addressRequest[q].was
                  THEN t.pc = "seeking" /\ t.id = addressRequest[q].id ELSE t = A!Idle
  <2>1. inserted' = inserted /\ addresses' \subseteq addresses /\ addressRequest[q] # A!Idle
    <3>1. inserted' = inserted /\ addresses' \subseteq addresses
      BY <1>10 DEF A!Clear, A!Remove
    <3>2. addressRequest[q].pc \in {"clearing", "removing"} /\ A!Idle.pc = "idle"
      BY <1>10 DEF A!Clear, A!Remove, A!Idle
    <3>3. QED
      BY <3>1, <3>2
  <2>2. t # A!Idle => t.id = addressRequest[q].id
    BY <1>10
  <2>3. QED
    BY <1>3, <1>8, <2>1, <2>2
<1>11. CASE \/ /\ A!Seek(q)
               /\ IF addresses = {} THEN t = A!Idle
                                    ELSE t.pc = "promoting" /\ t.id \in addresses
            \/ (A!Promote(q) \/ A!Fail(q)) /\ t = A!Idle
  <2>1. inserted' = inserted /\ addresses' = addresses
    BY <1>11 DEF A!Seek, A!Promote, A!Fail
  <2>2. t # A!Idle => t.id \in addresses
    BY <1>11
  <2>3. t # A!Idle => t.id <= inserted
    <3>1. \A n \in addresses : n <= inserted
      BY <1>1
    <3>2. QED
      BY <2>2, <3>1
  <2>4. QED
    BY <1>8, <2>1, <2>3
<1>12. QED
  BY <1>6, <1>7, <1>9, <1>10, <1>11 DEF AddressStep

\* With no request in progress, q begins and what it has read holds.
LEMMA FlagBegins ==
  ASSUME FlagOK, A!TypeOK, NEW q \in Requests, NEW t,
         addressRequest'[q] = t,
         \A p \in Requests \ {q} : addressRequest'[p] = addressRequest[p],
         UNCHANGED <<addresses, defaultAddress>>,
         kept' => kept /\ A!Alone(q), addressRequest[q] = A!Idle,
         t.pc = "removing" => t.was = (t.id \in defaultAddress), t.pc # "promoting",
         t.pc = "clearing" => t.wish = "yes"
  PROVE  FlagOK'
<1> SUFFICES ASSUME kept' PROVE FlagOK'
  BY DEF FlagOK
<1>1. \A p \in Requests \ {q} : addressRequest'[p] = A!Idle
  BY DEF A!Alone
<1>2. \A p \in Requests : ~Restores(addressRequest[p])
  BY <1>1 DEF Restores, A!Idle
<1>3. defaultAddress # {} /\ defaultAddress \subseteq addresses
  BY <1>2 DEF FlagOK
<1>4. \A p \in Requests : addressRequest'[p] # A!Idle => p = q
  BY <1>1
<1>5. \A p \in Requests :
        addressRequest'[p].pc \in {"clearing", "removing", "promoting"} => p = q
  BY <1>1 DEF A!Idle
<1>6. QED
  BY <1>3, <1>4, <1>5 DEF FlagOK, A!At

\* The one request of a user whose default is kept goes on.
LEMMA FlagGoesOn ==
  ASSUME FlagOK, kept, NEW q \in Requests, addressRequest[q] # A!Idle, NEW t,
         addressRequest'[q] = t,
         \A p \in Requests \ {q} : addressRequest'[p] = addressRequest[p],
         Restores(t) \/ (defaultAddress' # {} /\ defaultAddress' \subseteq addresses'),
         t.pc \notin {"clearing", "removing"}, t.pc = "promoting" => t.id \in addresses'
  PROVE  FlagOK'
<1>1. \A p \in Requests : addressRequest'[p] # A!Idle => p = q
  BY DEF FlagOK
<1>2. \A p \in Requests :
        addressRequest'[p].pc \in {"clearing", "removing", "promoting"} => p = q
  BY <1>1 DEF A!Idle
<1>3. QED
  BY <1>1, <1>2 DEF FlagOK, A!At

\* A default that was chosen stays, or the one request in progress restores it.
LEMMA FlagStep ==
  ASSUME A!TypeOK, RowsNumbered, FlagOK,
         NEW q \in Requests, NEW t \in A!Working \cup {A!Idle},
         addressRequest' = [addressRequest EXCEPT ![q] = t], AddressStep(q, t)
  PROVE  FlagOK'
<1> SUFFICES ASSUME kept' PROVE FlagOK'
  BY DEF FlagOK
<1> USE DEF A!At
<1> DEFINE s == addressRequest[q]
<1>1. /\ addressRequest'[q] = t
      /\ \A p \in Requests \ {q} : addressRequest'[p] = addressRequest[p]
  BY AddressMoves
<1>2. CASE \/ \E wish \in A!Wish : A!BeginCreate(q, wish)
           \/ \E n \in addresses, wish \in A!Wish : A!BeginUpdate(q, n, wish)
           \/ \E n \in addresses : A!BeginDelete(q, n)
  <2>1. /\ UNCHANGED <<addresses, defaultAddress>> /\ s = A!Idle
        /\ kept' => kept /\ A!Alone(q)
    BY <1>2 DEF A!BeginCreate, A!BeginUpdate, A!BeginDelete, A!Begin
  <2>2. /\ t.pc # "promoting" /\ (t.pc = "removing" => t.was = (t.id \in defaultAddress))
        /\ t.pc = "clearing" => t.wish = "yes"
    <3>1. s.pc = "idle"
      BY <2>1 DEF A!Idle
    <3>2. QED
      BY <1>2, <3>1 DEF AddressStep, A!Clear, A!Insert, A!Save, A!Remove, A!Seek,
         A!Promote, A!Fail, A!Idle
  <2>3. QED
    BY <1>1, <2>1, <2>2, FlagBegins
<1>3. ASSUME s # A!Idle, kept,
             Restores(t) \/ (defaultAddress' # {} /\ defaultAddress' \subseteq addresses'),
             t.pc \notin {"clearing", "removing"}, t.pc = "promoting" => t.id \in addresses'
      PROVE  FlagOK'
  <2> HIDE DEF s
  <2>1. addressRequest[q] # A!Idle
    BY <1>3 DEF s
  <2>2. QED
    BY <1>1, <1>3, <2>1, FlagGoesOn
<1>4. ASSUME s # A!Idle, ~Restores(s), kept
      PROVE  defaultAddress # {} /\ defaultAddress \subseteq addresses
  <2>1. \A p \in Requests : p # q => addressRequest[p] = A!Idle
    BY <1>4 DEF FlagOK
  <2>2. \A p \in Requests : ~Restores(addressRequest[p])
    BY <1>4, <2>1 DEF Restores, A!Idle
  <2>3. QED
    BY <1>4, <2>2 DEF FlagOK
<1>5. ASSUME A!Alone(q), t = A!Idle, defaultAddress' # {}, defaultAddress' \subseteq addresses'
      PROVE  FlagOK'
  <2>1. \A p \in Requests : addressRequest'[p] = A!Idle
    BY <1>1, <1>5 DEF A!Alone
  <2>2. QED
    BY <1>5, <2>1 DEF FlagOK, A!Idle
<1>6. t = A!Idle => t.pc = "idle"
  BY DEF A!Idle
<1>7. s = A!Idle => s.pc = "idle"
  BY DEF A!Idle
<1>8. CASE A!Clear(q) /\ t.id = s.id /\ t.wish = s.wish
           /\ IF t.id = 0 THEN t.pc = "inserting" ELSE t.pc = "saving"
  <2>1. s.pc = "clearing" /\ kept
    BY <1>8 DEF A!Clear
  <2>2. s.wish = "yes"
    BY <2>1 DEF FlagOK
  <2>3. Restores(t) /\ t.pc \in {"inserting", "saving"}
    BY <1>8, <2>2 DEF Restores
  <2>4. QED
    BY <1>3, <1>7, <2>1, <2>3
<1>9. CASE A!Insert(q) /\ t = A!Idle
  <2>1. s.pc = "inserting" /\ addresses' = addresses \cup {inserted + 1}
    BY <1>9 DEF A!Insert
  <2>2. CASE s.wish = "yes"
    <3>1. A!Alone(q) /\ defaultAddress' = {inserted + 1}
      BY <1>9, <2>2 DEF A!Insert, A!Flag
    <3>2. QED
      BY <1>5, <1>9, <2>1, <3>1
  <2>3. CASE s.wish # "yes"
    <3>1. kept /\ defaultAddress' = defaultAddress \ {inserted + 1}
      BY <1>9, <2>3 DEF A!Insert, A!Flag
    <3>2. defaultAddress # {} /\ defaultAddress \subseteq addresses
      BY <1>4, <1>7, <2>1, <2>3, <3>1 DEF Restores
    <3>3. inserted + 1 \notin addresses
      BY AddressesAssumption DEF RowsNumbered, A!TypeOK
    <3>4. QED
      BY <1>3, <1>6, <1>7, <1>9, <2>1, <3>1, <3>2, <3>3
  <2>4. QED
    BY <2>2, <2>3
<1>10. CASE A!Save(q) /\ t = A!Idle
  <2> DEFINE d == s.wish = "yes" \/ (s.wish = "unsaid" /\ s.was)
  <2>1. /\ s.pc = "saving" /\ addresses' = addresses \cup {s.id}
        /\ A!Flag(s.id, d)
        /\ kept' = IF d THEN A!Alone(q) ELSE kept /\ s.id \notin defaultAddress
    BY <1>10 DEF A!Save
  <2>2. CASE d
    <3>1. A!Alone(q) /\ defaultAddress' = {s.id}
      BY <2>1, <2>2 DEF A!Flag
    <3>2. QED
      BY <1>5, <1>10, <2>1, <3>1
  <2>3. CASE ~d
    <3>1. kept /\ defaultAddress' = defaultAddress
      BY <2>1, <2>3 DEF A!Flag
    <3>2. defaultAddress # {} /\ defaultAddress \subseteq addresses
      BY <1>4, <1>7, <2>1, <2>3, <3>1 DEF Restores
    <3>3. QED
      BY <1>3, <1>6, <1>7, <1>10, <2>1, <3>1, <3>2
  <2>4. QED
    BY <2>2, <2>3
<1>11. CASE A!Remove(q) /\ (IF s.was THEN t.pc = "seeking" ELSE t = A!Idle)
  <2>1. /\ s.pc = "removing" /\ kept /\ addresses' = addresses \ {s.id}
        /\ defaultAddress' = defaultAddress \ {s.id}
    BY <1>11 DEF A!Remove, A!Flag
  <2>2. CASE s.was
    <3>1. Restores(t)
      BY <1>11, <2>2 DEF Restores
    <3>2. QED
      BY <1>3, <1>7, <1>11, <2>1, <2>2, <3>1
  <2>3. CASE ~s.was
    <3>1. s.id \notin defaultAddress
      BY <2>1, <2>3 DEF FlagOK
    <3>2. defaultAddress # {} /\ defaultAddress \subseteq addresses
      BY <1>4, <1>7, <2>1 DEF Restores
    <3>3. QED
      BY <1>3, <1>6, <1>7, <1>11, <2>1, <2>3, <3>1, <3>2
  <2>4. QED
    BY <2>2, <2>3
<1>12. CASE A!Seek(q) /\ (IF addresses = {} THEN t = A!Idle
                                         ELSE t.pc = "promoting" /\ t.id \in addresses)
  <2>1. kept /\ addresses # {} /\ addresses' = addresses /\ s.pc = "seeking"
    BY <1>12 DEF A!Seek
  <2>2. Restores(t)
    BY <1>12, <2>1 DEF Restores
  <2>3. QED
    BY <1>3, <1>7, <1>12, <2>1, <2>2
<1>13. CASE A!Promote(q) /\ t = A!Idle
  <2>1. s.pc = "promoting" /\ kept /\ addresses' = addresses
    BY <1>13 DEF A!Promote
  <2>2. s.id \in addresses
    BY <2>1 DEF FlagOK
  <2>3. defaultAddress' = {s.id}
    BY <1>13, <2>2 DEF A!Promote, A!Flag
  <2>4. QED
    BY <1>3, <1>6, <1>7, <1>13, <2>1, <2>2, <2>3
<1>14. ~A!Fail(q)
  BY DEF A!Fail
<1>15. QED
  BY <1>2, <1>8, <1>9, <1>10, <1>11, <1>12, <1>13, <1>14 DEF AddressStep

\* A user starts without an address and without a request.
LEMMA AddressInit == A!Init => AddressInv
<1> SUFFICES ASSUME A!Init PROVE AddressInv
  OBVIOUS
<1>1. \A q \in Requests : addressRequest[q] = A!Idle
  BY DEF A!Init
<1>2. A!TypeOK
  <2>1. A!Cardinality({}) = 0
    BY FS_EmptySet, SameCardinality
  <2>2. 0 \in 0..MaxInserts
    BY AddressesAssumption
  <2>3. defaultAddress = {} /\ inserted = 0 /\ addresses = {} /\ kept = FALSE
        /\ addressRequest = [q \in Requests |-> A!Idle]
    BY DEF A!Init
  <2>4. addressRequest \in [Requests -> A!Working \cup {A!Idle}]
    BY <2>3
  <2>5. A!Cardinality(defaultAddress) <= 1
    BY <2>1, <2>3
  <2>6. QED
    BY <2>2, <2>3, <2>4, <2>5 DEF A!TypeOK
<1>3. Saving = {} /\ Creating = {}
  BY <1>1 DEF Saving, Creating, IsSaving, IsCreating, A!Idle
<1>4. Potential = {}
  BY <1>3 DEF Potential, A!Init
<1>5. LimitOK
  <2>1. Cardinality(Potential) = 0 /\ Cardinality(Creating) = 0
    BY <1>3, <1>4, FS_EmptySet
  <2>2. QED
    BY <1>2, <2>1, Counted DEF LimitOK
<1>6. FlagOK
  BY DEF FlagOK, A!Init
<1>7. RowsNumbered
  BY <1>1 DEF RowsNumbered, A!Init
<1>8. QED
  BY <1>2, <1>5, <1>6, <1>7 DEF AddressInv

\* Every step of every request keeps the invariant of the addresses.
LEMMA AddressInvStep == AddressInv /\ [A!Next]_(A!vars) => AddressInv'
<1> SUFFICES ASSUME AddressInv, [A!Next]_(A!vars) PROVE AddressInv'
  OBVIOUS
<1>1. CASE A!Next
  <2>1. PICK q \in Requests, t \in A!Working \cup {A!Idle} :
          addressRequest' = [addressRequest EXCEPT ![q] = t] /\ AddressStep(q, t)
    BY <1>1, AddressSteps DEF AddressInv
  <2>2. A!TypeOK'
    BY <2>1, AddressTypeStep DEF AddressInv
  <2>3. QED
    BY <2>1, <2>2, NumbersStep, LimitStep, FlagStep DEF AddressInv
<1>2. CASE UNCHANGED A!vars
  BY <1>2 DEF AddressInv, A!vars, A!TypeOK, RowsNumbered, LimitOK, Potential, Creating, Saving, FlagOK,
     A!At
<1>3. QED
  BY <1>1, <1>2

-----------------------------------------------------------------------------
(* The theorems.                                                           *)

\* A behaviour of MCProfileLists is, for each of the modules, one of its behaviours.
THEOREM ListsRuns ==
  ListsSpec => Spec /\ (A!Init /\ [][A!Next]_(A!vars)) /\ E!Spec
<1>1. ListsInit => Init /\ A!Init /\ E!Init
  BY DEF ListsInit
<1>2. [ListsNext]_<<vars, addressVars, editVars>> =>
        [Next]_vars /\ [A!Next]_(A!vars) /\ [E!Next]_(E!vars)
  BY DEF ListsNext, addressVars, editVars, A!vars, E!vars
<1>3. QED
  BY <1>1, <1>2, PTL DEF ListsSpec, Spec, E!Spec

(* The invariants of the addresses and of the avatar hold in every state.  *)
THEOREM ListsInvariance == ListsSpec => [](AddressInv /\ EditsInv)
<1>1. A!Init /\ [][A!Next]_(A!vars) => []AddressInv
  BY AddressInit, AddressInvStep, PTL
<1>2. E!Spec => []EditsInv
  BY EditsInit, EditsStep, PTL DEF E!Spec
<1>3. QED
  BY ListsRuns, <1>1, <1>2, PTL

(* Refund accounts, addresses and avatar keep their types.                 *)
THEOREM ListsTypeCorrect == ListsSpec => []ListsTypeOK
<1>1. TypeOK /\ AddressInv /\ EditsInv => ListsTypeOK
  BY DEF ListsTypeOK, AddressInv, EditsInv
<1>2. QED
  BY ListsRuns, ListsInvariance, TypeCorrect, <1>1, PTL

(* Any number of requests, in any order, that each find room before they   *)
(* insert, or put back a row deleted meanwhile, pass the limit of          *)
(* addresses by at most one for each of the other requests.                *)
THEOREM LimitHolds == ListsSpec => []LimitExceededByOverlapOnly
<1>1. AddressInv => LimitExceededByOverlapOnly
  <2> SUFFICES ASSUME AddressInv PROVE LimitExceededByOverlapOnly
    OBVIOUS
  <2>1. A!TypeOK /\ LimitOK
    BY DEF AddressInv
  <2>2. Cardinality(addresses) <= Cardinality(Potential)
    <3>1. addresses \in SUBSET Potential
      BY DEF Potential
    <3>2. QED
      BY <2>1, <3>1, Counted, FS_Subset
  <2>3. Cardinality(addresses) <= MaxAddresses + Cardinality(Requests) - 1
    BY <2>1, <2>2, Counted DEF LimitOK
  <2>4. QED
    BY <2>3, SameCardinality DEF LimitExceededByOverlapOnly, A!LimitExceededByOverlapOnly
<1>2. QED
  BY ListsInvariance, <1>1, PTL

(* A default address that was chosen is passed on by whatever follows, one *)
(* request at a time: no sequence of creations, changes and deletions that *)
(* leaves an address leaves the user without a default.                    *)
THEOREM DefaultIsPassedOn == ListsSpec => []DefaultPassesOn
<1>1. AddressInv => DefaultPassesOn
  BY DEF AddressInv, FlagOK, Restores, A!Idle, DefaultPassesOn, A!DefaultPassesOn
<1>2. QED
  BY ListsInvariance, <1>1, PTL

(* However replacements, profile edits, removals and failures interleave,  *)
(* a profile shows a removed avatar only where an edit has put it back.    *)
THEOREM RemovedIsNotShown == ListsSpec => []GoneOnlyByEdit
<1>1. EditsInv => GoneOnlyByEdit
  BY DEF EditsInv
<1>2. QED
  BY ListsInvariance, <1>1, PTL

(* Every asset that Media stored is shown, removed or still named by a     *)
(* request, but for those that the history excuses.                        *)
THEOREM AssetsAreNamed == ListsSpec => []NoAssetForgotten
<1>1. EditsInv => NoAssetForgotten
  BY DEF EditsInv
<1>2. QED
  BY ListsInvariance, <1>1, PTL

=============================================================================
