------------------------ MODULE RefundAccountsProofs ------------------------
(***************************************************************************)
(* Theorems about RefundAccounts, for any recipients and any number of     *)
(* accounts and concurrent requests.                                       *)
(***************************************************************************)
EXTENDS RefundAccounts, TLAPS, FiniteSetTheorems, WellFoundedInduction

-----------------------------------------------------------------------------
(* The inductive invariant.                                                *)

\* The lock of the user excludes a second transaction under it.
LockExcludes ==
  \A p, q \in Requests : InTransaction(p) /\ InTransaction(q) => p = q

\* What a transaction has read still holds when it writes.
ReadsHold ==
  \A q \in Requests :
    /\ At(q, "creating") => request[q].first = (listed = {})
    /\ request[q].pc \in {"deleting", "choosing"} =>
         /\ request[q].id \in listed
         /\ request[q].wasDefault = (request[q].id \in default)

\* A row that says what a creation is about to insert says so since an update.
CreationIsNew ==
  \A q \in Requests : At(q, "creating") =>
    \A n \in listed : account[n] = request[q].recipient => n \in edited

LockInv == LockExcludes /\ ReadsHold /\ OneDefault
TwinInv == CreationIsNew /\ TwinsOnlyByUpdate

IInv == TypeOK /\ LockInv /\ TwinInv

\* The user starts with no accounts and no requests.
LEMMA InvInit == Init => IInv
<1> SUFFICES ASSUME Init PROVE IInv
  OBVIOUS
<1> USE RefundAssumption DEF Init, Idle
<1>1. TypeOK
  BY DEF TypeOK, Ids
<1>2. \A q \in Requests : request[q].pc = "idle"
  OBVIOUS
<1>3. LockInv
  BY <1>2 DEF LockInv, LockExcludes, ReadsHold, OneDefault, InTransaction, At
<1>4. TwinInv
  BY <1>2 DEF TwinInv, CreationIsNew, TwinsOnlyByUpdate, At
<1>5. QED
  BY <1>1, <1>3, <1>4 DEF IInv

-----------------------------------------------------------------------------
(* The flag finds an heir: a set of numbers that is not empty has a least  *)
(* element, and only one.                                                  *)

\* Of several accounts that remain, exactly one is the oldest.
LEMMA HeirExists ==
  ASSUME NEW S \in SUBSET Ids, S # {}
  PROVE  \E n \in S : Heir(S) = {n}
<1> DEFINE UpTo(n) == {k \in S : k <= n}
           Family == {UpTo(n) : n \in S}
<1>1. S \subseteq Nat /\ IsFiniteSet(S)
  <2>1. IsFiniteSet(1..MaxAccounts)
    BY RefundAssumption, FS_Interval
  <2>2. S \in SUBSET (1..MaxAccounts)
    BY DEF Ids
  <2>3. IsFiniteSet(S)
    BY <2>1, <2>2, FS_Subset
  <2>4. QED
    BY <2>2, <2>3, RefundAssumption
<1>2. Family \subseteq FiniteSubsetsOf(S) /\ Family # {}
  <2>1. Family \subseteq SUBSET S /\ Family # {}
    OBVIOUS
  <2>2. FiniteSubsetsOf(S) = SUBSET S
    BY <1>1, FS_FiniteSubsetsOfFinite
  <2>3. QED
    BY <2>1, <2>2
<1>3. PICK T \in Family : \A U \in Family : <<U, T>> \notin StrictSubsetOrdering(S)
  <2> HIDE DEF Family
  <2> QED
    BY <1>2, FS_StrictSubsetOrderingWellFounded, WFMin
<1>4. PICK n \in S : T = UpTo(n)
  BY <1>3
<1>5. \A k \in S : n <= k
  <2> SUFFICES ASSUME NEW k \in S, ~(n <= k) PROVE FALSE
    OBVIOUS
  <2> n \in Nat /\ k \in Nat
    BY <1>1
  <2>1. \A m \in Nat : m <= k => m <= n
    OBVIOUS
  <2>2. UpTo(k) \subseteq UpTo(n)
    BY <1>1, <2>1
  <2>3. n \in UpTo(n) /\ n \notin UpTo(k)
    OBVIOUS
  <2>4. UpTo(k) # UpTo(n)
    BY <2>3
  <2>5. UpTo(k) \in Family /\ UpTo(k) \in SUBSET S /\ UpTo(n) \in SUBSET S
    OBVIOUS
  <2> HIDE DEF UpTo, Family
  <2>6. <<UpTo(k), UpTo(n)>> \in StrictSubsetOrdering(S)
    BY <2>2, <2>4, <2>5 DEF StrictSubsetOrdering
  <2>7. QED
    BY <1>3, <1>4, <2>5, <2>6
<1>6. \A k \in S : (\A j \in S : k <= j) => k = n
  <2> SUFFICES ASSUME NEW k \in S, k <= n PROVE k = n
    OBVIOUS
  <2>1. n <= k /\ n \in Nat /\ k \in Nat
    BY <1>1, <1>5
  <2>2. QED
    BY <2>1
<1>7. Heir(S) = {n}
  <2> HIDE DEF UpTo, Family
  <2> QED
    BY <1>5, <1>6 DEF Heir
<1>8. QED
  BY <1>7

-----------------------------------------------------------------------------
(* TypeOK is preserved.                                                    *)

Request == Creation \cup Change \cup Update \cup {Idle}

\* What the stage of a handler says of what it remembers.
LEMMA Shape ==
  ASSUME TypeOK, NEW q \in Requests
  PROVE  /\ At(q, "creating") => request[q] \in Creation
         /\ request[q].pc \in {"deleting", "choosing"} => request[q] \in Change
         /\ InUpdate(q) => request[q] \in Update
<1>1. request[q] \in Creation \cup Change \cup Update \cup {Idle}
  BY DEF TypeOK
<1>2. QED
  BY <1>1 DEF Creation, Change, Update, Idle, At, InUpdate

\* The record of an update keeps its type as it saves, undoes and repeats.
LEMMA UpdateMoves ==
  ASSUME NEW s \in Update
  PROVE  /\ [s EXCEPT !.pc = "syncing"] \in Update
         /\ [s EXCEPT !.pc = "saving"] \in Update
         /\ [s EXCEPT !.pc = "undoing", !.attempt = 1] \in Update
         /\ [s EXCEPT !.attempt = 2] \in Update
         /\ Asked(s) \in Put
<1> USE DEF Update
<1>0. [s EXCEPT !.pc = "syncing"] \in Update
  OBVIOUS
<1>1. [s EXCEPT !.pc = "saving"] \in Update
  OBVIOUS
<1>2. [s EXCEPT !.pc = "undoing", !.attempt = 1] \in Update
  OBVIOUS
<1>3. [s EXCEPT !.attempt = 2] \in Update
  OBVIOUS
<1>4. Asked(s) \in Put
  BY DEF Asked, Put
<1>5. QED
  BY <1>0, <1>1, <1>2, <1>3, <1>4

\* A handler that moves on remembers a record of its stage.
LEMMA RequestTyped ==
  ASSUME TypeOK, NEW q \in Requests, NEW r \in Request,
         request' = [request EXCEPT ![q] = r]
  PROVE  request' \in [Requests -> Request]
BY DEF TypeOK, Request

\* Order only ever stores a recipient it was told.
LEMMA CarryOutTyped ==
  ASSUME TypeOK, NEW put \in Put, CarryOut(put)
  PROVE  refund' \in [Ids -> Recipients \cup {NoRecipient}]
<1>1. put.id \in Ids /\ put.old \in Recipients /\ put.new \in Recipients
  BY DEF Put
<1>2. CASE refund[put.id] \in {NoRecipient, put.old}
  BY <1>1, <1>2 DEF TypeOK, CarryOut, Forward
<1>3. CASE refund[put.id] \notin {NoRecipient, put.old}
  <2>1. PICK r \in {refund[put.id], put.new} : refund' = [refund EXCEPT ![put.id] = r]
    BY <1>3 DEF CarryOut, Forward
  <2>2. r \in Recipients \cup {NoRecipient}
    BY <1>1 DEF TypeOK
  <2>3. QED
    BY <2>1, <2>2 DEF TypeOK
<1>4. QED
  BY <1>2, <1>3

\* The account that create inserts has the type of a row.
LEMMA CreateTyped == ASSUME TypeOK, NEW q \in Requests, Create(q) PROVE TypeOK'
<1>1. request[q].recipient \in Recipients
  BY Shape DEF Create, Creation
<1>2. created + 1 \in Ids /\ created' \in 0..MaxAccounts
  BY RefundAssumption DEF TypeOK, Create, Ids
<1>3. request' \in [Requests -> Request]
  BY RequestTyped DEF Create, Finish, Request
<1>4. account' \in [Ids -> Recipients \cup {NoRecipient}]
  BY <1>1, <1>2 DEF TypeOK, Create
<1>5. \A n \in listed' : account'[n] \in Recipients
  BY <1>1, <1>2 DEF TypeOK, Create
<1>6. listed' \subseteq Ids /\ default' \subseteq Ids
  BY <1>2 DEF TypeOK, Create
<1>7. QED
  BY <1>2, <1>3, <1>4, <1>5, <1>6 DEF TypeOK, Create, Request, order

\* A save writes what the handler was given.
LEMMA SaveTyped ==
  ASSUME TypeOK, NEW q \in Requests, At(q, "saving")
  PROVE  [account EXCEPT ![request[q].id] = request[q].new]
           \in [Ids -> Recipients \cup {NoRecipient}]
BY Shape DEF TypeOK, At, InUpdate, Update

\* Every step keeps the types.
LEMMA TypeStep == TypeOK /\ [Next]_vars => TypeOK'
<1> SUFFICES ASSUME TypeOK, [Next]_vars PROVE TypeOK'
  OBVIOUS
<1> USE DEF table, order
<1>1. ASSUME NEW q \in Requests, Step(q) PROVE TypeOK'
  <2>1. ASSUME NEW r \in Recipients, BeginCreate(q, r) PROVE TypeOK'
    <3>1. request' \in [Requests -> Request]
      BY <2>1, RequestTyped DEF BeginCreate, Request, Creation
    <3>2. QED
      BY <2>1, <3>1 DEF TypeOK, BeginCreate, Request
  <2>2. CASE Create(q)
    BY <2>2, CreateTyped
  <2>3. ASSUME NEW n \in Ids, BeginDelete(q, n) \/ BeginSetDefault(q, n) PROVE TypeOK'
    <3>1. PICK pc \in {"deleting", "choosing"} :
            request' = [request EXCEPT
              ![q] = [pc |-> pc, id |-> n, wasDefault |-> n \in default]]
      BY <2>3 DEF BeginDelete, BeginSetDefault
    <3>2. [pc |-> pc, id |-> n, wasDefault |-> n \in default] \in Change
      BY DEF Change
    <3>3. request' \in [Requests -> Request]
      BY <3>1, <3>2, RequestTyped DEF Request
    <3>4. QED
      BY <2>3, <3>3 DEF TypeOK, BeginDelete, BeginSetDefault, Request
  <2>4. CASE Delete(q)
    <3>1. request' \in [Requests -> Request]
      BY <2>4, RequestTyped DEF Delete, Finish, Request
    <3>2. default' \subseteq Ids
      BY <2>4 DEF TypeOK, Delete, Heir
    <3>3. QED
      BY <2>4, <3>1, <3>2 DEF TypeOK, Delete, Request
  <2>5. CASE SetDefault(q)
    <3>1. request' \in [Requests -> Request]
      BY <2>5, RequestTyped DEF SetDefault, Finish, Request
    <3>2. default' \subseteq Ids
      BY <2>5, Shape DEF TypeOK, SetDefault, At, Change
    <3>3. QED
      BY <2>5, <3>1, <3>2 DEF TypeOK, SetDefault, Request
  <2>6. CASE Rollback(q)
    <3>1. request' \in [Requests -> Request]
      BY <2>6, RequestTyped DEF Rollback, Finish, Request
    <3>2. QED
      BY <2>6, <3>1 DEF TypeOK, Rollback, Request
  <2>7. ASSUME NEW n \in Ids, NEW r \in Recipients, BeginUpdate(q, n, r) PROVE TypeOK'
    <3>1. account[n] \in Recipients
      BY <2>7 DEF TypeOK, BeginUpdate
    <3>2. request' \in [Requests -> Request]
      BY <2>7, <3>1, RequestTyped DEF BeginUpdate, Request, Update
    <3>3. QED
      BY <2>7, <3>2 DEF TypeOK, BeginUpdate, Request, Dispute
  <2>8. CASE FindAllForUser(q)
    <3>1. request[q] \in Update
      BY <2>8, Shape DEF FindAllForUser, At, InUpdate
    <3>2. PICK t \in {[request[q] EXCEPT !.pc = "syncing"], Idle} :
            request' = [request EXCEPT ![q] = t]
      BY <2>8 DEF FindAllForUser, Finish
    <3>3. t \in Request
      BY <3>1, UpdateMoves DEF Request
    <3>4. request' \in [Requests -> Request]
      BY <3>2, <3>3, RequestTyped
    <3>5. QED
      BY <2>8, <3>4 DEF TypeOK, FindAllForUser, Request
  <2>9. CASE Sync(q)
    <3>1. request[q] \in Update
      BY <2>9, Shape DEF Sync, At, InUpdate
    <3>2. request' = [request EXCEPT ![q] = [request[q] EXCEPT !.pc = "saving"]]
      BY <2>9 DEF Sync
    <3>3. request' \in [Requests -> Request]
      BY <3>1, <3>2, UpdateMoves, RequestTyped DEF Request
    <3>4. refund' \in [Ids -> Recipients \cup {NoRecipient}]
      BY <2>9, <3>1, UpdateMoves, CarryOutTyped DEF Sync
    <3>5. QED
      BY <2>9, <3>3, <3>4 DEF TypeOK, Sync, Request
  <2>10. CASE Undo(q)
    <3>1. request[q] \in Update
      BY <2>10, Shape DEF Undo, At, InUpdate
    <3>2. request' \in [Requests -> Request]
      BY <2>10, RequestTyped DEF Undo, Finish, Request
    <3>3. refund' \in [Ids -> Recipients \cup {NoRecipient}]
      BY <2>10, <3>1, UpdateMoves, CarryOutTyped DEF Undo
    <3>4. QED
      BY <2>10, <3>2, <3>3 DEF TypeOK, Undo, Request
  <2>11. CASE Refused(q)
    <3>1. request[q] \in Update
      BY <2>11, Shape DEF Refused, InUpdate
    <3>2. request' \in [Requests -> Request]
      BY <2>11, RequestTyped DEF Refused, Finish, Request
    <3>3. disputed' \subseteq Ids
      BY <2>11, <3>1 DEF TypeOK, Refused, Dispute, Update
    <3>4. QED
      BY <2>11, <3>2, <3>3 DEF TypeOK, Refused, Request
  <2>12. CASE Unanswered(q)
    <3>1. request[q] \in Update
      BY <2>12, Shape DEF Unanswered, InUpdate
    <3>2. Asked(request[q]) \in Put /\ [request[q] EXCEPT !.attempt = 2] \in Request
      BY <3>1, UpdateMoves DEF Request
    <3>3. request' \in [Requests -> Request]
      <4>1. PICK r \in Request : request' = [request EXCEPT ![q] = r]
        BY <2>12, <3>2 DEF Unanswered, Request
      <4>2. QED
        BY <4>1, RequestTyped
    <3>4. refund' \in [Ids -> Recipients \cup {NoRecipient}] /\ late' \subseteq Put
      <4>1. CASE CarryOut(Asked(request[q])) /\ UNCHANGED late
        BY <3>2, <4>1, CarryOutTyped DEF TypeOK
      <4>2. CASE late' = late \cup {Asked(request[q])} /\ UNCHANGED refund
        BY <3>2, <4>2 DEF TypeOK
      <4>3. CASE UNCHANGED order
        BY <4>3 DEF TypeOK
      <4>4. QED
        BY <2>12, <4>1, <4>2, <4>3 DEF Unanswered
    <3>5. disputed' \subseteq Ids
      BY <2>12, <3>1 DEF TypeOK, Unanswered, Dispute, Update
    <3>6. UNCHANGED table
      BY <2>12 DEF Unanswered
    <3>7. QED
      BY <3>3, <3>4, <3>5, <3>6 DEF TypeOK, Request
  <2>13. CASE Save(q)
    <3>1. request[q] \in Update
      BY <2>13, Shape DEF Save, At, InUpdate
    <3>2. CASE request[q].id \in listed
      <4>1. request' = [request EXCEPT ![q] = Idle]
        BY <2>13, <3>2 DEF Save, Finish
      <4>2. request' \in [Requests -> Request]
        BY <4>1, RequestTyped DEF Request
      <4>3. account' = [account EXCEPT ![request[q].id] = request[q].new]
              /\ edited' = edited \cup {request[q].id}
        BY <2>13, <3>2 DEF Save
      <4>4. account' \in [Ids -> Recipients \cup {NoRecipient}]
        BY <2>13, <4>3, SaveTyped DEF Save
      <4>5. \A n \in listed : account'[n] \in Recipients
        BY <3>1, <4>3 DEF TypeOK, Update
      <4>6. QED
        BY <2>13, <3>1, <4>2, <4>3, <4>4, <4>5 DEF TypeOK, Save, Request, Update
    <3>3. CASE request[q].id \notin listed
      <4>1. request' =
              [request EXCEPT ![q] = [request[q] EXCEPT !.pc = "undoing", !.attempt = 1]]
        BY <2>13, <3>3 DEF Save
      <4>2. request' \in [Requests -> Request]
        BY <3>1, <4>1, UpdateMoves, RequestTyped DEF Request
      <4>3. UNCHANGED <<listed, account, default, created, refund, late, edited, disputed>>
        BY <2>13, <3>3 DEF Save
      <4>4. QED
        BY <4>2, <4>3 DEF TypeOK, Request
    <3>4. QED
      BY <3>2, <3>3
  <2>14. CASE SaveFails(q)
    <3>1. request[q] \in Update
      BY <2>14, Shape DEF SaveFails, At, InUpdate
    <3>2. request' \in [Requests -> Request]
      BY <2>14, <3>1, UpdateMoves, RequestTyped DEF SaveFails, Request
    <3>3. CASE UNCHANGED <<account, edited, disputed>>
      BY <2>14, <3>2, <3>3 DEF TypeOK, SaveFails, Request
    <3>4. CASE /\ account' = [account EXCEPT ![request[q].id] = request[q].new]
               /\ edited' = edited \cup {request[q].id}
               /\ Dispute(request[q].id, TRUE)
      <4>1. account' \in [Ids -> Recipients \cup {NoRecipient}]
        BY <2>14, <3>4, SaveTyped DEF SaveFails
      <4>2. \A n \in listed : account'[n] \in Recipients
        BY <3>1, <3>4 DEF TypeOK, Update
      <4>3. edited' \subseteq Ids /\ disputed' \subseteq Ids
        BY <3>1, <3>4 DEF TypeOK, Dispute, Update
      <4>4. QED
        BY <2>14, <3>2, <4>1, <4>2, <4>3 DEF TypeOK, SaveFails, Request
    <3>5. QED
      BY <2>14, <3>3, <3>4 DEF SaveFails
  <2>15. QED
    BY <1>1, <2>1, <2>2, <2>3, <2>4, <2>5, <2>6, <2>7, <2>8, <2>9, <2>10, <2>11, <2>12,
       <2>13, <2>14 DEF Step
<1>2. ASSUME NEW n \in Ids, TakeRefund(n) \/ SettleRefund(n) PROVE TypeOK'
  BY <1>2 DEF TypeOK, TakeRefund, SettleRefund, Dispute
<1>3. ASSUME NEW put \in late, LatePut(put) PROVE TypeOK'
  <2>1. put \in Put /\ put.id \in Ids
    BY DEF TypeOK, Put
  <2>2. refund' \in [Ids -> Recipients \cup {NoRecipient}]
    BY <1>3, <2>1, CarryOutTyped DEF LatePut
  <2>3. disputed' \subseteq Ids
    BY <1>3, <2>1 DEF TypeOK, LatePut, Dispute
  <2>4. QED
    BY <1>3, <2>2, <2>3 DEF TypeOK, LatePut
<1>4. CASE Restart
  BY <1>4 DEF TypeOK, Restart
<1>5. CASE UNCHANGED vars
  BY <1>5 DEF TypeOK, vars
<1>6. QED
  BY <1>1, <1>2, <1>3, <1>4, <1>5 DEF Next

-----------------------------------------------------------------------------
(* LockInv is preserved.                                                   *)

\* By every step that leaves the rows and the flags alone and begins no transaction.
LEMMA LockFrame ==
  ASSUME LockInv, UNCHANGED <<listed, default>>,
         \A p \in Requests : InTransaction(p)' => request'[p] = request[p]
  PROVE  LockInv'
<1> USE DEF InTransaction, At
<1>1. \A p \in Requests : InTransaction(p)' => InTransaction(p)
  OBVIOUS
<1>2. LockExcludes'
  BY <1>1 DEF LockInv, LockExcludes
<1>3. ReadsHold'
  <2> SUFFICES ASSUME NEW p \in Requests, InTransaction(p)'
               PROVE  /\ At(p, "creating")' => request'[p].first = (listed' = {})
                      /\ request'[p].pc \in {"deleting", "choosing"} =>
                           /\ request'[p].id \in listed'
                           /\ request'[p].wasDefault = (request'[p].id \in default')
    BY DEF ReadsHold
  <2>1. request'[p] = request[p] /\ listed' = listed /\ default' = default
    OBVIOUS
  <2>2. QED
    BY <2>1 DEF LockInv, ReadsHold
<1>4. OneDefault'
  BY DEF LockInv, OneDefault
<1>5. QED
  BY <1>2, <1>3, <1>4 DEF LockInv

\* A transaction begins only where there is none.
LEMMA LockBegins ==
  ASSUME TypeOK, LockInv, NEW q \in Requests, LockUser, NEW r,
         request' = [request EXCEPT ![q] = r], UNCHANGED <<listed, default>>,
         r.pc = "creating" => r.first = (listed = {}),
         r.pc \in {"deleting", "choosing"} =>
           r.id \in listed /\ r.wasDefault = (r.id \in default)
  PROVE  LockInv'
<1>1. \A p \in Requests : ~InTransaction(p)
  BY DEF LockUser, UserLocked
<1>2. request'[q] = r /\ \A p \in Requests \ {q} : request'[p] = request[p]
  BY DEF TypeOK
<1>3. \A p \in Requests : InTransaction(p)' => p = q
  BY <1>1, <1>2 DEF InTransaction
<1>4. LockExcludes'
  BY <1>3 DEF LockExcludes
<1>5. ReadsHold'
  BY <1>2, <1>3 DEF ReadsHold, InTransaction, At
<1>6. OneDefault'
  BY DEF LockInv, OneDefault
<1>7. QED
  BY <1>4, <1>5, <1>6 DEF LockInv

\* A transaction that ends leaves none.
LEMMA LockEnds ==
  ASSUME TypeOK, LockInv, NEW q \in Requests, InTransaction(q), Finish(q), OneDefault'
  PROVE  LockInv'
<1>1. request'[q] = Idle /\ \A p \in Requests \ {q} : request'[p] = request[p]
  BY DEF TypeOK, Finish
<1>2. \A p \in Requests : ~InTransaction(p)'
  BY <1>1 DEF LockInv, LockExcludes, InTransaction, Idle
<1>3. LockExcludes' /\ ReadsHold'
  BY <1>2 DEF LockExcludes, ReadsHold, InTransaction, At
<1>4. QED
  BY <1>3 DEF LockInv

\* create makes the account the default iff it found no other under the lock.
LEMMA CreateKeepsDefault ==
  ASSUME LockInv, NEW q \in Requests, Create(q)
  PROVE  OneDefault'
<1>1. request[q].first = (listed = {})
  BY DEF LockInv, ReadsHold, Create
<1>2. CASE request[q].first
  BY <1>1, <1>2 DEF LockInv, OneDefault, Create
<1>3. CASE ~request[q].first
  BY <1>1, <1>3 DEF LockInv, OneDefault, Create
<1>4. QED
  BY <1>2, <1>3

\* remove passes the default on to the oldest account that remains.
LEMMA DeleteKeepsDefault ==
  ASSUME TypeOK, LockInv, NEW q \in Requests, Delete(q)
  PROVE  OneDefault'
<1> DEFINE n == request[q].id
           rest == listed \ {n}
<1>1. n \in listed /\ request[q].wasDefault = (n \in default)
  BY DEF LockInv, ReadsHold, Delete, At
<1>2. PICK d \in listed : default = {d}
  BY <1>1 DEF LockInv, OneDefault
<1>3. listed' = rest
  BY DEF Delete
<1>4. CASE n = d
  <2>1. default' = Heir(rest)
    BY <1>1, <1>2, <1>4 DEF Delete
  <2>2. CASE rest = {}
    BY <1>3, <2>1, <2>2 DEF OneDefault, Heir
  <2>3. CASE rest # {}
    <3>1. rest \in SUBSET Ids
      BY DEF TypeOK
    <3>2. PICK h \in rest : Heir(rest) = {h}
      BY <2>3, <3>1, HeirExists
    <3>3. QED
      BY <1>3, <2>1, <3>2 DEF OneDefault
  <2>4. QED
    BY <2>2, <2>3
<1>5. CASE n # d
  <2>1. default' = {d} /\ d \in rest
    BY <1>1, <1>2, <1>5 DEF Delete
  <2>2. QED
    BY <1>3, <2>1 DEF OneDefault
<1>6. QED
  BY <1>4, <1>5

\* setDefault clears the others and sets the one that it found under the lock.
LEMMA SetDefaultKeepsDefault ==
  ASSUME LockInv, NEW q \in Requests, SetDefault(q)
  PROVE  OneDefault'
<1>1. request[q].id \in listed
  BY DEF LockInv, ReadsHold, SetDefault, At
<1>2. QED
  BY <1>1 DEF LockInv, OneDefault, SetDefault

\* What a request has read under the lock stays true until it commits.
LEMMA LockStep == TypeOK /\ LockInv /\ [Next]_vars => LockInv'
<1> SUFFICES ASSUME TypeOK, LockInv, [Next]_vars PROVE LockInv'
  OBVIOUS
<1>1. ASSUME NEW q \in Requests, Step(q) PROVE LockInv'
  <2>1. ASSUME NEW r \in Recipients, BeginCreate(q, r) PROVE LockInv'
    <3> DEFINE s == [pc |-> "creating", recipient |-> r, first |-> listed = {}]
    <3>1. s.pc = "creating" /\ s.first = (listed = {})
      OBVIOUS
    <3>2. request' = [request EXCEPT ![q] = s]
      BY <2>1 DEF BeginCreate
    <3>3. LockUser /\ UNCHANGED <<listed, default>>
      BY <2>1 DEF BeginCreate, table
    <3> HIDE DEF s
    <3>4. QED
      BY <3>1, <3>2, <3>3, LockBegins
  <2>2. CASE Create(q)
    BY <2>2, CreateKeepsDefault, LockEnds DEF Create, At, InTransaction
  <2>3. ASSUME NEW n \in Ids, BeginDelete(q, n) \/ BeginSetDefault(q, n) PROVE LockInv'
    <3>1. PICK pc \in {"deleting", "choosing"} :
            request' = [request EXCEPT
              ![q] = [pc |-> pc, id |-> n, wasDefault |-> n \in default]]
      BY <2>3 DEF BeginDelete, BeginSetDefault
    <3>2. LockUser /\ n \in listed /\ UNCHANGED <<listed, default>>
      BY <2>3 DEF BeginDelete, BeginSetDefault, table
    <3> DEFINE r == [pc |-> pc, id |-> n, wasDefault |-> n \in default]
    <3>3. r.pc = pc /\ r.id = n /\ r.wasDefault = (n \in default)
      OBVIOUS
    <3>4. request' = [request EXCEPT ![q] = r]
      BY <3>1
    <3> HIDE DEF r
    <3>5. QED
      BY <3>2, <3>3, <3>4, LockBegins
  <2>4. CASE Delete(q)
    BY <2>4, DeleteKeepsDefault, LockEnds DEF Delete, At, InTransaction
  <2>5. CASE SetDefault(q)
    BY <2>5, SetDefaultKeepsDefault, LockEnds DEF SetDefault, At, InTransaction
  <2>6. CASE Rollback(q)
    <3>1. OneDefault'
      BY <2>6 DEF LockInv, OneDefault, Rollback, table
    <3>2. QED
      BY <2>6, <3>1, LockEnds DEF Rollback
  <2>7. ASSUME \/ \E n \in Ids, r \in Recipients : BeginUpdate(q, n, r)
               \/ FindAllForUser(q) \/ Sync(q) \/ Undo(q) \/ Refused(q)
               \/ Unanswered(q) \/ Save(q)
               \/ SaveFails(q)
        PROVE  LockInv'
    <3>1. UNCHANGED <<listed, default>>
      BY <2>7 DEF BeginUpdate, FindAllForUser, Sync, Undo, Refused, Unanswered, Save,
         SaveFails, table
    <3>2. /\ \A p \in Requests \ {q} : request'[p] = request[p]
          /\ ~InTransaction(q)'
      <4>1. CASE \E n \in Ids, r \in Recipients : BeginUpdate(q, n, r)
        BY <4>1 DEF TypeOK, BeginUpdate, InTransaction
      <4>2. CASE FindAllForUser(q) \/ Sync(q) \/ Unanswered(q) \/ Save(q) \/ SaveFails(q)
        <5>1. request[q] \in Update
          BY <4>2, Shape DEF FindAllForUser, Sync, Unanswered, Save, SaveFails, At, InUpdate
        <5>2. PICK r \in Update \cup {Idle} : request' = [request EXCEPT ![q] = r]
          BY <4>2, <5>1, UpdateMoves
          DEF FindAllForUser, Sync, Unanswered, Save, SaveFails, Finish
        <5>3. r.pc \notin {"creating", "deleting", "choosing"}
          BY DEF Update, Idle
        <5>4. QED
          BY <5>2, <5>3 DEF TypeOK, InTransaction
      <4>3. CASE Undo(q) \/ Refused(q)
        BY <4>3 DEF TypeOK, Undo, Refused, Finish, Idle, InTransaction
      <4>4. QED
        BY <2>7, <4>1, <4>2, <4>3
    <3>3. QED
      BY <3>1, <3>2, LockFrame
  <2>8. QED
    BY <1>1, <2>1, <2>2, <2>3, <2>4, <2>5, <2>6, <2>7 DEF Step
<1>2. CASE \/ \E n \in Ids : TakeRefund(n) \/ SettleRefund(n)
           \/ \E put \in late : LatePut(put)
           \/ UNCHANGED vars
  BY <1>2, LockFrame DEF TakeRefund, SettleRefund, LatePut, vars, table
<1>3. CASE Restart
  BY <1>3, LockFrame DEF Restart, table, Idle, InTransaction
<1>4. QED
  BY <1>1, <1>2, <1>3 DEF Next

-----------------------------------------------------------------------------
(* TwinInv is preserved.                                                   *)

\* By every step that leaves the rows alone and begins no creation.
LEMMA TwinFrame ==
  ASSUME TwinInv, UNCHANGED <<listed, account, edited>>,
         \A p \in Requests : At(p, "creating")' => request'[p] = request[p]
  PROVE  TwinInv'
<1>1. CreationIsNew'
  <2> SUFFICES ASSUME NEW p \in Requests, At(p, "creating")',
                      NEW n \in listed', account'[n] = request'[p].recipient
               PROVE  n \in edited'
    BY DEF CreationIsNew
  <2>1. request'[p] = request[p]
    OBVIOUS
  <2>2. At(p, "creating") /\ n \in listed /\ account[n] = request[p].recipient
    BY <2>1 DEF At
  <2>3. QED
    BY <2>2 DEF TwinInv, CreationIsNew
<1>2. TwinsOnlyByUpdate'
  BY DEF TwinInv, TwinsOnlyByUpdate
<1>3. QED
  BY <1>1, <1>2 DEF TwinInv

\* The row that is inserted is new, or the same as one that an update changed.
LEMMA TwinCreate ==
  ASSUME TypeOK, LockInv, TwinInv, NEW q \in Requests, Create(q)
  PROVE  TwinInv'
<1> DEFINE new == created + 1
           r == request[q].recipient
<1>1. new \in Ids
  BY RefundAssumption DEF TypeOK, Create, Ids
<1>2. listed' = listed \cup {new} /\ edited' = edited
  BY DEF Create
<1>3. account'[new] = r /\ \A n \in listed \ {new} : account'[n] = account[n]
  BY <1>1 DEF TypeOK, Create
<1>4. \A n \in listed : account[n] = r => n \in edited
  BY DEF TwinInv, CreationIsNew, Create
<1>5. CreationIsNew'
  <2>1. request'[q] = Idle /\ \A p \in Requests \ {q} : request'[p] = request[p]
    BY DEF TypeOK, Create, Finish
  <2>2. \A p \in Requests : ~At(p, "creating")'
    BY <2>1 DEF LockInv, LockExcludes, InTransaction, At, Idle, Create
  <2>3. QED
    BY <2>2 DEF CreationIsNew
<1>6. TwinsOnlyByUpdate'
  <2> HIDE DEF new, r
  <2> SUFFICES ASSUME NEW m \in listed', NEW n \in listed', m # n,
                      account'[m] = account'[n]
               PROVE  {m, n} \cap edited # {}
    BY <1>2 DEF TwinsOnlyByUpdate
  <2>1. CASE m = new
    BY <1>2, <1>3, <1>4, <2>1
  <2>2. CASE n = new
    BY <1>2, <1>3, <1>4, <2>2
  <2>3. CASE m # new /\ n # new
    BY <1>2, <1>3, <2>3 DEF TwinInv, TwinsOnlyByUpdate
  <2>4. QED
    BY <2>1, <2>2, <2>3
<1>7. QED
  BY <1>5, <1>6 DEF TwinInv

\* A row that is deleted is no twin of another any more.
LEMMA TwinDelete ==
  ASSUME TypeOK, TwinInv, NEW q \in Requests, Delete(q)
  PROVE  TwinInv'
<1> DEFINE gone == request[q].id
<1>1. listed' = listed \ {gone} /\ edited' = edited \ {gone} /\ account' = account
  BY DEF Delete
<1>2. \A p \in Requests : At(p, "creating")' => request'[p] = request[p]
  BY DEF TypeOK, Delete, Finish, At, Idle
<1> HIDE DEF gone
<1>3. CreationIsNew'
  <2> SUFFICES ASSUME NEW p \in Requests, At(p, "creating")',
                      NEW n \in listed', account'[n] = request'[p].recipient
               PROVE  n \in edited'
    BY DEF CreationIsNew
  <2>1. request'[p] = request[p]
    BY <1>2
  <2>2. At(p, "creating") /\ n \in listed /\ account[n] = request[p].recipient
    BY <1>1, <2>1 DEF At
  <2>3. n \in edited
    BY <2>2 DEF TwinInv, CreationIsNew
  <2>4. QED
    BY <1>1, <2>3
<1>4. TwinsOnlyByUpdate'
  BY <1>1 DEF TwinInv, TwinsOnlyByUpdate
<1>5. QED
  BY <1>3, <1>4 DEF TwinInv

\* A save marks the row that it changes.
LEMMA TwinSave ==
  ASSUME TypeOK, TwinInv, NEW changed \in Ids, NEW r,
         UNCHANGED listed,
         account' = [account EXCEPT ![changed] = r],
         edited' = edited \cup {changed},
         \A p \in Requests : At(p, "creating")' => request'[p] = request[p]
  PROVE  TwinInv'
<1>1. \A n \in listed : n # changed => account'[n] = account[n]
  BY DEF TypeOK
<1>2. CreationIsNew'
  <2> SUFFICES ASSUME NEW p \in Requests, At(p, "creating")',
                      NEW n \in listed', account'[n] = request'[p].recipient,
                      n # changed
               PROVE  n \in edited
    BY DEF CreationIsNew
  <2>1. request'[p] = request[p]
    OBVIOUS
  <2>2. At(p, "creating") /\ n \in listed /\ account[n] = request[p].recipient
    BY <1>1, <2>1 DEF At
  <2>3. QED
    BY <2>2 DEF TwinInv, CreationIsNew
<1>3. TwinsOnlyByUpdate'
  <2> SUFFICES ASSUME NEW m \in listed, NEW n \in listed, m # n,
                      account'[m] = account'[n], m # changed, n # changed
               PROVE  {m, n} \cap edited # {}
    BY DEF TwinsOnlyByUpdate
  <2>1. account[m] = account[n]
    BY <1>1
  <2>2. QED
    BY <2>1 DEF TwinInv, TwinsOnlyByUpdate
<1>4. QED
  BY <1>2, <1>3 DEF TwinInv

\* create inserts no twin of a listed account; only an update can make one.
LEMMA TwinStep == TypeOK /\ LockInv /\ TwinInv /\ [Next]_vars => TwinInv'
<1> SUFFICES ASSUME TypeOK, LockInv, TwinInv, [Next]_vars PROVE TwinInv'
  OBVIOUS
<1>1. ASSUME NEW q \in Requests, Step(q) PROVE TwinInv'
  <2>1. ASSUME NEW r \in Recipients, BeginCreate(q, r) PROVE TwinInv'
    <3>1. UNCHANGED <<listed, account, edited>> /\ \A n \in listed : account[n] # r
      BY <2>1 DEF BeginCreate, table, IsNew
    <3>2. /\ request'[q] = [pc |-> "creating", recipient |-> r, first |-> listed = {}]
          /\ \A p \in Requests \ {q} : request'[p] = request[p]
      BY <2>1 DEF TypeOK, BeginCreate
    <3>3. request'[q].recipient = r
      BY <3>2
    <3>4. CreationIsNew'
      <4> SUFFICES ASSUME NEW p \in Requests, At(p, "creating")',
                          NEW n \in listed', account'[n] = request'[p].recipient
                   PROVE  n \in edited'
        BY DEF CreationIsNew
      <4>1. p # q
        BY <3>1, <3>3
      <4>2. At(p, "creating") /\ n \in listed /\ account[n] = request[p].recipient
        BY <3>1, <3>2, <4>1 DEF At
      <4>3. QED
        BY <3>1, <4>2 DEF TwinInv, CreationIsNew
    <3>5. TwinsOnlyByUpdate'
      BY <3>1 DEF TwinInv, TwinsOnlyByUpdate
    <3>6. QED
      BY <3>4, <3>5 DEF TwinInv
  <2>2. CASE Create(q)
    BY <2>2, TwinCreate
  <2>3. CASE Delete(q)
    BY <2>3, TwinDelete
  <2>4. CASE \E n \in Ids : BeginDelete(q, n) \/ BeginSetDefault(q, n)
    <3>1. UNCHANGED <<listed, account, edited>>
      BY <2>4 DEF BeginDelete, BeginSetDefault, table
    <3>2. \A p \in Requests : At(p, "creating")' => request'[p] = request[p]
      BY <2>4 DEF TypeOK, BeginDelete, BeginSetDefault, At
    <3>3. QED
      BY <3>1, <3>2, TwinFrame
  <2>5. CASE SetDefault(q) \/ Rollback(q)
    <3>1. UNCHANGED <<listed, account, edited>>
      BY <2>5 DEF SetDefault, Rollback, table
    <3>2. \A p \in Requests : At(p, "creating")' => request'[p] = request[p]
      BY <2>5 DEF TypeOK, SetDefault, Rollback, Finish, Idle, At
    <3>3. QED
      BY <3>1, <3>2, TwinFrame
  <2>6. CASE \E n \in Ids, r \in Recipients : BeginUpdate(q, n, r)
    <3>1. UNCHANGED <<listed, account, edited>>
      BY <2>6 DEF BeginUpdate, table
    <3>2. \A p \in Requests : At(p, "creating")' => request'[p] = request[p]
      BY <2>6 DEF TypeOK, BeginUpdate, At
    <3>3. QED
      BY <3>1, <3>2, TwinFrame
  <2>7. CASE FindAllForUser(q) \/ Sync(q) \/ Undo(q) \/ Refused(q) \/ Unanswered(q)
             \/ Save(q) \/ SaveFails(q)
    <3>1. request[q] \in Update
      BY <2>7, Shape DEF FindAllForUser, Sync, Undo, Refused, Unanswered, Save,
         SaveFails, At, InUpdate
    <3>2. \A p \in Requests : At(p, "creating")' => request'[p] = request[p]
      <4>1. PICK r \in Update \cup {Idle} : request' = [request EXCEPT ![q] = r]
        BY <2>7, <3>1, UpdateMoves
           DEF FindAllForUser, Sync, Undo, Refused, Unanswered, Save, SaveFails, Finish
      <4>2. r.pc # "creating"
        BY DEF Update, Idle
      <4>3. QED
        BY <4>1, <4>2 DEF TypeOK, At
    <3>3. CASE UNCHANGED <<listed, account, edited>>
      BY <3>2, <3>3, TwinFrame
    <3>4. CASE /\ UNCHANGED listed
               /\ account' = [account EXCEPT ![request[q].id] = request[q].new]
               /\ edited' = edited \cup {request[q].id}
      <4>1. request[q].id \in Ids
        BY <3>1 DEF Update
      <4>2. QED
        BY <3>2, <3>4, <4>1, TwinSave
    <3>5. QED
      BY <2>7, <3>3, <3>4 DEF FindAllForUser, Sync, Undo, Refused, Unanswered, Save,
         SaveFails, table
  <2>8. QED
    BY <1>1, <2>1, <2>2, <2>3, <2>4, <2>5, <2>6, <2>7 DEF Step
<1>2. CASE \/ \E n \in Ids : TakeRefund(n) \/ SettleRefund(n)
           \/ \E put \in late : LatePut(put)
           \/ UNCHANGED vars
  BY <1>2, TwinFrame DEF TakeRefund, SettleRefund, LatePut, vars, table
<1>3. CASE Restart
  BY <1>3, TwinFrame DEF Restart, table, Idle, At
<1>4. QED
  BY <1>1, <1>2, <1>3 DEF Next

-----------------------------------------------------------------------------
(* Order and the table agree.                                              *)

\* Accounts are numbered as they are created, updates and refunds are of accounts
\* that were.
Numbered ==
  /\ listed \subseteq 1..created
  /\ \A q \in Requests : InUpdate(q) => request[q].id <= created
  /\ \A n \in Ids : n > created => refund[n] = NoRecipient

\* What refunds may say while an update has Order's word for it, has not asked
\* yet, or does not know what Order has done.
Expected(s) ==
  IF s.pc = "saving" THEN {s.new}
  ELSE IF s.pc = "reading" \/ (s.pc = "syncing" /\ s.attempt = 1) THEN {s.old}
  ELSE {s.old, s.new}

\* An account with no known reason to differ has one update at a time, which
\* knows what the row and its refunds say; without an update they say the same.
AgreeOK(n) ==
  n \notin disputed =>
    /\ \A p, q \in Requests : Updating(p, n) /\ Updating(q, n) => p = q
    /\ \A q \in Requests : Updating(q, n) =>
         /\ account[n] = request[q].old
         /\ refund[n] \in Expected(request[q]) \cup {NoRecipient}
    /\ (\A q \in Requests : ~Updating(q, n)) => refund[n] \in {NoRecipient, account[n]}

AgreeInv == Numbered /\ \A n \in Ids : AgreeOK(n)

\* Where nothing was created there is nothing to disagree.
LEMMA AgreeInit == Init => AgreeInv
BY RefundAssumption DEF Init, AgreeInv, Numbered, AgreeOK, Updating, InUpdate, Idle, Ids

\* Steps that leave the account, its refunds and its updates alone keep it.
LEMMA AgreeFrame ==
  ASSUME NEW n \in Ids, AgreeOK(n), n \notin disputed' => n \notin disputed,
         refund'[n] = refund[n], account'[n] = account[n],
         \A p \in Requests : Updating(p, n)' = Updating(p, n),
         \A p \in Requests : Updating(p, n) => request'[p] = request[p]
  PROVE  AgreeOK(n)'
<1> SUFFICES ASSUME n \notin disputed' PROVE AgreeOK(n)'
  BY DEF AgreeOK
<1>1. \A p, q \in Requests : Updating(p, n)' /\ Updating(q, n)' => p = q
  BY DEF AgreeOK
<1>2. ASSUME NEW q \in Requests, Updating(q, n)'
      PROVE  /\ account'[n] = request'[q].old
             /\ refund'[n] \in Expected(request'[q]) \cup {NoRecipient}
  <2>1. Updating(q, n) /\ request'[q] = request[q]
    BY <1>2
  <2>2. account[n] = request[q].old /\ refund[n] \in Expected(request[q]) \cup {NoRecipient}
    BY <2>1 DEF AgreeOK
  <2>3. QED
    BY <2>1, <2>2
<1>3. (\A q \in Requests : ~Updating(q, n)') => refund'[n] \in {NoRecipient, account'[n]}
  BY DEF AgreeOK
<1>4. QED
  BY <1>1, <1>2, <1>3 DEF AgreeOK

\* The update moves on and knows what Order has done.
LEMMA AgreeMoves ==
  ASSUME TypeOK, NEW q \in Requests, NEW n \in Ids, AgreeOK(n), Updating(q, n),
         n \notin disputed' => n \notin disputed,
         NEW t \in Update, t.id = n, t.old = request[q].old,
         request' = [request EXCEPT ![q] = t],
         account'[n] = account[n],
         n \notin disputed => refund'[n] \in Expected(t) \cup {NoRecipient}
  PROVE  AgreeOK(n)'
<1> SUFFICES ASSUME n \notin disputed' PROVE AgreeOK(n)'
  BY DEF AgreeOK
<1>1. request'[q] = t /\ \A p \in Requests \ {q} : request'[p] = request[p]
  BY DEF TypeOK
<1>2. \A p \in Requests : Updating(p, n) => p = q
  BY DEF AgreeOK
<1>3. account[n] = t.old
  BY DEF AgreeOK
<1>4. Updating(q, n)' /\ \A p \in Requests \ {q} : ~Updating(p, n)'
  BY <1>1, <1>2 DEF Updating, InUpdate, Update
<1>5. QED
  BY <1>1, <1>3, <1>4 DEF AgreeOK

\* The update is over, and Order says what the row says.
LEMMA AgreeEnds ==
  ASSUME TypeOK, NEW q \in Requests, NEW n \in Ids, AgreeOK(n), Updating(q, n),
         n \notin disputed' => n \notin disputed,
         request' = [request EXCEPT ![q] = Idle],
         n \notin disputed' => refund'[n] \in {NoRecipient, account'[n]}
  PROVE  AgreeOK(n)'
<1> SUFFICES ASSUME n \notin disputed' PROVE AgreeOK(n)'
  BY DEF AgreeOK
<1>1. request'[q] = Idle /\ \A p \in Requests \ {q} : request'[p] = request[p]
  BY DEF TypeOK
<1>2. \A p \in Requests : Updating(p, n) => p = q
  BY DEF AgreeOK
<1>3. \A p \in Requests : ~Updating(p, n)'
  BY <1>1, <1>2 DEF Updating, InUpdate, Idle
<1>4. QED
  BY <1>3 DEF AgreeOK

\* What Order makes of a change of the one update, or of its reverse.
LEMMA Carried ==
  ASSUME TypeOK, NEW s \in Update, CarryOut(Asked(s))
  PROVE  /\ \A m \in Ids : m # s.id => refund'[m] = refund[m]
         /\ refund[s.id] \in {s.old, s.new, NoRecipient} =>
              refund'[s.id] \in {NoRecipient, Asked(s).new}
<1> DEFINE put == Asked(s)
<1>1. put.id = s.id /\ {put.old, put.new} = {s.old, s.new}
  BY DEF Asked
<1>2. s.id \in Ids
  BY DEF Update
<1> HIDE DEF put
<1>3. CASE refund[s.id] \in {NoRecipient, put.old}
  <2>1. refund' = [refund EXCEPT ![s.id] = IF @ = put.old THEN put.new ELSE @]
    BY <1>1, <1>3 DEF CarryOut, Forward, put
  <2>2. QED
    BY <1>1, <1>2, <1>3, <2>1 DEF TypeOK, put
<1>4. CASE refund[s.id] \notin {NoRecipient, put.old}
  <2>1. PICK r \in {refund[s.id], put.new} : refund' = [refund EXCEPT ![s.id] = r]
    BY <1>1, <1>4 DEF CarryOut, Forward, put
  <2>2. QED
    BY <1>1, <1>2, <1>4, <2>1 DEF TypeOK, put
<1>5. QED
  BY <1>3, <1>4

\* Order cannot change the recipient of refunds there are none of.
LEMMA NothingPending ==
  ASSUME TypeOK, NEW put \in Put, CarryOut(put)
  PROVE  \A n \in Ids : refund[n] = NoRecipient => refund'[n] = NoRecipient
<1>1. put.id \in Ids /\ put.old # NoRecipient
  BY RefundAssumption DEF Put
<1>2. CASE refund[put.id] \in {NoRecipient, put.old}
  BY <1>1, <1>2 DEF TypeOK, CarryOut, Forward
<1>3. CASE refund[put.id] \notin {NoRecipient, put.old}
  BY <1>1, <1>3 DEF TypeOK, CarryOut, Forward
<1>4. QED
  BY <1>2, <1>3

\* What the steps of an update do to its record.
LEMMA UpdateSteps ==
  ASSUME TypeOK, NEW q \in Requests,
         FindAllForUser(q) \/ Sync(q) \/ Undo(q) \/ Refused(q) \/ Unanswered(q)
         \/ Save(q) \/ SaveFails(q)
  PROVE  /\ request[q] \in Update /\ InUpdate(q)
         /\ \E t \in Update \cup {Idle} :
              /\ request' = [request EXCEPT ![q] = t]
              /\ t \in Update => t.id = request[q].id /\ t.old = request[q].old
<1>1. request[q] \in Update /\ InUpdate(q)
  BY Shape DEF FindAllForUser, Sync, Undo, Refused, Unanswered, Save, SaveFails, At,
     InUpdate
<1>2. Idle \notin Update
  BY DEF Update, Idle
<1>3. \A s \in Update :
        \A t \in {[s EXCEPT !.pc = "syncing"], [s EXCEPT !.pc = "saving"],
                  [s EXCEPT !.pc = "undoing", !.attempt = 1], [s EXCEPT !.attempt = 2]} :
          t \in Update /\ t.id = s.id /\ t.old = s.old
  <2> TAKE s \in Update
  <2>0. [s EXCEPT !.pc = "syncing"].id = s.id /\ [s EXCEPT !.pc = "syncing"].old = s.old
    BY DEF Update
  <2>1. [s EXCEPT !.pc = "saving"].id = s.id /\ [s EXCEPT !.pc = "saving"].old = s.old
    BY DEF Update
  <2>2. /\ [s EXCEPT !.pc = "undoing", !.attempt = 1].id = s.id
        /\ [s EXCEPT !.pc = "undoing", !.attempt = 1].old = s.old
    BY DEF Update
  <2>3. [s EXCEPT !.attempt = 2].id = s.id /\ [s EXCEPT !.attempt = 2].old = s.old
    BY DEF Update
  <2>4. QED
    BY <2>0, <2>1, <2>2, <2>3, UpdateMoves
<1>4. PICK t \in {[request[q] EXCEPT !.pc = "syncing"], [request[q] EXCEPT !.pc = "saving"],
                 [request[q] EXCEPT !.pc = "undoing", !.attempt = 1],
                 [request[q] EXCEPT !.attempt = 2], Idle} :
        request' = [request EXCEPT ![q] = t]
  BY DEF FindAllForUser, Sync, Undo, Refused, Unanswered, Save, SaveFails, Finish
<1>5. t = Idle \/ (t \in Update /\ t.id = request[q].id /\ t.old = request[q].old)
  BY <1>1, <1>3, Zenon
<1>6. QED
  BY <1>1, <1>2, <1>4, <1>5

\* Rows, updates and refunds are of accounts that were created.
LEMMA NumberedStep == TypeOK /\ Numbered /\ [Next]_vars => Numbered'
<1> SUFFICES ASSUME TypeOK, Numbered, [Next]_vars PROVE Numbered'
  OBVIOUS
<1>1. created \in Nat /\ MaxAccounts \in Nat
  BY RefundAssumption DEF TypeOK
<1>2. ASSUME listed' \subseteq 1..created', created' \in Nat, created <= created',
             \A p \in Requests : InUpdate(p)' => request'[p].id \in Ids /\
               (request'[p].id <= created \/ (InUpdate(p) /\ request'[p].id = request[p].id)),
             \A n \in Ids : refund[n] = NoRecipient => refund'[n] = NoRecipient
      PROVE  Numbered'
  <2>1. \A p \in Requests : InUpdate(p)' => request'[p].id <= created'
    BY <1>1, <1>2 DEF Numbered, Ids
  <2>2. \A n \in Ids : n > created' => refund'[n] = NoRecipient
    BY <1>1, <1>2 DEF Numbered, Ids
  <2>3. QED
    BY <1>2, <2>1, <2>2 DEF Numbered
<1>3. \A p \in Requests : InUpdate(p) => request[p].id \in Ids
  BY Shape DEF Update
<1>4. ASSUME NEW q \in Requests, Step(q) PROVE Numbered'
  <2>1. CASE Create(q)
    <3>1. created' = created + 1 /\ listed' = listed \cup {created + 1} /\ refund' = refund
      BY <2>1 DEF Create, order
    <3>2. \A p \in Requests : InUpdate(p)' => request'[p] = request[p]
      BY <2>1 DEF TypeOK, Create, Finish, InUpdate, Idle
    <3>3. listed' \subseteq 1..created'
      BY <1>1, <3>1 DEF Numbered
    <3>4. \A p \in Requests : InUpdate(p)' => InUpdate(p)
      BY <3>2 DEF InUpdate
    <3>5. QED
      BY <1>1, <1>2, <1>3, <3>1, <3>2, <3>3, <3>4
  <2>2. CASE \/ \E r \in Recipients : BeginCreate(q, r)
             \/ \E n \in Ids : BeginDelete(q, n) \/ BeginSetDefault(q, n)
             \/ Delete(q) \/ SetDefault(q) \/ Rollback(q)
    <3>1. created' = created /\ listed' \subseteq listed /\ refund' = refund
      BY <2>2 DEF BeginCreate, BeginDelete, BeginSetDefault, Delete, SetDefault, Rollback,
                  table, order
    <3>2. \A p \in Requests : InUpdate(p)' => request'[p] = request[p]
      BY <2>2 DEF TypeOK, BeginCreate, BeginDelete, BeginSetDefault, Delete, SetDefault,
                  Rollback, Finish, InUpdate, Idle
    <3>3. \A p \in Requests : InUpdate(p)' => InUpdate(p)
      BY <3>2 DEF InUpdate
    <3>4. QED
      BY <1>1, <1>2, <1>3, <3>1, <3>2, <3>3 DEF Numbered
  <2>3. ASSUME NEW n \in Ids, NEW r \in Recipients, BeginUpdate(q, n, r) PROVE Numbered'
    <3>1. created' = created /\ listed' = listed /\ refund' = refund /\ n <= created
      BY <1>1, <2>3 DEF BeginUpdate, table, order, Numbered
    <3>2. request'[q].id = n /\ \A p \in Requests \ {q} : request'[p] = request[p]
      BY <2>3 DEF TypeOK, BeginUpdate
    <3>3. \A p \in Requests \ {q} : InUpdate(p)' => InUpdate(p)
      BY <3>2 DEF InUpdate
    <3>4. QED
      BY <1>1, <1>2, <1>3, <3>1, <3>2, <3>3 DEF Numbered
  <2>4. CASE FindAllForUser(q) \/ Sync(q) \/ Undo(q) \/ Refused(q) \/ Unanswered(q)
             \/ Save(q) \/ SaveFails(q)
    <3>1. created' = created /\ listed' = listed
      BY <2>4 DEF FindAllForUser, Sync, Undo, Refused, Unanswered, Save, SaveFails, table
    <3>2. \A n \in Ids : refund[n] = NoRecipient => refund'[n] = NoRecipient
      <4>1. Asked(request[q]) \in Put
        BY <2>4, UpdateSteps, UpdateMoves
      <4>2. CarryOut(Asked(request[q])) \/ refund' = refund
        BY <2>4 DEF FindAllForUser, Sync, Undo, Refused, Unanswered, Save, SaveFails, order
      <4>3. QED
        BY <4>1, <4>2, NothingPending
    <3>3. PICK t \in Update \cup {Idle} :
            /\ request' = [request EXCEPT ![q] = t]
            /\ t \in Update => t.id = request[q].id /\ t.old = request[q].old
      BY <2>4, UpdateSteps
    <3>4. request'[q] = t /\ \A p \in Requests \ {q} : request'[p] = request[p]
      BY <3>3 DEF TypeOK
    <3>5. \A p \in Requests : InUpdate(p)' => InUpdate(p) /\ request'[p].id = request[p].id
      <4>1. InUpdate(q) /\ (InUpdate(q)' => t \in Update)
        BY <2>4, <3>4, UpdateSteps DEF InUpdate, Idle
      <4>2. QED
        BY <3>3, <3>4, <4>1 DEF InUpdate
    <3>6. QED
      BY <1>1, <1>2, <1>3, <3>1, <3>2, <3>5 DEF Numbered
  <2>5. QED
    BY <1>4, <2>1, <2>2, <2>3, <2>4 DEF Step
<1>5. ASSUME NEW n \in Ids, TakeRefund(n) PROVE Numbered'
  <2>1. n <= created
    <3>1. n \in 1..created
      BY <1>5 DEF TakeRefund, Numbered
    <3>2. QED
      BY <1>1, <3>1
  <2>2. UNCHANGED <<listed, created, request>>
    BY <1>5 DEF TakeRefund, table
  <2>3. \A m \in Ids : m # n => refund'[m] = refund[m]
    BY <1>5 DEF TypeOK, TakeRefund
  <2>4. QED
    BY <1>1, <2>1, <2>2, <2>3 DEF Numbered, Ids, InUpdate
<1>6. CASE (\E n \in Ids : SettleRefund(n)) \/ UNCHANGED vars
  <2>1. UNCHANGED <<listed, created, request>>
    BY <1>6 DEF SettleRefund, table, vars
  <2>2. \A m \in Ids : refund[m] = NoRecipient => refund'[m] = NoRecipient
    BY <1>6 DEF TypeOK, SettleRefund, vars
  <2>3. QED
    BY <2>1, <2>2 DEF Numbered, InUpdate
<1>7. ASSUME NEW put \in late, LatePut(put) PROVE Numbered'
  <2>1. UNCHANGED <<listed, created, request>>
    BY <1>7 DEF LatePut, table
  <2>2. \A m \in Ids : refund[m] = NoRecipient => refund'[m] = NoRecipient
    BY <1>7, NothingPending DEF TypeOK, LatePut
  <2>3. QED
    BY <2>1, <2>2 DEF Numbered, InUpdate
<1>8. CASE Restart
  BY <1>8 DEF Restart, Numbered, table, order, InUpdate, Idle
<1>9. QED
  BY <1>4, <1>5, <1>6, <1>7, <1>8 DEF Next

\* A step of the update q of n keeps n in agreement.
LEMMA AgreeUpdates ==
  ASSUME TypeOK, NEW q \in Requests, NEW n \in Ids, AgreeOK(n), request[q].id = n,
         FindAllForUser(q) \/ Sync(q) \/ Undo(q) \/ Refused(q) \/ Unanswered(q)
         \/ Save(q) \/ SaveFails(q)
  PROVE  AgreeOK(n)'
<1> SUFFICES ASSUME n \notin disputed' PROVE AgreeOK(n)'
  BY DEF AgreeOK
<1> DEFINE s == request[q]
<1>1. s \in Update /\ Updating(q, n)
  BY UpdateSteps DEF Updating
<1>2. n \notin disputed
  BY DEF FindAllForUser, Sync, Undo, Refused, Unanswered, Save, SaveFails, Dispute
<1>3. account[n] = s.old /\ refund[n] \in Expected(s) \cup {NoRecipient}
  BY <1>1, <1>2 DEF AgreeOK
<1>4. refund[n] \in {s.old, s.new, NoRecipient}
  BY <1>3 DEF Expected
<1>5. CarryOut(Asked(s)) => refund'[n] \in {NoRecipient, Asked(s).new}
  BY <1>1, <1>4, Carried
<1>6. CASE Sync(q)
  <2> DEFINE t == [s EXCEPT !.pc = "saving"]
  <2>1. t \in Update /\ t.id = n /\ t.old = s.old /\ t.new = s.new /\ t.pc = "saving"
    BY <1>1, UpdateMoves DEF Update
  <2>2. refund'[n] \in {NoRecipient, s.new}
    BY <1>5, <1>6 DEF Sync, Asked, At
  <2>3. request' = [request EXCEPT ![q] = t] /\ account' = account
    BY <1>6 DEF Sync, table
  <2>4. refund'[n] \in Expected(t) \cup {NoRecipient}
    BY <2>1, <2>2 DEF Expected
  <2> HIDE DEF s, t
  <2>5. QED
    BY <1>1, <1>2, <2>1, <2>3, <2>4, AgreeMoves DEF s
<1>7. CASE Undo(q)
  <2>1. refund'[n] \in {NoRecipient, s.old}
    BY <1>5, <1>7 DEF Undo, Asked, At
  <2>2. request' = [request EXCEPT ![q] = Idle] /\ account' = account
    BY <1>7 DEF Undo, Finish, table
  <2>3. QED
    BY <1>1, <1>2, <1>3, <2>1, <2>2, AgreeEnds
<1>8. CASE Refused(q)
  <2>1. s.pc = "syncing" /\ s.attempt = 1
    BY <1>1, <1>8 DEF Refused, Dispute, Update
  <2>2. refund[n] \in {NoRecipient, s.old}
    BY <1>3, <2>1 DEF Expected
  <2>3. request' = [request EXCEPT ![q] = Idle] /\ account' = account /\ refund' = refund
    BY <1>8 DEF Refused, Finish, table, order
  <2>4. QED
    BY <1>1, <1>2, <1>3, <2>2, <2>3, AgreeEnds
<1>9. CASE Unanswered(q)
  <2>1. s.attempt = 1 /\ s.pc \in {"syncing", "undoing"}
    BY <1>1, <1>9 DEF Unanswered, Dispute, Update
  <2> DEFINE t == [s EXCEPT !.attempt = 2]
  <2>2. /\ t \in Update /\ t.id = n /\ t.old = s.old /\ t.new = s.new
        /\ t.pc = s.pc /\ t.attempt = 2
    BY <1>1, UpdateMoves DEF Update
  <2>3. refund'[n] \in {NoRecipient, s.old, s.new}
    <3>1. Asked(s).new \in {s.old, s.new}
      BY DEF Asked
    <3>2. CASE CarryOut(Asked(s))
      BY <1>5, <3>1, <3>2
    <3>3. CASE refund' = refund
      BY <1>4, <3>3
    <3>4. QED
      BY <1>9, <3>2, <3>3 DEF Unanswered, order
  <2>4. request' = [request EXCEPT ![q] = t] /\ account' = account
    BY <1>9, <2>1 DEF Unanswered, table
  <2>5. refund'[n] \in Expected(t) \cup {NoRecipient}
    BY <2>1, <2>2, <2>3 DEF Expected
  <2> HIDE DEF s, t
  <2>6. QED
    BY <1>1, <1>2, <2>2, <2>4, <2>5, AgreeMoves DEF s
<1>10. CASE Save(q) /\ n \in listed
  <2>1. request' = [request EXCEPT ![q] = Idle] /\ refund' = refund
    BY <1>10 DEF Save, Finish, order
  <2>2. account'[n] = s.new
    BY <1>10 DEF TypeOK, Save
  <2>3. refund[n] \in {NoRecipient, s.new}
    BY <1>3, <1>10 DEF Save, At, Expected
  <2>4. QED
    BY <1>1, <1>2, <2>1, <2>2, <2>3, AgreeEnds
<1>11. CASE (Save(q) /\ n \notin listed) \/ SaveFails(q)
  <2> DEFINE t == [s EXCEPT !.pc = "undoing", !.attempt = 1]
  <2>1. t \in Update /\ t.id = n /\ t.old = s.old /\ t.new = s.new /\ t.pc = "undoing"
    BY <1>1, UpdateMoves DEF Update
  <2>2. request' = [request EXCEPT ![q] = t] /\ account' = account /\ refund' = refund
    BY <1>11 DEF Save, SaveFails, Dispute, order
  <2>3. refund'[n] \in Expected(t) \cup {NoRecipient}
    BY <1>4, <2>1, <2>2 DEF Expected
  <2> HIDE DEF s, t
  <2>4. QED
    BY <1>1, <1>2, <2>1, <2>2, <2>3, AgreeMoves DEF s
<1>12. CASE FindAllForUser(q)
  <2>1. s.pc = "reading" /\ account' = account /\ refund' = refund
    BY <1>12 DEF FindAllForUser, At, table, order
  <2>2. refund[n] \in {NoRecipient, s.old}
    BY <1>3, <2>1 DEF Expected
  <2>3. CASE request' = [request EXCEPT ![q] = Idle]
    BY <1>1, <1>2, <1>3, <2>1, <2>2, <2>3, AgreeEnds
  <2>4. CASE request' = [request EXCEPT ![q] = [s EXCEPT !.pc = "syncing"]]
    <3> DEFINE t == [s EXCEPT !.pc = "syncing"]
    <3>1. t \in Update /\ t.id = n /\ t.old = s.old /\ t.new = s.new /\ t.pc = "syncing"
      BY <1>1, UpdateMoves DEF Update
    <3>2. refund'[n] \in Expected(t) \cup {NoRecipient}
      BY <2>1, <2>2, <3>1 DEF Expected
    <3>3. request' = [request EXCEPT ![q] = t]
      BY <2>4
    <3> HIDE DEF s, t
    <3>4. QED
      BY <1>1, <1>2, <2>1, <3>1, <3>2, <3>3, AgreeMoves DEF s
  <2>5. QED
    BY <1>12, <2>3, <2>4 DEF FindAllForUser, Finish
<1>13. QED
  BY <1>6, <1>7, <1>8, <1>9, <1>10, <1>11, <1>12

\* A step of the update q of another account does not touch n.
LEMMA AgreeOthers ==
  ASSUME TypeOK, NEW q \in Requests, NEW n \in Ids, AgreeOK(n), request[q].id # n,
         FindAllForUser(q) \/ Sync(q) \/ Undo(q) \/ Refused(q) \/ Unanswered(q)
         \/ Save(q) \/ SaveFails(q)
  PROVE  AgreeOK(n)'
<1>1. request[q] \in Update /\ ~Updating(q, n)
  BY UpdateSteps DEF Updating
<1>2. PICK t \in Update \cup {Idle} :
        /\ request' = [request EXCEPT ![q] = t]
        /\ t \in Update => t.id = request[q].id /\ t.old = request[q].old
  BY UpdateSteps
<1>3. request'[q] = t /\ \A p \in Requests \ {q} : request'[p] = request[p]
  BY <1>2 DEF TypeOK
<1>4. ~Updating(q, n)'
  BY <1>2, <1>3 DEF Updating, InUpdate, Idle
<1>5. refund'[n] = refund[n]
  BY <1>1, Carried DEF FindAllForUser, Sync, Undo, Refused, Unanswered, Save, SaveFails,
     order
<1>6. account'[n] = account[n]
  BY <1>1 DEF TypeOK, FindAllForUser, Sync, Undo, Refused, Unanswered, Save, SaveFails,
     table
<1>7. n \notin disputed' => n \notin disputed
  BY DEF FindAllForUser, Sync, Undo, Refused, Unanswered, Save, SaveFails, Dispute
<1>8. /\ \A p \in Requests : Updating(p, n)' = Updating(p, n)
      /\ \A p \in Requests : Updating(p, n) => request'[p] = request[p]
  BY <1>1, <1>3, <1>4 DEF Updating, InUpdate
<1>9. QED
  BY <1>5, <1>6, <1>7, <1>8, AgreeFrame

\* Account and refunds of every account stay in agreement, or the reason is known.
LEMMA AgreeStep ==
  ASSUME TypeOK, AgreeInv, [Next]_vars, NEW n \in Ids
  PROVE  AgreeOK(n)'
<1>1. AgreeOK(n) /\ Numbered
  BY DEF AgreeInv
<1>2. ASSUME NEW q \in Requests, Step(q) PROVE AgreeOK(n)'
  <2>1. CASE Create(q)
    <3>1. /\ \A p \in Requests \ {q} : request'[p] = request[p]
          /\ ~InUpdate(q) /\ ~InUpdate(q)'
          /\ refund' = refund /\ disputed' = disputed
          /\ account' = [account EXCEPT ![created + 1] = request[q].recipient]
      BY <2>1 DEF TypeOK, Create, Finish, At, InUpdate, Idle, order
    <3>2. /\ \A p \in Requests : Updating(p, n)' = Updating(p, n)
          /\ \A p \in Requests : Updating(p, n) => request'[p] = request[p]
      BY <3>1 DEF Updating, InUpdate
    <3>3. CASE n # created + 1
      <4>1. account'[n] = account[n]
        BY <3>1, <3>3 DEF TypeOK
      <4>2. QED
        BY <1>1, <3>1, <3>2, <4>1, AgreeFrame
    <3>4. CASE n = created + 1
      <4>1. n > created /\ ~(n <= created)
        BY <3>4, RefundAssumption DEF TypeOK
      <4>2. refund[n] = NoRecipient /\ \A p \in Requests : ~Updating(p, n)
        BY <1>1, <4>1 DEF Numbered, Updating
      <4>3. QED
        BY <3>1, <3>2, <4>2 DEF AgreeOK
    <3>5. QED
      BY <3>3, <3>4
  <2>2. CASE \/ \E r \in Recipients : BeginCreate(q, r)
             \/ \E m \in Ids : BeginDelete(q, m) \/ BeginSetDefault(q, m)
             \/ Delete(q) \/ SetDefault(q) \/ Rollback(q)
    <3>1. refund' = refund /\ account' = account /\ disputed' = disputed
      BY <2>2 DEF BeginCreate, BeginDelete, BeginSetDefault, Delete, SetDefault, Rollback,
                  table, order
    <3>2. /\ ~InUpdate(q) /\ ~InUpdate(q)'
          /\ \A p \in Requests \ {q} : request'[p] = request[p]
      BY <2>2 DEF TypeOK, BeginCreate, BeginDelete, BeginSetDefault, Delete, SetDefault,
                  Rollback, InTransaction, Finish, At, InUpdate, Idle
    <3>3. /\ \A p \in Requests : Updating(p, n)' = Updating(p, n)
          /\ \A p \in Requests : Updating(p, n) => request'[p] = request[p]
      BY <3>2 DEF Updating, InUpdate
    <3>4. QED
      BY <1>1, <3>1, <3>3, AgreeFrame
  <2>3. ASSUME NEW m \in Ids, NEW r \in Recipients, BeginUpdate(q, m, r)
        PROVE  AgreeOK(n)'
    <3> DEFINE t == [pc |-> "reading", id |-> m, old |-> account[m], new |-> r, attempt |-> 1]
    <3>1. /\ request'[q] = t /\ \A p \in Requests \ {q} : request'[p] = request[p]
          /\ ~InUpdate(q)
          /\ refund' = refund /\ account' = account
      BY <2>3 DEF TypeOK, BeginUpdate, InUpdate, Idle, table, order
    <3>2. n \notin disputed' => n \notin disputed
      BY <2>3 DEF BeginUpdate, Dispute
    <3>3. CASE m # n
      <4>1. ~Updating(q, n) /\ ~Updating(q, n)'
        BY <3>1, <3>3 DEF Updating
      <4>2. /\ \A p \in Requests : Updating(p, n)' = Updating(p, n)
            /\ \A p \in Requests : Updating(p, n) => request'[p] = request[p]
        BY <3>1, <4>1 DEF Updating, InUpdate
      <4>3. QED
        BY <1>1, <3>1, <3>2, <4>2, AgreeFrame
    <3>4. CASE m = n
      <4> SUFFICES ASSUME n \notin disputed' PROVE AgreeOK(n)'
        BY DEF AgreeOK
      <4>1. \A p \in Requests : ~Updating(p, n)
        BY <2>3, <3>4 DEF BeginUpdate, Dispute
      <4>2. refund[n] \in {NoRecipient, account[n]}
        BY <1>1, <3>2, <4>1 DEF AgreeOK
      <4>3. t.pc = "reading" /\ t.id = n /\ t.old = account[n] /\ t.attempt = 1
        BY <3>4
      <4>4. Updating(q, n)' /\ \A p \in Requests \ {q} : ~Updating(p, n)'
        BY <3>1, <4>1, <4>3 DEF Updating, InUpdate
      <4> HIDE DEF t
      <4>5. QED
        BY <3>1, <4>2, <4>3, <4>4 DEF AgreeOK, Expected
    <3>5. QED
      BY <3>3, <3>4
  <2>4. CASE FindAllForUser(q) \/ Sync(q) \/ Undo(q) \/ Refused(q) \/ Unanswered(q)
             \/ Save(q) \/ SaveFails(q)
    BY <1>1, <2>4, AgreeUpdates, AgreeOthers
  <2>5. QED
    BY <1>2, <2>1, <2>2, <2>3, <2>4 DEF Step
<1>3. ASSUME NEW m \in Ids, TakeRefund(m) PROVE AgreeOK(n)'
  <2>1. UNCHANGED <<account, request>> /\ refund' = [refund EXCEPT ![m] = account[m]]
    BY <1>3 DEF TakeRefund, table
  <2>2. /\ \A p \in Requests : Updating(p, n)' = Updating(p, n)
        /\ n \notin disputed' => n \notin disputed
    BY <1>3, <2>1 DEF TakeRefund, Dispute, Updating, InUpdate
  <2>3. CASE m # n
    BY <1>1, <2>1, <2>2, <2>3, AgreeFrame DEF TypeOK
  <2>4. CASE m = n
    <3> SUFFICES ASSUME n \notin disputed' PROVE AgreeOK(n)'
      BY DEF AgreeOK
    <3>1. refund'[n] = account[n]
      BY <2>1, <2>4 DEF TypeOK
    <3>2. \A p \in Requests : Updating(p, n) => request[p].pc # "saving"
      BY <1>3, <2>4 DEF TakeRefund, Dispute, Updating, At
    <3>3. ASSUME NEW p \in Requests, Updating(p, n)
          PROVE  account[n] = request[p].old /\ refund'[n] \in Expected(request[p])
      BY <1>1, <2>2, <3>1, <3>2, <3>3 DEF AgreeOK, Expected
    <3>4. QED
      BY <1>1, <2>1, <2>2, <3>1, <3>3 DEF AgreeOK, Updating, InUpdate
  <2>5. QED
    BY <2>3, <2>4
<1>4. ASSUME NEW m \in Ids, SettleRefund(m) PROVE AgreeOK(n)'
  <2>1. UNCHANGED <<account, request>> /\ refund' = [refund EXCEPT ![m] = NoRecipient]
    BY <1>4 DEF SettleRefund, table
  <2>2. \A p \in Requests : Updating(p, n)' = Updating(p, n)
    BY <2>1 DEF Updating, InUpdate
  <2>3. CASE m # n
    BY <1>1, <1>4, <2>1, <2>2, <2>3, AgreeFrame DEF TypeOK, SettleRefund
  <2>4. CASE m = n
    <3>1. refund'[n] = NoRecipient
      BY <2>1, <2>4 DEF TypeOK
    <3>2. CASE \E p \in Requests : Updating(p, n)
      <4>1. disputed' = disputed
        BY <1>4, <2>4, <3>2 DEF SettleRefund
      <4>2. QED
        BY <1>1, <2>1, <2>2, <3>1, <3>2, <4>1 DEF AgreeOK
    <3>3. CASE \A p \in Requests : ~Updating(p, n)
      BY <2>2, <3>1, <3>3 DEF AgreeOK
    <3>4. QED
      BY <3>2, <3>3
  <2>5. QED
    BY <2>3, <2>4
<1>5. ASSUME NEW put \in late, LatePut(put) PROVE AgreeOK(n)'
  <2>1. UNCHANGED <<account, request>> /\ put.id \in Ids
        /\ (n \notin disputed' => n \notin disputed)
    BY <1>5 DEF TypeOK, LatePut, Dispute, table, Put
  <2>2. n \in disputed' \/ refund'[n] = refund[n]
    <3>1. CASE put.id = n
      BY <1>5, <3>1 DEF LatePut, Dispute
    <3>2. CASE put.id # n
      BY <1>5, <3>2 DEF TypeOK, LatePut, CarryOut, Forward
    <3>3. QED
      BY <3>1, <3>2
  <2>3. \A p \in Requests : Updating(p, n)' = Updating(p, n)
    BY <2>1 DEF Updating, InUpdate
  <2>4. CASE n \in disputed'
    BY <2>4 DEF AgreeOK
  <2>5. CASE refund'[n] = refund[n]
    BY <1>1, <2>1, <2>3, <2>5, AgreeFrame
  <2>6. QED
    BY <2>2, <2>4, <2>5
<1>6. CASE Restart
  <2>1. \A p \in Requests : ~Updating(p, n)'
    BY <1>6 DEF Restart, Updating, InUpdate, Idle
  <2>2. UNCHANGED <<account, refund>>
    BY <1>6 DEF Restart, table, order
  <2>3. n \notin disputed' => n \notin disputed /\ \A p \in Requests : ~Updating(p, n)
    BY <1>6 DEF Restart
  <2>4. QED
    BY <1>1, <2>1, <2>2, <2>3 DEF AgreeOK
<1>7. CASE UNCHANGED vars
  BY <1>1, <1>7 DEF vars, AgreeOK, Updating, InUpdate
<1>8. QED
  BY <1>2, <1>3, <1>4, <1>5, <1>6, <1>7 DEF Next

-----------------------------------------------------------------------------
(* The theorems.                                                           *)

(* The invariant above holds in every state.                               *)
THEOREM Invariance == Spec => []IInv
<1>1. IInv /\ [Next]_vars => IInv'
  BY TypeStep, LockStep, TwinStep DEF IInv
<1>2. QED
  BY InvInit, <1>1, PTL DEF Spec

(* Every variable of the accounts keeps its type, for any number of        *)
(* recipients, accounts and requests.                                      *)
THEOREM TypeCorrect == Spec => []TypeOK
<1>1. IInv => TypeOK
  BY DEF IInv
<1>2. QED
  BY Invariance, <1>1, PTL

(* Creations, deletions and choices of the default, in any order and with  *)
(* any number of them at once, leave a user who has refund accounts one    *)
(* default, which is one of them.                                          *)
THEOREM DefaultIsKept == Spec => []OneDefault
<1>1. IInv => OneDefault
  BY DEF IInv, LockInv
<1>2. QED
  BY Invariance, <1>1, PTL

(* However many times and from however many requests a recipient is        *)
(* created, two accounts hold it only where an update put it.              *)
THEOREM TwinsAreUpdates == Spec => []TwinsOnlyByUpdate
<1>1. IInv => TwinsOnlyByUpdate
  BY DEF IInv, TwinInv
<1>2. QED
  BY Invariance, <1>1, PTL

(* Whatever updates, deletions and refunds do to an account, in any order, *)
(* with any number of requests and whatever Order and the database answer: *)
(* where no update is in progress its pending refunds name its recipient,  *)
(* but for the accounts that the history excuses.                          *)
THEOREM RefundsAgree == Spec => []RecipientAgrees
<1>1. TypeOK /\ AgreeInv /\ [Next]_vars => AgreeInv'
  <2> SUFFICES ASSUME TypeOK, AgreeInv, [Next]_vars PROVE AgreeInv'
    OBVIOUS
  <2>1. Numbered'
    BY NumberedStep DEF AgreeInv
  <2>2. \A n \in Ids : AgreeOK(n)'
    BY AgreeStep
  <2>3. QED
    BY <2>1, <2>2 DEF AgreeInv
<1>2. AgreeInv => RecipientAgrees
  BY DEF AgreeInv, AgreeOK, RecipientAgrees
<1>3. QED
  BY AgreeInit, TypeCorrect, <1>1, <1>2, PTL DEF Spec

=============================================================================
