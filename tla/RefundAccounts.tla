--------------------------- MODULE RefundAccounts ---------------------------
(***************************************************************************)
(* The refund bank accounts of one user.  UserRefundBankAccountRepository  *)
(* changes the table in transactions that lock the row of the user first,  *)
(* all but the update of an account, which locks the account only.         *)
(* UserRefundBankAccountService.updateForUser spans two services: it tells *)
(* the Order service the new recipient, then saves the account, and tells  *)
(* Order the old recipient again when the save fails.                      *)
(*                                                                         *)
(* Accounts are numbered in the order of their creation.  The Order        *)
(* service is external: of it the model keeps, for each account, what the  *)
(* pending refunds of this account say the recipient is.  A user keeps its *)
(* row, so the lock of the user always finds it.                           *)
(***************************************************************************)
EXTENDS Naturals, FiniteSets

CONSTANTS
  Recipients,   \* bank, holder and number, normalised
  Requests,     \* request slots
  MaxAccounts,  \* bounds the accounts created
  MaxLate,      \* bounds the requests Order may still carry out late
  NoRecipient

ASSUME RefundAssumption ==
  /\ MaxAccounts \in Nat /\ MaxLate \in Nat
  /\ NoRecipient \notin Recipients

VARIABLES
  listed,     \* the rows of user_refund_bank_accounts
  account,    \* the recipient each of them holds, or held when it was deleted
  default,    \* the rows with is_default
  created,    \* how many rows were inserted
  refund,     \* at Order: the recipient of the account's pending refunds
  late,       \* requests given up here that Order may still carry out
  request,    \* what each handler in progress has reached and remembers
  edited,     \* history: accounts of the table an update changed
  disputed    \* history: accounts that may differ from their refunds, and why is known

vars == <<listed, account, default, created, refund, late, request, edited, disputed>>
table == <<listed, account, default, created, edited>>
order == <<refund, late>>

Ids == 1..MaxAccounts

\* Under the lock of the user: to insert a row, and to change the row `id`.
Creation == [pc : {"creating"}, recipient : Recipients, first : BOOLEAN]
Change == [pc : {"deleting", "choosing"}, id : Ids, wasDefault : BOOLEAN]

\* updateForUser
Update ==
  [pc : {"reading",   \* the account is read  -> all accounts of the user
         "syncing",   \* PUT to Order, the first or the second time
         "saving",    \* Order has answered   -> transaction
         "undoing"},  \* the save failed      -> PUT of the old recipient
   id : Ids, old : Recipients, new : Recipients, attempt : {1, 2}]

Idle == [pc |-> "idle"]

Put == [id : Ids, old : Recipients, new : Recipients]

TypeOK ==
  /\ listed \subseteq Ids
  /\ account \in [Ids -> Recipients \cup {NoRecipient}]
  /\ \A n \in listed : account[n] \in Recipients
  /\ default \subseteq Ids
  /\ created \in 0..MaxAccounts
  /\ refund \in [Ids -> Recipients \cup {NoRecipient}]
  /\ late \subseteq Put
  /\ request \in [Requests -> Creation \cup Change \cup Update \cup {Idle}]
  /\ edited \subseteq Ids /\ disputed \subseteq Ids

Init ==
  /\ listed = {} /\ default = {} /\ created = 0
  /\ account = [n \in Ids |-> NoRecipient]
  /\ refund = [n \in Ids |-> NoRecipient]
  /\ late = {}
  /\ request = [q \in Requests |-> Idle]
  /\ edited = {} /\ disputed = {}

-----------------------------------------------------------------------------
At(q, pc) == request[q].pc = pc
Finish(q) == request' = [request EXCEPT ![q] = Idle]

InTransaction(q) == request[q].pc \in {"creating", "deleting", "choosing"}

\* setLock('pessimistic_write') on the row of the user, held to the commit.
UserLocked == \E q \in Requests : InTransaction(q)

\* A row under FOR UPDATE by deleteForUser or setDefaultForUser.
RowLocked(n) ==
  \E q \in Requests : request[q].pc \in {"deleting", "choosing"} /\ request[q].id = n

InUpdate(q) == request[q].pc \in {"reading", "syncing", "saving", "undoing"}
Updating(q, n) == InUpdate(q) /\ request[q].id = n
Dispute(n, when) == disputed' = IF when THEN disputed \cup {n} ELSE disputed

-----------------------------------------------------------------------------
(* Transactions under the lock of the user.                                *)

\* Mutant: the lock of the user is not taken.
LockUserNot == TRUE

LockUser == ~UserLocked

\* Mutant: an account that is there already is not looked for.
IsNewAlways(r) == TRUE

IsNew(r) == \A n \in listed : account[n] # r

\* A recipient that is there already is returned as it is.
BeginCreate(q, r) ==
  /\ request[q] = Idle /\ LockUser /\ IsNew(r)
  /\ request' = [request EXCEPT
       ![q] = [pc |-> "creating", recipient |-> r, first |-> listed = {}]]
  /\ UNCHANGED <<table, order, disputed>>

\* The index of the table admits one default row for the user.
Create(q) ==
  /\ At(q, "creating") /\ created < MaxAccounts
  /\ request[q].first => default = {}
  /\ listed' = listed \cup {created + 1}
  /\ account' = [account EXCEPT ![created + 1] = request[q].recipient]
  /\ default' = IF request[q].first THEN default \cup {created + 1} ELSE default
  /\ created' = created + 1
  /\ Finish(q)
  /\ UNCHANGED <<order, edited, disputed>>

BeginDelete(q, n) ==
  /\ request[q] = Idle /\ LockUser /\ ~RowLocked(n) /\ n \in listed
  /\ request' = [request EXCEPT
       ![q] = [pc |-> "deleting", id |-> n, wasDefault |-> n \in default]]
  /\ UNCHANGED <<table, order, disputed>>

\* The oldest row that is left takes over the flag.
Heir(rest) == {n \in rest : \A k \in rest : n <= k}

Delete(q) ==
  LET n == request[q].id IN
  /\ At(q, "deleting")
  /\ listed' = listed \ {n}
  /\ default' = (default \ {n}) \cup
                (IF request[q].wasDefault THEN Heir(listed \ {n}) ELSE {})
  /\ edited' = edited \ {n}
  /\ Finish(q)
  /\ UNCHANGED <<account, created, order, disputed>>

BeginSetDefault(q, n) ==
  /\ request[q] = Idle /\ LockUser /\ ~RowLocked(n) /\ n \in listed
  /\ request' = [request EXCEPT
       ![q] = [pc |-> "choosing", id |-> n, wasDefault |-> n \in default]]
  /\ UNCHANGED <<table, order, disputed>>

SetDefault(q) ==
  /\ At(q, "choosing")
  /\ default' = IF request[q].wasDefault THEN default ELSE {request[q].id}
  /\ Finish(q)
  /\ UNCHANGED <<listed, account, created, order, edited, disputed>>

Rollback(q) ==
  /\ InTransaction(q)
  /\ Finish(q)
  /\ UNCHANGED <<table, order, disputed>>

-----------------------------------------------------------------------------
(* updateForUser.                                                          *)

\* The stored recipient is read, without a lock.  An update that overlaps another
\* one of the same account may put Order and the table in different orders.  One
\* that names the recipient the account has changes nothing and is left out.
BeginUpdate(q, n, r) ==
  /\ request[q] = Idle /\ n \in listed /\ r # account[n]
  /\ request' = [request EXCEPT
       ![q] = [pc |-> "reading", id |-> n, old |-> account[n], new |-> r, attempt |-> 1]]
  /\ Dispute(n, \E p \in Requests : Updating(p, n))
  /\ UNCHANGED <<table, order>>

\* findAllForUser: how many accounts there are only tells Order what to do with
\* refunds that name none; or the database fails and nothing has happened yet.
FindAllForUser(q) ==
  /\ At(q, "reading")
  /\ request' = [request EXCEPT ![q].pc = "syncing"] \/ Finish(q)
  /\ UNCHANGED <<table, order, disputed>>

\* Order puts `new` where pending refunds say `old`; whether it touches refunds
\* that say something else is not known here.
Forward(n, old, new) ==
  IF refund[n] \in {NoRecipient, old}
  THEN refund' = [refund EXCEPT ![n] = IF @ = old THEN new ELSE @]
  ELSE \E r \in {refund[n], new} : refund' = [refund EXCEPT ![n] = r]

\* What a handler asks of Order: the change, or its reverse.
Asked(s) == IF s.pc = "syncing" THEN [id |-> s.id, old |-> s.old, new |-> s.new]
                                ELSE [id |-> s.id, old |-> s.new, new |-> s.old]

CarryOut(put) == Forward(put.id, put.old, put.new)

\* 2xx
Sync(q) ==
  /\ At(q, "syncing")
  /\ CarryOut(Asked(request[q]))
  /\ request' = [request EXCEPT ![q].pc = "saving"]
  /\ UNCHANGED <<table, late, disputed>>

Undo(q) ==
  /\ At(q, "undoing")
  /\ CarryOut(Asked(request[q]))
  /\ Finish(q)
  /\ UNCHANGED <<table, late, disputed>>

\* 4xx: nothing has changed and there is no second attempt.
Refused(q) ==
  LET s == request[q] IN
  /\ s.pc \in {"syncing", "undoing"}
  /\ Finish(q)
  /\ Dispute(s.id, s.pc = "undoing" \/ s.attempt = 2)
  /\ UNCHANGED <<table, order>>

\* Mutant: the loop runs once more.
UnansweredThrice(q) ==
  LET s == request[q] IN
  /\ s.pc \in {"syncing", "undoing"}
  /\ request' = [request EXCEPT
       ![q] = IF s.attempt <= 2 THEN [s EXCEPT !.attempt = @ + 1] ELSE Idle]
  /\ UNCHANGED <<table, order, disputed>>

\* 5xx, a broken connection or no answer in 5 s: Order has done it, does it later,
\* or never.  The second time the handler gives up; an undo swallows the error.
Unanswered(q) ==
  LET s == request[q] IN
  /\ s.pc \in {"syncing", "undoing"}
  /\ \/ CarryOut(Asked(s)) /\ UNCHANGED late
     \/ /\ Cardinality(late) < MaxLate
        /\ late' = late \cup {Asked(s)}
        /\ UNCHANGED refund
     \/ UNCHANGED order
  /\ request' = [request EXCEPT ![q] = IF s.attempt = 1 THEN [s EXCEPT !.attempt = 2] ELSE Idle]
  /\ Dispute(s.id, s.attempt = 2)
  /\ UNCHANGED table

\* Mutant: an update that finds its account deleted leaves Order as it is.
SaveGivesUp(q) ==
  LET s == request[q] IN
  /\ At(q, "saving") /\ ~RowLocked(s.id)
  /\ Finish(q)
  /\ IF s.id \in listed
     THEN account' = [account EXCEPT ![s.id] = s.new] /\ edited' = edited \cup {s.id}
     ELSE UNCHANGED <<account, edited>>
  /\ UNCHANGED <<listed, default, created, order, disputed>>

\* The transaction of the update, under the lock of the row: is_default is written
\* as it was read there.
Save(q) ==
  LET s == request[q] IN
  /\ At(q, "saving") /\ ~RowLocked(s.id)
  /\ \/ /\ s.id \in listed
        /\ account' = [account EXCEPT ![s.id] = s.new]
        /\ edited' = edited \cup {s.id}
        /\ Finish(q)
     \/ /\ s.id \notin listed
        /\ request' = [request EXCEPT ![q] = [s EXCEPT !.pc = "undoing", !.attempt = 1]]
        /\ UNCHANGED <<account, edited>>
  /\ UNCHANGED <<listed, default, created, order, disputed>>

\* The transaction fails, or commits and the answer is lost.
SaveFails(q) ==
  LET s == request[q] IN
  /\ At(q, "saving")
  /\ request' = [request EXCEPT ![q] = [s EXCEPT !.pc = "undoing", !.attempt = 1]]
  /\ \/ UNCHANGED <<account, edited, disputed>>
     \/ /\ s.id \in listed /\ ~RowLocked(s.id)
        /\ account' = [account EXCEPT ![s.id] = s.new]
        /\ edited' = edited \cup {s.id}
        /\ Dispute(s.id, TRUE)
  /\ UNCHANGED <<listed, default, created, order>>

-----------------------------------------------------------------------------
(* Order, and a restart of this service.                                   *)

\* GET of the account for a refund that begins: a snapshot of the recipient.  One
\* that falls between the answer of Order and the save keeps the old recipient.
TakeRefund(n) ==
  /\ n \in listed /\ refund[n] = NoRecipient
  /\ refund' = [refund EXCEPT ![n] = account[n]]
  /\ Dispute(n, \E q \in Requests : At(q, "saving") /\ request[q].id = n)
  /\ UNCHANGED <<table, late, request>>

\* The refunds are paid: nothing is left to disagree with.
SettleRefund(n) ==
  /\ refund[n] # NoRecipient
  /\ refund' = [refund EXCEPT ![n] = NoRecipient]
  /\ disputed' = IF \E q \in Requests : Updating(q, n) THEN disputed ELSE disputed \ {n}
  /\ UNCHANGED <<table, late, request>>

LatePut(put) ==
  /\ put \in late
  /\ late' = late \ {put}
  /\ CarryOut(put)
  /\ Dispute(put.id, refund' # refund)
  /\ UNCHANGED <<table, request>>

Restart ==
  /\ \E q \in Requests : request[q] # Idle
  /\ request' = [q \in Requests |-> Idle]
  /\ disputed' = disputed \cup {n \in Ids : \E q \in Requests : Updating(q, n)}
  /\ UNCHANGED <<table, order>>

Step(q) ==
  \/ \E r \in Recipients : BeginCreate(q, r)
  \/ Create(q)
  \/ \E n \in Ids : BeginDelete(q, n)
  \/ Delete(q)
  \/ \E n \in Ids : BeginSetDefault(q, n)
  \/ SetDefault(q)
  \/ Rollback(q)
  \/ \E n \in Ids, r \in Recipients : BeginUpdate(q, n, r)
  \/ FindAllForUser(q)
  \/ Sync(q)
  \/ Undo(q)
  \/ Refused(q)
  \/ Unanswered(q)
  \/ Save(q)
  \/ SaveFails(q)

Next ==
  \/ \E q \in Requests : Step(q)
  \/ \E n \in Ids : TakeRefund(n)
  \/ \E n \in Ids : SettleRefund(n)
  \/ \E put \in late : LatePut(put)
  \/ Restart

Spec == Init /\ [][Next]_vars

-----------------------------------------------------------------------------
(* Between transactions a user with accounts has exactly one default, and  *)
(* it is one of them.  The unique index excludes a second default; that    *)
(* there is one at all rests on the lock of the user, on the first account *)
(* being told from the others and on deleteForUser passing the flag on.    *)
OneDefault ==
  /\ default \subseteq listed
  /\ listed # {} => \E n \in listed : default = {n}

(* Two accounts with the same recipient exist only where an update made    *)
(* one of them so: a create that is sent twice, even at the same time,     *)
(* makes one account.                                                      *)
TwinsOnlyByUpdate ==
  \A m, n \in listed : (m # n /\ account[m] = account[n]) => {m, n} \cap edited # {}

(* Where no update of an account is in progress, its pending refunds name  *)
(* the recipient that the account has, or had when it was deleted - unless *)
(* updates overlapped, Order left a request unanswered twice or answered   *)
(* it late, a refund began while the save was pending, the outcome of the  *)
(* save was lost, or the service stopped in the middle.                    *)
RecipientAgrees ==
  \A n \in Ids \ disputed :
    \/ \E q \in Requests : Updating(q, n)
    \/ refund[n] \in {NoRecipient, account[n]}

=============================================================================
