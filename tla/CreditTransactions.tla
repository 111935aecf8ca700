------------------------- MODULE CreditTransactions -------------------------
(***************************************************************************)
(* The billing transactions statement by statement.  A session runs one    *)
(* db.transaction(...) on a connection of the pool.  PostgreSQL runs it at *)
(* READ COMMITTED: a statement sees what was committed when it starts,     *)
(* UPDATE, DELETE and SELECT ... FOR UPDATE wait for the row locks of      *)
(* other sessions and then look at the newest version of the row, and the  *)
(* session's own writes become visible when it commits.  A session may be  *)
(* rolled back at any moment before: the connection is lost, the server    *)
(* stops, or PostgreSQL picks it to break a deadlock.                      *)
(*                                                                         *)
(* Transactions of a single statement, or of one row, are one action.      *)
(***************************************************************************)
EXTENDS CreditLedger

CONSTANTS
    Session,    \* connections of the pool
    Batch,      \* orders in which an administrator lists users to adjust
    Amount,     \* amounts an administrator enters
    Idle        \* the call of a session that runs no transaction

(* created_at orders the reservations; their ids stand for it. *)
ASSUME OrderAssumption == Reservation \subseteq Nat

ASSUME InputAssumption ==
    /\ Batch \subseteq Seq(User)
    /\ Amount \subseteq Nat

VARIABLES
    call,   \* the transaction each session runs, with its arguments
    at,     \* the statement it executes next
    held,   \* the row locks it holds
    plan    \* the balances an adjustment has computed so far

ledgerVars == vars
sessionVars == <<call, at, held, plan>>
statementVars == <<ledgerVars, sessionVars>>

-----------------------------------------------------------------------------
UserRow(u) == <<"users", u>>
KeyRow(k) == <<"api_keys", k>>
ReservationRow(r) == <<"api_credit_reservations", r>>

Locked == UNION {held[s] : s \in Session}

OldestOf(S) == CHOOSE r \in S : \A other \in S : r <= other

HeldReservations(s) == {r \in Reservation : ReservationRow(r) \in held[s]}

(* Keys an expiry still has to refund, in the order of its rows: the
   reservation that leads to the next key. *)
Unrefunded(s) ==
    {r \in HeldReservations(s) : KeyOf[r] \in apiKeys /\ KeyRow(KeyOf[r]) \notin held[s]}

(* Rows a deletion cascades to and has not locked yet. *)
CascadeKeys(s) ==
    {k \in apiKeys : OwnerOf[k] = call[s].user /\ KeyRow(k) \notin held[s]}
CascadeReservations(s) ==
    {r \in LiveOf(call[s].user) : ReservationRow(r) \notin held[s]}

(* The statuses a release and a settlement accept at most: what the
   administrator may do.  The gateway and the worker leave dead_letter rows
   alone, which is to look at such a row and return. *)
Releasable == {"active", "pending", "dead_letter"}
Settleable == {"pending", "dead_letter"}

(* The transactions a caller may ask for. *)
Call ==
         [kind : {"reserve", "release", "finalize"}, reservation : Reservation]
    \cup [kind : {"expire"}, rows : SUBSET Reservation]
    \cup [kind : {"adjust"}, operation : {"grant", "revoke", "reset"},
          amount : Amount, batch : Batch]
    \cup [kind : {"delete"}, user : User]

(* Their arguments, of which an expiry and an adjustment work off a list. *)
Running ==
         [kind : {"reserve", "release", "finalize"}, reservation : Reservation]
    \cup [kind : {"expire"}, rows : SUBSET Reservation]
    \cup [kind : {"adjust"}, operation : {"grant", "revoke", "reset"},
          amount : Nat, batch : Seq(User)]
    \cup [kind : {"delete"}, user : User]

ASSUME IdleAssumption == Idle \notin Running

FirstStatement(c) ==
    CASE c.kind \in {"reserve", "adjust", "delete"} -> "user"
      [] c.kind = "finalize" -> "look"
      [] OTHER -> "row"

-----------------------------------------------------------------------------
StatementInit ==
    /\ Init
    /\ call = [s \in Session |-> Idle]
    /\ at = [s \in Session |-> "idle"]
    /\ held = [s \in Session |-> {}]
    /\ plan = [s \in Session |-> [u \in User |-> 0]]

Runs(s, kind, statement) ==
    /\ call[s] # Idle
    /\ call[s].kind = kind
    /\ at[s] = statement

(* The active rows past a cutoff: the oldest ones.  A row expires minutes after
   it was made, so no older one is still being inserted. *)
PastCutoff(rows) ==
    /\ rows # {}
    /\ \A r \in rows :
        /\ status[r] = "active"
        /\ \A older \in {q \in Reservation : q < r} : status[older] = "active" => older \in rows
        /\ \A other \in unissued : r < other

(* BEGIN.  An id is issued to one session at a time; an expiry starts from the
   active rows its query found. *)
Begin(s, c) ==
    /\ call[s] = Idle
    /\ c.kind = "reserve" =>
            /\ c.reservation \in unissued
            /\ \A t \in Session : call[t] # c
    /\ c.kind = "expire" => PastCutoff(c.rows)
    /\ call' = [call EXCEPT ![s] = c]
    /\ at' = [at EXCEPT ![s] = FirstStatement(c)]
    /\ UNCHANGED <<ledgerVars, held, plan>>

(* The session ends and its locks are gone. *)
End(s) ==
    /\ call' = [call EXCEPT ![s] = Idle]
    /\ at' = [at EXCEPT ![s] = "idle"]
    /\ held' = [held EXCEPT ![s] = {}]
    /\ plan' = [plan EXCEPT ![s] = [u \in User |-> 0]]

(* An early return, a throw, or a rollback: nothing was written. *)
Leave(s) == End(s) /\ UNCHANGED ledgerVars

Abort(s) == call[s] # Idle /\ Leave(s)

Goto(s, statement) == at' = [at EXCEPT ![s] = statement]

(* A statement without locks. *)
Proceed(s, statement) ==
    /\ Goto(s, statement)
    /\ UNCHANGED <<ledgerVars, call, held, plan>>

(* A statement that gets a row lock, once nobody else holds it. *)
TakeLock(s, row) ==
    /\ row \notin Locked
    /\ held' = [held EXCEPT ![s] = @ \cup {row}]

LockAnd(s, row, statement) ==
    /\ TakeLock(s, row)
    /\ Goto(s, statement)
    /\ UNCHANGED <<ledgerVars, call, plan>>

-----------------------------------------------------------------------------
(* SLIP: the user row is read without FOR UPDATE. *)
ReserveReadUser(s) ==
    /\ Runs(s, "reserve", "user")
    /\ IF Owner(call[s].reservation) \in users \cap available
       THEN Proceed(s, "sum")
       ELSE Leave(s)

(* reserve: SELECT users ... FOR UPDATE, and the checks on the locked row. *)
ReserveLockUser(s) ==
    LET u == Owner(call[s].reservation)
    IN  /\ Runs(s, "reserve", "user")
        /\ IF u \notin users THEN Leave(s)
           ELSE /\ UserRow(u) \notin Locked
                /\ IF u \in available THEN LockAnd(s, UserRow(u), "sum") ELSE Leave(s)

(* SELECT sum(amount): releases may have come since the lock, new
   reservations may not. *)
ReserveSum(s) ==
    LET r == call[s].reservation
        u == Owner(r)
    IN  /\ Runs(s, "reserve", "sum")
        /\ IF credits[u] - Reserved(u) < AmountOf[r] THEN Leave(s)
           ELSE Proceed(s, "key")

(* UPDATE api_keys ... RETURNING id. *)
ReserveTakeQuota(s) ==
    LET r == call[s].reservation
        k == KeyOf[r]
    IN  /\ Runs(s, "reserve", "key")
        /\ IF k \in apiKeys \cap activeKeys /\ WithinQuota(k, AmountOf[r])
           THEN LockAnd(s, KeyRow(k), "commit")
           ELSE Leave(s)

ReserveCommit(s) ==
    LET r == call[s].reservation
        k == KeyOf[r]
    IN  /\ Runs(s, "reserve", "commit")
        /\ usedCredits' = [usedCredits EXCEPT ![k] = @ + AmountOf[r]]
        /\ status' = [status EXCEPT ![r] = "active"]
        /\ unissued' = unissued \ {r}
        /\ End(s)
        /\ UNCHANGED <<accountVars, credits, attempts, transactions>>

(* SLIP: the reservation is read without FOR UPDATE. *)
ReleaseReadRow(s) ==
    /\ Runs(s, "release", "row")
    /\ IF status[call[s].reservation] \in Releasable
       THEN Proceed(s, "key")
       ELSE Leave(s)

(* releaseReservation: SELECT the row FOR UPDATE, give the quota back to the
   key if it still exists, DELETE the row. *)
ReleaseLockRow(s) ==
    LET r == call[s].reservation
    IN  /\ Runs(s, "release", "row")
        /\ IF status[r] \in Releasable
           THEN LockAnd(s, ReservationRow(r), "key")
           ELSE Leave(s)

ReleaseRefundKey(s) ==
    LET k == KeyOf[call[s].reservation]
    IN  /\ Runs(s, "release", "key")
        /\ IF k \in apiKeys THEN LockAnd(s, KeyRow(k), "commit")
           ELSE Proceed(s, "commit")

ReleaseCommit(s) ==
    LET r == call[s].reservation
        k == KeyOf[r]
    IN  /\ Runs(s, "release", "commit")
        /\ usedCredits' = [usedCredits EXCEPT ![k] =
                IF KeyRow(k) \notin held[s] THEN @
                ELSE IF @ > AmountOf[r] THEN @ - AmountOf[r] ELSE 0]
        /\ status' = [status EXCEPT ![r] = "none"]
        /\ attempts' = [attempts EXCEPT ![r] = 0]
        /\ End(s)
        /\ UNCHANGED <<accountVars, credits, unissued, transactions>>

(* SLIP: without ORDER BY the rows are locked in any order. *)
ExpireLockAnyRow(s) ==
    /\ Runs(s, "expire", "row")
    /\ \E r \in call[s].rows :
        /\ ReservationRow(r) \notin Locked
        /\ call' = [call EXCEPT ![s].rows = @ \ {r}]
        /\ held' = IF status[r] = "active"
                   THEN [held EXCEPT ![s] = @ \cup {ReservationRow(r)}]
                   ELSE held
    /\ UNCHANGED <<ledgerVars, at, plan>>

(* releaseExpiredReservations: the active rows past the cutoff are locked from
   the oldest on; one that stopped being active meanwhile is skipped. *)
ExpireLockRow(s) ==
    LET rows == call[s].rows
        r == OldestOf(rows)
    IN  /\ Runs(s, "expire", "row")
        /\ rows # {}
        /\ ReservationRow(r) \notin Locked
        /\ call' = [call EXCEPT ![s].rows = @ \ {r}]
        /\ held' = IF status[r] = "active"
                   THEN [held EXCEPT ![s] = @ \cup {ReservationRow(r)}]
                   ELSE held
        /\ UNCHANGED <<ledgerVars, at, plan>>

ExpireRowsDone(s) ==
    /\ Runs(s, "expire", "row")
    /\ call[s].rows = {}
    /\ IF held[s] = {} THEN Leave(s) ELSE Proceed(s, "key")

(* One UPDATE per key, for the sum of its rows. *)
ExpireRefundKey(s) ==
    /\ Runs(s, "expire", "key")
    /\ IF Unrefunded(s) = {} THEN Proceed(s, "commit")
       ELSE LockAnd(s, KeyRow(KeyOf[OldestOf(Unrefunded(s))]), "key")

ExpireCommit(s) ==
    LET S == HeldReservations(s)
        refund(k) == Total({r \in S : KeyOf[r] = k})
    IN  /\ Runs(s, "expire", "commit")
        /\ usedCredits' = [k \in Key |->
                IF KeyRow(k) \notin held[s] THEN usedCredits[k]
                ELSE IF usedCredits[k] > refund(k) THEN usedCredits[k] - refund(k) ELSE 0]
        /\ status' = [r \in Reservation |-> IF r \in S THEN "none" ELSE status[r]]
        /\ attempts' = [r \in Reservation |-> IF r \in S THEN 0 ELSE attempts[r]]
        /\ End(s)
        /\ UNCHANGED <<accountVars, credits, unissued, transactions>>

(* finalizeReservation: look for a transaction that settled it before.  When
   there is one, only the call log changes (GatewayBilling models it). *)
FinalizeLook(s) ==
    /\ Runs(s, "finalize", "look")
    /\ IF call[s].reservation \in Charged THEN Leave(s) ELSE Proceed(s, "row")

(* SELECT the reservation FOR UPDATE, or throw 'Credit reservation not found'. *)
FinalizeLockRow(s) ==
    LET r == call[s].reservation
    IN  /\ Runs(s, "finalize", "row")
        /\ IF status[r] \in Settleable
           THEN LockAnd(s, ReservationRow(r), "user")
           ELSE Leave(s)

(* UPDATE users ... WHERE credits >= amount, or throw. *)
FinalizeDebit(s) ==
    LET r == call[s].reservation
        u == Owner(r)
    IN  /\ Runs(s, "finalize", "user")
        /\ IF u \in users /\ credits[u] >= AmountOf[r]
           THEN LockAnd(s, UserRow(u), "commit")
           ELSE Leave(s)

(* INSERT into the journal, refused by credit_transactions_reservation_uq when
   the reservation has a row already, and DELETE the reservation. *)
FinalizeCommit(s) ==
    LET r == call[s].reservation
        u == Owner(r)
        balance == credits[u] - AmountOf[r]
    IN  /\ Runs(s, "finalize", "commit")
        /\ r \notin Charged
        /\ credits' = [credits EXCEPT ![u] = balance]
        /\ transactions' = [transactions EXCEPT ![u] =
                Append(@, [amount |-> -AmountOf[r], balanceAfter |-> balance,
                           reservation |-> r])]
        /\ status' = [status EXCEPT ![r] = "none"]
        /\ attempts' = [attempts EXCEPT ![r] = 0]
        /\ End(s)
        /\ UNCHANGED <<accountVars, usedCredits, unissued>>

-----------------------------------------------------------------------------
(* batchAdjust: applyOperation for each user in turn, all in one transaction.
   A grant is one UPDATE; revoke and reset lock the row, then sum the user's
   reservations in a statement of their own. *)
Adjusted(s) == {u \in User : UserRow(u) \in held[s]}

AdjustLockUser(s) ==
    LET c == call[s]
        u == Head(c.batch)
    IN  /\ Runs(s, "adjust", "user")
        /\ c.batch # << >>
        /\ IF u \notin users THEN Leave(s)
           ELSE /\ TakeLock(s, UserRow(u))
                /\ Len(transactions[u]) < MaxEntries
                /\ Goto(s, "sum")
                /\ UNCHANGED <<ledgerVars, call, plan>>

Spendable(u) ==
    IF credits[u] > Reserved(u) THEN credits[u] - Reserved(u) ELSE 0

NewBalance(operation, u, amount) ==
    CASE operation = "grant" -> credits[u] + amount
      [] operation = "revoke" ->
            credits[u] - (IF Spendable(u) < amount THEN Spendable(u) ELSE amount)
      [] operation = "reset" -> amount

(* A grant beyond the integer range and a reset below the reserved balance
   (409) roll the whole batch back. *)
AdjustCompute(s) ==
    LET c == call[s]
        u == Head(c.batch)
        balance == NewBalance(c.operation, u, c.amount)
    IN  /\ Runs(s, "adjust", "sum")
        /\ IF \/ balance > MaxCredits
              \/ c.operation = "reset" /\ c.amount < Reserved(u)
           THEN Leave(s)
           ELSE /\ plan' = [plan EXCEPT ![s][u] = balance]
                /\ call' = [call EXCEPT ![s].batch = Tail(@)]
                /\ Goto(s, IF Len(c.batch) = 1 THEN "commit" ELSE "user")
                /\ UNCHANGED <<ledgerVars, held>>

AdjustCommit(s) ==
    /\ Runs(s, "adjust", "commit")
    /\ credits' = [u \in User |-> IF u \in Adjusted(s) THEN plan[s][u] ELSE credits[u]]
    /\ transactions' = [u \in User |->
            IF u \in Adjusted(s)
            THEN Append(transactions[u],
                        [amount |-> plan[s][u] - credits[u],
                         balanceAfter |-> plan[s][u],
                         reservation |-> NoReservation])
            ELSE transactions[u]]
    /\ End(s)
    /\ UNCHANGED <<accountVars, reservationVars, usedCredits>>

-----------------------------------------------------------------------------
(* deleteUser: DELETE FROM users, whose foreign keys delete the keys and the
   reservations, row by row and in an order the schema does not fix. *)
DeleteLockUser(s) ==
    /\ Runs(s, "delete", "user")
    /\ IF call[s].user \notin users THEN Leave(s)
       ELSE LockAnd(s, UserRow(call[s].user), "cascade")

DeleteLockKey(s) ==
    /\ Runs(s, "delete", "cascade")
    /\ \E k \in CascadeKeys(s) : LockAnd(s, KeyRow(k), "cascade")

DeleteLockReservation(s) ==
    /\ Runs(s, "delete", "cascade")
    /\ \E r \in CascadeReservations(s) : LockAnd(s, ReservationRow(r), "cascade")

DeleteCommit(s) ==
    LET u == call[s].user
        S == HeldReservations(s)
        owned == {k \in Key : KeyRow(k) \in held[s]}
    IN  /\ Runs(s, "delete", "cascade")
        /\ CascadeKeys(s) = {} /\ CascadeReservations(s) = {}
        /\ users' = users \ {u}
        /\ available' = available \ {u}
        /\ apiKeys' = apiKeys \ owned
        /\ activeKeys' = activeKeys \ owned
        /\ status' = [r \in Reservation |-> IF r \in S THEN "none" ELSE status[r]]
        /\ attempts' = [r \in Reservation |-> IF r \in S THEN 0 ELSE attempts[r]]
        /\ End(s)
        /\ UNCHANGED <<credits, usedCredits, totalQuota, unissued, transactions>>

-----------------------------------------------------------------------------
(* Transactions of one row wait for its lock, read and write. *)
ReservationUpdate(r) ==
    /\ ReservationRow(r) \notin Locked
    /\ MarkPending(r) \/ RecordAttempt(r) \/ Retry(r)
    /\ UNCHANGED sessionVars

UserUpdate(u) ==
    /\ UserRow(u) \notin Locked
    /\ \E on \in BOOLEAN : SetAvailable(u, on)
    /\ UNCHANGED sessionVars

KeyUpdate(k) ==
    /\ KeyRow(k) \notin Locked
    /\ \/ DeleteKey(k)
       \/ \E quota \in {NoQuota} \cup Quotas, on \in BOOLEAN : ConfigureKey(k, quota, on)
    /\ UNCHANGED sessionVars

-----------------------------------------------------------------------------
ReserveStep(s) ==
    ReserveLockUser(s) \/ ReserveSum(s) \/ ReserveTakeQuota(s) \/ ReserveCommit(s)

ReleaseStep(s) == ReleaseLockRow(s) \/ ReleaseRefundKey(s) \/ ReleaseCommit(s)

ExpireStep(s) ==
    ExpireLockRow(s) \/ ExpireRowsDone(s) \/ ExpireRefundKey(s) \/ ExpireCommit(s)

FinalizeStep(s) ==
    FinalizeLook(s) \/ FinalizeLockRow(s) \/ FinalizeDebit(s) \/ FinalizeCommit(s)

AdjustStep(s) == AdjustLockUser(s) \/ AdjustCompute(s) \/ AdjustCommit(s)

DeleteStep(s) ==
    DeleteLockUser(s) \/ DeleteLockKey(s) \/ DeleteLockReservation(s) \/ DeleteCommit(s)

SessionStep(s) ==
    \/ \E c \in Call : Begin(s, c)
    \/ ReserveStep(s)
    \/ ReleaseStep(s)
    \/ ExpireStep(s)
    \/ FinalizeStep(s)
    \/ AdjustStep(s)
    \/ DeleteStep(s)
    \/ Abort(s)

StatementNext ==
    \/ \E s \in Session : SessionStep(s)
    \/ \E r \in Reservation : ReservationUpdate(r)
    \/ \E u \in User : UserUpdate(u)
    \/ \E k \in Key : KeyUpdate(k)

StatementSpec == StatementInit /\ [][StatementNext]_statementVars

-----------------------------------------------------------------------------
(* Whatever the interleaving, lock waits and rollbacks, the committed tables
   change only as CreditLedger allows: each transaction's checks still hold
   when its writes appear.  (This is Spec, with the steps that leave the
   tables alone told apart first.) *)
ImplementsLedger ==
    Init /\ [][ledgerVars' # ledgerVars /\ Next]_ledgerVars

(* What a session read before its last statement is still true when it
   commits, although the reads and the writes are different statements and
   other sessions commit in between. *)
ChecksStillHold ==
    \A s \in Session :
        /\ Runs(s, "reserve", "commit") =>
            LET r == call[s].reservation
                u == Owner(r)
            IN  /\ u \in users \cap available
                /\ credits[u] - Reserved(u) >= AmountOf[r]
                /\ KeyOf[r] \in activeKeys
                /\ WithinQuota(KeyOf[r], AmountOf[r])
        /\ Runs(s, "finalize", "commit") =>
            LET r == call[s].reservation
                u == Owner(r)
            IN  /\ r \notin Charged
                /\ status[r] \in Settleable
                /\ u \in users
                /\ credits[u] >= AmountOf[r]
        /\ call[s] # Idle /\ call[s].kind = "adjust" =>
            \A u \in Adjusted(s) :
                u \in users /\ (at[s] = "commit" => plan[s][u] >= Reserved(u))

(* The row each session waits for, if it waits. *)
Wanted(s) ==
    IF call[s] = Idle THEN {}
    ELSE LET c == call[s]
         IN  CASE c.kind = "reserve" /\ at[s] = "user" -> {UserRow(Owner(c.reservation))}
               [] c.kind = "reserve" /\ at[s] = "key" -> {KeyRow(KeyOf[c.reservation])}
               [] c.kind \in {"release", "finalize"} /\ at[s] = "row" ->
                    {ReservationRow(c.reservation)}
               [] c.kind = "release" /\ at[s] = "key" -> {KeyRow(KeyOf[c.reservation])}
               [] c.kind = "finalize" /\ at[s] = "user" ->
                    {UserRow(Owner(c.reservation))}
               [] c.kind = "expire" /\ at[s] = "row" /\ c.rows # {} ->
                    {ReservationRow(OldestOf(c.rows))}
               [] c.kind = "expire" /\ at[s] = "key" /\ Unrefunded(s) # {} ->
                    {KeyRow(KeyOf[OldestOf(Unrefunded(s))])}
               [] c.kind = "adjust" /\ at[s] = "user" -> {UserRow(Head(c.batch))}
               [] c.kind = "delete" /\ at[s] = "user" -> {UserRow(c.user)}
               [] c.kind = "delete" /\ at[s] = "cascade" ->
                    {KeyRow(k) : k \in CascadeKeys(s)}
                    \cup {ReservationRow(r) : r \in CascadeReservations(s)}
               [] OTHER -> {}

WaitsFor(s, t) == s # t /\ Wanted(s) \cap held[t] # {}

(* A transaction of the request path or of the retry worker, or an adjustment
   of a single account. *)
Routine(s) ==
    /\ call[s] # Idle
    /\ call[s].kind # "delete"
    /\ call[s].kind = "adjust" => Cardinality(Adjusted(s)) + Len(call[s].batch) = 1

(* Routine traffic cannot deadlock with itself: its transactions take their
   locks in compatible orders, so PostgreSQL has to break a cycle only when a
   batch adjustment or the deletion of an account is part of it. *)
RoutineNeverDeadlocks ==
    ~ \E D \in SUBSET Session :
        /\ D # {}
        /\ \A s \in D : Routine(s)
        /\ \A s \in D : \E t \in D : WaitsFor(s, t)
=============================================================================
