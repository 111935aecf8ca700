---------------------------- MODULE CreditLedger ----------------------------
(***************************************************************************)
(* What the billing tables of the platform promise.  Every transaction     *)
(* that server/services/credit-service.ts and its callers commit is one    *)
(* atomic action here, taken on the rows as they stand when it commits:    *)
(* users.credits, api_keys.used_credits/total_quota, the rows of           *)
(* api_credit_reservations and the journal credit_transactions.            *)
(*                                                                         *)
(* CreditTransactions shows that the statements the code really issues,    *)
(* interleaved under row locks, implement this module; GatewayBilling      *)
(* drives these actions from the gateway, the after-response hook, the     *)
(* retry worker and the administrator.                                     *)
(***************************************************************************)
EXTENDS Integers, FiniteSets, Sequences

CONSTANTS
    User,           \* ids of users rows
    Key,            \* ids of api_keys rows
    Reservation,    \* ids the bigserial of api_credit_reservations can issue
    OwnerOf,        \* api_keys.user_id, fixed when the key is created
    KeyOf,          \* the key a reservation is made with
    AmountOf,       \* api_routes.credits_cost of the route it pays for
    Quotas,         \* the limits that total_quota is set to
    NoQuota,        \* api_keys.total_quota IS NULL
    NoReservation,  \* credit_transactions.credit_reservation_id IS NULL
    SignupBonus,    \* defaultRegisterCredits, granted when an account is activated
    MaxCredits,     \* largest value of the integer columns
    MaxAttempts,    \* RESERVATION_MAX_ATTEMPTS
    MaxEntries      \* BOUND: journal length beyond which nothing is adjusted

ASSUME ReservationAssumption ==
    /\ IsFiniteSet(Reservation)
    /\ OwnerOf \in [Key -> User]
    /\ KeyOf \in [Reservation -> Key]
    /\ AmountOf \in [Reservation -> Nat \ {0}]

ASSUME LimitAssumption ==
    /\ MaxCredits \in Nat
    /\ SignupBonus \in 0 .. MaxCredits
    /\ MaxAttempts \in Nat \ {0}
    /\ MaxEntries \in Nat
    /\ Quotas \subseteq Nat

ASSUME MarkerAssumption ==
    /\ NoQuota \notin Nat
    /\ NoReservation \notin Reservation

VARIABLES
    users,          \* users rows that exist
    available,      \* those that are active and not banned
    credits,        \* users.credits
    apiKeys,        \* api_keys rows that exist
    activeKeys,     \* api_keys.is_active
    usedCredits,    \* api_keys.used_credits
    totalQuota,     \* api_keys.total_quota
    unissued,       \* reservation ids not issued yet
    status,         \* api_credit_reservations.status, "none" where no row is
    attempts,       \* api_credit_reservations.attempts
    transactions    \* credit_transactions of each user, in id order

accountVars == <<users, available, apiKeys, activeKeys, totalQuota>>
reservationVars == <<unissued, status, attempts>>
vars == <<users, available, credits, apiKeys, activeKeys, usedCredits,
          totalQuota, unissued, status, attempts, transactions>>

-----------------------------------------------------------------------------
Owner(r) == OwnerOf[KeyOf[r]]

(* The sum of the amounts of a set of reservations, as the number of single
   credits they hold. *)
Units(S) == UNION {{r} \X (1 .. AmountOf[r]) : r \in S}
Total(S) == Cardinality(Units(S))

Live == {r \in Reservation : status[r] # "none"}
LiveOf(u) == {r \in Live : Owner(r) = u}

(* coalesce(sum(amount), 0) over the user's rows, whatever their status. *)
Reserved(u) == Total(LiveOf(u))

ChargedTo(u) ==
    {r \in Reservation :
        \E i \in 1 .. Len(transactions[u]) : transactions[u][i].reservation = r}
Charged == UNION {ChargedTo(u) : u \in User}

Entry == [amount : Int, balanceAfter : Nat,
          reservation : Reservation \cup {NoReservation}]

(* SLIP: the journal keeps the balance read before the update. *)
EntryForOldBalance(u, balance, r) ==
    [amount |-> balance - credits[u], balanceAfter |-> credits[u], reservation |-> r]

(* One journal row: the new balance and the step that led to it. *)
EntryFor(u, balance, r) ==
    [amount |-> balance - credits[u], balanceAfter |-> balance, reservation |-> r]

-----------------------------------------------------------------------------
(* Accounts that have just been activated (activateUser writes the sign-up
   bonus in the same transaction), each with its keys.  Ids of rows deleted, or
   rolled back, before this point are never issued again. *)
Init ==
    /\ users \in SUBSET User
    /\ available = users
    /\ credits = [u \in User |-> SignupBonus]
    /\ apiKeys = {k \in Key : OwnerOf[k] \in users}
    /\ activeKeys = apiKeys
    /\ usedCredits = [k \in Key |-> 0]
    /\ totalQuota \in [Key -> {NoQuota} \cup Quotas]
    /\ unissued \in SUBSET Reservation
    /\ status = [r \in Reservation |-> "none"]
    /\ attempts = [r \in Reservation |-> 0]
    /\ transactions = [u \in User |->
            IF SignupBonus = 0 THEN << >>
            ELSE << [amount |-> SignupBonus, balanceAfter |-> SignupBonus,
                     reservation |-> NoReservation] >>]

(* SLIP: the comparison leaves the new amount out. *)
WithinQuotaBefore(k, amount) ==
    totalQuota[k] # NoQuota => usedCredits[k] < totalQuota[k]

WithinQuota(k, amount) ==
    /\ usedCredits[k] + amount <= MaxCredits
    /\ totalQuota[k] # NoQuota => usedCredits[k] + amount <= totalQuota[k]

(* SLIP: the balance is compared without what is reserved already. *)
ReserveOnBalance(r) ==
    LET k == KeyOf[r]
    IN  /\ r \in unissued
        /\ Owner(r) \in users \cap available
        /\ credits[Owner(r)] >= AmountOf[r]
        /\ k \in apiKeys \cap activeKeys
        /\ WithinQuota(k, AmountOf[r])
        /\ usedCredits' = [usedCredits EXCEPT ![k] = @ + AmountOf[r]]
        /\ unissued' = unissued \ {r}
        /\ status' = [status EXCEPT ![r] = "active"]
        /\ UNCHANGED <<accountVars, credits, attempts, transactions>>

(* reserve: the account, the unreserved balance and the key's quota are
   checked, the quota is taken and the active row inserted. *)
Reserve(r) ==
    LET u == Owner(r)
        k == KeyOf[r]
    IN  /\ r \in unissued
        /\ u \in users \cap available
        /\ credits[u] - Reserved(u) >= AmountOf[r]
        /\ k \in apiKeys \cap activeKeys
        /\ WithinQuota(k, AmountOf[r])
        /\ usedCredits' = [usedCredits EXCEPT ![k] = @ + AmountOf[r]]
        /\ unissued' = unissued \ {r}
        /\ status' = [status EXCEPT ![r] = "active"]
        /\ UNCHANGED <<accountVars, credits, attempts, transactions>>

(* markReservationPending: the upstream answered, the charge is owed. *)
MarkPending(r) ==
    /\ status[r] = "active"
    /\ status' = [status EXCEPT ![r] = "pending"]
    /\ UNCHANGED <<accountVars, credits, usedCredits, unissued, attempts, transactions>>

(* greatest(used_credits - refund, 0), for the keys that still exist. *)
Refund(refund) ==
    usedCredits' = [k \in Key |->
        IF k \notin apiKeys THEN usedCredits[k]
        ELSE IF usedCredits[k] > refund[k] THEN usedCredits[k] - refund[k] ELSE 0]

(* SLIP: the delete repeats the status filter of the request path. *)
DeleteOpenRows(S) ==
    /\ status' = [r \in Reservation |->
            IF r \in S /\ status[r] # "dead_letter" THEN "none" ELSE status[r]]
    /\ UNCHANGED attempts

DeleteRows(S) ==
    /\ status' = [r \in Reservation |-> IF r \in S THEN "none" ELSE status[r]]
    /\ attempts' = [r \in Reservation |-> IF r \in S THEN 0 ELSE attempts[r]]

(* SLIP: of two rows of one key, the map keeps only the last amount. *)
ReleaseRowsLastAmount(S) ==
    /\ Refund([k \in Key |-> Total({r \in S :
            KeyOf[r] = k /\ r = CHOOSE last \in S : KeyOf[last] = k})])
    /\ DeleteRows(S)
    /\ UNCHANGED <<accountVars, credits, unissued, transactions>>

(* releaseReservation (one row) and releaseExpiredReservations (a batch of
   active rows): the quota goes back to the keys and the rows are deleted. *)
ReleaseRows(S) ==
    /\ Refund([k \in Key |-> Total({r \in S : KeyOf[r] = k})])
    /\ DeleteRows(S)
    /\ UNCHANGED <<accountVars, credits, unissued, transactions>>

Release(r) ==
    /\ status[r] # "none"
    /\ ReleaseRows({r})

(* SLIP: the sweep looks for the wrong status. *)
ReleaseExpiredPending(S) ==
    /\ S # {}
    /\ \A r \in S : status[r] = "pending"
    /\ ReleaseRows(S)

ReleaseExpired(S) ==
    /\ S # {}
    /\ \A r \in S : status[r] = "active"
    /\ ReleaseRows(S)

(* finalizeReservation: the balance pays, the journal gets its row and the
   reservation is deleted.  Only pending and dead-letter rows are charged. *)
Charge(r) ==
    LET u == Owner(r)
        balance == credits[u] - AmountOf[r]
    IN  /\ status[r] \in {"pending", "dead_letter"}
        /\ u \in users
        /\ balance >= 0
        /\ credits' = [credits EXCEPT ![u] = balance]
        /\ transactions' =
            [transactions EXCEPT ![u] = Append(@, EntryFor(u, balance, r))]
        /\ DeleteRows({r})
        /\ UNCHANGED <<accountVars, usedCredits, unissued>>

(* SLIP: the attempt is logged and not counted. *)
RecordNothing(r) == status[r] = "pending" /\ UNCHANGED vars

(* markReservationAttempt: a failed settlement is counted, and the row turns
   to dead_letter when its attempts run out. *)
RecordAttempt(r) ==
    /\ status[r] = "pending"
    /\ attempts' = [attempts EXCEPT ![r] = @ + 1]
    /\ status' = [status EXCEPT ![r] =
            IF attempts[r] + 1 >= MaxAttempts THEN "dead_letter" ELSE "pending"]
    /\ UNCHANGED <<accountVars, credits, usedCredits, unissued, transactions>>

(* SLIP: the row is pending again with its attempts used up. *)
RetryKeepsAttempts(r) ==
    /\ status[r] = "dead_letter"
    /\ status' = [status EXCEPT ![r] = "pending"]
    /\ UNCHANGED <<accountVars, credits, usedCredits, unissued, attempts, transactions>>

(* retryCreditReservation. *)
Retry(r) ==
    /\ status[r] = "dead_letter"
    /\ status' = [status EXCEPT ![r] = "pending"]
    /\ attempts' = [attempts EXCEPT ![r] = 0]
    /\ UNCHANGED <<accountVars, credits, usedCredits, unissued, transactions>>

(* Every other change of balances: batchAdjust (grant, revoke, reset of a set
   of users, all or none), a redeemed code, a check-in, the sign-up bonus.
   None leaves a balance that the reservations exceed. *)
Adjust(us, balance) ==
    /\ us \subseteq users
    /\ us # {}
    /\ \A u \in us : Len(transactions[u]) < MaxEntries
    /\ credits' = [u \in User |-> IF u \in us THEN balance[u] ELSE credits[u]]
    /\ transactions' = [u \in User |->
            IF u \in us
            THEN Append(transactions[u], EntryFor(u, balance[u], NoReservation))
            ELSE transactions[u]]
    /\ \A u \in us : balance[u] >= Reserved(u)
    /\ UNCHANGED <<accountVars, reservationVars, usedCredits>>

(* deleteUser: the foreign keys cascade to the keys and the reservations; the
   journal keeps its rows. *)
DeleteUser(u) ==
    LET owned == {k \in Key : OwnerOf[k] = u}
    IN  /\ u \in users
        /\ users' = users \ {u}
        /\ available' = available \ {u}
        /\ apiKeys' = apiKeys \ owned
        /\ activeKeys' = activeKeys \ owned
        /\ DeleteRows(LiveOf(u))
        /\ UNCHANGED <<credits, usedCredits, totalQuota, unissued, transactions>>

(* deleteKey: reservations made with the key stay and can still be settled. *)
DeleteKey(k) ==
    /\ k \in apiKeys
    /\ apiKeys' = apiKeys \ {k}
    /\ activeKeys' = activeKeys \ {k}
    /\ UNCHANGED <<users, available, credits, usedCredits, totalQuota,
                   reservationVars, transactions>>

(* updateUser, banUser, and the end of a temporary ban. *)
SetAvailable(u, on) ==
    /\ u \in users
    /\ available' = IF on THEN available \cup {u} ELSE available \ {u}
    /\ UNCHANGED <<users, credits, apiKeys, activeKeys, usedCredits, totalQuota,
                   reservationVars, transactions>>

(* updateConfig: the quota may be set below what is already used. *)
ConfigureKey(k, quota, on) ==
    /\ k \in apiKeys
    /\ totalQuota' = [totalQuota EXCEPT ![k] = quota]
    /\ activeKeys' = IF on THEN activeKeys \cup {k} ELSE activeKeys \ {k}
    /\ UNCHANGED <<users, available, credits, apiKeys, usedCredits,
                   reservationVars, transactions>>

ReservationStep(r) ==
    \/ Reserve(r)
    \/ MarkPending(r)
    \/ Release(r)
    \/ Charge(r)
    \/ RecordAttempt(r)
    \/ Retry(r)

Next ==
    \/ \E r \in Reservation : ReservationStep(r)
    \/ \E S \in SUBSET Reservation : ReleaseExpired(S)
    \/ \E us \in SUBSET User : \E balance \in [us -> 0 .. MaxCredits] : Adjust(us, balance)
    \/ \E u \in User : DeleteUser(u)
    \/ \E u \in User, on \in BOOLEAN : SetAvailable(u, on)
    \/ \E k \in Key : DeleteKey(k)
    \/ \E k \in Key, quota \in {NoQuota} \cup Quotas, on \in BOOLEAN :
            ConfigureKey(k, quota, on)

Spec == Init /\ [][Next]_vars

-----------------------------------------------------------------------------
(* The columns have the types of the schema: no balance or used quota is
   negative (the CHECK constraints of users and api_keys never fire), no
   balance leaves the integer range, an id that was not issued has no row, and
   only a dead letter has used up its attempts, however often it was put back. *)
TypeOK ==
    /\ users \subseteq User
    /\ available \subseteq users
    /\ credits \in [User -> 0 .. MaxCredits]
    /\ apiKeys \subseteq Key
    /\ activeKeys \subseteq apiKeys
    /\ usedCredits \in [Key -> Nat]
    /\ totalQuota \in [Key -> {NoQuota} \cup Quotas]
    /\ unissued \subseteq {r \in Reservation : status[r] = "none"}
    /\ status \in [Reservation -> {"none", "active", "pending", "dead_letter"}]
    /\ attempts \in [Reservation -> 0 .. MaxAttempts]
    /\ \A r \in Reservation : status[r] # "dead_letter" => attempts[r] < MaxAttempts
    /\ transactions \in [User -> Seq(Entry)]

(* Every open reservation has an owner whose balance covers all of them, so a
   settlement never ends with 'Reserved credit balance is no longer available',
   whatever other calls, grants, revocations and resets came between. *)
Covered ==
    /\ \A r \in Live : Owner(r) \in users
    /\ \A u \in users : Reserved(u) <= credits[u]

(* What a key has used is exactly what its open reservations hold plus what was
   charged through it: a release never loses or returns quota twice, and
   greatest(..., 0) never hides a difference. *)
QuotaAccounting ==
    \A k \in apiKeys :
        usedCredits[k] = Total({r \in Live \cup Charged : KeyOf[r] = k})

NamesOnce(u, journal) ==
    \A i, j \in 1 .. Len(journal) :
        LET r == journal[i].reservation
        IN  r # NoReservation =>
                /\ Owner(r) = u
                /\ journal[j].reservation = r => i = j

(* A reservation is charged at most once, to its owner, and never while its
   row is still there to be charged or released again. *)
ChargedOnce ==
    /\ Charged \cap (Live \cup unissued) = {}
    /\ \A u \in User : NamesOnce(u, transactions[u])

(* The journal of a user is a chain: each row starts from the balance the row
   before it left, and the last one left the present balance. *)
Chain(journal, balance) ==
    LET before(i) == IF i = 1 THEN 0 ELSE journal[i - 1].balanceAfter
    IN  /\ \A i \in 1 .. Len(journal) :
                journal[i].balanceAfter = before(i) + journal[i].amount
        /\ balance = before(Len(journal) + 1)

BalanceChain == \A u \in User : Chain(transactions[u], credits[u])

(* Used quota grows only to a value the key's quota allows at that moment. *)
QuotaRespected ==
    [][\A k \in Key : usedCredits'[k] > usedCredits[k] =>
            (totalQuota[k] # NoQuota => usedCredits'[k] <= totalQuota[k])]_vars
=============================================================================
