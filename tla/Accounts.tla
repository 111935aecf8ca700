------------------------------ MODULE Accounts ------------------------------
(***************************************************************************)
(* What is paid to an account, and who may administer: redemption codes    *)
(* (server/services/redemption-service.ts), check-in (checkin-service.ts), *)
(* activation with its sign-up bonus (user-service.ts) and the removal of  *)
(* administrators' access (admin-user-service.ts).                         *)
(*                                                                         *)
(* Processes run database transactions under READ COMMITTED.  A statement  *)
(* that locks a row waits for it and looks at the row again when it has    *)
(* it; the lock is kept to the end.  A transaction's writes are applied    *)
(* when it commits: the rows are locked until then, so nobody could have   *)
(* written them, and plain reads see what is committed.                    *)
(***************************************************************************)
EXTENDS Integers, FiniteSets

CONSTANTS
  Processes,
  Users,          \* ids: administrators are locked in their order
  Administrators, \* the users who administer at first; the others have just registered
  Codes,
  MaxUses,        \* the values of redemption_codes.max_uses tried
  Cooldown,       \* hours between two check-ins, or the length of the fixed period
  FixedTimes,     \* the cooldown modes tried: is it a fixed time of the day?
  MaxClock,       \* bound on time, in hours
  MaxRequests,    \* bound on requests: transactions begun and single statements
  None

ASSUME AccountsAssumption ==
  /\ Users \subseteq Nat /\ IsFiniteSet(Users)
  /\ Administrators \subseteq Users /\ Administrators # {}
  /\ None \notin Processes
  /\ MaxUses \subseteq Nat
  /\ Cooldown \in Nat \ {0}
  /\ FixedTimes \subseteq BOOLEAN
  /\ MaxClock \in Nat \ {0} /\ MaxRequests \in Nat

VARIABLES
  user,     \* users, with last_checkin_at as lastCheckin (0: never)
  code,     \* redemption_codes
  entries,  \* credit_transactions of the reasons modelled here
  lock,     \* external: the row locks of PostgreSQL
  op,       \* the transaction each process is in
  now,
  fixedTime, \* settings.checkinCooldownMode = 'fixed_time'
  requests  \* how many of the MaxRequests have been made

vars == <<user, code, entries, lock, op, now, fixedTime, requests>>

Rows == Users \cup Codes
NoOp == [at |-> "idle", user |-> None, code |-> None, time |-> 0,
         toLock |-> {}, admins |-> {}, change |-> "none"]

Available(u) == user[u].exists /\ user[u].admin /\ user[u].active /\ ~user[u].banned

Lowest(S) == CHOOSE u \in S : \A v \in S : u =< v

(* The reasons of the entries.  What tells two entries of one reason and   *)
(* one user apart is the code, the time of the check-in, or nothing.       *)
Entry(reason, u, ref) == [reason |-> reason, user |-> u, ref |-> ref]

Free(row) == lock[row] = None
Mine(p, row) == lock[row] \in {None, p}

(* SLIP: the row is read without FOR UPDATE. *)
ReadOnly(p, row) == lock' = lock

Hold(p, row) == lock' = [lock EXCEPT ![row] = p]
Release(p) == lock' = [row \in Rows |-> IF lock[row] = p THEN None ELSE lock[row]]
Become(p, record) == op' = [op EXCEPT ![p] = record]
Go(p, at) == Become(p, [op[p] EXCEPT !.at = at])

(* COMMIT or ROLLBACK *)
End(p) == Release(p) /\ Become(p, NoOp)
Rollback(p) == End(p) /\ UNCHANGED <<user, code, entries, now, fixedTime, requests>>

(* An entry is a row of its own: paying twice shows as a second row.       *)
Pay(entry) == entries' = [entries EXCEPT ![entry] = @ + 1]
Entries ==
  {Entry("redemption_code", u, c) : u \in Users, c \in Codes}
  \cup {Entry("checkin", u, t) : u \in Users, t \in 1..MaxClock}
  \cup {Entry("signup_bonus", u, None) : u \in Users}
Paid == {e \in Entries : entries[e] > 0}

Init ==
  /\ user = [u \in Users |->
       LET admin == u \in Administrators
       IN  [exists |-> TRUE, admin |-> admin, active |-> admin, banned |-> FALSE,
            verified |-> admin, lastCheckin |-> 0]]
  /\ \E max \in [Codes -> MaxUses] :
       code = [c \in Codes |-> [exists |-> TRUE, enabled |-> TRUE, used |-> 0, max |-> max[c]]]
  /\ entries = [e \in Entries |-> 0]
  /\ lock = [row \in Rows |-> None]
  /\ op = [p \in Processes |-> NoOp]
  /\ now = 1
  /\ fixedTime \in FixedTimes
  /\ requests = 0

Idle(p) == op[p].at = "idle"

Request == requests < MaxRequests /\ requests' = requests + 1

-----------------------------------------------------------------------------
(* redeem *)

Usable(c) == code[c].exists /\ code[c].enabled /\ code[c].used < code[c].max

Redeemed(u, c) == Entry("redemption_code", u, c) \in Paid

(* The checks before the transaction. *)
RedeemCheck(p, u, c) ==
  /\ Request
  /\ Idle(p)
  /\ Usable(c) /\ ~Redeemed(u, c)
  /\ Become(p, [NoOp EXCEPT !.at = "consume", !.user = u, !.code = c])
  /\ UNCHANGED <<user, code, entries, lock, now, fixedTime>>

(* UPDATE redemption_codes ... WHERE is_enabled AND used_count < max_uses *)
Consumable(c) == Usable(c)

RedeemConsume(p) ==
  /\ op[p].at = "consume"
  /\ Free(op[p].code)
  /\ Consumable(op[p].code)
  /\ Hold(p, op[p].code)
  /\ Go(p, "credit")
  /\ UNCHANGED <<user, code, entries, now, fixedTime, requests>>

RedeemUsedUp(p) ==
  /\ op[p].at = "consume"
  /\ Free(op[p].code)
  /\ ~Consumable(op[p].code)
  /\ Rollback(p)

RedeemCredit(p) ==
  /\ op[p].at = "credit"
  /\ Free(op[p].user)
  /\ user[op[p].user].exists
  /\ Hold(p, op[p].user)
  /\ Go(p, "record")
  /\ UNCHANGED <<user, code, entries, now, fixedTime, requests>>

RedeemUserGone(p) ==
  /\ op[p].at = "credit"
  /\ Free(op[p].user)
  /\ ~user[op[p].user].exists
  /\ Rollback(p)

(* credit_transactions_redemption_user_uq refuses a second entry.          *)
RedeemRecord(p) ==
  /\ op[p].at = "record"
  /\ ~Redeemed(op[p].user, op[p].code)
  /\ code' = [code EXCEPT ![op[p].code].used = @ + 1]
  /\ Pay(Entry("redemption_code", op[p].user, op[p].code))
  /\ End(p)
  /\ UNCHANGED <<user, now, fixedTime, requests>>

RedeemDuplicate(p) ==
  /\ op[p].at = "record"
  /\ Redeemed(op[p].user, op[p].code)
  /\ Rollback(p)

(* toggle, remove: single statements on the row of the code. *)
ToggleCode(c) ==
  /\ Request
  /\ Free(c) /\ code[c].exists
  /\ code' = [code EXCEPT ![c].enabled = ~@]
  /\ UNCHANGED <<user, entries, lock, op, now, fixedTime>>

RemoveCode(c) ==
  /\ Request
  /\ Free(c) /\ code[c].exists
  /\ code' = [code EXCEPT ![c].exists = FALSE]
  /\ UNCHANGED <<user, entries, lock, op, now, fixedTime>>

-----------------------------------------------------------------------------
(* checkin *)

(* computeCutoffAndNext *)
Cutoff(time) == IF fixedTime THEN (time \div Cooldown) * Cooldown ELSE time - Cooldown

(* now is read before the transaction. *)
CheckinStart(p, u) ==
  /\ Request
  /\ Idle(p)
  /\ user[u].exists
  /\ Become(p, [NoOp EXCEPT !.at = "claim", !.user = u, !.time = now])
  /\ UNCHANGED <<user, code, entries, lock, now, fixedTime>>

(* SLIP: the hour the cooldown ends in counts. *)
DueAtCutoff(u, time) == user[u].lastCheckin = 0 \/ user[u].lastCheckin =< Cutoff(time)

(* UPDATE users ... WHERE last_checkin_at IS NULL OR last_checkin_at < cutoff *)
CheckinDue(u, time) == user[u].lastCheckin = 0 \/ user[u].lastCheckin < Cutoff(time)

CheckinClaim(p) ==
  /\ op[p].at = "claim"
  /\ Free(op[p].user)
  /\ user[op[p].user].exists /\ CheckinDue(op[p].user, op[p].time)
  /\ Hold(p, op[p].user)
  /\ Go(p, "pay")
  /\ UNCHANGED <<user, code, entries, now, fixedTime, requests>>

CheckinRefused(p) ==
  /\ op[p].at = "claim"
  /\ Free(op[p].user)
  /\ ~(user[op[p].user].exists /\ CheckinDue(op[p].user, op[p].time))
  /\ Rollback(p)

CheckinPay(p) ==
  /\ op[p].at = "pay"
  /\ user' = [user EXCEPT ![op[p].user].lastCheckin = op[p].time]
  /\ Pay(Entry("checkin", op[p].user, op[p].time))
  /\ End(p)
  /\ UNCHANGED <<code, now, fixedTime, requests>>

-----------------------------------------------------------------------------
(* activateUser and the rollback of a registration *)

(* verify-email.post.ts looks at the account before it activates it.       *)
ActivateStart(p, u) ==
  /\ Request
  /\ Idle(p)
  /\ user[u].exists /\ ~user[u].verified
  /\ Become(p, [NoOp EXCEPT !.at = "activate", !.user = u])
  /\ UNCHANGED <<user, code, entries, lock, now, fixedTime>>

(* SLIP: the account was looked at before. *)
StillThere(u) == user[u].exists

(* UPDATE users ... WHERE email_verified_at IS NULL *)
Activatable(u) == user[u].exists /\ ~user[u].verified

ActivateClaim(p) ==
  /\ op[p].at = "activate"
  /\ Free(op[p].user)
  /\ Activatable(op[p].user)
  /\ Hold(p, op[p].user)
  /\ Go(p, "bonus")
  /\ UNCHANGED <<user, code, entries, now, fixedTime, requests>>

ActivateRepeated(p) ==
  /\ op[p].at = "activate"
  /\ Free(op[p].user)
  /\ ~Activatable(op[p].user)
  /\ Rollback(p)

ActivateBonus(p) ==
  /\ op[p].at = "bonus"
  /\ user' = [user EXCEPT ![op[p].user].active = TRUE, ![op[p].user].verified = TRUE]
  /\ Pay(Entry("signup_bonus", op[p].user, None))
  /\ End(p)
  /\ UNCHANGED <<code, now, fixedTime, requests>>

(* deletePendingUser *)
RollbackRegistration(u) ==
  /\ Request
  /\ Free(u)
  /\ user[u].exists /\ ~user[u].active
  /\ user' = [user EXCEPT ![u].exists = FALSE]
  /\ UNCHANGED <<code, entries, lock, op, now, fixedTime>>

-----------------------------------------------------------------------------
(* updateUser, banUser and deleteUser where they take access away *)

Changes == {"demote", "deactivate", "ban", "delete"}

(* lockAvailableAdmins: the rows of one snapshot, locked in their order.   *)
RemovalStart(p, u, change) ==
  /\ Request
  /\ Idle(p)
  /\ Become(p, [NoOp EXCEPT !.at = "admins", !.user = u, !.change = change,
                            !.toLock = {v \in Users : Available(v)}])
  /\ UNCHANGED <<user, code, entries, lock, now, fixedTime>>

(* SLIP: the rows are counted as the snapshot had them. *)
AsRead(v) == TRUE

StillAvailable(v) == Available(v)

RemovalLock(p) ==
  /\ op[p].at = "admins" /\ op[p].toLock # {}
  /\ LET v == Lowest(op[p].toLock)
     IN  /\ Mine(p, v)
         /\ Hold(p, v)
         /\ Become(p, [op[p] EXCEPT !.toLock = @ \ {v},
                                    !.admins = IF StillAvailable(v) THEN @ \cup {v} ELSE @])
  /\ UNCHANGED <<user, code, entries, now, fixedTime, requests>>

RemovalLockTarget(p) ==
  /\ op[p].at = "admins" /\ op[p].toLock = {}
  /\ Mine(p, op[p].user)
  /\ user[op[p].user].exists
  /\ Hold(p, op[p].user)
  /\ Go(p, "remove")
  /\ UNCHANGED <<user, code, entries, now, fixedTime, requests>>

RemovalTargetGone(p) ==
  /\ op[p].at = "admins" /\ op[p].toLock = {}
  /\ Mine(p, op[p].user)
  /\ ~user[op[p].user].exists
  /\ Rollback(p)

(* assertAdminRemainsAvailable *)
Removable(p) == ~Available(op[p].user) \/ Cardinality(op[p].admins) > 1

Removed(row, change) ==
  CASE change = "demote" -> [row EXCEPT !.admin = FALSE]
    [] change = "deactivate" -> [row EXCEPT !.active = FALSE]
    [] change = "ban" -> [row EXCEPT !.banned = TRUE]
    [] change = "delete" -> [row EXCEPT !.exists = FALSE]

Remove(p) ==
  /\ op[p].at = "remove"
  /\ Removable(p)
  /\ user' = [user EXCEPT ![op[p].user] = Removed(@, op[p].change)]
  /\ End(p)
  /\ UNCHANGED <<code, entries, now, fixedTime, requests>>

RemovalRefused(p) ==
  /\ op[p].at = "remove"
  /\ ~Removable(p)
  /\ Rollback(p)

(* updateUser and banUser where they give access, clearExpiredBan. *)
GiveAccess(u) ==
  /\ Request
  /\ Free(u) /\ user[u].exists
  /\ \/ user' = [user EXCEPT ![u].admin = TRUE]
     \/ user' = [user EXCEPT ![u].active = TRUE]
     \/ user' = [user EXCEPT ![u].banned = FALSE]
  /\ UNCHANGED <<code, entries, lock, op, now, fixedTime>>

-----------------------------------------------------------------------------
(* The connection is lost, the process stops, or PostgreSQL picks the      *)
(* transaction as the victim of a deadlock.                                *)
Abort(p) == ~Idle(p) /\ Rollback(p)

Tick ==
  /\ now < MaxClock
  /\ now' = now + 1
  /\ UNCHANGED <<user, code, entries, lock, op, fixedTime, requests>>

Next ==
  \/ \E p \in Processes, u \in Users, c \in Codes : RedeemCheck(p, u, c)
  \/ \E p \in Processes : RedeemConsume(p)
  \/ \E p \in Processes : RedeemUsedUp(p)
  \/ \E p \in Processes : RedeemCredit(p)
  \/ \E p \in Processes : RedeemUserGone(p)
  \/ \E p \in Processes : RedeemRecord(p)
  \/ \E p \in Processes : RedeemDuplicate(p)
  \/ \E c \in Codes : ToggleCode(c)
  \/ \E c \in Codes : RemoveCode(c)
  \/ \E p \in Processes, u \in Users : CheckinStart(p, u)
  \/ \E p \in Processes : CheckinClaim(p)
  \/ \E p \in Processes : CheckinRefused(p)
  \/ \E p \in Processes : CheckinPay(p)
  \/ \E p \in Processes, u \in Users : ActivateStart(p, u)
  \/ \E p \in Processes : ActivateClaim(p)
  \/ \E p \in Processes : ActivateRepeated(p)
  \/ \E p \in Processes : ActivateBonus(p)
  \/ \E u \in Users : RollbackRegistration(u)
  \/ \E p \in Processes, u \in Users, change \in Changes : RemovalStart(p, u, change)
  \/ \E p \in Processes : RemovalLock(p)
  \/ \E p \in Processes : RemovalLockTarget(p)
  \/ \E p \in Processes : RemovalTargetGone(p)
  \/ \E p \in Processes : Remove(p)
  \/ \E p \in Processes : RemovalRefused(p)
  \/ \E u \in Users : GiveAccess(u)
  \/ \E p \in Processes : Abort(p)
  \/ Tick

Spec == Init /\ [][Next]_vars

-----------------------------------------------------------------------------
(* Properties *)

Account == [exists : BOOLEAN, admin : BOOLEAN, active : BOOLEAN, banned : BOOLEAN,
            verified : BOOLEAN, lastCheckin : 0..MaxClock]
Transaction ==
  [at : {"idle", "consume", "credit", "record", "claim", "pay", "activate", "bonus",
         "admins", "remove"},
   user : Users \cup {None}, code : Codes \cup {None}, time : 0..MaxClock,
   toLock : SUBSET Users, admins : SUBSET Users, change : Changes \cup {"none"}]

(* Type invariant, with what the steps rely on: a transaction holds the    *)
(* rows it is going to write, and a process without one holds none.        *)
TypeOK ==
  /\ user \in [Users -> Account]
  /\ code \in [Codes -> [exists : BOOLEAN, enabled : BOOLEAN, used : Nat, max : MaxUses]]
  /\ entries \in [Entries -> Nat]
  /\ lock \in [Rows -> Processes \cup {None}]
  /\ op \in [Processes -> Transaction]
  /\ now \in 0..MaxClock
  /\ fixedTime \in BOOLEAN
  /\ requests \in 0..MaxRequests
  /\ \A p \in Processes :
       /\ op[p].at \in {"credit", "record"} => lock[op[p].code] = p
       /\ op[p].at \in {"record", "pay", "bonus", "remove"} => lock[op[p].user] = p
       /\ Idle(p) => \A row \in Rows : lock[row] # p

(* A code is redeemed at most max_uses times and once by a user, its count *)
(* is the number of its payments, and the sign-up bonus is paid once:      *)
(* redeem, activateUser and credit_transactions_redemption_user_uq.        *)
PaidOnce ==
  /\ \A e \in Entries : entries[e] =< 1
  /\ \A c \in Codes :
       /\ code[c].used = Cardinality({u \in Users : Redeemed(u, c)})
       /\ code[c].used =< code[c].max

(* Two check-ins of one user lie more than the cooldown apart or, with a   *)
(* fixed time, in two periods, whatever the order in which requests that   *)
(* read the clock earlier and later get to the row (checkin).              *)
CheckinsSpaced ==
  LET paid == Paid
  IN  \A u \in Users, s, t \in 1..MaxClock :
        s < t /\ Entry("checkin", u, s) \in paid /\ Entry("checkin", u, t) \in paid
        => s < Cutoff(t)

(* Administrators who take access from each other at once never leave the  *)
(* platform without one who is active and not banned                       *)
(* (assertAdminRemainsAvailable).                                          *)
AdminRemains == \E u \in Users : Available(u)
=============================================================================
