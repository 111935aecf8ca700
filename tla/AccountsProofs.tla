--------------------------- MODULE AccountsProofs ---------------------------
(***************************************************************************)
(* What holds of payments and administrators for any number of processes,  *)
(* users and codes, and any cooldown.                                      *)
(*                                                                         *)
(* A row that a transaction has locked is written by nobody else           *)
(* (OthersLeaveIt), so what the transaction found when it took the lock    *)
(* still holds when it writes (Found).                                     *)
(***************************************************************************)
EXTENDS Accounts, FiniteSetTheorems, WellFoundedInduction, TLAPS

(* What a transaction has found, and relies on. *)
Found(p) ==
  /\ ~Idle(p) => op[p].user \in Users
  /\ op[p].at \in {"consume", "credit", "record"} => op[p].code \in Codes
  /\ op[p].at \in {"claim", "pay"} => op[p].time \in 1..now
  /\ op[p].at = "bonus" => ~user[op[p].user].verified
  /\ op[p].at = "pay" => CheckinDue(op[p].user, op[p].time)
  /\ op[p].at \in {"credit", "record"} => code[op[p].code].used < code[op[p].code].max
  /\ op[p].at \in {"admins", "remove"} => op[p].change \in Changes
  /\ op[p].at \in {"admins", "remove"} => \A v \in op[p].admins : lock[v] = p /\ Available(v)

(* The rows a transaction holds, as in TypeOK. *)
Held(p) ==
  /\ op[p].at \in {"credit", "record"} => lock[op[p].code] = p
  /\ op[p].at \in {"record", "pay", "bonus", "remove"} => lock[op[p].user] = p
  /\ Idle(p) => \A row \in Rows : lock[row] # p

Types ==
  /\ user \in [Users -> Account]
  /\ code \in [Codes -> [exists : BOOLEAN, enabled : BOOLEAN, used : Nat, max : MaxUses]]
  /\ entries \in [Entries -> Nat]
  /\ lock \in [Rows -> Processes \cup {None}]
  /\ op \in [Processes -> Transaction]
  /\ now \in 1..MaxClock
  /\ fixedTime \in BOOLEAN
  /\ requests \in 0..MaxRequests

CodeRow == [exists : BOOLEAN, enabled : BOOLEAN, used : Nat, max : MaxUses]

(* What the rows say about the payments. *)
Records ==
  /\ \A u \in Users : Entry("signup_bonus", u, None) \in Paid => user[u].verified
  /\ \A u \in Users, t \in 1..MaxClock :
       Entry("checkin", u, t) \in Paid => t =< user[u].lastCheckin

Base == Types /\ \A p \in Processes : Held(p) /\ Found(p)

-----------------------------------------------------------------------------
LEMMA Numbers ==
  /\ Cooldown \in Nat /\ Cooldown > 0 /\ MaxClock \in Nat /\ MaxClock > 0 /\ MaxRequests \in Nat
  /\ MaxUses \subseteq Nat /\ None \notin Processes
BY AccountsAssumption

LEMMA BaseTypeOK == Base => TypeOK
BY Numbers DEF Base, Types, Held, TypeOK

(* The cooldown ends in the past of the check-in.                          *)
LEMMA CutoffBelow ==
  ASSUME NEW time \in Nat, fixedTime \in BOOLEAN
  PROVE  Cutoff(time) \in Int /\ Cutoff(time) =< time
<1>1. (time \div Cooldown) \in Nat /\ (time \div Cooldown) * Cooldown =< time
  BY Numbers, SMTT(30)
<1> QED
  BY <1>1, Numbers DEF Cutoff

LEMMA NoOpType == NoOp \in Transaction
BY Numbers DEF NoOp, Transaction

(* Ids are numbers: there is a lowest one. *)
LEMMA LowestExists ==
  ASSUME NEW S \in SUBSET Users, S # {}
  PROVE  \E u \in S : \A w \in S : u =< w
<1>1. S \subseteq Nat
  BY AccountsAssumption
<1>2. PICK x : x \in S
  OBVIOUS
<1>3. PICK u \in S : \A w \in S : ~(<<w, u>> \in OpToRel(<, Nat))
  BY <1>1, NatLessThanWellFounded, WFMin, Zenon
<1>4. \A w \in S : ~(w < u)
  BY <1>1, <1>3, Zenon DEF OpToRel
<1> QED
  BY <1>1, <1>4

(* A step of a process: its record, and one row more or all of them less.  *)
LockStep(p, record) ==
  \/ lock' = lock
  \/ \E row \in Rows : Mine(p, row) /\ Hold(p, row)
  \/ Release(p) /\ record = NoOp

LEMMA ProcessStep ==
  ASSUME Types, NEW p \in Processes, NEW record \in Transaction,
         Become(p, record), LockStep(p, record)
  PROVE  /\ op' \in [Processes -> Transaction] /\ lock' \in [Rows -> Processes \cup {None}]
         /\ op'[p] = record
         /\ \A q \in Processes \ {p} : /\ op'[q] = op[q]
                                      /\ \A row \in Rows : lock'[row] = q <=> lock[row] = q
         /\ record # NoOp => \A row \in Rows : lock[row] = p => lock'[row] = p
<1>1. op' \in [Processes -> Transaction] /\ op'[p] = record
      /\ \A q \in Processes \ {p} : op'[q] = op[q]
  BY DEF Become, Types
<1>2. CASE lock' = lock
  BY <1>1, <1>2 DEF Types
<1>3. ASSUME NEW row \in Rows, Mine(p, row), Hold(p, row)
      PROVE  /\ lock' \in [Rows -> Processes \cup {None}]
             /\ \A q \in Processes \ {p} : \A r \in Rows : lock'[r] = q <=> lock[r] = q
             /\ \A r \in Rows : lock[r] = p => lock'[r] = p
  BY <1>3, Numbers DEF Mine, Hold, Types
<1>4. CASE Release(p) /\ record = NoOp
  BY <1>1, <1>4, Numbers DEF Release, Types
<1> QED
  BY <1>1, <1>2, <1>3, <1>4 DEF LockStep

(* What another transaction has found goes on as long as the rows it has   *)
(* locked are left alone.                                                  *)
LEMMA FoundKept ==
  ASSUME Base, NEW q \in Processes, op'[q] = op[q],
         \A row \in Rows : lock'[row] = q <=> lock[row] = q,
         \A u \in Users : lock[u] = q => user'[u] = user[u],
         \A c \in Codes : lock[c] = q => code'[c] = code[c],
         now' \in Nat, now =< now', fixedTime' = fixedTime
  PROVE  (Held(q) /\ Found(q))'
<1>1. Held(q) /\ Found(q)
  BY DEF Base
<1>2. op[q] \in Transaction
  BY DEF Base, Types
<1>3. Held(q)'
  <2>1. op[q].at \in {"credit", "record"} => lock'[op[q].code] = q
    BY <1>1 DEF Held, Found, Rows
  <2>2. op[q].at \in {"record", "pay", "bonus", "remove"} => lock'[op[q].user] = q
    BY <1>1 DEF Held, Found, Rows, Idle
  <2> QED
    BY <1>1, <2>1, <2>2 DEF Held, Idle
<1>4. op[q].at = "bonus" => ~user'[op[q].user].verified
  BY <1>1 DEF Held, Found, Idle
<1>5. op[q].at = "pay" => CheckinDue(op[q].user, op[q].time)'
  BY <1>1 DEF Held, Found, Idle, CheckinDue, Cutoff
<1>6. op[q].at \in {"credit", "record"} => code'[op[q].code].used < code'[op[q].code].max
  BY <1>1 DEF Held, Found
<1>7. op[q].at \in {"admins", "remove"} => \A v \in op[q].admins : lock'[v] = q /\ Available(v)'
  <2> SUFFICES ASSUME op[q].at \in {"admins", "remove"}, NEW v \in op[q].admins
               PROVE  lock'[v] = q /\ Available(v)'
    OBVIOUS
  <2>1. v \in Users /\ v \in Rows
    BY <1>2 DEF Transaction, Rows
  <2>2. lock[v] = q /\ Available(v)
    BY <1>1 DEF Found
  <2> QED
    BY <2>1, <2>2 DEF Available
<1>8. op[q].at \in {"claim", "pay"} => op[q].time \in 1..now'
  BY <1>1 DEF Found, Base, Types
<1> QED
  BY <1>1, <1>3, <1>4, <1>5, <1>6, <1>7, <1>8 DEF Found, Idle

(* Base is kept by a step of one process that writes only rows it has      *)
(* locked, if it leaves that process as Held and Found want it.            *)
LEMMA OthersLeaveIt ==
  ASSUME Base, NEW p \in Processes, NEW record \in Transaction,
         Become(p, record), LockStep(p, record),
         user' \in [Users -> Account],
         code' \in [Codes -> [exists : BOOLEAN, enabled : BOOLEAN, used : Nat, max : MaxUses]],
         entries' \in [Entries -> Nat], requests' \in 0..MaxRequests,
         \A u \in Users : lock[u] # p => user'[u] = user[u],
         \A c \in Codes : lock[c] # p => code'[c] = code[c],
         now' = now, fixedTime' = fixedTime,
         (Held(p) /\ Found(p))'
  PROVE  Base'
<1>1. Types
  BY DEF Base
<1>2. now' \in Nat /\ now =< now'
  BY <1>1, Numbers DEF Types
<1>3. /\ op' \in [Processes -> Transaction] /\ lock' \in [Rows -> Processes \cup {None}]
      /\ \A q \in Processes \ {p} : /\ op'[q] = op[q]
                                   /\ \A row \in Rows : lock'[row] = q <=> lock[row] = q
  BY <1>1, ProcessStep
<1>4. Types'
  BY <1>1, <1>3 DEF Types
<1>5. ASSUME NEW q \in Processes \ {p}
      PROVE  (Held(q) /\ Found(q))'
  <2>1. op'[q] = op[q] /\ \A row \in Rows : lock'[row] = q <=> lock[row] = q
    BY <1>3
  <2>2. /\ \A u \in Users : lock[u] = q => user'[u] = user[u]
        /\ \A c \in Codes : lock[c] = q => code'[c] = code[c]
    OBVIOUS
  <2> QED
    BY <1>2, <2>1, <2>2, FoundKept
<1> QED
  BY <1>4, <1>5 DEF Base

(* COMMIT or ROLLBACK of a transaction that wrote only rows it had locked. *)
LEMMA EndKeeps ==
  ASSUME Base, NEW p \in Processes, End(p),
         user' \in [Users -> Account],
         code' \in [Codes -> [exists : BOOLEAN, enabled : BOOLEAN, used : Nat, max : MaxUses]],
         entries' \in [Entries -> Nat], UNCHANGED <<now, fixedTime, requests>>,
         \A u \in Users : lock[u] # p => user'[u] = user[u],
         \A c \in Codes : lock[c] # p => code'[c] = code[c]
  PROVE  Base'
<1>1. Become(p, NoOp) /\ LockStep(p, NoOp)
  BY DEF End, LockStep
<1>2. Types /\ op'[p] = NoOp
  BY <1>1, NoOpType, ProcessStep DEF Base
<1>3. NoOp.at = "idle"
  BY DEF NoOp
<1>4. \A row \in Rows : lock'[row] # p
  BY <1>2, Numbers DEF End, Release, Types
<1>5. (Held(p) /\ Found(p))'
  BY <1>2, <1>3, <1>4 DEF Held, Found, Idle
<1> QED
  BY <1>1, <1>2, <1>5, NoOpType, OthersLeaveIt DEF Types

LEMMA RollbackKeeps ==
  ASSUME Base, NEW p \in Processes, Rollback(p)
  PROVE  Base'
BY EndKeeps DEF Rollback, Base, Types

(* A transaction begins: it holds nothing yet.                             *)
LEMMA BeginKeeps ==
  ASSUME Base, NEW p \in Processes, NEW record \in Transaction,
         Idle(p), Request, Become(p, record), UNCHANGED <<user, code, entries, lock, now, fixedTime>>,
         record.at \in {"consume", "claim", "activate", "admins"}, record.user \in Users,
         record.admins = {},
         record.at = "consume" => record.code \in Codes,
         record.at = "claim" => record.time = now,
         record.at = "admins" => record.change \in Changes
  PROVE  Base'
<1>1. LockStep(p, record)
  BY DEF LockStep
<1>2. Types /\ op'[p] = record
  BY <1>1, ProcessStep DEF Base
<1>3. Held(p)'
  BY <1>2 DEF Held, Idle
<1>4. record.at = "claim" => record.time \in 1..now
  BY <1>2 DEF Types
<1>5. Found(p)'
  BY <1>2, <1>4 DEF Found
<1>6. requests' \in 0..MaxRequests
  BY <1>2, Numbers DEF Request, Types
<1> QED
  BY <1>1, <1>2, <1>3, <1>5, <1>6, OthersLeaveIt DEF Types

(* A transaction takes the row of an account or of a code, and goes on.    *)
LEMMA GoKeeps ==
  ASSUME Base, NEW p \in Processes, NEW row \in Rows, NEW record \in Transaction,
         Mine(p, row), Hold(p, row), Become(p, record), ~Idle(p),
         UNCHANGED <<user, code, entries, now, fixedTime, requests>>,
         record.at # "idle", record.user = op[p].user, record.code = op[p].code,
         record.time = op[p].time, record.user \in Users,
         record.at \in {"credit", "record"} => record.code \in Codes,
         record.at \in {"consume", "claim"} => record.at = op[p].at,
         record.at \in {"credit", "record"} =>
           /\ record.code = row \/ lock[record.code] = p
           /\ code[record.code].used < code[record.code].max,
         record.at \in {"record", "pay", "bonus", "remove"} => record.user = row,
         record.at = "pay" => op[p].at = "claim" /\ CheckinDue(record.user, record.time),
         record.at = "bonus" => ~user[record.user].verified,
         record.at \in {"admins", "remove"} =>
           op[p].at = "admins" /\ record.change = op[p].change,
         record.at \in {"admins", "remove"} =>
           \A v \in record.admins : (lock[v] = p \/ v = row) /\ Available(v)
  PROVE  Base'
<1>1. LockStep(p, record)
  BY DEF LockStep
<1>2. Types /\ Found(p)
  BY DEF Base
<1>3. record # NoOp
  BY DEF NoOp
<1>4. op'[p] = record /\ lock'[row] = p /\ \A r \in Rows : lock[r] = p => lock'[r] = p
  BY <1>1, <1>2, <1>3, ProcessStep DEF Hold, Types
<1>5. Held(p)'
  <2>1. record.at \in {"credit", "record"} => lock'[record.code] = p
    BY <1>4 DEF Rows
  <2>2. record.at \in {"record", "pay", "bonus", "remove"} => lock'[record.user] = p
    BY <1>4 DEF Rows
  <2> QED
    BY <1>4, <2>1, <2>2 DEF Held, Idle
<1>6. record.at \in {"claim", "pay"} => record.time \in 1..now
  BY <1>2 DEF Found
<1>7. record.at = "consume" => record.code \in Codes
  BY <1>2 DEF Found
<1>8. record.at = "pay" => CheckinDue(record.user, record.time)'
  BY DEF CheckinDue, Cutoff
<1>9. record.at \in {"admins", "remove"} => \A v \in record.admins : lock'[v] = p /\ Available(v)'
  <2> SUFFICES ASSUME record.at \in {"admins", "remove"}, NEW v \in record.admins
               PROVE  lock'[v] = p /\ Available(v)'
    OBVIOUS
  <2>1. v \in Rows
    BY DEF Transaction, Rows
  <2> QED
    BY <1>4, <2>1 DEF Available
<1>10. record.at \in {"admins", "remove"} => record.change \in Changes
  BY <1>2 DEF Found
<1>11. Found(p)'
  BY <1>4, <1>6, <1>7, <1>8, <1>9, <1>10 DEF Found
<1> QED
  BY <1>1, <1>2, <1>5, <1>11, OthersLeaveIt DEF Types

(* A single statement writes a row that nobody has locked.                 *)
LEMMA StatementKeeps ==
  ASSUME Base, UNCHANGED <<op, lock, entries, fixedTime>>,
         now' \in 1..MaxClock, now =< now', requests' \in 0..MaxRequests,
         user' \in [Users -> Account],
         code' \in [Codes -> [exists : BOOLEAN, enabled : BOOLEAN, used : Nat, max : MaxUses]],
         \A u \in Users : ~Free(u) => user'[u] = user[u],
         \A c \in Codes : ~Free(c) => code'[c] = code[c]
  PROVE  Base'
<1>1. Types'
  BY DEF Base, Types
<1>2. ASSUME NEW q \in Processes
      PROVE  (Held(q) /\ Found(q))'
  <2>1. q # None
    BY Numbers
  <2> QED
    BY <2>1, FoundKept DEF Free
<1> QED
  BY <1>1, <1>2 DEF Base

(* Payment is an entry of its own. *)
LEMMA PayAdds ==
  ASSUME entries \in [Entries -> Nat], NEW e \in Entries, Pay(e)
  PROVE  /\ entries' \in [Entries -> Nat] /\ Paid' = Paid \cup {e}
         /\ entries'[e] = entries[e] + 1
         /\ \A f \in Entries \ {e} : entries'[f] = entries[f]
<1>1. /\ entries' \in [Entries -> Nat] /\ entries'[e] = entries[e] + 1
      /\ \A f \in Entries \ {e} : entries'[f] = entries[f]
  BY DEF Pay
<1>2. \A f \in Entries : f \in Paid' <=> f \in Paid \/ f = e
  BY <1>1 DEF Paid
<1> QED
  BY <1>1, <1>2 DEF Paid

LEMMA EntryTypes ==
  /\ \A u \in Users, c \in Codes : Entry("redemption_code", u, c) \in Entries
  /\ \A u \in Users, t \in 1..MaxClock : Entry("checkin", u, t) \in Entries
  /\ \A u \in Users : Entry("signup_bonus", u, None) \in Entries
BY DEF Entries

LEMMA AccountFields ==
  ASSUME NEW row \in Account
  PROVE  /\ \A t \in 0..MaxClock : [row EXCEPT !.lastCheckin = t] \in Account
         /\ [[row EXCEPT !.active = TRUE] EXCEPT !.verified = TRUE] \in Account
         /\ \A b \in BOOLEAN : /\ [row EXCEPT !.exists = b] \in Account
                               /\ [row EXCEPT !.admin = b] \in Account
                               /\ [row EXCEPT !.active = b] \in Account
                               /\ [row EXCEPT !.banned = b] \in Account
BY DEF Account

LEMMA RemovedFields ==
  ASSUME NEW row \in Account, NEW change \in Changes
  PROVE  Removed(row, change) \in Account
BY AccountFields DEF Removed, Changes

-----------------------------------------------------------------------------
(* Every step keeps Base. *)

LEMMA RedeemKeepsBase ==
  ASSUME Base, NEW p \in Processes,
         \/ \E u \in Users, c \in Codes : RedeemCheck(p, u, c)
         \/ RedeemConsume(p) \/ RedeemCredit(p) \/ RedeemRecord(p)
  PROVE  Base'
<1>0. Types /\ Held(p) /\ Found(p) /\ op[p] \in Transaction
  BY DEF Base, Types
<1>1. ASSUME NEW u \in Users, NEW c \in Codes, RedeemCheck(p, u, c)
      PROVE  Base'
  <2> DEFINE record == [NoOp EXCEPT !.at = "consume", !.user = u, !.code = c]
  <2>1. /\ record \in Transaction /\ record.at = "consume" /\ record.user = u
        /\ record.code = c /\ record.admins = {}
    BY NoOpType DEF NoOp, Transaction
  <2>2. Idle(p) /\ Request /\ Become(p, record) /\ UNCHANGED <<user, code, entries, lock, now, fixedTime>>
    BY <1>1 DEF RedeemCheck
  <2> HIDE DEF record
  <2> QED
    BY <2>1, <2>2, BeginKeeps
<1>2. CASE RedeemConsume(p)
  <2> DEFINE record == [op[p] EXCEPT !.at = "credit"]
  <2>1. op[p].at = "consume" /\ op[p].user \in Users /\ op[p].code \in Codes
    BY <1>0, <1>2 DEF RedeemConsume, Found, Idle
  <2>2. /\ record \in Transaction /\ record.at = "credit" /\ record.user = op[p].user
        /\ record.code = op[p].code /\ record.time = op[p].time
    BY <1>0 DEF Transaction
  <2>3. /\ Mine(p, op[p].code) /\ Hold(p, op[p].code) /\ Become(p, record) /\ ~Idle(p)
        /\ op[p].code \in Rows /\ code[op[p].code].used < code[op[p].code].max
        /\ UNCHANGED <<user, code, entries, now, fixedTime, requests>>
    BY <1>2, <2>1 DEF RedeemConsume, Go, Idle, Free, Mine, Rows, Consumable, Usable
  <2> HIDE DEF record
  <2> QED
    BY <2>1, <2>2, <2>3, GoKeeps
<1>3. CASE RedeemCredit(p)
  <2> DEFINE record == [op[p] EXCEPT !.at = "record"]
  <2>1. /\ op[p].at = "credit" /\ op[p].user \in Users /\ op[p].code \in Codes
        /\ lock[op[p].code] = p /\ code[op[p].code].used < code[op[p].code].max
    BY <1>0, <1>3 DEF RedeemCredit, Found, Held, Idle
  <2>2. /\ record \in Transaction /\ record.at = "record" /\ record.user = op[p].user
        /\ record.code = op[p].code /\ record.time = op[p].time
    BY <1>0 DEF Transaction
  <2>3. /\ Mine(p, op[p].user) /\ Hold(p, op[p].user) /\ Become(p, record) /\ ~Idle(p)
        /\ op[p].user \in Rows
        /\ UNCHANGED <<user, code, entries, now, fixedTime, requests>>
    BY <1>3, <2>1 DEF RedeemCredit, Go, Idle, Free, Mine, Rows
  <2> HIDE DEF record
  <2> QED
    BY <2>1, <2>2, <2>3, GoKeeps
<1>4. CASE RedeemRecord(p)
  <2>1. op[p].user \in Users /\ op[p].code \in Codes /\ lock[op[p].code] = p
    BY <1>0, <1>4 DEF RedeemRecord, Found, Held, Idle
  <2>2. /\ code' \in [Codes -> [exists : BOOLEAN, enabled : BOOLEAN, used : Nat, max : MaxUses]]
        /\ \A c \in Codes : c # op[p].code => code'[c] = code[c]
    BY <1>0, <1>4, <2>1 DEF RedeemRecord, Types
  <2>3. entries' \in [Entries -> Nat]
    BY <1>0, <1>4, <2>1, EntryTypes, PayAdds DEF RedeemRecord, Types
  <2> QED
    BY <1>0, <1>4, <2>1, <2>2, <2>3, EndKeeps DEF RedeemRecord, Types
<1> QED
  BY <1>1, <1>2, <1>3, <1>4

LEMMA CheckinKeepsBase ==
  ASSUME Base, NEW p \in Processes,
         (\E u \in Users : CheckinStart(p, u)) \/ CheckinClaim(p) \/ CheckinPay(p)
  PROVE  Base'
<1>0. Types /\ Held(p) /\ Found(p) /\ op[p] \in Transaction
  BY DEF Base, Types
<1>1. ASSUME NEW u \in Users, CheckinStart(p, u)
      PROVE  Base'
  <2> DEFINE record == [NoOp EXCEPT !.at = "claim", !.user = u, !.time = now]
  <2>1. /\ record \in Transaction /\ record.at = "claim" /\ record.user = u
        /\ record.time = now /\ record.admins = {}
    <3>1. now \in 0..MaxClock
      BY <1>0, Numbers DEF Types
    <3>2. \A t \in 0..MaxClock :
            LET r == [NoOp EXCEPT !.at = "claim", !.user = u, !.time = t]
            IN  r \in Transaction /\ r.at = "claim" /\ r.user = u /\ r.time = t /\ r.admins = {}
      BY NoOpType DEF NoOp, Transaction
    <3> QED
      BY <3>1, <3>2
  <2>2. Idle(p) /\ Request /\ Become(p, record) /\ UNCHANGED <<user, code, entries, lock, now, fixedTime>>
    BY <1>1 DEF CheckinStart
  <2> HIDE DEF record
  <2> QED
    BY <2>1, <2>2, BeginKeeps
<1>2. CASE CheckinClaim(p)
  <2> DEFINE record == [op[p] EXCEPT !.at = "pay"]
  <2>1. op[p].at = "claim" /\ op[p].user \in Users
    BY <1>0, <1>2 DEF CheckinClaim, Found, Idle
  <2>2. /\ record \in Transaction /\ record.at = "pay" /\ record.user = op[p].user
        /\ record.code = op[p].code /\ record.time = op[p].time
    BY <1>0 DEF Transaction
  <2>3. /\ Mine(p, op[p].user) /\ Hold(p, op[p].user) /\ Become(p, record) /\ ~Idle(p)
        /\ op[p].user \in Rows /\ CheckinDue(op[p].user, op[p].time)
        /\ UNCHANGED <<user, code, entries, now, fixedTime, requests>>
    BY <1>2, <2>1 DEF CheckinClaim, Go, Idle, Free, Mine, Rows
  <2> HIDE DEF record
  <2> QED
    BY <2>1, <2>2, <2>3, GoKeeps
<1>3. CASE CheckinPay(p)
  <2>0. /\ op[p].user \in Users /\ lock[op[p].user] = p
        /\ op[p].time \in 1..now /\ now \in 1..MaxClock
    BY <1>0, <1>3 DEF CheckinPay, Found, Held, Idle, Types
  <2>1. /\ op[p].user \in Users /\ lock[op[p].user] = p
        /\ op[p].time \in 1..MaxClock /\ op[p].time \in 0..MaxClock
    <3>1. \A m \in Nat : \A n \in 1..m : \A t \in 1..n : t \in 1..m /\ t \in 0..m
      OBVIOUS
    <3> QED
      BY <2>0, <3>1, Numbers
  <2>2. [user[op[p].user] EXCEPT !.lastCheckin = op[p].time] \in Account
    BY <1>0, <2>1, AccountFields DEF Types
  <2>3. /\ user' \in [Users -> Account]
        /\ \A u \in Users : u # op[p].user => user'[u] = user[u]
    BY <1>0, <1>3, <2>1, <2>2 DEF CheckinPay, Types
  <2>4. entries' \in [Entries -> Nat]
    BY <1>0, <1>3, <2>1, EntryTypes, PayAdds DEF CheckinPay, Types
  <2> QED
    BY <1>0, <1>3, <2>1, <2>3, <2>4, EndKeeps DEF CheckinPay, Types
<1> QED
  BY <1>1, <1>2, <1>3

LEMMA ActivateKeepsBase ==
  ASSUME Base, NEW p \in Processes,
         (\E u \in Users : ActivateStart(p, u)) \/ ActivateClaim(p) \/ ActivateBonus(p)
  PROVE  Base'
<1>0. Types /\ Held(p) /\ Found(p) /\ op[p] \in Transaction
  BY DEF Base, Types
<1>1. ASSUME NEW u \in Users, ActivateStart(p, u)
      PROVE  Base'
  <2> DEFINE record == [NoOp EXCEPT !.at = "activate", !.user = u]
  <2>1. /\ record \in Transaction /\ record.at = "activate" /\ record.user = u
        /\ record.admins = {}
    BY NoOpType DEF NoOp, Transaction
  <2>2. Idle(p) /\ Request /\ Become(p, record) /\ UNCHANGED <<user, code, entries, lock, now, fixedTime>>
    BY <1>1 DEF ActivateStart
  <2> HIDE DEF record
  <2> QED
    BY <2>1, <2>2, BeginKeeps
<1>2. CASE ActivateClaim(p)
  <2> DEFINE record == [op[p] EXCEPT !.at = "bonus"]
  <2>1. op[p].at = "activate" /\ op[p].user \in Users
    BY <1>0, <1>2 DEF ActivateClaim, Found, Idle
  <2>2. /\ record \in Transaction /\ record.at = "bonus" /\ record.user = op[p].user
        /\ record.code = op[p].code /\ record.time = op[p].time
    BY <1>0 DEF Transaction
  <2>3. /\ Mine(p, op[p].user) /\ Hold(p, op[p].user) /\ Become(p, record) /\ ~Idle(p)
        /\ op[p].user \in Rows /\ ~user[op[p].user].verified
        /\ UNCHANGED <<user, code, entries, now, fixedTime, requests>>
    BY <1>2, <2>1 DEF ActivateClaim, Go, Idle, Free, Mine, Rows, Activatable
  <2> HIDE DEF record
  <2> QED
    BY <2>1, <2>2, <2>3, GoKeeps
<1>3. CASE ActivateBonus(p)
  <2>1. op[p].user \in Users /\ lock[op[p].user] = p
    BY <1>0, <1>3 DEF ActivateBonus, Found, Held, Idle
  <2>2. [[user[op[p].user] EXCEPT !.active = TRUE] EXCEPT !.verified = TRUE] \in Account
    BY <1>0, <2>1, AccountFields DEF Types
  <2>3. /\ user' \in [Users -> Account]
        /\ \A u \in Users : u # op[p].user => user'[u] = user[u]
    BY <1>0, <1>3, <2>1, <2>2 DEF ActivateBonus, Types
  <2>4. entries' \in [Entries -> Nat]
    BY <1>0, <1>3, <2>1, EntryTypes, PayAdds DEF ActivateBonus, Types
  <2> QED
    BY <1>0, <1>3, <2>1, <2>3, <2>4, EndKeeps DEF ActivateBonus, Types
<1> QED
  BY <1>1, <1>2, <1>3

(* The rows that another transaction has counted are locked by it.         *)
LEMMA RemovalKeepsBase ==
  ASSUME Base, NEW p \in Processes,
         \/ \E u \in Users, change \in Changes : RemovalStart(p, u, change)
         \/ RemovalLock(p) \/ RemovalLockTarget(p) \/ Remove(p)
  PROVE  Base'
<1>0. Types /\ Held(p) /\ Found(p) /\ op[p] \in Transaction
  BY DEF Base, Types
<1>1. ASSUME NEW u \in Users, NEW change \in Changes, RemovalStart(p, u, change)
      PROVE  Base'
  <2> DEFINE available == {v \in Users : Available(v)}
             record == [NoOp EXCEPT !.at = "admins", !.user = u, !.change = change,
                                    !.toLock = available]
  <2>1. \A S \in SUBSET Users :
          LET r == [NoOp EXCEPT !.at = "admins", !.user = u, !.change = change, !.toLock = S]
          IN  /\ r \in Transaction /\ r.at = "admins" /\ r.user = u
              /\ r.admins = {} /\ r.change = change
    BY NoOpType DEF NoOp, Transaction
  <2>2. record \in Transaction /\ record.at = "admins" /\ record.user = u
        /\ record.admins = {} /\ record.change = change
    BY <2>1
  <2>3. Idle(p) /\ Request /\ Become(p, record) /\ UNCHANGED <<user, code, entries, lock, now, fixedTime>>
    BY <1>1 DEF RemovalStart
  <2> HIDE DEF record
  <2> QED
    BY <2>2, <2>3, BeginKeeps
<1>2. CASE RemovalLock(p)
  <2>1. /\ op[p].at = "admins" /\ op[p].toLock # {} /\ op[p].toLock \subseteq Users
        /\ op[p].admins \subseteq Users /\ op[p].user \in Users
    BY <1>0, <1>2 DEF RemovalLock, Found, Idle, Transaction
  <2> DEFINE v == Lowest(op[p].toLock)
             admins == IF StillAvailable(v) THEN op[p].admins \cup {v} ELSE op[p].admins
             record == [op[p] EXCEPT !.toLock = @ \ {v}, !.admins = admins]
  <2>2. v \in Users
    <3>1. \E u \in op[p].toLock : \A w \in op[p].toLock : u =< w
      BY <2>1, LowestExists
    <3> QED
      BY <2>1, <3>1 DEF Lowest
  <2>3. Mine(p, v) /\ Hold(p, v) /\ Become(p, record) /\ UNCHANGED <<user, code, entries, now, fixedTime, requests>>
    BY <1>2 DEF RemovalLock
  <2>4. v \in Rows /\ ~Idle(p)
    BY <2>1, <2>2 DEF Rows, Idle
  <2>5. admins \subseteq Users /\ \A w \in admins : (lock[w] = p \/ w = v) /\ Available(w)
    BY <1>0, <2>1, <2>2 DEF Found, StillAvailable
  <2> HIDE DEF v, admins
  <2>6. /\ record \in Transaction /\ record.at = "admins" /\ record.user = op[p].user
        /\ record.code = op[p].code /\ record.time = op[p].time /\ record.admins = admins
        /\ record.change = op[p].change
    <3>1. \A S, T \in SUBSET Users :
            LET r == [op[p] EXCEPT !.toLock = S, !.admins = T]
            IN  /\ r \in Transaction /\ r.at = op[p].at /\ r.user = op[p].user
                /\ r.code = op[p].code /\ r.time = op[p].time /\ r.admins = T
                /\ r.change = op[p].change
      BY <1>0 DEF Transaction
    <3>2. op[p].toLock \ {v} \in SUBSET Users /\ admins \in SUBSET Users
      BY <2>1, <2>5
    <3> QED
      BY <2>1, <3>1, <3>2
  <2> HIDE DEF record
  <2> QED
    BY <2>1, <2>3, <2>4, <2>5, <2>6, GoKeeps
<1>3. CASE RemovalLockTarget(p)
  <2> DEFINE record == [op[p] EXCEPT !.at = "remove"]
  <2>1. op[p].at = "admins" /\ op[p].user \in Users
    BY <1>0, <1>3 DEF RemovalLockTarget, Found, Idle
  <2>2. /\ record \in Transaction /\ record.at = "remove" /\ record.user = op[p].user
        /\ record.code = op[p].code /\ record.time = op[p].time /\ record.admins = op[p].admins
        /\ record.change = op[p].change
    BY <1>0 DEF Transaction
  <2>3. /\ Mine(p, op[p].user) /\ Hold(p, op[p].user) /\ Become(p, record) /\ ~Idle(p)
        /\ op[p].user \in Rows
        /\ UNCHANGED <<user, code, entries, now, fixedTime, requests>>
    BY <1>3, <2>1 DEF RemovalLockTarget, Go, Idle, Rows
  <2>4. \A v \in op[p].admins : lock[v] = p /\ Available(v)
    BY <1>0, <2>1 DEF Found
  <2> HIDE DEF record
  <2> QED
    BY <2>1, <2>2, <2>3, <2>4, GoKeeps
<1>4. CASE Remove(p)
  <2>1. op[p].user \in Users /\ lock[op[p].user] = p /\ op[p].change \in Changes
    BY <1>0, <1>4 DEF Remove, Found, Held, Idle
  <2>2. user' = [user EXCEPT ![op[p].user] = Removed(user[op[p].user], op[p].change)]
    BY <1>4 DEF Remove
  <2>3. Removed(user[op[p].user], op[p].change) \in Account
    BY <1>0, <2>1, RemovedFields DEF Types
  <2>4. /\ user' \in [Users -> Account]
        /\ \A u \in Users : u # op[p].user => user'[u] = user[u]
    BY <1>0, <2>1, <2>2, <2>3 DEF Types
  <2> QED
    BY <1>0, <1>4, <2>1, <2>4, EndKeeps DEF Remove, Types
<1> QED
  BY <1>1, <1>2, <1>3, <1>4

(* Single statements and the clock. *)
LEMMA StatementsKeepBase ==
  ASSUME Base,
         \/ \E c \in Codes : ToggleCode(c) \/ RemoveCode(c)
         \/ \E u \in Users : RollbackRegistration(u) \/ GiveAccess(u)
         \/ Tick
  PROVE  Base'
<1>0. Types
  BY DEF Base
<1>1. Request => requests' \in 0..MaxRequests
  BY <1>0, Numbers DEF Request, Types
<1>2. ASSUME NEW c \in Codes, ToggleCode(c) \/ RemoveCode(c)
      PROVE  Base'
  <2>1. code' \in [Codes -> [exists : BOOLEAN, enabled : BOOLEAN, used : Nat, max : MaxUses]]
    <3>1. /\ [code[c] EXCEPT !.exists = FALSE] \in CodeRow
          /\ [code[c] EXCEPT !.enabled = ~code[c].enabled] \in CodeRow
      BY <1>0 DEF Types, CodeRow
    <3> QED
      BY <1>0, <1>2, <3>1 DEF ToggleCode, RemoveCode, Types, CodeRow
  <2>2. \A d \in Codes : ~Free(d) => code'[d] = code[d]
    BY <1>0, <1>2 DEF ToggleCode, RemoveCode, Types
  <2>3. Request /\ UNCHANGED <<user, entries, lock, op, now, fixedTime>>
    BY <1>2 DEF ToggleCode, RemoveCode
  <2> QED
    BY <1>0, <1>1, <2>1, <2>2, <2>3, StatementKeeps DEF Types
<1>3. ASSUME NEW u \in Users, RollbackRegistration(u) \/ GiveAccess(u)
      PROVE  Base'
  <2>1. PICK row \in Account : user' = [user EXCEPT ![u] = row]
    <3>1. user[u] \in Account
      BY <1>0 DEF Types
    <3> QED
      BY <1>3, <3>1, AccountFields DEF RollbackRegistration, GiveAccess
  <2>2. Free(u) /\ Request /\ UNCHANGED <<code, entries, lock, op, now, fixedTime>>
    BY <1>3 DEF RollbackRegistration, GiveAccess
  <2>3. user' \in [Users -> Account] /\ \A v \in Users : ~Free(v) => user'[v] = user[v]
    BY <1>0, <2>1, <2>2 DEF Types
  <2> QED
    BY <1>0, <1>1, <2>2, <2>3, StatementKeeps DEF Types
<1>4. CASE Tick
  <2>1. now' \in 1..MaxClock /\ now =< now'
    BY <1>0, <1>4, Numbers DEF Tick, Types
  <2> QED
    BY <1>0, <1>4, <2>1, StatementKeeps DEF Tick, Types
<1> QED
  BY <1>2, <1>3, <1>4

LEMMA NextKeepsBase == Base /\ [Next]_vars => Base'
<1> SUFFICES ASSUME Base, [Next]_vars
             PROVE  Base'
  OBVIOUS
<1>1. CASE UNCHANGED vars
  BY <1>1, StatementKeeps, Numbers DEF Base, Types, vars
<1>2. ASSUME NEW p \in Processes, Rollback(p)
      PROVE  Base'
  BY <1>2, RollbackKeeps
<1>3. CASE \E p \in Processes : \/ RedeemUsedUp(p) \/ RedeemUserGone(p) \/ RedeemDuplicate(p)
                                \/ CheckinRefused(p) \/ ActivateRepeated(p)
                                \/ RemovalTargetGone(p) \/ RemovalRefused(p) \/ Abort(p)
  BY <1>2, <1>3 DEF RedeemUsedUp, RedeemUserGone, RedeemDuplicate, CheckinRefused,
                    ActivateRepeated, RemovalTargetGone, RemovalRefused, Abort
<1> QED
  BY <1>1, <1>3, RedeemKeepsBase, CheckinKeepsBase, ActivateKeepsBase, RemovalKeepsBase,
     StatementsKeepBase, Zenon DEF Next

LEMMA InitBase == Init => Base /\ Records /\ PaidOnce /\ CheckinsSpaced /\ AdminRemains
<1> SUFFICES ASSUME Init
             PROVE  Base /\ Records /\ PaidOnce /\ CheckinsSpaced /\ AdminRemains
  OBVIOUS
<1>1. user \in [Users -> Account]
  BY Numbers DEF Init, Account
<1>2. code \in [Codes -> CodeRow] /\ \A c \in Codes : code[c].used = 0
  <2>1. PICK max \in [Codes -> MaxUses] :
          code = [c \in Codes |-> [exists |-> TRUE, enabled |-> TRUE, used |-> 0, max |-> max[c]]]
    BY DEF Init
  <2> QED
    BY <2>1 DEF CodeRow
<1>3. Types
  BY <1>1, <1>2, NoOpType, Numbers, AccountsAssumption DEF Init, Types, CodeRow
<1>4. \A p \in Processes : Held(p) /\ Found(p)
  BY Numbers DEF Init, Held, Found, Idle, NoOp
<1>5. Paid = {}
  BY DEF Init, Paid
<1>6. PaidOnce
  <2>1. ASSUME NEW c \in Codes
        PROVE  {u \in Users : Redeemed(u, c)} = {}
    BY <1>5 DEF Redeemed
  <2>2. \A c \in Codes : code[c].used = Cardinality({u \in Users : Redeemed(u, c)})
    BY <1>2, <2>1, FS_EmptySet
  <2>3. \A c \in Codes : code[c].used =< code[c].max
    <3>1. \A c \in Codes : code[c].max \in MaxUses
      BY <1>2 DEF CodeRow
    <3>2. \A n \in MaxUses : 0 =< n
      BY Numbers
    <3> QED
      BY <1>2, <3>1, <3>2
  <2>4. \A e \in Entries : entries[e] =< 1
    BY DEF Init
  <2> QED
    BY <2>2, <2>3, <2>4 DEF PaidOnce
<1>7. Records /\ CheckinsSpaced
  BY <1>5 DEF Records, CheckinsSpaced
<1>8. AdminRemains
  BY AccountsAssumption DEF Init, AdminRemains, Available
<1> QED
  BY <1>3, <1>4, <1>6, <1>7, <1>8 DEF Base

(* The steps that pay, and what is true when they do. *)
PaysCheckin(p) ==
  CheckinPay(p) /\ CheckinDue(op[p].user, op[p].time)
PaysBonus(p) ==
  ActivateBonus(p) /\ ~user[op[p].user].verified
PaysCode(p) ==
  RedeemRecord(p) /\ code[op[p].code].used < code[op[p].code].max

LEMMA PayingSteps ==
  ASSUME Base, [Next]_vars
  PROVE  \/ /\ entries' = entries /\ fixedTime' = fixedTime
            /\ \A u \in Users : user'[u].lastCheckin = user[u].lastCheckin
                                /\ user'[u].verified = user[u].verified
            /\ \A c \in Codes : code'[c].used = code[c].used /\ code'[c].max = code[c].max
         \/ \E p \in Processes : /\ op[p].user \in Users
                                 /\ \/ PaysCheckin(p) /\ op[p].time \in 1..MaxClock
                                    \/ PaysBonus(p)
                                    \/ PaysCode(p) /\ op[p].code \in Codes
<1> DEFINE Quiet == /\ entries' = entries /\ fixedTime' = fixedTime
                    /\ \A u \in Users : user'[u].lastCheckin = user[u].lastCheckin
                                        /\ user'[u].verified = user[u].verified
                    /\ \A c \in Codes : code'[c].used = code[c].used /\ code'[c].max = code[c].max
<1>0. Types /\ \A p \in Processes : Found(p)
  BY DEF Base
<1>1. (UNCHANGED <<user, code, entries, fixedTime>>) => Quiet
  OBVIOUS
<1>2. CASE UNCHANGED vars
  BY <1>1, <1>2 DEF vars
<1>3. CASE \E p \in Processes : CheckinPay(p)
  <2>1. PICK p \in Processes : CheckinPay(p)
    BY <1>3
  <2>2. op[p].user \in Users /\ CheckinDue(op[p].user, op[p].time) /\ op[p].time \in 1..now
    BY <1>0, <2>1 DEF CheckinPay, Found, Idle
  <2>3. op[p].time \in 1..MaxClock
    BY <1>0, <2>2, Numbers DEF Types
  <2> QED
    BY <2>1, <2>2, <2>3 DEF PaysCheckin
<1>4. CASE \E p \in Processes : ActivateBonus(p)
  BY <1>0, <1>4 DEF ActivateBonus, PaysBonus, Found, Idle
<1>5. CASE \E p \in Processes : RedeemRecord(p)
  BY <1>0, <1>5 DEF RedeemRecord, PaysCode, Found, Idle
<1>6. CASE \E p \in Processes : Remove(p)
  <2>1. PICK p \in Processes : Remove(p)
    BY <1>6
  <2>2. op[p].user \in Users /\ op[p].change \in Changes
    BY <1>0, <2>1 DEF Remove, Found, Idle
  <2>3. user[op[p].user] \in Account
    BY <1>0, <2>2 DEF Types
  <2>4. /\ Removed(user[op[p].user], op[p].change).lastCheckin = user[op[p].user].lastCheckin
        /\ Removed(user[op[p].user], op[p].change).verified = user[op[p].user].verified
    BY <2>2, <2>3 DEF Removed, Changes, Account
  <2>5. user' = [user EXCEPT ![op[p].user] = Removed(user[op[p].user], op[p].change)]
    BY <2>1 DEF Remove
  <2>6. \A u \in Users : user'[u].lastCheckin = user[u].lastCheckin
                         /\ user'[u].verified = user[u].verified
    BY <1>0, <2>2, <2>4, <2>5 DEF Types
  <2> QED
    BY <2>1, <2>6 DEF Remove
<1>7. CASE \E u \in Users : RollbackRegistration(u) \/ GiveAccess(u)
  <2>1. PICK u \in Users : RollbackRegistration(u) \/ GiveAccess(u)
    BY <1>7
  <2>2. user[u] \in Account
    BY <1>0 DEF Types
  <2>3. PICK row \in Account : /\ user' = [user EXCEPT ![u] = row]
                               /\ row.lastCheckin = user[u].lastCheckin
                               /\ row.verified = user[u].verified
    <3>1. \A b \in BOOLEAN :
            /\ [user[u] EXCEPT !.exists = b].lastCheckin = user[u].lastCheckin
            /\ [user[u] EXCEPT !.exists = b].verified = user[u].verified
            /\ [user[u] EXCEPT !.admin = b].lastCheckin = user[u].lastCheckin
            /\ [user[u] EXCEPT !.admin = b].verified = user[u].verified
            /\ [user[u] EXCEPT !.active = b].lastCheckin = user[u].lastCheckin
            /\ [user[u] EXCEPT !.active = b].verified = user[u].verified
            /\ [user[u] EXCEPT !.banned = b].lastCheckin = user[u].lastCheckin
            /\ [user[u] EXCEPT !.banned = b].verified = user[u].verified
      BY <2>2 DEF Account
    <3> QED
      BY <2>1, <2>2, <3>1, AccountFields DEF RollbackRegistration, GiveAccess
  <2>4. \A v \in Users : user'[v].lastCheckin = user[v].lastCheckin
                         /\ user'[v].verified = user[v].verified
    BY <1>0, <2>3 DEF Types
  <2> QED
    BY <2>1, <2>4 DEF RollbackRegistration, GiveAccess
<1>8. CASE \E c \in Codes : ToggleCode(c) \/ RemoveCode(c)
  <2>1. PICK c \in Codes : ToggleCode(c) \/ RemoveCode(c)
    BY <1>8
  <2>2. code[c] \in CodeRow
    BY <1>0 DEF Types, CodeRow
  <2>3. /\ [code[c] EXCEPT !.exists = FALSE].used = code[c].used
        /\ [code[c] EXCEPT !.exists = FALSE].max = code[c].max
        /\ [code[c] EXCEPT !.enabled = ~code[c].enabled].used = code[c].used
        /\ [code[c] EXCEPT !.enabled = ~code[c].enabled].max = code[c].max
    BY <2>2 DEF CodeRow
  <2>4. \A d \in Codes : code'[d].used = code[d].used /\ code'[d].max = code[d].max
    BY <1>0, <2>1, <2>3 DEF ToggleCode, RemoveCode, Types
  <2> QED
    BY <2>1, <2>4 DEF ToggleCode, RemoveCode
<1>9. CASE \/ \E p \in Processes, u \in Users, c \in Codes : RedeemCheck(p, u, c)
           \/ \E p \in Processes : \/ RedeemConsume(p) \/ RedeemUsedUp(p) \/ RedeemCredit(p)
                                   \/ RedeemUserGone(p) \/ RedeemDuplicate(p)
           \/ \E p \in Processes, u \in Users : CheckinStart(p, u) \/ ActivateStart(p, u)
           \/ \E p \in Processes : \/ CheckinClaim(p) \/ CheckinRefused(p)
                                   \/ ActivateClaim(p) \/ ActivateRepeated(p)
           \/ \E p \in Processes, u \in Users, change \in Changes : RemovalStart(p, u, change)
           \/ \E p \in Processes : \/ RemovalLock(p) \/ RemovalLockTarget(p)
                                   \/ RemovalTargetGone(p) \/ RemovalRefused(p) \/ Abort(p)
           \/ Tick
  BY <1>1, <1>9 DEF RedeemCheck, RedeemConsume, RedeemUsedUp, RedeemCredit, RedeemUserGone,
       RedeemDuplicate, CheckinStart, CheckinClaim, CheckinRefused, ActivateStart, ActivateClaim,
       ActivateRepeated, RemovalStart, RemovalLock, RemovalLockTarget, RemovalTargetGone,
       RemovalRefused, Abort, Rollback, Tick
<1> HIDE DEF Quiet
<1> QED
  BY <1>2, <1>3, <1>4, <1>5, <1>6, <1>7, <1>8, <1>9, Zenon DEF Next, Quiet

-----------------------------------------------------------------------------
LEMMA EntriesDiffer ==
  /\ \A u, v \in Users, c, d \in Codes :
       Entry("redemption_code", u, c) = Entry("redemption_code", v, d) => u = v /\ c = d
  /\ \A u, v \in Users, s, t \in 1..MaxClock :
       Entry("checkin", u, s) = Entry("checkin", v, t) => u = v /\ s = t
  /\ \A u, v \in Users : Entry("signup_bonus", u, None) = Entry("signup_bonus", v, None) => u = v
  /\ \A u, v \in Users, c \in Codes, t \in 1..MaxClock :
       Entry("redemption_code", u, c) # Entry("checkin", v, t)
  /\ \A u, v \in Users, c \in Codes :
       Entry("redemption_code", u, c) # Entry("signup_bonus", v, None)
  /\ \A u, v \in Users, t \in 1..MaxClock :
       Entry("checkin", u, t) # Entry("signup_bonus", v, None)
BY DEF Entry

(* A check-in that is due has not been paid yet. *)
LEMMA DueIsUnpaid ==
  ASSUME Base, Records, NEW u \in Users, NEW t \in 1..MaxClock, CheckinDue(u, t)
  PROVE  /\ \A s \in 1..MaxClock : Entry("checkin", u, s) \in Paid => s < Cutoff(t)
         /\ Entry("checkin", u, t) \notin Paid
         /\ user[u].lastCheckin =< t
<1>1. user[u].lastCheckin \in Nat /\ fixedTime \in BOOLEAN
  BY Numbers DEF Base, Types, Account
<1>2. t \in Nat /\ t > 0
  BY Numbers
<1>3. Cutoff(t) \in Int /\ Cutoff(t) =< t
  BY <1>1, <1>2, CutoffBelow
<1>4. \A s \in 1..MaxClock : Entry("checkin", u, s) \in Paid => s =< user[u].lastCheckin
  BY DEF Records
<1>5. user[u].lastCheckin = 0 \/ user[u].lastCheckin < Cutoff(t)
  BY DEF CheckinDue
<1>6. ASSUME NEW s \in 1..MaxClock, Entry("checkin", u, s) \in Paid
      PROVE  s < Cutoff(t)
  <2>1. s \in Int /\ s >= 1
    BY Numbers
  <2> QED
    BY <1>1, <1>3, <1>4, <1>5, <1>6, <2>1
<1> QED
  BY <1>1, <1>2, <1>3, <1>5, <1>6

LEMMA UnpaidIsZero ==
  ASSUME entries \in [Entries -> Nat], NEW e \in Entries, e \notin Paid
  PROVE  entries[e] = 0
BY DEF Paid

LEMMA NextKeepsRecords ==
  Base /\ Records /\ PaidOnce /\ CheckinsSpaced /\ [Next]_vars
  => (Records /\ PaidOnce /\ CheckinsSpaced)'
<1> SUFFICES ASSUME Base, Records, PaidOnce, CheckinsSpaced, [Next]_vars
             PROVE  (Records /\ PaidOnce /\ CheckinsSpaced)'
  OBVIOUS
<1>0. Types
  BY DEF Base
<1>1. CASE /\ entries' = entries /\ fixedTime' = fixedTime
           /\ \A u \in Users : user'[u].lastCheckin = user[u].lastCheckin
                               /\ user'[u].verified = user[u].verified
           /\ \A c \in Codes : code'[c].used = code[c].used /\ code'[c].max = code[c].max
  <2>1. Paid' = Paid
    BY <1>1 DEF Paid
  <2>2. Records'
    BY <1>1, <2>1 DEF Records
  <2>3. \A c \in Codes : {u \in Users : Redeemed(u, c)'} = {u \in Users : Redeemed(u, c)}
    BY <2>1 DEF Redeemed
  <2>4. PaidOnce'
    BY <1>1, <2>3 DEF PaidOnce
  <2>5. CheckinsSpaced'
    BY <1>1, <2>1 DEF CheckinsSpaced, Cutoff
  <2> QED
    BY <2>2, <2>4, <2>5
<1>2. ASSUME NEW p \in Processes, NEW u \in Users, u = op[p].user, PaysCheckin(p),
             NEW t \in 1..MaxClock, t = op[p].time
      PROVE  (Records /\ PaidOnce /\ CheckinsSpaced)'
  <2> DEFINE e == Entry("checkin", u, t)
  <2>1. /\ u \in Users /\ t \in 1..MaxClock /\ e \in Entries /\ CheckinDue(u, t) /\ Pay(e)
        /\ code' = code /\ fixedTime' = fixedTime
        /\ user' = [user EXCEPT ![u].lastCheckin = t]
    BY <1>2, EntryTypes DEF PaysCheckin, CheckinPay
  <2>2. /\ \A s \in 1..MaxClock : Entry("checkin", u, s) \in Paid => s < Cutoff(t)
        /\ e \notin Paid /\ user[u].lastCheckin =< t
    BY <2>1, DueIsUnpaid
  <2>3. /\ Paid' = Paid \cup {e} /\ entries'[e] = entries[e] + 1
        /\ \A f \in Entries \ {e} : entries'[f] = entries[f]
    BY <1>0, <2>1, PayAdds DEF Types
  <2>4. entries[e] = 0
    BY <1>0, <2>1, <2>2, UnpaidIsZero DEF Types
  <2>5. /\ user'[u].lastCheckin = t /\ \A v \in Users : user'[v].verified = user[v].verified
        /\ \A v \in Users \ {u} : user'[v] = user[v]
    BY <1>0, <2>1 DEF Types, Account
  <2>6. \A v \in Users, s \in 1..MaxClock : e = Entry("checkin", v, s) => v = u /\ s = t
    BY <2>1, EntriesDiffer
  <2>7. /\ \A v \in Users, c \in Codes : e # Entry("redemption_code", v, c)
        /\ \A v \in Users : e # Entry("signup_bonus", v, None)
    BY <2>1, EntriesDiffer
  <2>8. user[u].lastCheckin \in Nat /\ t \in Nat /\ Cutoff(t) \in Int /\ Cutoff(t) =< t
    BY <1>0, <2>1, Numbers, CutoffBelow DEF Types, Account
  <2> HIDE DEF e
  <2>9. Records'
    <3>1. \A v \in Users : Entry("signup_bonus", v, None) \in Paid' => user'[v].verified
      BY <2>3, <2>5, <2>7 DEF Records
    <3>2. ASSUME NEW v \in Users, NEW s \in 1..MaxClock, Entry("checkin", v, s) \in Paid'
          PROVE  s =< user'[v].lastCheckin
      <4>1. CASE Entry("checkin", v, s) = e
        BY <2>5, <2>6, <2>8, <4>1
      <4>2. CASE v # u
        BY <2>3, <2>5, <2>6, <3>2, <4>2 DEF Records
      <4>3. CASE v = u /\ Entry("checkin", v, s) # e
        <5>1. s < Cutoff(t) /\ s \in Int
          BY <2>2, <2>3, <3>2, <4>3
        <5> QED
          BY <2>5, <2>8, <4>3, <5>1
      <4> QED
        BY <4>1, <4>2, <4>3
    <3> QED
      BY <3>1, <3>2 DEF Records
  <2>10. PaidOnce'
    <3>1. \A f \in Entries : entries'[f] =< 1
      BY <1>0, <2>3, <2>4 DEF PaidOnce, Types
    <3>2. \A c \in Codes : {v \in Users : Redeemed(v, c)'} = {v \in Users : Redeemed(v, c)}
      BY <2>3, <2>7 DEF Redeemed
    <3> QED
      BY <2>1, <3>1, <3>2 DEF PaidOnce
  <2>11. CheckinsSpaced'
    <3> SUFFICES ASSUME NEW v \in Users, NEW s \in 1..MaxClock, NEW x \in 1..MaxClock, s < x,
                        Entry("checkin", v, s) \in Paid', Entry("checkin", v, x) \in Paid'
                 PROVE  s < Cutoff(x)'
      BY DEF CheckinsSpaced
    <3>1. Cutoff(x)' = Cutoff(x)
      BY <2>1 DEF Cutoff
    <3>2. CASE Entry("checkin", v, s) # e /\ Entry("checkin", v, x) # e
      BY <2>3, <3>1, <3>2 DEF CheckinsSpaced
    <3>3. CASE Entry("checkin", v, x) = e /\ Entry("checkin", v, s) # e
      BY <2>2, <2>3, <2>6, <3>1, <3>3
    <3>4. CASE Entry("checkin", v, s) = e
      <4>1. v = u /\ s = t /\ Entry("checkin", v, x) # e
        BY <2>6, <3>4
      <4>2. x < Cutoff(t)
        BY <2>2, <2>3, <4>1
      <4> QED
        BY <2>8, <4>1, <4>2
    <3> QED
      BY <3>2, <3>3, <3>4
  <2> QED
    BY <2>9, <2>10, <2>11
<1>3. ASSUME NEW p \in Processes, NEW u \in Users, u = op[p].user, PaysBonus(p)
      PROVE  (Records /\ PaidOnce /\ CheckinsSpaced)'
  <2> DEFINE e == Entry("signup_bonus", u, None)
  <2>1. /\ u \in Users /\ e \in Entries /\ Pay(e) /\ ~user[u].verified
        /\ code' = code /\ fixedTime' = fixedTime
        /\ user' = [user EXCEPT ![u].active = TRUE, ![u].verified = TRUE]
    BY <1>3, EntryTypes DEF PaysBonus, ActivateBonus
  <2>2. e \notin Paid
    BY <2>1 DEF Records
  <2>3. /\ Paid' = Paid \cup {e} /\ entries'[e] = entries[e] + 1
        /\ \A f \in Entries \ {e} : entries'[f] = entries[f]
    BY <1>0, <2>1, PayAdds DEF Types
  <2>4. entries[e] = 0
    BY <1>0, <2>1, <2>2, UnpaidIsZero DEF Types
  <2>5. /\ user'[u].verified /\ \A v \in Users \ {u} : user'[v] = user[v]
        /\ \A v \in Users : user'[v].lastCheckin = user[v].lastCheckin
    BY <1>0, <2>1 DEF Types, Account
  <2>6. /\ \A v \in Users, s \in 1..MaxClock : e # Entry("checkin", v, s)
        /\ \A v \in Users, c \in Codes : e # Entry("redemption_code", v, c)
        /\ \A v \in Users : e = Entry("signup_bonus", v, None) => v = u
    BY <2>1, EntriesDiffer
  <2> HIDE DEF e
  <2>7. Records'
    BY <2>3, <2>5, <2>6 DEF Records
  <2>8. PaidOnce'
    <3>1. \A f \in Entries : entries'[f] =< 1
      BY <1>0, <2>3, <2>4 DEF PaidOnce, Types
    <3>2. \A c \in Codes : {v \in Users : Redeemed(v, c)'} = {v \in Users : Redeemed(v, c)}
      BY <2>3, <2>6 DEF Redeemed
    <3> QED
      BY <2>1, <3>1, <3>2 DEF PaidOnce
  <2>9. CheckinsSpaced'
    BY <2>1, <2>3, <2>6 DEF CheckinsSpaced, Cutoff
  <2> QED
    BY <2>7, <2>8, <2>9
<1>4. ASSUME NEW p \in Processes, NEW u \in Users, u = op[p].user, PaysCode(p),
             NEW c \in Codes, c = op[p].code
      PROVE  (Records /\ PaidOnce /\ CheckinsSpaced)'
  <2> DEFINE e == Entry("redemption_code", u, c)
  <2>1. /\ u \in Users /\ c \in Codes /\ e \in Entries /\ Pay(e) /\ e \notin Paid
        /\ code[c].used < code[c].max
        /\ user' = user /\ fixedTime' = fixedTime
        /\ code' = [code EXCEPT ![c].used = @ + 1]
    BY <1>4, EntryTypes DEF PaysCode, RedeemRecord, Redeemed
  <2>2. /\ Paid' = Paid \cup {e} /\ entries'[e] = entries[e] + 1
        /\ \A f \in Entries \ {e} : entries'[f] = entries[f]
    BY <1>0, <2>1, PayAdds DEF Types
  <2>3. entries[e] = 0
    BY <1>0, <2>1, UnpaidIsZero DEF Types
  <2>4. /\ code[c].used \in Nat /\ code[c].max \in Nat
        /\ code'[c].used = code[c].used + 1 /\ code'[c].max = code[c].max
        /\ \A d \in Codes \ {c} : code'[d] = code[d]
    <3>1. code[c].used \in Nat /\ code[c].max \in MaxUses
      BY <1>0, <2>1 DEF Types
    <3> QED
      BY <1>0, <2>1, <3>1, Numbers DEF Types
  <2>5. /\ \A v \in Users, s \in 1..MaxClock : e # Entry("checkin", v, s)
        /\ \A v \in Users : e # Entry("signup_bonus", v, None)
        /\ \A v \in Users, d \in Codes : e = Entry("redemption_code", v, d) <=> v = u /\ d = c
    BY <2>1, EntriesDiffer
  <2> HIDE DEF e
  <2>6. Records' /\ CheckinsSpaced'
    BY <2>1, <2>2, <2>5 DEF Records, CheckinsSpaced, Cutoff
  <2>7. PaidOnce'
    <3>1. \A f \in Entries : entries'[f] =< 1
      BY <1>0, <2>2, <2>3 DEF PaidOnce, Types
    <3>2. \A d \in Codes \ {c} : {v \in Users : Redeemed(v, d)'} = {v \in Users : Redeemed(v, d)}
      BY <2>2, <2>5 DEF Redeemed
    <3>3. /\ {v \in Users : Redeemed(v, c)'} = {v \in Users : Redeemed(v, c)} \cup {u}
          /\ u \notin {v \in Users : Redeemed(v, c)}
      <4>1. Redeemed(u, c)' /\ ~Redeemed(u, c)
        BY <2>1, <2>2, <2>5 DEF Redeemed
      <4>2. \A v \in Users \ {u} : Redeemed(v, c)' <=> Redeemed(v, c)
        BY <2>1, <2>2, <2>5 DEF Redeemed
      <4> QED
        BY <2>1, <4>1, <4>2
    <3>4. IsFiniteSet({v \in Users : Redeemed(v, c)})
      BY AccountsAssumption, FS_Subset, {v \in Users : Redeemed(v, c)} \subseteq Users
    <3>5. Cardinality({v \in Users : Redeemed(v, c)'})
            = Cardinality({v \in Users : Redeemed(v, c)}) + 1
      BY <3>3, <3>4, FS_AddElement
    <3>6. code'[c].used = Cardinality({v \in Users : Redeemed(v, c)'}) /\ code'[c].used =< code'[c].max
      BY <2>1, <2>4, <3>5 DEF PaidOnce
    <3>7. \A d \in Codes \ {c} : /\ code'[d].used = Cardinality({v \in Users : Redeemed(v, d)'})
                                 /\ code'[d].used =< code'[d].max
      BY <2>4, <3>2 DEF PaidOnce
    <3> QED
      BY <3>1, <3>6, <3>7 DEF PaidOnce
  <2> QED
    BY <2>6, <2>7
<1> QED
  BY <1>1, <1>2, <1>3, <1>4, PayingSteps

-----------------------------------------------------------------------------
(* Access is taken away only by Remove and, from an account that was never *)
(* active, by RollbackRegistration.                                        *)
LEMMA OneRemains ==
  ASSUME Base, AdminRemains, NEW p \in Processes, Remove(p)
  PROVE  AdminRemains'
<1>0. Types /\ Found(p) /\ op[p] \in Transaction
  BY DEF Base, Types
<1>1. op[p].user \in Users /\ Removable(p) /\ \A v \in op[p].admins : v \in Users /\ Available(v)
  BY <1>0 DEF Remove, Found, Idle, Transaction
<1>2. \A v \in Users : v # op[p].user => user'[v] = user[v]
  BY <1>0, <1>1 DEF Remove, Types
<1>3. \A v \in Users : v # op[p].user /\ Available(v) => Available(v)'
  BY <1>2 DEF Available
<1>4. \E v \in Users : v # op[p].user /\ Available(v)
  <2>1. CASE ~Available(op[p].user)
    BY <2>1 DEF AdminRemains
  <2>2. CASE Cardinality(op[p].admins) > 1
    <3> SUFFICES ASSUME op[p].admins \subseteq {op[p].user}
                 PROVE  FALSE
      BY <1>1
    <3>1. /\ IsFiniteSet({op[p].user}) /\ Cardinality({op[p].user}) = 1
      BY FS_Singleton
    <3>2. Cardinality(op[p].admins) =< 1 /\ Cardinality(op[p].admins) \in Nat
      BY <3>1, FS_Subset, FS_CardinalityType
    <3> QED
      BY <2>2, <3>2
  <2> QED
    BY <1>1, <2>1, <2>2 DEF Removable
<1> QED
  BY <1>3, <1>4 DEF AdminRemains

LEMMA NextKeepsAdmin ==
  Base /\ AdminRemains /\ [Next]_vars => AdminRemains'
<1> SUFFICES ASSUME Base, AdminRemains, [Next]_vars
             PROVE  AdminRemains'
  OBVIOUS
<1>0. Types /\ \A p \in Processes : Found(p)
  BY DEF Base
<1>1. CASE user' = user
  BY <1>1 DEF AdminRemains, Available
<1>2. CASE \E u \in Users, row \in Account :
             /\ user' = [user EXCEPT ![u] = row]
             /\ Available(u) => row.exists /\ row.admin /\ row.active /\ ~row.banned
  BY <1>0, <1>2 DEF AdminRemains, Available, Types
<1>3. CASE \E p \in Processes : CheckinPay(p)
  <2>1. PICK p \in Processes : CheckinPay(p)
    BY <1>3
  <2>2. op[p].user \in Users /\ op[p].time \in 1..now /\ now \in 1..MaxClock
    BY <1>0, <2>1 DEF CheckinPay, Found, Idle, Types
  <2>3. op[p].time \in 0..MaxClock
    BY <2>2, Numbers
  <2>4. user[op[p].user] \in Account
    BY <1>0, <2>2 DEF Types
  <2> DEFINE row == [user[op[p].user] EXCEPT !.lastCheckin = op[p].time]
  <2>5. /\ row \in Account
        /\ row.exists = user[op[p].user].exists /\ row.admin = user[op[p].user].admin
        /\ row.active = user[op[p].user].active /\ row.banned = user[op[p].user].banned
    BY <2>3, <2>4 DEF Account
  <2>6. user' = [user EXCEPT ![op[p].user] = row]
    BY <2>1 DEF CheckinPay
  <2> QED
    BY <1>2, <2>2, <2>5, <2>6 DEF Available
<1>4. CASE \E p \in Processes : ActivateBonus(p)
  <2>1. PICK p \in Processes : ActivateBonus(p)
    BY <1>4
  <2>2. op[p].user \in Users
    BY <1>0, <2>1 DEF ActivateBonus, Found, Idle
  <2>3. user[op[p].user] \in Account
    BY <1>0, <2>2 DEF Types
  <2> DEFINE row == [[user[op[p].user] EXCEPT !.active = TRUE] EXCEPT !.verified = TRUE]
  <2>4. /\ row \in Account
        /\ row.exists = user[op[p].user].exists /\ row.admin = user[op[p].user].admin
        /\ row.active /\ row.banned = user[op[p].user].banned
    BY <2>3 DEF Account
  <2>5. user' = [user EXCEPT ![op[p].user] = row]
    BY <1>0, <2>1, <2>2 DEF ActivateBonus, Types
  <2> QED
    BY <1>2, <2>2, <2>4, <2>5 DEF Available
<1>5. CASE \E u \in Users : RollbackRegistration(u)
  <2>1. PICK u \in Users : RollbackRegistration(u)
    BY <1>5
  <2>2. [user[u] EXCEPT !.exists = FALSE] \in Account
    BY <1>0, AccountFields DEF Types
  <2>3. user' = [user EXCEPT ![u] = [user[u] EXCEPT !.exists = FALSE]] /\ ~Available(u)
    BY <1>0, <2>1 DEF RollbackRegistration, Available, Types
  <2> QED
    BY <1>2, <2>2, <2>3
<1>6. CASE \E u \in Users : GiveAccess(u)
  <2>1. PICK u \in Users : GiveAccess(u)
    BY <1>6
  <2>2. user[u] \in Account
    BY <1>0 DEF Types
  <2>3. \A row \in {[user[u] EXCEPT !.admin = TRUE], [user[u] EXCEPT !.active = TRUE],
                    [user[u] EXCEPT !.banned = FALSE]} :
          /\ row \in Account
          /\ Available(u) => row.exists /\ row.admin /\ row.active /\ ~row.banned
    BY <2>2 DEF Account, Available
  <2>4. \/ user' = [user EXCEPT ![u] = [user[u] EXCEPT !.admin = TRUE]]
        \/ user' = [user EXCEPT ![u] = [user[u] EXCEPT !.active = TRUE]]
        \/ user' = [user EXCEPT ![u] = [user[u] EXCEPT !.banned = FALSE]]
    BY <1>0, <2>1 DEF GiveAccess, Types
  <2> QED
    BY <1>2, <2>3, <2>4
<1>7. CASE \/ \E p \in Processes, u \in Users, c \in Codes : RedeemCheck(p, u, c)
           \/ \E p \in Processes : \/ RedeemConsume(p) \/ RedeemUsedUp(p) \/ RedeemCredit(p)
                                   \/ RedeemUserGone(p) \/ RedeemRecord(p) \/ RedeemDuplicate(p)
           \/ \E c \in Codes : ToggleCode(c) \/ RemoveCode(c)
           \/ \E p \in Processes, u \in Users : CheckinStart(p, u) \/ ActivateStart(p, u)
           \/ \E p \in Processes : \/ CheckinClaim(p) \/ CheckinRefused(p)
                                   \/ ActivateClaim(p) \/ ActivateRepeated(p)
           \/ \E p \in Processes, u \in Users, change \in Changes : RemovalStart(p, u, change)
           \/ \E p \in Processes : \/ RemovalLock(p) \/ RemovalLockTarget(p)
                                   \/ RemovalTargetGone(p) \/ RemovalRefused(p) \/ Abort(p)
           \/ Tick \/ UNCHANGED vars
  BY <1>1, <1>7 DEF RedeemCheck, RedeemConsume, RedeemUsedUp, RedeemCredit, RedeemUserGone,
       RedeemRecord, RedeemDuplicate, ToggleCode, RemoveCode, CheckinStart, CheckinClaim,
       CheckinRefused, ActivateStart, ActivateClaim, ActivateRepeated, RemovalStart, RemovalLock,
       RemovalLockTarget, RemovalTargetGone, RemovalRefused, Abort, Rollback, Tick, vars
<1> QED
  BY <1>3, <1>4, <1>5, <1>6, <1>7, OneRemains, Zenon DEF Next

-----------------------------------------------------------------------------
(* What every step keeps: the rows a transaction has locked are as it      *)
(* found them, and the rows of the accounts and codes agree with the       *)
(* entries that were paid.                                                 *)
IInv == Base /\ Records /\ PaidOnce /\ CheckinsSpaced /\ AdminRemains

(* The inductive invariant of payments and administrators: a transaction   *)
(* of redemption-service, checkin-service, user-service or                 *)
(* admin-user-service writes only under locks whose rows are as it found   *)
(* them.                                                                   *)
THEOREM AccountsInductive == Spec => []IInv
<1>1. Init => IInv
  BY InitBase DEF IInv
<1>2. IInv /\ [Next]_vars => IInv'
  <2> SUFFICES ASSUME IInv, [Next]_vars
               PROVE  IInv'
    OBVIOUS
  <2>1. Base /\ Records /\ PaidOnce /\ CheckinsSpaced /\ AdminRemains
    BY DEF IInv
  <2>2. Base'
    BY <2>1, NextKeepsBase
  <2>3. (Records /\ PaidOnce /\ CheckinsSpaced)'
    BY <2>1, NextKeepsRecords
  <2>4. AdminRemains'
    BY <2>1, NextKeepsAdmin
  <2> QED
    BY <2>2, <2>3, <2>4 DEF IInv
<1> QED
  BY <1>1, <1>2, PTL DEF Spec

(* Types and held rows: no step leaves the states Accounts describes.      *)
THEOREM AccountsTypeCorrect == Spec => []TypeOK
<1>1. IInv => TypeOK
  BY BaseTypeOK DEF IInv
<1> QED
  BY <1>1, AccountsInductive, PTL

(* However redemptions and activations interleave, nothing is paid twice,  *)
(* a code's count is the number of its payments and never exceeds          *)
(* max_uses.                                                               *)
THEOREM NothingPaidTwice == Spec => []PaidOnce
<1>1. IInv => PaidOnce
  BY DEF IInv
<1> QED
  BY <1>1, AccountsInductive, PTL

(* However late a check-in gets to its row, it pays only when the cooldown *)
(* since the last paid one has passed at the time the request began.       *)
THEOREM CheckinsAreSpaced == Spec => []CheckinsSpaced
<1>1. IInv => CheckinsSpaced
  BY DEF IInv
<1> QED
  BY <1>1, AccountsInductive, PTL

(* However many administrators take access from each other at once, one    *)
(* who is active and not banned remains.                                   *)
THEOREM AnAdministratorRemains == Spec => []AdminRemains
<1>1. IInv => AdminRemains
  BY DEF IInv
<1> QED
  BY <1>1, AccountsInductive, PTL
=============================================================================
