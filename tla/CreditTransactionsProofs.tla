---------------------- MODULE CreditTransactionsProofs ----------------------
(***************************************************************************)
(* The statements of the billing transactions, under row locks and with    *)
(* rollbacks, implement CreditLedger for any number of connections,        *)
(* accounts, keys and reservations.                                        *)
(*                                                                         *)
(* What a session has read is a fact about rows it has locked.  So the     *)
(* argument has two halves: a step of anybody else leaves the locked rows  *)
(* of a session Untouched, which keeps the session's facts; and a session  *)
(* that commits has the facts its transaction of the ledger asks for.      *)
(***************************************************************************)
EXTENDS CreditTransactions, CreditLedgerProofs

Row == {UserRow(u) : u \in User} \cup {KeyRow(k) : k \in Key}
         \cup {ReservationRow(r) : r \in Reservation}

Statements == {"idle", "user", "row", "look", "sum", "key", "cascade", "commit"}

SessionTypeOK ==
    /\ call \in [Session -> Running \cup {Idle}]
    /\ at \in [Session -> Statements]
    /\ held \in [Session -> SUBSET Row]
    /\ plan \in [Session -> [User -> Int]]

Exclusive == \A s, t \in Session : s # t => held[s] \cap held[t] = {}

Does(s, kind) == call[s] # Idle /\ call[s].kind = kind

(* A reservation id is with one session until it is issued. *)
OwnIds ==
    /\ \A s \in Session : Does(s, "reserve") => call[s].reservation \in unissued
    /\ \A s, t \in Session : s # t /\ Does(s, "reserve") /\ Does(t, "reserve") =>
            call[s].reservation # call[t].reservation

ReserveOK(s) ==
    LET r == call[s].reservation
        u == Owner(r)
        k == KeyOf[r]
    IN  /\ at[s] \in {"user", "sum", "key", "commit"}
        /\ at[s] = "user" => held[s] = {}
        /\ at[s] \in {"sum", "key"} => held[s] = {UserRow(u)}
        /\ at[s] = "commit" => held[s] = {UserRow(u), KeyRow(k)}
        /\ at[s] \in {"sum", "key", "commit"} => u \in users /\ u \in available
        /\ at[s] \in {"key", "commit"} => credits[u] - Reserved(u) >= AmountOf[r]
        /\ at[s] = "commit" => k \in activeKeys /\ WithinQuota(k, AmountOf[r])

ReleaseOK(s) ==
    LET r == call[s].reservation
        k == KeyOf[r]
    IN  /\ at[s] \in {"row", "key", "commit"}
        /\ at[s] = "row" => held[s] = {}
        /\ at[s] = "key" => held[s] = {ReservationRow(r)}
        /\ at[s] = "commit" =>
            \/ held[s] = {ReservationRow(r), KeyRow(k)} /\ k \in apiKeys
            \/ held[s] = {ReservationRow(r)} /\ k \notin apiKeys
        /\ at[s] \in {"key", "commit"} => status[r] \in Releasable

ExpireOK(s) ==
    /\ at[s] \in {"row", "key", "commit"}
    /\ \A u \in User : UserRow(u) \notin held[s]
    /\ \A r \in HeldReservations(s) : status[r] = "active"
    /\ \A k \in Key : KeyRow(k) \in held[s] => k \in apiKeys /\ at[s] # "row"
    /\ at[s] # "row" => call[s].rows = {} /\ HeldReservations(s) # {}
    /\ at[s] = "commit" => Unrefunded(s) = {}

(* Of the active rows, a sweep works on all up to some id, the oldest first; no
   row before that id is still to come.  So two sweeps never get past their
   rows at the same time. *)
Sweep(s) == HeldReservations(s) \cup call[s].rows
SweepOK(s) ==
    /\ \A r \in Sweep(s) :
        /\ \A q \in Reservation : q < r /\ status[q] = "active" => q \in Sweep(s)
        /\ \A q \in unissued : r < q
    /\ \A r \in HeldReservations(s), q \in call[s].rows : r < q

FinalizeOK(s) ==
    LET r == call[s].reservation
        u == Owner(r)
    IN  /\ at[s] \in {"look", "row", "user", "commit"}
        /\ at[s] \in {"look", "row"} => held[s] = {}
        /\ at[s] = "user" => held[s] = {ReservationRow(r)}
        /\ at[s] = "commit" => /\ held[s] = {ReservationRow(r), UserRow(u)}
                               /\ u \in users
                               /\ credits[u] >= AmountOf[r]
        /\ at[s] \in {"user", "commit"} => status[r] \in Settleable

(* The users whose new balance is computed. *)
Computed(s) == Adjusted(s) \ (IF at[s] = "sum" THEN {Head(call[s].batch)} ELSE {})

AdjustOK(s) ==
    /\ at[s] \in {"user", "sum", "commit"}
    /\ held[s] = {UserRow(u) : u \in Adjusted(s)}
    /\ IsFiniteSet(Adjusted(s))
    /\ \A u \in Adjusted(s) : u \in users /\ Len(transactions[u]) < MaxEntries
    /\ \A u \in Computed(s) : plan[s][u] \in 0 .. MaxCredits /\ plan[s][u] >= Reserved(u)
    /\ at[s] = "user" /\ Adjusted(s) # {} => call[s].batch # << >>
    /\ at[s] = "sum" => call[s].batch # << >> /\ Head(call[s].batch) \in Adjusted(s)
    /\ at[s] = "commit" => Adjusted(s) # {}

DeleteOK(s) ==
    LET v == call[s].user
    IN  /\ at[s] \in {"user", "cascade"}
        /\ at[s] = "user" => held[s] = {}
        /\ at[s] = "cascade" =>
            /\ UserRow(v) \in held[s]
            /\ v \in users
            /\ \A u \in User : UserRow(u) \in held[s] => u = v
            /\ \A k \in Key : KeyRow(k) \in held[s] => k \in apiKeys /\ OwnerOf[k] = v
            /\ HeldReservations(s) \subseteq LiveOf(v)

(* What a session knows of the rows it holds. *)
SessionOK(s) ==
    /\ call[s] = Idle => held[s] = {}
    /\ Does(s, "reserve") => ReserveOK(s)
    /\ Does(s, "release") => ReleaseOK(s)
    /\ Does(s, "expire") => ExpireOK(s) /\ SweepOK(s)
    /\ Does(s, "finalize") => FinalizeOK(s)
    /\ Does(s, "adjust") => AdjustOK(s)
    /\ Does(s, "delete") => DeleteOK(s)

LedgerOK == TypeOK /\ Apart /\ Covered

LocksInv == SessionTypeOK /\ Exclusive /\ OwnIds /\ \A s \in Session : SessionOK(s)

StatementInv == LedgerOK /\ LocksInv

-----------------------------------------------------------------------------
(* Rows of different tables, or of different ids, are different. *)
LEMMA RowsDiffer ==
    /\ \A u, v : UserRow(u) = UserRow(v) => u = v
    /\ \A k, l : KeyRow(k) = KeyRow(l) => k = l
    /\ \A r, q : ReservationRow(r) = ReservationRow(q) => r = q
    /\ \A u, k, r : /\ UserRow(u) # KeyRow(k)
                    /\ UserRow(u) # ReservationRow(r)
                    /\ KeyRow(k) # ReservationRow(r)
BY DEF UserRow, KeyRow, ReservationRow

LEMMA RowsTyped ==
    /\ \A u \in User : UserRow(u) \in Row
    /\ \A k \in Key : KeyRow(k) \in Row
    /\ \A r \in Reservation : ReservationRow(r) \in Row
BY DEF Row

LEMMA OwnersTyped ==
    ASSUME NEW r \in Reservation
    PROVE  Owner(r) \in User /\ KeyOf[r] \in Key /\ AmountOf[r] \in Nat \ {0}
BY ReservationAssumption DEF Owner

(* What each kind of transaction has for arguments. *)
LEMMA RunningShape ==
    ASSUME NEW c \in Running
    PROVE  /\ c.kind \in {"reserve", "release", "expire", "finalize", "adjust", "delete"}
           /\ c.kind \in {"reserve", "release", "finalize"} => c.reservation \in Reservation
           /\ c.kind = "expire" =>
                /\ c.rows \in SUBSET Reservation
                /\ \A rows \in SUBSET Reservation : [c EXCEPT !.rows = rows] \in Running
           /\ c.kind = "adjust" =>
                /\ c.operation \in {"grant", "revoke", "reset"}
                /\ c.amount \in Nat
                /\ c.batch \in Seq(User)
                /\ \A batch \in Seq(User) : [c EXCEPT !.batch = batch] \in Running
           /\ c.kind = "delete" => c.user \in User
<1>1. CASE c \in [kind : {"reserve", "release", "finalize"}, reservation : Reservation]
  BY <1>1
<1>2. CASE c \in [kind : {"expire"}, rows : SUBSET Reservation]
  <2>1. \A rows \in SUBSET Reservation :
            [c EXCEPT !.rows = rows] \in [kind : {"expire"}, rows : SUBSET Reservation]
    BY <1>2
  <2> QED
    BY <1>2, <2>1 DEF Running
<1>3. CASE c \in [kind : {"adjust"}, operation : {"grant", "revoke", "reset"},
                  amount : Nat, batch : Seq(User)]
  <2>1. \A batch \in Seq(User) : [c EXCEPT !.batch = batch] \in
            [kind : {"adjust"}, operation : {"grant", "revoke", "reset"},
             amount : Nat, batch : Seq(User)]
    BY <1>3
  <2> QED
    BY <1>3, <2>1 DEF Running
<1>4. CASE c \in [kind : {"delete"}, user : User]
  BY <1>4
<1> QED
  BY <1>1, <1>2, <1>3, <1>4 DEF Running

LEMMA CallIsRunning == Call \subseteq Running
BY InputAssumption DEF Call, Running

(* A non-empty set of reservations has an oldest one. *)
LEMMA OldestExists ==
    ASSUME NEW S \in SUBSET Reservation, S # {}
    PROVE  OldestOf(S) \in S /\ \A other \in S : OldestOf(S) <= other
<1>1. PICK r \in S : \A other \in S : <<other, r>> \notin OpToRel(<, Nat)
  BY OrderAssumption, NatLessThanWellFounded, WFMin, Zenon
<1>2. \A other \in S : ~(other < r)
  BY <1>1, OrderAssumption, Zenon DEF OpToRel
<1>3. \A other \in S : r <= other
  BY <1>2, OrderAssumption
<1> QED
  BY <1>3 DEF OldestOf
-----------------------------------------------------------------------------
(* What a step of somebody else leaves to a session: itself, the rows it has
   locked, and of what it has not locked only less. *)
Untouched(s) ==
    /\ UNCHANGED <<call[s], at[s], held[s], plan[s]>>
    /\ apiKeys' \subseteq apiKeys
    /\ unissued' \subseteq unissued
    /\ \A r \in Reservation :
            status'[r] = "active" => status[r] = "active" \/ r \in unissued
    /\ \A u \in User : UserRow(u) \in held[s] =>
            /\ u \in users => u \in users'
            /\ u \in available => u \in available'
            /\ credits'[u] = credits[u]
            /\ transactions'[u] = transactions[u]
            /\ LiveOf(u)' \subseteq LiveOf(u)
    /\ \A k \in Key : KeyRow(k) \in held[s] =>
            /\ k \in apiKeys => k \in apiKeys'
            /\ k \in activeKeys => k \in activeKeys'
            /\ usedCredits'[k] = usedCredits[k]
            /\ totalQuota'[k] = totalQuota[k]
    /\ \A r \in Reservation : ReservationRow(r) \in held[s] => status'[r] = status[r]

LEMMA UntouchedByReads ==
    ASSUME NEW s \in Session, UNCHANGED ledgerVars,
           UNCHANGED <<call[s], at[s], held[s], plan[s]>>
    PROVE  Untouched(s)
<1>1. \A u : LiveOf(u)' = LiveOf(u)
  BY DEF ledgerVars, vars, LiveOf, Live
<1> QED
  BY <1>1 DEF Untouched, ledgerVars, vars

(* The reserved credits of a user whose row is locked only shrink. *)
LEMMA UntouchedReserved ==
    ASSUME NEW s \in Session, Untouched(s), NEW u \in User, UserRow(u) \in held[s]
    PROVE  /\ Reserved(u)' <= Reserved(u)
           /\ Reserved(u) \in Nat /\ Reserved(u)' \in Nat
<1>1. LiveOf(u)' \subseteq LiveOf(u) /\ LiveOf(u) \in SUBSET Reservation
  BY DEF Untouched, LiveOf, Live
<1> QED
  BY <1>1, TotalMinus, UnitsFinite DEF Reserved

LEMMA ReserveKept ==
    ASSUME LedgerOK, NEW s \in Session, Untouched(s), Does(s, "reserve"),
           call[s].reservation \in Reservation, ReserveOK(s)
    PROVE  ReserveOK(s)'
<1>1. PICK r \in Reservation : r = call[s].reservation
  OBVIOUS
<1>2. PICK u \in User : u = Owner(r)
  BY OwnersTyped
<1>3. PICK k \in Key : k = KeyOf[r]
  BY OwnersTyped
<1>4. r = call'[s].reservation /\ at'[s] = at[s] /\ held'[s] = held[s]
  BY <1>1 DEF Untouched
<1>5. AmountOf[r] \in Nat /\ credits[u] \in Int
  BY OwnersTyped, LimitAssumption DEF LedgerOK, TypeOK
<1>6. ASSUME at[s] \in {"sum", "key", "commit"} PROVE UserRow(u) \in held[s]
  BY <1>1, <1>2, <1>6 DEF ReserveOK
<1>7. ASSUME at[s] \in {"key", "commit"}
      PROVE  credits'[u] - Reserved(u)' >= AmountOf[r]
  <2>1. Reserved(u)' <= Reserved(u) /\ Reserved(u) \in Nat /\ Reserved(u)' \in Nat
    BY <1>6, <1>7, UntouchedReserved
  <2>2. credits'[u] = credits[u] /\ credits[u] - Reserved(u) >= AmountOf[r]
    BY <1>1, <1>2, <1>6, <1>7 DEF ReserveOK, Untouched
  <2> QED
    BY <1>5, <2>1, <2>2
<1>8. ASSUME at[s] = "commit"
      PROVE  k \in activeKeys' /\ WithinQuota(k, AmountOf[r])'
  BY <1>1, <1>3, <1>8 DEF ReserveOK, Untouched, WithinQuota
<1>9. ASSUME at[s] \in {"sum", "key", "commit"} PROVE u \in users' /\ u \in available'
  BY <1>1, <1>2, <1>6, <1>9 DEF ReserveOK, Untouched
<1> QED
  BY <1>1, <1>2, <1>3, <1>4, <1>7, <1>8, <1>9 DEF ReserveOK, Owner

LEMMA ReleaseKept ==
    ASSUME NEW s \in Session, Untouched(s), Does(s, "release"),
           call[s].reservation \in Reservation, ReleaseOK(s)
    PROVE  ReleaseOK(s)'
<1>1. KeyOf[call[s].reservation] \in Key
  BY OwnersTyped
<1> QED
  BY <1>1, RowsDiffer DEF ReleaseOK, Untouched

LEMMA ExpireKept ==
    ASSUME NEW s \in Session, Untouched(s), ExpireOK(s)
    PROVE  ExpireOK(s)'
<1>1. HeldReservations(s)' = HeldReservations(s)
  BY DEF HeldReservations, Untouched
<1>2. Unrefunded(s)' \subseteq Unrefunded(s)
  BY <1>1 DEF Unrefunded, Untouched
<1> QED
  BY <1>1, <1>2 DEF ExpireOK, Untouched, HeldReservations

LEMMA SweepKept ==
    ASSUME NEW s \in Session, Untouched(s), SweepOK(s), call[s].rows \subseteq Reservation
    PROVE  SweepOK(s)'
<1>1. HeldReservations(s)' = HeldReservations(s) /\ Sweep(s)' = Sweep(s)
  BY DEF HeldReservations, Untouched, Sweep
<1>2. call'[s].rows = call[s].rows /\ unissued' \subseteq unissued
  BY DEF Untouched
<1>3. ASSUME NEW r \in Sweep(s), NEW q \in Reservation, q < r, status'[q] = "active"
      PROVE  q \in Sweep(s)
  <2>1. r \in Reservation /\ (q \in unissued => r < q)
    BY <1>3 DEF SweepOK, Sweep, HeldReservations
  <2>2. status[q] = "active"
    BY <1>3, <2>1, OrderAssumption DEF Untouched
  <2> QED
    BY <1>3, <2>2 DEF SweepOK
<1> QED
  BY <1>1, <1>2, <1>3 DEF SweepOK

LEMMA FinalizeKept ==
    ASSUME NEW s \in Session, Untouched(s), Does(s, "finalize"),
           call[s].reservation \in Reservation, FinalizeOK(s)
    PROVE  FinalizeOK(s)'
<1>1. Owner(call[s].reservation) \in User
  BY OwnersTyped
<1> QED
  BY <1>1 DEF FinalizeOK, Untouched, Owner

LEMMA AdjustKept ==
    ASSUME LedgerOK, SessionTypeOK, NEW s \in Session, Untouched(s), AdjustOK(s)
    PROVE  AdjustOK(s)'
<1>1. Adjusted(s)' = Adjusted(s) /\ Computed(s)' = Computed(s)
  BY DEF Adjusted, Computed, Untouched
<1>2. \A u \in Adjusted(s) : u \in User /\ UserRow(u) \in held[s]
  BY DEF Adjusted
<1>3. ASSUME NEW u \in Computed(s)
      PROVE  plan'[s][u] \in 0 .. MaxCredits /\ plan'[s][u] >= Reserved(u)'
  <2>1. u \in Adjusted(s)
    BY <1>3 DEF Computed
  <2>2. Reserved(u)' <= Reserved(u) /\ Reserved(u) \in Nat /\ Reserved(u)' \in Nat
    BY <1>2, <2>1, UntouchedReserved
  <2>3. plan[s][u] \in 0 .. MaxCredits /\ plan[s][u] >= Reserved(u)
    BY <1>3 DEF AdjustOK
  <2>4. plan'[s][u] = plan[s][u] /\ plan[s][u] \in Int
    BY <1>2, <2>1 DEF Untouched, SessionTypeOK
  <2> QED
    BY <2>2, <2>3, <2>4
<1>4. \A u \in Adjusted(s) : u \in users' /\ Len(transactions'[u]) < MaxEntries
  BY <1>2 DEF AdjustOK, Untouched
<1> QED
  BY <1>1, <1>3, <1>4 DEF AdjustOK, Untouched

LEMMA DeleteKept ==
    ASSUME NEW s \in Session, Untouched(s), Does(s, "delete"), call[s].user \in User,
           DeleteOK(s)
    PROVE  DeleteOK(s)'
<1>1. HeldReservations(s)' = HeldReservations(s)
  BY DEF HeldReservations, Untouched
<1>2. ASSUME HeldReservations(s) \subseteq LiveOf(call[s].user)
      PROVE  HeldReservations(s) \subseteq LiveOf(call[s].user)'
  BY <1>2 DEF LiveOf, Live, Owner, HeldReservations, Untouched
<1> QED
  BY <1>1, <1>2 DEF DeleteOK, Untouched

(* A session's facts survive the steps of everybody else. *)
LEMMA SessionKept ==
    ASSUME LedgerOK, SessionTypeOK, NEW s \in Session, Untouched(s), SessionOK(s)
    PROVE  SessionOK(s)'
<1>1. call'[s] = call[s] /\ held'[s] = held[s]
  BY DEF Untouched
<1>2. call[s] # Idle => call[s] \in Running
  BY DEF SessionTypeOK
<1>3. \A kind : Does(s, kind)' = Does(s, kind)
  BY <1>1 DEF Does
<1> QED
  BY <1>1, <1>2, <1>3, RunningShape, ReserveKept, ReleaseKept, ExpireKept, SweepKept,
     FinalizeKept, AdjustKept, DeleteKept DEF SessionOK, Does
-----------------------------------------------------------------------------
(* The forms a statement takes. *)

OthersStay(s) ==
    \A t \in Session \ {s} : UNCHANGED <<call[t], at[t], held[t], plan[t]>>

LEMMA EndForm ==
    ASSUME SessionTypeOK, Exclusive, NEW s \in Session, End(s)
    PROVE  /\ SessionTypeOK' /\ Exclusive' /\ OthersStay(s)
           /\ call'[s] = Idle /\ held'[s] = {}
           /\ SessionOK(s)'
<1>1. SessionTypeOK'
  <2>1. call' \in [Session -> Running \cup {Idle}] /\ at' \in [Session -> Statements]
    BY DEF SessionTypeOK, End, Statements
  <2>2. held' \in [Session -> SUBSET Row]
    BY DEF SessionTypeOK, End
  <2>3. [u \in User |-> 0] \in [User -> Int]
    OBVIOUS
  <2>4. plan' \in [Session -> [User -> Int]]
    BY <2>3 DEF SessionTypeOK, End
  <2> QED
    BY <2>1, <2>2, <2>4 DEF SessionTypeOK
<1>2. call'[s] = Idle /\ held'[s] = {} /\ OthersStay(s)
  BY DEF SessionTypeOK, End, OthersStay
<1>3. \A t \in Session : held'[t] \subseteq held[t]
  BY DEF SessionTypeOK, End
<1> QED
  BY <1>1, <1>2, <1>3 DEF SessionTypeOK, Exclusive, SessionOK, Does

LEMMA ProceedForm ==
    ASSUME SessionTypeOK, Exclusive, NEW s \in Session, NEW statement \in Statements,
           Goto(s, statement), UNCHANGED <<call, held, plan>>
    PROVE  /\ SessionTypeOK' /\ Exclusive' /\ OthersStay(s)
           /\ at'[s] = statement
BY DEF SessionTypeOK, Exclusive, OthersStay, Goto

LEMMA LockForm ==
    ASSUME SessionTypeOK, Exclusive, NEW s \in Session, NEW row \in Row, TakeLock(s, row)
    PROVE  /\ held' \in [Session -> SUBSET Row] /\ Exclusive'
           /\ held'[s] = held[s] \cup {row}
           /\ \A t \in Session \ {s} : held'[t] = held[t]
<1>1. \A t \in Session : row \notin held[t]
  BY DEF TakeLock, Locked
<1>2. /\ held' \in [Session -> SUBSET Row]
      /\ held'[s] = held[s] \cup {row}
      /\ \A t \in Session \ {s} : held'[t] = held[t]
  BY DEF TakeLock, SessionTypeOK
<1> QED
  BY <1>1, <1>2 DEF Exclusive

LEMMA LockAndForm ==
    ASSUME SessionTypeOK, Exclusive, NEW s \in Session, NEW row \in Row,
           NEW statement \in Statements,
           TakeLock(s, row), Goto(s, statement), UNCHANGED <<call, plan>>
    PROVE  /\ SessionTypeOK' /\ Exclusive' /\ OthersStay(s)
           /\ at'[s] = statement
           /\ held'[s] = held[s] \cup {row}
<1>1. /\ held' \in [Session -> SUBSET Row] /\ Exclusive'
      /\ held'[s] = held[s] \cup {row}
      /\ \A t \in Session \ {s} : held'[t] = held[t]
  BY LockForm
<1>2. at' \in [Session -> Statements] /\ at'[s] = statement
  BY DEF Goto, SessionTypeOK
<1>3. \A t \in Session \ {s} : at'[t] = at[t]
  BY DEF Goto, SessionTypeOK
<1> QED
  BY <1>1, <1>2, <1>3 DEF SessionTypeOK, OthersStay

(* What a statement that writes nothing has to show. *)
Statement(s) ==
    /\ UNCHANGED ledgerVars
    /\ SessionTypeOK' /\ Exclusive' /\ OthersStay(s)
    /\ Does(s, "reserve")' => call'[s] = call[s]
    /\ SessionOK(s)'

LEMMA LeaveStatement ==
    ASSUME SessionTypeOK, Exclusive, NEW s \in Session, Leave(s)
    PROVE  Statement(s)
BY EndForm DEF Leave, Statement, Does

LEMMA ReserveStatement ==
    ASSUME LedgerOK, LocksInv, NEW s \in Session, ReserveStep(s)
    PROVE  Statement(s) \/ ReserveCommit(s)
<1>1. Does(s, "reserve") /\ ReserveOK(s)
  BY DEF ReserveStep, ReserveLockUser, ReserveSum, ReserveTakeQuota, ReserveCommit, Runs,
         Does, LocksInv, SessionOK
<1>0. PICK r \in Reservation : r = call[s].reservation
  BY <1>1, RunningShape DEF LocksInv, SessionTypeOK, Does
<1>2. PICK u \in User, k \in Key : u = Owner(r) /\ k = KeyOf[r]
  BY OwnersTyped
<1>3. UserRow(u) \in Row /\ KeyRow(k) \in Row
  BY <1>2, RowsTyped
<1>4. ASSUME UNCHANGED <<ledgerVars, call>>, SessionTypeOK', Exclusive', OthersStay(s),
             ReserveOK(s)'
      PROVE  Statement(s)
  BY <1>1, <1>4 DEF Statement, SessionOK, Does
<1>5. ASSUME UNCHANGED <<ledgerVars, call>>
      PROVE  call'[s].reservation = r /\ Reserved(u)' = Reserved(u)
  BY <1>0, <1>5 DEF Owner, ledgerVars, vars, Reserved, LiveOf, Live
<1>6. CASE ReserveLockUser(s)
  <2>1. CASE u \notin users \/ u \notin available
    BY <1>0, <1>2, <1>6, <2>1, LeaveStatement DEF ReserveLockUser, LocksInv
  <2>2. CASE u \in users /\ u \in available
    <3>1. LockAnd(s, UserRow(u), "sum") /\ at[s] = "user"
      BY <1>0, <1>2, <1>6, <2>2 DEF ReserveLockUser, Runs
    <3>2. SessionTypeOK' /\ Exclusive' /\ OthersStay(s) /\ at'[s] = "sum"
          /\ held'[s] = held[s] \cup {UserRow(u)}
      BY <1>3, <3>1, LockAndForm DEF LockAnd, LocksInv, Statements
    <3>3. UNCHANGED <<ledgerVars, call>>
      BY <3>1 DEF LockAnd
    <3>4. held'[s] = {UserRow(u)} /\ u \in users' /\ u \in available'
      BY <1>1, <2>2, <3>1, <3>2, <3>3 DEF ReserveOK, ledgerVars, vars
    <3>5. call'[s].reservation = r
      BY <1>0, <3>3
    <3>6. ReserveOK(s)'
      BY <1>2, <3>2, <3>4, <3>5 DEF ReserveOK, Owner
    <3> QED
      BY <1>4, <3>2, <3>3, <3>6
  <2> QED
    BY <2>1, <2>2
<1>7. CASE ReserveSum(s)
  <2>1. CASE credits[u] - Reserved(u) < AmountOf[r]
    BY <1>0, <1>2, <1>7, <2>1, LeaveStatement DEF ReserveSum, LocksInv
  <2>2. CASE ~(credits[u] - Reserved(u) < AmountOf[r])
    <3>1. Proceed(s, "key") /\ at[s] = "sum"
      BY <1>0, <1>2, <1>7, <2>2 DEF ReserveSum, Runs
    <3>2. SessionTypeOK' /\ Exclusive' /\ OthersStay(s) /\ at'[s] = "key" /\ held'[s] = held[s]
      BY <3>1, ProceedForm DEF Proceed, LocksInv, Statements
    <3>3. UNCHANGED <<ledgerVars, call>>
      BY <3>1 DEF Proceed
    <3>4. credits[u] - Reserved(u) >= AmountOf[r]
      <4>1. LiveOf(u) \in SUBSET Reservation
        BY DEF LiveOf, Live
      <4>2. Reserved(u) \in Nat
        BY <4>1, UnitsFinite DEF Reserved
      <4>3. credits[u] \in Int /\ AmountOf[r] \in Int
        BY <1>2, OwnersTyped, LimitAssumption DEF LedgerOK, TypeOK
      <4> QED
        BY <2>2, <4>2, <4>3
    <3>5. ReserveOK(s)'
      BY <1>0, <1>1, <1>2, <1>5, <3>1, <3>2, <3>3, <3>4 DEF ReserveOK, Owner, ledgerVars, vars
    <3> QED
      BY <1>4, <3>2, <3>3, <3>5
  <2> QED
    BY <2>1, <2>2
<1>8. CASE ReserveTakeQuota(s)
  <2>1. CASE ~(k \in apiKeys \cap activeKeys /\ WithinQuota(k, AmountOf[r]))
    BY <1>0, <1>2, <1>8, <2>1, LeaveStatement DEF ReserveTakeQuota, LocksInv
  <2>2. CASE k \in apiKeys \cap activeKeys /\ WithinQuota(k, AmountOf[r])
    <3>1. LockAnd(s, KeyRow(k), "commit") /\ at[s] = "key"
      BY <1>0, <1>2, <1>8, <2>2 DEF ReserveTakeQuota, Runs
    <3>2. SessionTypeOK' /\ Exclusive' /\ OthersStay(s) /\ at'[s] = "commit"
          /\ held'[s] = held[s] \cup {KeyRow(k)}
      BY <1>3, <3>1, LockAndForm DEF LockAnd, LocksInv, Statements
    <3>3. UNCHANGED <<ledgerVars, call>>
      BY <3>1 DEF LockAnd
    <3>4. WithinQuota(k, AmountOf[r])'
      BY <1>5, <2>2, <3>3 DEF WithinQuota, ledgerVars, vars
    <3>5. ReserveOK(s)'
      BY <1>0, <1>1, <1>2, <1>5, <2>2, <3>1, <3>2, <3>3, <3>4 DEF ReserveOK, Owner, ledgerVars, vars
    <3> QED
      BY <1>4, <3>2, <3>3, <3>5
  <2> QED
    BY <2>1, <2>2
<1> QED
  BY <1>6, <1>7, <1>8 DEF ReserveStep
LEMMA ReleaseStatement ==
    ASSUME LedgerOK, LocksInv, NEW s \in Session, ReleaseStep(s)
    PROVE  Statement(s) \/ ReleaseCommit(s)
<1>1. Does(s, "release") /\ ReleaseOK(s)
  BY DEF ReleaseStep, ReleaseLockRow, ReleaseRefundKey, ReleaseCommit, Runs, Does, LocksInv,
         SessionOK
<1>2. PICK r \in Reservation : r = call[s].reservation
  BY <1>1, RunningShape DEF LocksInv, SessionTypeOK, Does
<1>3. PICK k \in Key : k = KeyOf[r]
  BY OwnersTyped
<1>4. ReservationRow(r) \in Row /\ KeyRow(k) \in Row
  BY RowsTyped
<1>5. ASSUME UNCHANGED <<ledgerVars, call>>, SessionTypeOK', Exclusive', OthersStay(s),
             ReleaseOK(s)'
      PROVE  Statement(s)
  BY <1>1, <1>5 DEF Statement, SessionOK, Does
<1>6. CASE ReleaseLockRow(s)
  <2>1. CASE status[r] \notin Releasable
    BY <1>2, <1>6, <2>1, LeaveStatement DEF ReleaseLockRow, LocksInv
  <2>2. CASE status[r] \in Releasable
    <3>1. LockAnd(s, ReservationRow(r), "key") /\ at[s] = "row"
      BY <1>2, <1>6, <2>2 DEF ReleaseLockRow, Runs
    <3>2. SessionTypeOK' /\ Exclusive' /\ OthersStay(s) /\ at'[s] = "key"
          /\ held'[s] = held[s] \cup {ReservationRow(r)}
      BY <1>4, <3>1, LockAndForm DEF LockAnd, LocksInv, Statements
    <3>3. UNCHANGED <<ledgerVars, call>>
      BY <3>1 DEF LockAnd
    <3>4. ReleaseOK(s)'
      BY <1>1, <1>2, <2>2, <3>1, <3>2, <3>3 DEF ReleaseOK, ledgerVars, vars
    <3> QED
      BY <1>5, <3>2, <3>3, <3>4
  <2> QED
    BY <2>1, <2>2
<1>7. CASE ReleaseRefundKey(s)
  <2>1. CASE k \in apiKeys
    <3>1. LockAnd(s, KeyRow(k), "commit") /\ at[s] = "key"
      BY <1>2, <1>3, <1>7, <2>1 DEF ReleaseRefundKey, Runs
    <3>2. SessionTypeOK' /\ Exclusive' /\ OthersStay(s) /\ at'[s] = "commit"
          /\ held'[s] = held[s] \cup {KeyRow(k)}
      BY <1>4, <3>1, LockAndForm DEF LockAnd, LocksInv, Statements
    <3>3. UNCHANGED <<ledgerVars, call>>
      BY <3>1 DEF LockAnd
    <3>4. ReleaseOK(s)'
      BY <1>1, <1>2, <1>3, <2>1, <3>1, <3>2, <3>3 DEF ReleaseOK, ledgerVars, vars
    <3> QED
      BY <1>5, <3>2, <3>3, <3>4
  <2>2. CASE k \notin apiKeys
    <3>1. Proceed(s, "commit") /\ at[s] = "key"
      BY <1>2, <1>3, <1>7, <2>2 DEF ReleaseRefundKey, Runs
    <3>2. SessionTypeOK' /\ Exclusive' /\ OthersStay(s) /\ at'[s] = "commit"
          /\ held'[s] = held[s]
      BY <3>1, ProceedForm DEF Proceed, LocksInv, Statements
    <3>3. UNCHANGED <<ledgerVars, call>>
      BY <3>1 DEF Proceed
    <3>4. ReleaseOK(s)'
      BY <1>1, <1>2, <1>3, <2>2, <3>1, <3>2, <3>3 DEF ReleaseOK, ledgerVars, vars
    <3> QED
      BY <1>5, <3>2, <3>3, <3>4
  <2> QED
    BY <2>1, <2>2
<1> QED
  BY <1>6, <1>7 DEF ReleaseStep

LEMMA FinalizeStatement ==
    ASSUME LedgerOK, LocksInv, NEW s \in Session, FinalizeStep(s)
    PROVE  Statement(s) \/ FinalizeCommit(s)
<1>1. Does(s, "finalize") /\ FinalizeOK(s)
  BY DEF FinalizeStep, FinalizeLook, FinalizeLockRow, FinalizeDebit, FinalizeCommit, Runs,
         Does, LocksInv, SessionOK
<1>2. PICK r \in Reservation : r = call[s].reservation
  BY <1>1, RunningShape DEF LocksInv, SessionTypeOK, Does
<1>3. PICK u \in User : u = Owner(r)
  BY OwnersTyped
<1>4. ReservationRow(r) \in Row /\ UserRow(u) \in Row
  BY RowsTyped
<1>5. ASSUME UNCHANGED <<ledgerVars, call>>, SessionTypeOK', Exclusive', OthersStay(s),
             FinalizeOK(s)'
      PROVE  Statement(s)
  BY <1>1, <1>5 DEF Statement, SessionOK, Does
<1>6. CASE FinalizeLook(s)
  <2>1. CASE r \in Charged
    BY <1>2, <1>6, <2>1, LeaveStatement DEF FinalizeLook, LocksInv
  <2>2. CASE r \notin Charged
    <3>1. Proceed(s, "row") /\ at[s] = "look"
      BY <1>2, <1>6, <2>2 DEF FinalizeLook, Runs
    <3>2. SessionTypeOK' /\ Exclusive' /\ OthersStay(s) /\ at'[s] = "row" /\ held'[s] = held[s]
      BY <3>1, ProceedForm DEF Proceed, LocksInv, Statements
    <3>3. UNCHANGED <<ledgerVars, call>>
      BY <3>1 DEF Proceed
    <3>4. FinalizeOK(s)'
      BY <1>1, <3>1, <3>2 DEF FinalizeOK
    <3> QED
      BY <1>5, <3>2, <3>3, <3>4
  <2> QED
    BY <2>1, <2>2
<1>7. CASE FinalizeLockRow(s)
  <2>1. CASE status[r] \notin Settleable
    BY <1>2, <1>7, <2>1, LeaveStatement DEF FinalizeLockRow, LocksInv
  <2>2. CASE status[r] \in Settleable
    <3>1. LockAnd(s, ReservationRow(r), "user") /\ at[s] = "row"
      BY <1>2, <1>7, <2>2 DEF FinalizeLockRow, Runs
    <3>2. SessionTypeOK' /\ Exclusive' /\ OthersStay(s) /\ at'[s] = "user"
          /\ held'[s] = held[s] \cup {ReservationRow(r)}
      BY <1>4, <3>1, LockAndForm DEF LockAnd, LocksInv, Statements
    <3>3. UNCHANGED <<ledgerVars, call>>
      BY <3>1 DEF LockAnd
    <3>4. FinalizeOK(s)'
      BY <1>1, <1>2, <2>2, <3>1, <3>2, <3>3 DEF FinalizeOK, ledgerVars, vars
    <3> QED
      BY <1>5, <3>2, <3>3, <3>4
  <2> QED
    BY <2>1, <2>2
<1>8. CASE FinalizeDebit(s)
  <2>1. CASE ~(u \in users /\ credits[u] >= AmountOf[r])
    BY <1>2, <1>3, <1>8, <2>1, LeaveStatement DEF FinalizeDebit, LocksInv
  <2>2. CASE u \in users /\ credits[u] >= AmountOf[r]
    <3>1. LockAnd(s, UserRow(u), "commit") /\ at[s] = "user"
      BY <1>2, <1>3, <1>8, <2>2 DEF FinalizeDebit, Runs
    <3>2. SessionTypeOK' /\ Exclusive' /\ OthersStay(s) /\ at'[s] = "commit"
          /\ held'[s] = held[s] \cup {UserRow(u)}
      BY <1>4, <3>1, LockAndForm DEF LockAnd, LocksInv, Statements
    <3>3. UNCHANGED <<ledgerVars, call>>
      BY <3>1 DEF LockAnd
    <3>4. FinalizeOK(s)'
      BY <1>1, <1>2, <1>3, <2>2, <3>1, <3>2, <3>3 DEF FinalizeOK, Owner, ledgerVars, vars
    <3> QED
      BY <1>5, <3>2, <3>3, <3>4
  <2> QED
    BY <2>1, <2>2
<1> QED
  BY <1>6, <1>7, <1>8 DEF FinalizeStep

LEMMA DeleteStatement ==
    ASSUME LedgerOK, LocksInv, NEW s \in Session, DeleteStep(s)
    PROVE  Statement(s) \/ DeleteCommit(s)
<1>1. Does(s, "delete") /\ DeleteOK(s)
  BY DEF DeleteStep, DeleteLockUser, DeleteLockKey, DeleteLockReservation, DeleteCommit, Runs,
         Does, LocksInv, SessionOK
<1>2. PICK v \in User : v = call[s].user
  BY <1>1, RunningShape DEF LocksInv, SessionTypeOK, Does
<1>3. ASSUME NEW row \in Row, LockAnd(s, row, "cascade")
      PROVE  /\ UNCHANGED <<ledgerVars, call>>
             /\ SessionTypeOK' /\ Exclusive' /\ OthersStay(s)
             /\ at'[s] = "cascade"
             /\ held'[s] = held[s] \cup {row}
             /\ LiveOf(v)' = LiveOf(v)
  BY <1>3, LockAndForm DEF LockAnd, LocksInv, Statements, ledgerVars, vars, LiveOf, Live
<1>4. ASSUME UNCHANGED <<ledgerVars, call>>, SessionTypeOK', Exclusive', OthersStay(s),
             DeleteOK(s)'
      PROVE  Statement(s)
  BY <1>1, <1>4 DEF Statement, SessionOK, Does
<1>5. CASE DeleteLockUser(s)
  <2>1. CASE v \notin users
    BY <1>2, <1>5, <2>1, LeaveStatement DEF DeleteLockUser, LocksInv
  <2>2. CASE v \in users
    <3>1. LockAnd(s, UserRow(v), "cascade") /\ held[s] = {}
      BY <1>1, <1>2, <1>5, <2>2 DEF DeleteLockUser, Runs, DeleteOK
    <3>2. DeleteOK(s)'
      BY <1>2, <1>3, <2>2, <3>1, RowsTyped, RowsDiffer
         DEF DeleteOK, HeldReservations, ledgerVars, vars
    <3> QED
      BY <1>3, <1>4, <3>1, <3>2, RowsTyped
  <2> QED
    BY <2>1, <2>2
<1>6. CASE DeleteLockKey(s)
  <2>1. PICK k \in Key : k \in CascadeKeys(s) /\ LockAnd(s, KeyRow(k), "cascade")
    BY <1>6 DEF DeleteLockKey, CascadeKeys, LedgerOK, TypeOK
  <2>2. at[s] = "cascade"
    BY <1>6 DEF DeleteLockKey, Runs
  <2>3. DeleteOK(s)'
    BY <1>1, <1>2, <1>3, <2>1, <2>2, RowsTyped, RowsDiffer
       DEF DeleteOK, HeldReservations, CascadeKeys, ledgerVars, vars
  <2> QED
    BY <1>3, <1>4, <2>1, <2>3, RowsTyped
<1>7. CASE DeleteLockReservation(s)
  <2>1. PICK r \in Reservation : r \in LiveOf(v) /\ LockAnd(s, ReservationRow(r), "cascade")
    BY <1>2, <1>7 DEF DeleteLockReservation, CascadeReservations, LiveOf, Live
  <2>2. at[s] = "cascade"
    BY <1>7 DEF DeleteLockReservation, Runs
  <2>3. DeleteOK(s)'
    BY <1>1, <1>2, <1>3, <2>1, <2>2, RowsTyped, RowsDiffer
       DEF DeleteOK, HeldReservations, ledgerVars, vars
  <2> QED
    BY <1>3, <1>4, <2>1, <2>3, RowsTyped
<1> QED
  BY <1>5, <1>6, <1>7 DEF DeleteStep
LEMMA ExpireLockRowStatement ==
    ASSUME LedgerOK, LocksInv, NEW s \in Session, ExpireLockRow(s), ExpireOK(s), SweepOK(s)
    PROVE  Statement(s)
<1>1. PICK c \in Running : c = call[s] /\ c.kind = "expire" /\ call[s] # Idle /\ at[s] = "row"
  BY DEF ExpireLockRow, Runs, LocksInv, SessionTypeOK
<1>2. PICK rows \in SUBSET Reservation : rows = c.rows
  BY <1>1, RunningShape
<1>3. PICK r \in rows : r = OldestOf(rows) /\ \A q \in rows : r <= q
  BY <1>1, <1>2, OldestExists DEF ExpireLockRow
<1> DEFINE H == HeldReservations(s)
<1>4. /\ call' = [call EXCEPT ![s] = [c EXCEPT !.rows = rows \ {r}]]
      /\ UNCHANGED <<ledgerVars, at, plan>>
      /\ ReservationRow(r) \notin Locked
      /\ held' = IF status[r] = "active"
                 THEN [held EXCEPT ![s] = @ \cup {ReservationRow(r)}] ELSE held
  BY <1>1, <1>2, <1>3 DEF ExpireLockRow
<1>5. [c EXCEPT !.rows = rows \ {r}] \in Running
  BY <1>1, RunningShape
<1>6. /\ call' \in [Session -> Running \cup {Idle}]
      /\ call'[s].rows = rows \ {r} /\ call'[s].kind = "expire"
      /\ \A t \in Session \ {s} : call'[t] = call[t]
  <2>1. c.kind = "expire" /\ DOMAIN c = {"kind", "rows"}
    BY <1>1 DEF Running
  <2>2. [c EXCEPT !.rows = rows \ {r}].kind = "expire"
        /\ [c EXCEPT !.rows = rows \ {r}].rows = rows \ {r}
    BY <2>1
  <2> QED
    BY <2>2, <1>4, <1>5 DEF LocksInv, SessionTypeOK
<1>7. /\ held' \in [Session -> SUBSET Row] /\ Exclusive'
      /\ \A t \in Session \ {s} : held'[t] = held[t]
      /\ held'[s] = IF status[r] = "active" THEN held[s] \cup {ReservationRow(r)} ELSE held[s]
  <2>1. CASE status[r] = "active"
    BY <1>3, <1>4, <2>1, LockForm, RowsTyped DEF TakeLock, LocksInv
  <2>2. CASE status[r] # "active"
    BY <1>4, <2>2 DEF LocksInv, SessionTypeOK, Exclusive
  <2> QED
    BY <2>1, <2>2
<1>8. SessionTypeOK' /\ OthersStay(s)
  BY <1>4, <1>6, <1>7 DEF SessionTypeOK, LocksInv, OthersStay
<1>9. H' = IF status[r] = "active" THEN H \cup {r} ELSE H
  BY <1>3, <1>7, RowsDiffer DEF HeldReservations
<1>10. ExpireOK(s)'
  <2>1. \A q \in H' : status'[q] = "active"
    BY <1>4, <1>9 DEF ExpireOK, ledgerVars, vars
  <2>2. \A u \in User : UserRow(u) \notin held'[s]
    BY <1>7, RowsDiffer DEF ExpireOK
  <2>3. \A k \in Key : KeyRow(k) \notin held'[s]
    BY <1>1, <1>7, RowsDiffer DEF ExpireOK
  <2> QED
    BY <1>1, <1>4, <2>1, <2>2, <2>3 DEF ExpireOK
<1>11. SweepOK(s)'
  <2>1. Sweep(s)' \subseteq Sweep(s) /\ (status[r] = "active" => Sweep(s)' = Sweep(s))
        /\ \A q \in Sweep(s) : q # r => q \in Sweep(s)'
    BY <1>1, <1>2, <1>6, <1>9 DEF Sweep
  <2>2. ASSUME NEW x \in Sweep(s)', NEW q \in Reservation, q < x, status'[q] = "active"
        PROVE  q \in Sweep(s)'
    BY <1>4, <2>1, <2>2 DEF SweepOK, ledgerVars, vars
  <2>3. \A x \in Sweep(s)', q \in unissued' : x < q
    BY <1>4, <2>1 DEF SweepOK, ledgerVars, vars
  <2>4. ASSUME NEW x \in H', NEW q \in rows \ {r} PROVE x < q
    BY <1>1, <1>2, <1>3, <1>9, <2>4, OrderAssumption DEF SweepOK
  <2> QED
    BY <1>6, <2>2, <2>3, <2>4 DEF SweepOK
<1>12. call'[s].kind = "expire"
  BY <1>6
<1>13. call'[s] # Idle
  BY <1>5, <1>4, IdleAssumption DEF LocksInv, SessionTypeOK
<1> QED
  BY <1>4, <1>7, <1>8, <1>10, <1>11, <1>12, <1>13 DEF Statement, SessionOK, Does

LEMMA ExpireStatement ==
    ASSUME LedgerOK, LocksInv, NEW s \in Session, ExpireStep(s)
    PROVE  Statement(s) \/ ExpireCommit(s)
<1>1. Does(s, "expire") /\ ExpireOK(s) /\ SweepOK(s)
  BY DEF ExpireStep, ExpireLockRow, ExpireRowsDone, ExpireRefundKey, ExpireCommit, Runs,
         Does, LocksInv, SessionOK
<1>2. ASSUME UNCHANGED <<ledgerVars, call>>, SessionTypeOK', Exclusive', OthersStay(s),
             ExpireOK(s)', SweepOK(s)'
      PROVE  Statement(s)
  BY <1>1, <1>2 DEF Statement, SessionOK, Does
<1>3. ASSUME UNCHANGED <<ledgerVars, call>>, HeldReservations(s)' = HeldReservations(s)
      PROVE  SweepOK(s)'
  BY <1>1, <1>3 DEF SweepOK, Sweep, ledgerVars, vars
<1>4. CASE ExpireRowsDone(s)
  <2>1. CASE held[s] = {}
    BY <1>4, <2>1, LeaveStatement DEF ExpireRowsDone, LocksInv
  <2>2. CASE held[s] # {}
    <3>1. Proceed(s, "key") /\ at[s] = "row" /\ call[s].rows = {}
      BY <1>4, <2>2 DEF ExpireRowsDone, Runs
    <3>2. SessionTypeOK' /\ Exclusive' /\ OthersStay(s) /\ at'[s] = "key" /\ held'[s] = held[s]
      BY <3>1, ProceedForm DEF Proceed, LocksInv, Statements
    <3>3. UNCHANGED <<ledgerVars, call>>
      BY <3>1 DEF Proceed
    <3>4. HeldReservations(s)' = HeldReservations(s)
      BY <3>2 DEF HeldReservations
    <3>5. HeldReservations(s) # {}
      <4>1. PICK row \in Row : row \in held[s]
        BY <2>2 DEF LocksInv, SessionTypeOK
      <4>2. PICK r \in Reservation : row = ReservationRow(r)
        BY <1>1, <3>1, <4>1 DEF Row, ExpireOK
      <4> QED
        BY <4>1, <4>2 DEF HeldReservations
    <3>6. ExpireOK(s)'
      BY <1>1, <3>1, <3>2, <3>3, <3>4, <3>5 DEF ExpireOK, ledgerVars, vars
    <3> QED
      BY <1>2, <1>3, <3>2, <3>3, <3>4, <3>6
  <2> QED
    BY <2>1, <2>2
<1>5. CASE ExpireRefundKey(s)
  <2>1. CASE Unrefunded(s) = {}
    <3>1. Proceed(s, "commit") /\ at[s] = "key"
      BY <1>5, <2>1 DEF ExpireRefundKey, Runs
    <3>2. SessionTypeOK' /\ Exclusive' /\ OthersStay(s) /\ at'[s] = "commit"
          /\ held'[s] = held[s]
      BY <3>1, ProceedForm DEF Proceed, LocksInv, Statements
    <3>3. UNCHANGED <<ledgerVars, call>>
      BY <3>1 DEF Proceed
    <3>4. HeldReservations(s)' = HeldReservations(s)
      BY <3>2 DEF HeldReservations
    <3>5. Unrefunded(s)' = {}
      BY <2>1, <3>2, <3>3, <3>4 DEF Unrefunded, ledgerVars, vars
    <3>6. ExpireOK(s)'
      BY <1>1, <3>1, <3>2, <3>3, <3>4, <3>5 DEF ExpireOK, ledgerVars, vars
    <3> QED
      BY <1>2, <1>3, <3>2, <3>3, <3>4, <3>6
  <2>2. CASE Unrefunded(s) # {}
    <3>1. PICK r \in Unrefunded(s) : r = OldestOf(Unrefunded(s))
      BY <2>2, OldestExists DEF Unrefunded, HeldReservations
    <3>2. PICK k \in apiKeys : k = KeyOf[r] /\ k \in Key
      BY <3>1, OwnersTyped DEF Unrefunded, HeldReservations
    <3>3. LockAnd(s, KeyRow(k), "key") /\ at[s] = "key"
      BY <1>5, <2>2, <3>1, <3>2 DEF ExpireRefundKey, Runs
    <3>4. SessionTypeOK' /\ Exclusive' /\ OthersStay(s) /\ at'[s] = "key"
          /\ held'[s] = held[s] \cup {KeyRow(k)}
      BY <3>2, <3>3, RowsTyped, LockAndForm DEF LockAnd, LocksInv, Statements
    <3>5. UNCHANGED <<ledgerVars, call>>
      BY <3>3 DEF LockAnd
    <3>6. HeldReservations(s)' = HeldReservations(s)
      BY <3>4, RowsDiffer DEF HeldReservations
    <3>7. ExpireOK(s)'
      BY <1>1, <3>2, <3>3, <3>4, <3>5, <3>6, RowsDiffer DEF ExpireOK, ledgerVars, vars
    <3> QED
      BY <1>2, <1>3, <3>4, <3>5, <3>6, <3>7
  <2> QED
    BY <2>1, <2>2
<1> QED
  BY <1>1, <1>4, <1>5, ExpireLockRowStatement DEF ExpireStep
(* A new balance that is not refused covers what the user has reserved. *)
LEMMA NewBalanceCovers ==
    ASSUME LedgerOK, NEW u \in users, NEW amount \in Nat,
           NEW operation \in {"grant", "revoke", "reset"},
           ~(NewBalance(operation, u, amount) > MaxCredits),
           ~(operation = "reset" /\ amount < Reserved(u))
    PROVE  /\ NewBalance(operation, u, amount) \in 0 .. MaxCredits
           /\ NewBalance(operation, u, amount) >= Reserved(u)
<1>1. u \in User /\ credits[u] \in 0 .. MaxCredits /\ MaxCredits \in Nat
  BY LimitAssumption DEF LedgerOK, TypeOK
<1>2. Reserved(u) \in Nat /\ Reserved(u) <= credits[u]
  BY UnitsFinite DEF LedgerOK, Covered, Reserved, LiveOf, Live
<1>3. CASE operation = "grant"
  BY <1>1, <1>2, <1>3 DEF NewBalance
<1>4. CASE operation = "revoke"
  <2>1. Spendable(u) \in Nat /\ Spendable(u) <= credits[u] - Reserved(u)
    BY <1>1, <1>2 DEF Spendable
  <2> QED
    BY <1>1, <1>2, <1>4, <2>1 DEF NewBalance
<1>5. CASE operation = "reset"
  BY <1>1, <1>2, <1>5 DEF NewBalance
<1> QED
  BY <1>3, <1>4, <1>5

LEMMA AdjustLockStatement ==
    ASSUME LedgerOK, LocksInv, NEW s \in Session, AdjustLockUser(s), AdjustOK(s)
    PROVE  Statement(s)
<1>1. PICK c \in Running : c = call[s] /\ c.kind = "adjust" /\ call[s] # Idle /\ at[s] = "user"
  BY DEF AdjustLockUser, Runs, LocksInv, SessionTypeOK
<1>2. c.batch \in Seq(User) /\ c.batch # << >>
  BY <1>1, RunningShape DEF AdjustLockUser
<1>3. PICK u \in User : u = Head(c.batch)
  BY <1>2
<1>4. CASE u \notin users
  BY <1>1, <1>3, <1>4, LeaveStatement DEF AdjustLockUser, LocksInv
<1>5. CASE u \in users
  <2>1. /\ TakeLock(s, UserRow(u)) /\ Goto(s, "sum") /\ UNCHANGED <<ledgerVars, call, plan>>
        /\ Len(transactions[u]) < MaxEntries
    BY <1>1, <1>3, <1>5 DEF AdjustLockUser
  <2>2. SessionTypeOK' /\ Exclusive' /\ OthersStay(s) /\ at'[s] = "sum"
        /\ held'[s] = held[s] \cup {UserRow(u)}
    BY <2>1, RowsTyped, LockAndForm DEF LocksInv, Statements
  <2>3. Adjusted(s)' = Adjusted(s) \cup {u} /\ u \notin Adjusted(s)
    BY <2>1, <2>2, RowsDiffer DEF Adjusted, TakeLock, Locked
  <2>4. Computed(s)' = Computed(s)
    BY <1>1, <1>3, <2>1, <2>2, <2>3 DEF Computed
  <2>5. \A v \in User : Reserved(v)' = Reserved(v)
    BY <2>1 DEF ledgerVars, vars, Reserved, LiveOf, Live
  <2>6. IsFiniteSet(Adjusted(s)')
    BY <2>3, FS_AddElement DEF AdjustOK
  <2>7. held'[s] = {UserRow(v) : v \in Adjusted(s)'}
    BY <2>2, <2>3 DEF AdjustOK
  <2>8. \A v \in Adjusted(s)' : v \in users' /\ Len(transactions'[v]) < MaxEntries
    BY <1>5, <2>1, <2>3 DEF AdjustOK, ledgerVars, vars
  <2>9. \A v \in Computed(s)' : plan'[s][v] \in 0 .. MaxCredits /\ plan'[s][v] >= Reserved(v)'
    <3>1. \A v \in Computed(s) : v \in User
      BY DEF Computed, Adjusted
    <3> QED
      BY <2>1, <2>4, <2>5, <3>1 DEF AdjustOK
  <2>10. call'[s] = c
    BY <1>1, <2>1
  <2>11. AdjustOK(s)'
    BY <1>2, <1>3, <2>2, <2>3, <2>6, <2>7, <2>8, <2>9, <2>10 DEF AdjustOK
  <2> QED
    BY <1>1, <2>1, <2>2, <2>10, <2>11 DEF Statement, SessionOK, Does
<1> QED
  BY <1>4, <1>5

LEMMA AdjustComputeStatement ==
    ASSUME LedgerOK, LocksInv, NEW s \in Session, AdjustCompute(s), AdjustOK(s)
    PROVE  Statement(s)
<1>1. PICK c \in Running : c = call[s] /\ c.kind = "adjust" /\ call[s] # Idle /\ at[s] = "sum"
  BY DEF AdjustCompute, Runs, LocksInv, SessionTypeOK
<1>2. /\ c.batch \in Seq(User) /\ c.batch # << >>
      /\ c.operation \in {"grant", "revoke", "reset"} /\ c.amount \in Nat
  BY <1>1, RunningShape DEF AdjustOK
<1>3. PICK u \in User : u = Head(c.batch)
  BY <1>2
<1>4. u \in Adjusted(s) /\ u \in users /\ Adjusted(s) \subseteq User
  BY <1>1, <1>3 DEF AdjustOK, Adjusted
<1> DEFINE balance == NewBalance(c.operation, u, c.amount)
<1>5. CASE balance > MaxCredits \/ (c.operation = "reset" /\ c.amount < Reserved(u))
  BY <1>1, <1>3, <1>5, LeaveStatement DEF AdjustCompute, LocksInv
<1>6. CASE ~(balance > MaxCredits \/ (c.operation = "reset" /\ c.amount < Reserved(u)))
  <2>1. PICK b \in 0 .. MaxCredits : b = balance /\ b >= Reserved(u)
    BY <1>2, <1>4, <1>6, NewBalanceCovers
  <2>2. /\ plan' = [plan EXCEPT ![s][u] = b]
        /\ call' = [call EXCEPT ![s] = [c EXCEPT !.batch = Tail(c.batch)]]
        /\ Goto(s, IF Len(c.batch) = 1 THEN "commit" ELSE "user")
        /\ UNCHANGED <<ledgerVars, held>>
    BY <1>1, <1>3, <1>6, <2>1 DEF AdjustCompute
  <2>0. Tail(c.batch) \in Seq(User) /\ (Len(c.batch) # 1 => Tail(c.batch) # << >>)
    <3>1. PICK batch \in Seq(User) : batch = c.batch /\ batch # << >>
      BY <1>2
    <3>2. Tail(batch) \in Seq(User) /\ Len(Tail(batch)) = Len(batch) - 1
      BY <3>1, HeadTailProperties
    <3>3. Tail(batch) = << >> => Len(Tail(batch)) = 0
      BY EmptySeq
    <3>4. Len(batch) \in Nat
      BY LenProperties
    <3>5. Tail(batch) = << >> => Len(batch) = 1
      BY <3>2, <3>3, <3>4
    <3> QED
      BY <3>1, <3>2, <3>5
  <2>3. [c EXCEPT !.batch = Tail(c.batch)] \in Running
    BY <1>1, <2>0, RunningShape
  <2>4. /\ [c EXCEPT !.batch = Tail(c.batch)].kind = "adjust"
        /\ [c EXCEPT !.batch = Tail(c.batch)].batch = Tail(c.batch)
    <3>1. DOMAIN c = {"kind", "operation", "amount", "batch"}
      BY <1>1 DEF Running
    <3> QED
      BY <1>1, <3>1
  <2>5. /\ call' \in [Session -> Running \cup {Idle}]
        /\ call'[s].kind = "adjust" /\ call'[s].batch = Tail(c.batch) /\ call'[s] # Idle
        /\ \A t \in Session \ {s} : call'[t] = call[t]
    BY <2>2, <2>3, <2>4, IdleAssumption DEF LocksInv, SessionTypeOK
  <2>6. /\ at' \in [Session -> Statements]
        /\ at'[s] = IF Len(c.batch) = 1 THEN "commit" ELSE "user"
        /\ \A t \in Session \ {s} : at'[t] = at[t]
    BY <2>2 DEF Goto, LocksInv, SessionTypeOK, Statements
  <2>7. /\ plan' \in [Session -> [User -> Int]]
        /\ plan'[s] = [plan[s] EXCEPT ![u] = b]
        /\ \A t \in Session \ {s} : plan'[t] = plan[t]
    <3>1. plan[s] \in [User -> Int] /\ plan \in [Session -> [User -> Int]]
      BY DEF LocksInv, SessionTypeOK
    <3>2. [plan[s] EXCEPT ![u] = b] \in [User -> Int]
      BY <3>1
    <3> QED
      BY <2>2, <3>1, <3>2
  <2>8. SessionTypeOK' /\ Exclusive' /\ OthersStay(s)
    BY <2>2, <2>5, <2>6, <2>7 DEF SessionTypeOK, Exclusive, LocksInv, OthersStay
  <2>9. Adjusted(s)' = Adjusted(s) /\ Computed(s)' = Adjusted(s)
    BY <2>2, <2>6 DEF Adjusted, Computed
  <2>10. \A v \in User : Reserved(v)' = Reserved(v)
    BY <2>2 DEF ledgerVars, vars, Reserved, LiveOf, Live
  <2>11. ASSUME NEW v \in Adjusted(s)
         PROVE  plan'[s][v] \in 0 .. MaxCredits /\ plan'[s][v] >= Reserved(v)'
    <3>1. v \in User /\ plan[s] \in [User -> Int]
      BY <1>4, <2>11 DEF LocksInv, SessionTypeOK
    <3>2. CASE v = u
      BY <2>1, <2>7, <2>10, <3>1, <3>2
    <3>3. CASE v # u
      <4>1. v \in Computed(s)
        BY <1>1, <1>3, <2>11, <3>3 DEF Computed
      <4> QED
        BY <2>7, <2>10, <3>1, <3>3, <4>1 DEF AdjustOK
    <3> QED
      BY <3>2, <3>3
  <2>13. held'[s] = {UserRow(v) : v \in Adjusted(s)'} /\ IsFiniteSet(Adjusted(s)')
    BY <2>2, <2>9 DEF AdjustOK
  <2>14. \A v \in Adjusted(s)' : v \in users' /\ Len(transactions'[v]) < MaxEntries
    BY <2>2, <2>9 DEF AdjustOK, ledgerVars, vars
  <2>15. AdjustOK(s)'
    BY <1>4, <2>5, <2>6, <2>0, <2>9, <2>11, <2>13, <2>14 DEF AdjustOK
  <2> QED
    BY <2>2, <2>5, <2>8, <2>15 DEF Statement, SessionOK, Does
<1> QED
  BY <1>5, <1>6

LEMMA AdjustStatement ==
    ASSUME LedgerOK, LocksInv, NEW s \in Session, AdjustStep(s)
    PROVE  Statement(s) \/ AdjustCommit(s)
<1>1. AdjustOK(s)
  BY DEF AdjustStep, AdjustLockUser, AdjustCompute, AdjustCommit, Runs, Does, LocksInv,
         SessionOK
<1> QED
  BY <1>1, AdjustLockStatement, AdjustComputeStatement DEF AdjustStep

(* A transaction begins with no lock and no fact, but an expiry: its rows are
   the oldest active ones. *)
LEMMA BeginStatement ==
    ASSUME LedgerOK, LocksInv, NEW s \in Session, NEW c \in Call, Begin(s, c)
    PROVE  /\ UNCHANGED ledgerVars
           /\ SessionTypeOK' /\ Exclusive' /\ OthersStay(s) /\ OwnIds'
           /\ SessionOK(s)'
<1>1. c \in Running /\ c # Idle
  BY CallIsRunning, IdleAssumption
<1>2. /\ call[s] = Idle /\ held'[s] = {} /\ UNCHANGED <<ledgerVars, held, plan>>
      /\ call' = [call EXCEPT ![s] = c]
      /\ at' = [at EXCEPT ![s] = FirstStatement(c)]
  BY DEF Begin, LocksInv, SessionOK
<1>3. FirstStatement(c) \in {"user", "look", "row"}
      /\ (c.kind \in {"reserve", "adjust", "delete"} => FirstStatement(c) = "user")
      /\ (c.kind = "finalize" => FirstStatement(c) = "look")
      /\ (c.kind \in {"release", "expire"} => FirstStatement(c) = "row")
  BY <1>1, RunningShape DEF FirstStatement
<1>4. SessionTypeOK' /\ Exclusive' /\ OthersStay(s) /\ call'[s] = c /\ at'[s] = FirstStatement(c)
  BY <1>1, <1>2, <1>3 DEF LocksInv, SessionTypeOK, Exclusive, OthersStay, Statements
<1>5. OwnIds'
  <2>1. c.kind = "reserve" =>
            c.reservation \in unissued /\ \A t \in Session : call[t] # c
    BY DEF Begin
  <2>2. ASSUME c.kind = "reserve", NEW t \in Session, Does(t, "reserve")
        PROVE  call[t].reservation # c.reservation
    <3>1. call[t] \in Running /\ call[t].kind = "reserve"
      BY <2>2 DEF LocksInv, SessionTypeOK, Does
    <3>2. \A d, e \in Running : d.kind = "reserve" /\ e.kind = "reserve"
                                /\ d.reservation = e.reservation => d = e
      BY DEF Running
    <3> QED
      BY <1>1, <2>1, <2>2, <3>1, <3>2
  <2> QED
    BY <1>2, <1>4, <2>1, <2>2 DEF LocksInv, OwnIds, Does, OthersStay, ledgerVars, vars
<1>6. HeldReservations(s)' = {} /\ Adjusted(s)' = {}
  BY <1>2 DEF HeldReservations, Adjusted
<1>7. ASSUME c.kind = "expire" PROVE SweepOK(s)'
  <2>1. c.rows \subseteq Reservation /\ Sweep(s)' = c.rows
    BY <1>1, <1>4, <1>6, <1>7, RunningShape DEF Sweep
  <2>2. PastCutoff(c.rows)
    BY <1>7 DEF Begin
  <2> QED
    BY <1>2, <1>6, <2>1, <2>2 DEF SweepOK, PastCutoff, ledgerVars, vars
<1>8. ASSUME c.kind = "adjust" PROVE AdjustOK(s)'
  BY <1>2, <1>3, <1>4, <1>6, <1>8, FS_EmptySet DEF AdjustOK, Computed
<1> QED
  BY <1>1, <1>2, <1>3, <1>4, <1>5, <1>6, <1>7, <1>8, RunningShape
     DEF SessionOK, Does, ReserveOK, ReleaseOK, ExpireOK, FinalizeOK, DeleteOK
-----------------------------------------------------------------------------
(* Commits and single-row transactions write the rows they have locked, and
   insert; nobody else holds those. *)

WritesOnly(rows) ==
    /\ apiKeys' \subseteq apiKeys
    /\ unissued' \subseteq unissued
    /\ \A r \in Reservation :
        /\ status'[r] = "active" => status[r] = "active" \/ r \in unissued
        /\ ReservationRow(r) \notin rows => status'[r] = status[r] \/ r \notin Live
    /\ \A u \in User : UserRow(u) \notin rows =>
            /\ u \in users => u \in users'
            /\ u \in available => u \in available'
            /\ credits'[u] = credits[u]
            /\ transactions'[u] = transactions[u]
            /\ LiveOf(u)' \subseteq LiveOf(u)
    /\ \A k \in Key : KeyRow(k) \notin rows =>
            /\ k \in apiKeys => k \in apiKeys'
            /\ k \in activeKeys => k \in activeKeys'
            /\ usedCredits'[k] = usedCredits[k]
            /\ totalQuota'[k] = totalQuota[k]

LEMMA HeldAreLive ==
    ASSUME LocksInv, NEW s \in Session, NEW r \in Reservation, ReservationRow(r) \in held[s]
    PROVE  r \in Live
<1>1. SessionOK(s) /\ call[s] # Idle /\ call[s] \in Running
  BY DEF LocksInv, SessionOK, SessionTypeOK
<1>2. CASE Does(s, "reserve")
  BY <1>1, <1>2, RowsDiffer DEF SessionOK, ReserveOK
<1>3. CASE Does(s, "release")
  <2>1. call[s].reservation = r /\ status[r] \in Releasable
    BY <1>1, <1>3, RowsDiffer DEF SessionOK, ReleaseOK
  <2> QED
    BY <2>1 DEF Releasable, Live
<1>4. CASE Does(s, "expire")
  BY <1>1, <1>4 DEF SessionOK, ExpireOK, HeldReservations, Live
<1>5. CASE Does(s, "finalize")
  <2>1. call[s].reservation = r /\ status[r] \in Settleable
    BY <1>1, <1>5, RowsDiffer DEF SessionOK, FinalizeOK
  <2> QED
    BY <2>1 DEF Settleable, Live
<1>6. CASE Does(s, "adjust")
  BY <1>1, <1>6, RowsDiffer DEF SessionOK, AdjustOK
<1>7. CASE Does(s, "delete")
  BY <1>1, <1>7 DEF SessionOK, DeleteOK, HeldReservations, LiveOf
<1> QED
  BY <1>1, <1>2, <1>3, <1>4, <1>5, <1>6, <1>7, RunningShape DEF Does

LEMMA UntouchedByWrites ==
    ASSUME LocksInv, NEW t \in Session, NEW rows, WritesOnly(rows), rows \cap held[t] = {},
           UNCHANGED <<call[t], at[t], held[t], plan[t]>>
    PROVE  Untouched(t)
<1>1. \A r \in Reservation : ReservationRow(r) \in held[t] => status'[r] = status[r]
  BY HeldAreLive DEF WritesOnly
<1> QED
  BY <1>1 DEF WritesOnly, Untouched

LEMMA ReserveCommitLedger ==
    ASSUME LedgerOK, LocksInv, NEW s \in Session, ReserveCommit(s)
    PROVE  /\ \E r \in Reservation : Reserve(r)
           /\ WritesOnly(held[s])
           /\ \A t \in Session \ {s} : 
                Does(t, "reserve") /\ call[t].reservation \in unissued =>
                    call[t].reservation \in unissued'
<1>1. Does(s, "reserve") /\ ReserveOK(s) /\ at[s] = "commit"
  BY DEF ReserveCommit, Runs, Does, LocksInv, SessionOK
<1>2. PICK r \in Reservation : r = call[s].reservation
  BY <1>1, RunningShape DEF LocksInv, SessionTypeOK, Does
<1>3. PICK u \in User, k \in Key : u = Owner(r) /\ k = KeyOf[r]
  BY OwnersTyped
<1>4. /\ r \in unissued /\ r \notin Live
      /\ held[s] = {UserRow(u), KeyRow(k)}
      /\ u \in users /\ u \in available /\ k \in activeKeys /\ k \in apiKeys
      /\ credits[u] - Reserved(u) >= AmountOf[r]
      /\ WithinQuota(k, AmountOf[r])
  BY <1>1, <1>2, <1>3 DEF ReserveOK, LocksInv, OwnIds, LedgerOK, TypeOK, Apart, IssuedOnce
<1>5. /\ usedCredits' = [usedCredits EXCEPT ![k] = @ + AmountOf[r]]
      /\ status' = [status EXCEPT ![r] = "active"]
      /\ unissued' = unissued \ {r}
      /\ UNCHANGED <<accountVars, credits, attempts, transactions>>
  BY <1>2, <1>3 DEF ReserveCommit
<1>6. Reserve(r)
  BY <1>3, <1>4, <1>5 DEF Reserve
<1>7. \A v \in User : v # u => LiveOf(v)' \subseteq LiveOf(v)
  BY <1>3, <1>5 DEF LiveOf, Live, LedgerOK, TypeOK
<1>8. WritesOnly(held[s])
  BY <1>4, <1>5, <1>7 DEF WritesOnly, LedgerOK, TypeOK, accountVars
<1> QED
  BY <1>1, <1>2, <1>5, <1>6, <1>8 DEF LocksInv, OwnIds

LEMMA TotalNone == Total({}) = 0
BY FS_EmptySet DEF Total, Units

LEMMA ReleaseCommitLedger ==
    ASSUME LedgerOK, LocksInv, NEW s \in Session, ReleaseCommit(s)
    PROVE  /\ \E r \in Reservation : Release(r)
           /\ WritesOnly(held[s]) /\ UNCHANGED unissued
<1>1. Does(s, "release") /\ ReleaseOK(s) /\ at[s] = "commit"
  BY DEF ReleaseCommit, Runs, Does, LocksInv, SessionOK
<1>2. PICK r \in Reservation : r = call[s].reservation
  BY <1>1, RunningShape DEF LocksInv, SessionTypeOK, Does
<1>3. PICK k \in Key : k = KeyOf[r]
  BY OwnersTyped
<1>4. /\ status[r] # "none" /\ ReservationRow(r) \in held[s]
      /\ KeyRow(k) \in held[s] <=> k \in apiKeys
  BY <1>1, <1>2, <1>3, RowsDiffer DEF ReleaseOK, Releasable
<1>5. /\ usedCredits' = [usedCredits EXCEPT ![k] =
                IF KeyRow(k) \notin held[s] THEN @
                ELSE IF @ > AmountOf[r] THEN @ - AmountOf[r] ELSE 0]
      /\ status' = [status EXCEPT ![r] = "none"]
      /\ attempts' = [attempts EXCEPT ![r] = 0]
      /\ UNCHANGED <<accountVars, credits, unissued, transactions>>
  BY <1>2, <1>3 DEF ReleaseCommit
<1> DEFINE refund == [l \in Key |-> Total({q \in {r} : KeyOf[q] = l})]
<1>6. refund[k] = AmountOf[r] /\ \A l \in Key \ {k} : refund[l] = 0
  <2>1. {q \in {r} : KeyOf[q] = k} = {r} /\ \A l \in Key \ {k} : {q \in {r} : KeyOf[q] = l} = {}
    BY <1>3
  <2> QED
    BY <2>1, TotalOne, TotalNone
<1> HIDE DEF refund
<1>7. Refund(refund)
  <2>1. usedCredits \in [Key -> Nat]
    BY DEF LedgerOK, TypeOK
  <2>2. \A l \in Key : usedCredits'[l] =
            IF l \notin apiKeys THEN usedCredits[l]
            ELSE IF usedCredits[l] > refund[l] THEN usedCredits[l] - refund[l] ELSE 0
    BY <1>4, <1>5, <1>6, <2>1
  <2> QED
    BY <1>5, <2>1, <2>2 DEF Refund
<1>8. DeleteRows({r})
  BY <1>5 DEF DeleteRows, LedgerOK, TypeOK
<1>9. Release(r)
  BY <1>4, <1>5, <1>7, <1>8 DEF Release, ReleaseRows, refund
<1>10. \A v \in User : LiveOf(v)' \subseteq LiveOf(v)
  BY <1>5 DEF LiveOf, Live, LedgerOK, TypeOK
<1>11. WritesOnly(held[s])
  BY <1>4, <1>5, <1>10 DEF WritesOnly, LedgerOK, TypeOK, accountVars
<1> QED
  BY <1>5, <1>9, <1>11

LEMMA FinalizeCommitLedger ==
    ASSUME LedgerOK, LocksInv, NEW s \in Session, FinalizeCommit(s)
    PROVE  /\ \E r \in Reservation : Charge(r)
           /\ WritesOnly(held[s]) /\ UNCHANGED unissued
<1>1. Does(s, "finalize") /\ FinalizeOK(s) /\ at[s] = "commit"
  BY DEF FinalizeCommit, Runs, Does, LocksInv, SessionOK
<1>2. PICK r \in Reservation : r = call[s].reservation
  BY <1>1, RunningShape DEF LocksInv, SessionTypeOK, Does
<1>3. PICK u \in User : u = Owner(r)
  BY OwnersTyped
<1>4. /\ status[r] \in {"pending", "dead_letter"} /\ u \in users
      /\ credits[u] >= AmountOf[r]
      /\ held[s] = {ReservationRow(r), UserRow(u)}
  BY <1>1, <1>2, <1>3 DEF FinalizeOK, Settleable
<1>5. AmountOf[r] \in Nat /\ credits[u] \in Nat
  BY OwnersTyped, LimitAssumption DEF LedgerOK, TypeOK
<1>6. PICK balance \in Nat : balance = credits[u] - AmountOf[r]
  BY <1>4, <1>5
<1>7. /\ credits' = [credits EXCEPT ![u] = balance]
      /\ transactions' = [transactions EXCEPT ![u] =
                Append(@, [amount |-> -AmountOf[r], balanceAfter |-> balance,
                           reservation |-> r])]
      /\ status' = [status EXCEPT ![r] = "none"]
      /\ attempts' = [attempts EXCEPT ![r] = 0]
      /\ UNCHANGED <<accountVars, usedCredits, unissued>>
  BY <1>2, <1>3, <1>6 DEF FinalizeCommit
<1>8. EntryFor(u, balance, r)
        = [amount |-> -AmountOf[r], balanceAfter |-> balance, reservation |-> r]
  BY <1>5, <1>6 DEF EntryFor
<1>9. DeleteRows({r})
  BY <1>7 DEF DeleteRows, LedgerOK, TypeOK
<1>10. Charge(r)
  <2>1. transactions' = [transactions EXCEPT ![u] = Append(@, EntryFor(u, balance, r))]
    BY <1>7, <1>8
  <2>2. balance >= 0 /\ credits[u] - AmountOf[r] = balance
    BY <1>6
  <2> QED
    BY <1>3, <1>4, <1>7, <1>9, <2>1, <2>2, Zenon DEF Charge
<1>11. \A v \in User : LiveOf(v)' \subseteq LiveOf(v)
  BY <1>7 DEF LiveOf, Live, LedgerOK, TypeOK
<1>12. WritesOnly(held[s])
  BY <1>4, <1>7, <1>11, RowsDiffer DEF WritesOnly, LedgerOK, TypeOK, accountVars
<1> QED
  BY <1>7, <1>10, <1>12
LEMMA ExpireCommitLedger ==
    ASSUME LedgerOK, LocksInv, NEW s \in Session, ExpireCommit(s)
    PROVE  /\ \E S \in SUBSET Reservation : ReleaseExpired(S)
           /\ WritesOnly(held[s]) /\ UNCHANGED unissued
<1>1. Does(s, "expire") /\ ExpireOK(s) /\ at[s] = "commit"
  BY DEF ExpireCommit, Runs, Does, LocksInv, SessionOK
<1>2. PICK S \in SUBSET Reservation : S = HeldReservations(s)
  BY DEF HeldReservations
<1> DEFINE refund == [k \in Key |-> Total({r \in S : KeyOf[r] = k})]
<1>3. S # {} /\ \A r \in S : status[r] = "active"
  BY <1>1, <1>2 DEF ExpireOK
<1>4. /\ usedCredits' = [k \in Key |->
                IF KeyRow(k) \notin held[s] THEN usedCredits[k]
                ELSE IF usedCredits[k] > refund[k] THEN usedCredits[k] - refund[k] ELSE 0]
      /\ DeleteRows(S)
      /\ UNCHANGED <<accountVars, credits, unissued, transactions>>
  BY <1>2 DEF ExpireCommit, DeleteRows
<1>5. ASSUME NEW k \in Key
      PROVE  /\ KeyRow(k) \in held[s] => k \in apiKeys
             /\ k \in apiKeys /\ KeyRow(k) \notin held[s] => refund[k] = 0
  <2>1. KeyRow(k) \in held[s] => k \in apiKeys
    BY <1>1 DEF ExpireOK
  <2>2. k \in apiKeys /\ KeyRow(k) \notin held[s] => {r \in S : KeyOf[r] = k} = {}
    BY <1>1, <1>2 DEF ExpireOK, Unrefunded
  <2> QED
    BY <2>1, <2>2, TotalNone
<1> HIDE DEF refund
<1>6. Refund(refund)
  <2>1. usedCredits \in [Key -> Nat]
    BY DEF LedgerOK, TypeOK
  <2>2. \A k \in Key : usedCredits'[k] =
            IF k \notin apiKeys THEN usedCredits[k]
            ELSE IF usedCredits[k] > refund[k] THEN usedCredits[k] - refund[k] ELSE 0
    BY <1>4, <1>5, <2>1
  <2> QED
    BY <1>4, <2>1, <2>2 DEF Refund
<1>7. ReleaseExpired(S)
  BY <1>3, <1>4, <1>6 DEF ReleaseExpired, ReleaseRows, refund
<1>8. \A v \in User : LiveOf(v)' \subseteq LiveOf(v)
  BY <1>4 DEF LiveOf, Live, LedgerOK, TypeOK, DeleteRows
<1>9. \A r \in Reservation : r \in S <=> ReservationRow(r) \in held[s]
  BY <1>2 DEF HeldReservations
<1>10. WritesOnly(held[s])
  BY <1>4, <1>8, <1>9 DEF WritesOnly, LedgerOK, TypeOK, accountVars, DeleteRows
<1> QED
  BY <1>4, <1>7, <1>10

LEMMA AdjustCommitLedger ==
    ASSUME LedgerOK, LocksInv, NEW s \in Session, AdjustCommit(s)
    PROVE  /\ \E us \in SUBSET User : \E balance \in [us -> 0 .. MaxCredits] : Adjust(us, balance)
           /\ WritesOnly(held[s]) /\ UNCHANGED unissued
<1>1. Does(s, "adjust") /\ AdjustOK(s) /\ at[s] = "commit"
  BY DEF AdjustCommit, Runs, Does, LocksInv, SessionOK
<1>2. PICK us \in SUBSET User : us = Adjusted(s)
  BY DEF Adjusted
<1>3. \A u \in us : plan[s][u] \in 0 .. MaxCredits /\ plan[s][u] >= Reserved(u)
  BY <1>1, <1>2 DEF AdjustOK, Computed
<1>4. PICK balance \in [us -> 0 .. MaxCredits] : balance = [u \in us |-> plan[s][u]]
  BY <1>3
<1>5. /\ credits' = [u \in User |-> IF u \in us THEN balance[u] ELSE credits[u]]
      /\ transactions' = [u \in User |->
            IF u \in us
            THEN Append(transactions[u], EntryFor(u, balance[u], NoReservation))
            ELSE transactions[u]]
      /\ UNCHANGED <<accountVars, reservationVars, usedCredits>>
  BY <1>2, <1>4 DEF AdjustCommit, EntryFor
<1>6. /\ us \subseteq users /\ us # {}
      /\ \A u \in us : Len(transactions[u]) < MaxEntries
      /\ \A u \in us : balance[u] >= Reserved(u)
  BY <1>1, <1>2, <1>3, <1>4 DEF AdjustOK
<1>7. Adjust(us, balance)
  BY <1>5, <1>6 DEF Adjust
<1>8. \A v \in User : LiveOf(v)' = LiveOf(v)
  BY <1>5 DEF LiveOf, Live, reservationVars
<1>9. \A u \in User : u \in us <=> UserRow(u) \in held[s]
  BY <1>2 DEF Adjusted
<1>10. WritesOnly(held[s])
  BY <1>5, <1>8, <1>9 DEF WritesOnly, LedgerOK, TypeOK, accountVars, reservationVars
<1> QED
  BY <1>5, <1>7, <1>10 DEF reservationVars

LEMMA DeleteCommitLedger ==
    ASSUME LedgerOK, LocksInv, NEW s \in Session, DeleteCommit(s)
    PROVE  /\ \E u \in User : DeleteUser(u)
           /\ WritesOnly(held[s]) /\ UNCHANGED unissued
<1>1. Does(s, "delete") /\ DeleteOK(s) /\ at[s] = "cascade"
  BY DEF DeleteCommit, Runs, Does, LocksInv, SessionOK
<1>2. PICK u \in User : u = call[s].user
  BY <1>1, RunningShape DEF LocksInv, SessionTypeOK, Does
<1> DEFINE S == HeldReservations(s)
           owned == {k \in Key : KeyRow(k) \in held[s]}
<1>3. /\ UserRow(u) \in held[s] /\ u \in users
      /\ \A k \in owned : k \in apiKeys /\ OwnerOf[k] = u
      /\ S = LiveOf(u)
      /\ \A k \in apiKeys : OwnerOf[k] = u => k \in owned
  <2>1. CascadeKeys(s) = {} /\ CascadeReservations(s) = {}
    BY DEF DeleteCommit
  <2>2. LiveOf(u) \subseteq S
    BY <1>2, <2>1 DEF CascadeReservations, HeldReservations, LiveOf, Live
  <2>3. \A k \in apiKeys : OwnerOf[k] = u => k \in owned
    BY <1>2, <2>1 DEF CascadeKeys, LedgerOK, TypeOK
  <2> QED
    BY <1>1, <1>2, <2>2, <2>3 DEF DeleteOK
<1>4. /\ users' = users \ {u}
      /\ available' = available \ {u}
      /\ apiKeys' = apiKeys \ owned
      /\ activeKeys' = activeKeys \ owned
      /\ DeleteRows(S)
      /\ UNCHANGED <<credits, usedCredits, totalQuota, unissued, transactions>>
  BY <1>2 DEF DeleteCommit, DeleteRows
<1>5. /\ apiKeys \ owned = apiKeys \ {k \in Key : OwnerOf[k] = u}
      /\ activeKeys \ owned = activeKeys \ {k \in Key : OwnerOf[k] = u}
  BY <1>3 DEF LedgerOK, TypeOK
<1>6. DeleteUser(u)
  BY <1>3, <1>4, <1>5 DEF DeleteUser
<1>7. \A v \in User : LiveOf(v)' \subseteq LiveOf(v)
  BY <1>4 DEF LiveOf, Live, LedgerOK, TypeOK, DeleteRows
<1>8. WritesOnly(held[s])
  BY <1>3, <1>4, <1>7 DEF WritesOnly, LedgerOK, TypeOK, DeleteRows, HeldReservations
<1> QED
  BY <1>4, <1>6, <1>8

LEMMA RowUpdateLedger ==
    ASSUME LedgerOK, LocksInv,
           \/ \E r \in Reservation : ReservationUpdate(r)
           \/ \E u \in User : UserUpdate(u)
           \/ \E k \in Key : KeyUpdate(k)
    PROVE  /\ Next
           /\ UNCHANGED <<sessionVars, unissued>>
           /\ \E row : row \notin Locked /\ WritesOnly({row})
<1>1. ASSUME NEW r \in Reservation, ReservationUpdate(r)
      PROVE  /\ Next /\ UNCHANGED <<sessionVars, unissued>>
             /\ ReservationRow(r) \notin Locked /\ WritesOnly({ReservationRow(r)})
  <2>1. MarkPending(r) \/ RecordAttempt(r) \/ Retry(r)
    BY <1>1 DEF ReservationUpdate
  <2>2. /\ UNCHANGED <<accountVars, credits, usedCredits, unissued, transactions>>
        /\ \A q \in Reservation \ {r} : status'[q] = status[q]
        /\ status[r] # "none" /\ status'[r] \notin {"none", "active"}
    BY <2>1 DEF MarkPending, RecordAttempt, Retry, LedgerOK, TypeOK
  <2>3. Live' = Live
    BY <2>2 DEF Live
  <2>4. WritesOnly({ReservationRow(r)})
    BY <2>2, <2>3 DEF WritesOnly, LiveOf, accountVars
  <2> QED
    BY <1>1, <2>1, <2>2, <2>4 DEF ReservationUpdate, Next, ReservationStep
<1>2. ASSUME NEW u \in User, UserUpdate(u)
      PROVE  /\ Next /\ UNCHANGED <<sessionVars, unissued>>
             /\ UserRow(u) \notin Locked /\ WritesOnly({UserRow(u)})
  <2>1. PICK on \in BOOLEAN : SetAvailable(u, on)
    BY <1>2 DEF UserUpdate
  <2>2. \A v : LiveOf(v)' = LiveOf(v)
    BY <2>1 DEF SetAvailable, reservationVars, LiveOf, Live
  <2>3. WritesOnly({UserRow(u)})
    BY <2>1, <2>2 DEF SetAvailable, reservationVars, WritesOnly
  <2> QED
    BY <1>2, <2>1, <2>3 DEF UserUpdate, Next, SetAvailable, reservationVars
<1>3. ASSUME NEW k \in Key, KeyUpdate(k)
      PROVE  /\ Next /\ UNCHANGED <<sessionVars, unissued>>
             /\ KeyRow(k) \notin Locked /\ WritesOnly({KeyRow(k)})
  <2>1. CASE DeleteKey(k)
    <3>1. \A v : LiveOf(v)' = LiveOf(v)
      BY <2>1 DEF DeleteKey, reservationVars, LiveOf, Live
    <3>2. WritesOnly({KeyRow(k)})
      BY <2>1, <3>1 DEF DeleteKey, reservationVars, WritesOnly
    <3> QED
      BY <1>3, <2>1, <3>2 DEF KeyUpdate, Next, DeleteKey, reservationVars
  <2>2. ASSUME NEW quota \in {NoQuota} \cup Quotas, NEW on \in BOOLEAN,
               ConfigureKey(k, quota, on)
        PROVE  /\ Next /\ UNCHANGED <<sessionVars, unissued>>
               /\ KeyRow(k) \notin Locked /\ WritesOnly({KeyRow(k)})
    <3>1. \A v : LiveOf(v)' = LiveOf(v)
      BY <2>2 DEF ConfigureKey, reservationVars, LiveOf, Live
    <3>2. WritesOnly({KeyRow(k)})
      BY <2>2, <3>1 DEF ConfigureKey, reservationVars, WritesOnly, LedgerOK, TypeOK
    <3> QED
      BY <1>3, <2>2, <3>2 DEF KeyUpdate, Next, ConfigureKey, reservationVars
  <2> QED
    BY <1>3, <2>1, <2>2 DEF KeyUpdate
<1> QED
  BY <1>1, <1>2, <1>3
-----------------------------------------------------------------------------
(* The steps together. *)

LEMMA OthersKept ==
    ASSUME LedgerOK, LocksInv, NEW s \in Session,
           \A t \in Session \ {s} : Untouched(t), SessionOK(s)'
    PROVE  \A t \in Session : SessionOK(t)'
BY SessionKept DEF LocksInv

LEMMA ReadStep ==
    ASSUME LedgerOK, LocksInv, NEW s \in Session, UNCHANGED ledgerVars,
           SessionTypeOK', Exclusive', OthersStay(s), OwnIds', SessionOK(s)'
    PROVE  [Next]_vars /\ LocksInv'
<1>1. \A t \in Session \ {s} : Untouched(t)
  BY UntouchedByReads DEF OthersStay
<1> QED
  BY <1>1, OthersKept DEF LocksInv, ledgerVars

LEMMA StatementStep ==
    ASSUME LedgerOK, LocksInv, NEW s \in Session, Statement(s)
    PROVE  [Next]_vars /\ LocksInv'
<1>1. \A t \in Session : Does(t, "reserve")' =>
            Does(t, "reserve") /\ call'[t].reservation = call[t].reservation
  BY DEF Statement, OthersStay, Does
<1>2. unissued' = unissued
  BY DEF Statement, ledgerVars, vars
<1>3. OwnIds'
  BY <1>1, <1>2 DEF LocksInv, OwnIds
<1> QED
  BY <1>3, ReadStep DEF Statement

LEMMA CommitStep ==
    ASSUME LedgerOK, LocksInv, NEW s \in Session, End(s), Next, WritesOnly(held[s]),
           \A t \in Session \ {s} :
                Does(t, "reserve") /\ call[t].reservation \in unissued =>
                    call[t].reservation \in unissued'
    PROVE  LocksInv'
<1>1. /\ SessionTypeOK' /\ Exclusive' /\ OthersStay(s)
      /\ call'[s] = Idle /\ SessionOK(s)'
  BY EndForm DEF LocksInv
<1>2. \A t \in Session \ {s} : Untouched(t)
  BY <1>1, UntouchedByWrites DEF LocksInv, Exclusive, OthersStay
<1>3. OwnIds'
  BY <1>1 DEF LocksInv, OwnIds, OthersStay, Does
<1> QED
  BY <1>1, <1>2, <1>3, OthersKept DEF LocksInv

LEMMA SessionStepKept ==
    ASSUME LedgerOK, LocksInv, NEW s \in Session, SessionStep(s)
    PROVE  [Next]_vars /\ LocksInv'
<1>1. ASSUME NEW c \in Call, Begin(s, c) PROVE [Next]_vars /\ LocksInv'
  BY <1>1, BeginStatement, ReadStep
<1>2. CASE Statement(s)
  BY <1>2, StatementStep
<1>3. CASE Abort(s)
  BY <1>3, <1>2, LeaveStatement DEF Abort, LocksInv
<1>4. CASE ReserveCommit(s)
  <2>1. Next
    BY <1>4, ReserveCommitLedger DEF Next, ReservationStep
  <2> QED
    BY <1>4, <2>1, ReserveCommitLedger, CommitStep DEF ReserveCommit
<1>5. CASE ReleaseCommit(s)
  <2>1. Next
    BY <1>5, ReleaseCommitLedger DEF Next, ReservationStep
  <2> QED
    BY <1>5, <2>1, ReleaseCommitLedger, CommitStep DEF ReleaseCommit
<1>6. CASE FinalizeCommit(s)
  <2>1. Next
    BY <1>6, FinalizeCommitLedger DEF Next, ReservationStep
  <2> QED
    BY <1>6, <2>1, FinalizeCommitLedger, CommitStep DEF FinalizeCommit
<1>7. CASE ExpireCommit(s)
  <2>1. Next
    BY <1>7, ExpireCommitLedger DEF Next
  <2> QED
    BY <1>7, <2>1, ExpireCommitLedger, CommitStep DEF ExpireCommit
<1>8. CASE AdjustCommit(s)
  <2>1. Next
    BY <1>8, AdjustCommitLedger DEF Next
  <2> QED
    BY <1>8, <2>1, AdjustCommitLedger, CommitStep DEF AdjustCommit
<1>9. CASE DeleteCommit(s)
  <2>1. Next
    BY <1>9, DeleteCommitLedger DEF Next
  <2> QED
    BY <1>9, <2>1, DeleteCommitLedger, CommitStep DEF DeleteCommit
<1> QED
  BY <1>1, <1>2, <1>3, <1>4, <1>5, <1>6, <1>7, <1>8, <1>9, ReserveStatement,
     ReleaseStatement, FinalizeStatement, ExpireStatement, AdjustStatement, DeleteStatement
     DEF SessionStep

LEMMA LocksNext ==
    LedgerOK /\ LocksInv /\ [StatementNext]_statementVars => [Next]_vars /\ LocksInv'
<1> SUFFICES ASSUME LedgerOK, LocksInv, [StatementNext]_statementVars
             PROVE  [Next]_vars /\ LocksInv'
  OBVIOUS
<1>1. ASSUME UNCHANGED <<sessionVars, unissued>>, \A t \in Session : Untouched(t)
      PROVE  LocksInv'
  <2>1. \A t \in Session : SessionOK(t)'
    BY <1>1, SessionKept DEF LocksInv
  <2> QED
    BY <1>1, <2>1 DEF LocksInv, SessionTypeOK, Exclusive, OwnIds, Does, sessionVars
<1>2. CASE UNCHANGED statementVars
  <2>1. \A t \in Session : Untouched(t)
    BY <1>2, UntouchedByReads DEF statementVars, sessionVars
  <2> QED
    BY <1>1, <1>2, <2>1 DEF statementVars, ledgerVars, vars
<1>3. ASSUME NEW row, row \notin Locked, WritesOnly({row}), UNCHANGED <<sessionVars, unissued>>
      PROVE  LocksInv'
  <2>1. \A t \in Session : {row} \cap held[t] = {}
    BY <1>3 DEF Locked
  <2>2. \A t \in Session : Untouched(t)
    BY <1>3, <2>1, UntouchedByWrites DEF sessionVars
  <2> QED
    BY <1>1, <1>3, <2>2
<1>4. ASSUME \/ \E r \in Reservation : ReservationUpdate(r)
             \/ \E u \in User : UserUpdate(u)
             \/ \E k \in Key : KeyUpdate(k)
      PROVE  [Next]_vars /\ LocksInv'
  BY <1>3, <1>4, RowUpdateLedger
<1>5. ASSUME NEW s \in Session, SessionStep(s) PROVE [Next]_vars /\ LocksInv'
  BY <1>5, SessionStepKept
<1> QED
  BY <1>2, <1>4, <1>5 DEF StatementNext

LEMMA LocksInit == StatementInit => LocksInv
<1> SUFFICES ASSUME StatementInit PROVE LocksInv
  OBVIOUS
<1>1. SessionTypeOK
  <2>1. [u \in User |-> 0] \in [User -> Int]
    OBVIOUS
  <2> QED
    BY <2>1 DEF StatementInit, SessionTypeOK, Statements
<1>2. \A s \in Session : call[s] = Idle /\ held[s] = {}
  BY DEF StatementInit
<1> QED
  BY <1>1, <1>2 DEF LocksInv, Exclusive, OwnIds, SessionOK, Does

LEMMA LedgerNext == LedgerOK /\ [Next]_vars => LedgerOK'
BY TypeNext, ApartNext, CoveredNext DEF LedgerOK, Apart

(* The invariant of the sessions: their locks exclude one another, and what
   each has read is true of the rows it holds. *)
THEOREM LocksProtect == StatementSpec => []StatementInv
<1>1. StatementInit => StatementInv
  BY LocksInit, TypeInit, ApartInit, CoveredInit DEF StatementInit, StatementInv, LedgerOK
<1>2. StatementInv /\ [StatementNext]_statementVars => StatementInv'
  BY LocksNext, LedgerNext DEF StatementInv
<1> QED
  BY <1>1, <1>2, PTL DEF StatementSpec

(* Every step of the interleaved statements is a transaction of CreditLedger or
   leaves its tables alone. *)
THEOREM StatementsImplementLedger == StatementSpec => ImplementsLedger
<1>1. StatementInit => Init
  BY DEF StatementInit
<1>2. StatementInv /\ [StatementNext]_statementVars
        => [ledgerVars' # ledgerVars /\ Next]_ledgerVars
  BY LocksNext DEF StatementInv, ledgerVars
<1> QED
  BY <1>1, <1>2, LocksProtect, PTL DEF StatementSpec, ImplementsLedger

(* So the sessions inherit what CreditLedgerProofs proves of the tables: no
   settlement finds too little money, no used quota is lost and no reservation
   is charged twice. *)
THEOREM StatementsKeepAccounts ==
    StatementSpec => []Covered /\ []QuotaAccounting /\ []ChargedOnce /\ []BalanceChain
<1>1. ImplementsLedger => Spec
  <2>1. [ledgerVars' # ledgerVars /\ Next]_ledgerVars => [Next]_vars
    BY DEF ledgerVars
  <2> QED
    BY <2>1, PTL DEF ImplementsLedger, Spec
<1> QED
  BY <1>1, StatementsImplementLedger, BalanceCovers, QuotaAccounted, ChargesOnce,
     JournalExplainsBalance, PTL

(* What a session read is still true when it commits. *)
THEOREM ChecksHold == StatementSpec => []ChecksStillHold
<1>1. StatementInv => ChecksStillHold
  <2> SUFFICES ASSUME StatementInv, NEW s \in Session
               PROVE  /\ Runs(s, "reserve", "commit") =>
                            LET r == call[s].reservation
                                u == Owner(r)
                            IN  /\ u \in users \cap available
                                /\ credits[u] - Reserved(u) >= AmountOf[r]
                                /\ KeyOf[r] \in activeKeys
                                /\ WithinQuota(KeyOf[r], AmountOf[r])
                      /\ Runs(s, "finalize", "commit") =>
                            LET r == call[s].reservation
                                u == Owner(r)
                            IN  /\ r \notin Charged
                                /\ status[r] \in Settleable
                                /\ u \in users
                                /\ credits[u] >= AmountOf[r]
                      /\ call[s] # Idle /\ call[s].kind = "adjust" =>
                            \A u \in Adjusted(s) :
                                /\ u \in users
                                /\ at[s] = "commit" => plan[s][u] >= Reserved(u)
    BY DEF ChecksStillHold
  <2>1. SessionOK(s) /\ (call[s] # Idle => call[s] \in Running)
    BY DEF StatementInv, LocksInv, SessionTypeOK
  <2>2. ASSUME Runs(s, "reserve", "commit")
        PROVE  LET r == call[s].reservation
                   u == Owner(r)
               IN  /\ u \in users \cap available
                   /\ credits[u] - Reserved(u) >= AmountOf[r]
                   /\ KeyOf[r] \in activeKeys
                   /\ WithinQuota(KeyOf[r], AmountOf[r])
    BY <2>1, <2>2 DEF Runs, SessionOK, Does, ReserveOK
  <2>3. ASSUME Runs(s, "finalize", "commit")
        PROVE  LET r == call[s].reservation
                   u == Owner(r)
               IN  /\ r \notin Charged
                   /\ status[r] \in Settleable
                   /\ u \in users
                   /\ credits[u] >= AmountOf[r]
    <3>1. PICK r \in Reservation : r = call[s].reservation
      BY <2>1, <2>3, RunningShape DEF Runs
    <3>2. FinalizeOK(s) /\ at[s] = "commit"
      BY <2>1, <2>3 DEF Runs, SessionOK, Does
    <3>3. status[r] \in Settleable
      BY <3>1, <3>2 DEF FinalizeOK
    <3>4. r \notin Charged
      BY <3>3 DEF StatementInv, LedgerOK, Apart, Settleable, Live
    <3> QED
      BY <3>1, <3>2, <3>3, <3>4 DEF FinalizeOK
  <2>4. ASSUME call[s] # Idle, call[s].kind = "adjust", NEW u \in Adjusted(s)
        PROVE  u \in users /\ (at[s] = "commit" => plan[s][u] >= Reserved(u))
    BY <2>1, <2>4 DEF SessionOK, Does, AdjustOK, Computed
  <2> QED
    BY <2>2, <2>3, <2>4
<1> QED
  BY <1>1, LocksProtect, PTL
-----------------------------------------------------------------------------
(* Deadlocks.  Of the rows a waiting session holds: a key's row means a sweep
   that refunds keys, a user's row a reservation that takes its quota, and a
   reservation's row a wait for another table or a sweep in its rows. *)

Waiting(s) == Routine(s) /\ Wanted(s) # {}

(* No two sweeps are past their rows. *)
LEMMA OneSweepRefunds ==
    ASSUME StatementInv, NEW s \in Session, NEW t \in Session, s # t,
           Does(s, "expire"), at[s] # "row", Does(t, "expire"), at[t] # "row"
    PROVE  FALSE
<1>1. /\ ExpireOK(s) /\ SweepOK(s) /\ ExpireOK(t) /\ SweepOK(t)
      /\ held[s] \cap held[t] = {}
  BY DEF StatementInv, LocksInv, SessionOK, Exclusive
<1>2. /\ Sweep(s) = HeldReservations(s) /\ HeldReservations(s) # {}
      /\ Sweep(t) = HeldReservations(t) /\ HeldReservations(t) # {}
  BY <1>1 DEF ExpireOK, Sweep
<1>3. PICK x \in HeldReservations(s) : TRUE
  BY <1>2
<1>4. PICK y \in HeldReservations(t) : TRUE
  BY <1>2
<1>5. /\ x \in Reservation /\ y \in Reservation /\ x # y
      /\ x \notin HeldReservations(t) /\ y \notin HeldReservations(s)
      /\ status[x] = "active" /\ status[y] = "active"
  BY <1>1, <1>3, <1>4 DEF HeldReservations, ExpireOK
<1>6. x < y \/ y < x
  BY <1>5, OrderAssumption
<1> QED
  BY <1>1, <1>2, <1>3, <1>4, <1>5, <1>6 DEF SweepOK

LEMMA WaitingKinds ==
    ASSUME StatementInv, NEW s \in Session, Waiting(s)
    PROVE  /\ SessionOK(s) /\ call[s] # Idle /\ call[s] \in Running
           /\ call[s].kind \in {"reserve", "release", "expire", "finalize", "adjust"}
<1>1. call[s] # Idle /\ call[s].kind # "delete"
  BY DEF Waiting, Routine
<1>2. call[s] \in Running /\ SessionOK(s)
  BY <1>1 DEF StatementInv, LocksInv, SessionTypeOK
<1> QED
  BY <1>1, <1>2, RunningShape

(* A waiting adjustment of a single account holds nothing yet. *)
LEMMA WaitingAdjust ==
    ASSUME StatementInv, NEW s \in Session, Waiting(s), call[s].kind = "adjust"
    PROVE  held[s] = {}
<1>1. AdjustOK(s) /\ call[s] # Idle /\ at[s] = "user"
  BY WaitingKinds DEF SessionOK, Does, AdjustOK, Waiting, Wanted
<1>2. PICK batch \in Seq(User) : batch = call[s].batch
  BY WaitingKinds, RunningShape
<1>3. Cardinality(Adjusted(s)) + Len(batch) = 1
  BY <1>2 DEF Waiting, Routine
<1>4. SUFFICES ASSUME Adjusted(s) # {} PROVE FALSE
  BY <1>1 DEF AdjustOK
<1>5. Len(batch) \in Nat /\ Len(batch) # 0
  BY <1>1, <1>2, <1>4, LenProperties, EmptySeq DEF AdjustOK
<1>6. Cardinality(Adjusted(s)) \in Nat /\ Cardinality(Adjusted(s)) # 0
  BY <1>1, <1>4, FS_CardinalityType, FS_EmptySet DEF AdjustOK
<1> QED
  BY <1>3, <1>5, <1>6

LEMMA WaitingHoldsKey ==
    ASSUME StatementInv, NEW s \in Session, Waiting(s), NEW k \in Key, KeyRow(k) \in held[s]
    PROVE  Does(s, "expire") /\ at[s] = "key"
<1>1. SessionOK(s) /\ call[s] # Idle
      /\ call[s].kind \in {"reserve", "release", "expire", "finalize", "adjust"}
  BY WaitingKinds
<1>2. CASE call[s].kind = "reserve"
  BY <1>1, <1>2, RowsDiffer DEF SessionOK, Does, ReserveOK, Waiting, Wanted
<1>3. CASE call[s].kind = "release"
  BY <1>1, <1>3, RowsDiffer DEF SessionOK, Does, ReleaseOK, Waiting, Wanted
<1>4. CASE call[s].kind = "expire"
  BY <1>1, <1>4 DEF SessionOK, Does, ExpireOK, Waiting, Wanted
<1>5. CASE call[s].kind = "finalize"
  BY <1>1, <1>5, RowsDiffer DEF SessionOK, Does, FinalizeOK
<1>6. CASE call[s].kind = "adjust"
  BY <1>6, WaitingAdjust
<1> QED
  BY <1>1, <1>2, <1>3, <1>4, <1>5, <1>6

LEMMA WaitingHoldsUser ==
    ASSUME StatementInv, NEW s \in Session, Waiting(s), NEW u \in User, UserRow(u) \in held[s]
    PROVE  \E k \in Key : Wanted(s) = {KeyRow(k)}
<1>1. SessionOK(s) /\ call[s] # Idle /\ call[s] \in Running
      /\ call[s].kind \in {"reserve", "release", "expire", "finalize", "adjust"}
  BY WaitingKinds
<1>2. CASE call[s].kind = "reserve"
  <2>1. at[s] = "key"
    BY <1>1, <1>2 DEF SessionOK, Does, ReserveOK, Waiting, Wanted
  <2>2. KeyOf[call[s].reservation] \in Key
    BY <1>1, <1>2, RunningShape, OwnersTyped
  <2>3. Wanted(s) = {KeyRow(KeyOf[call[s].reservation])}
    BY <1>1, <1>2, <2>1 DEF Wanted
  <2> QED
    BY <2>2, <2>3
<1>3. CASE call[s].kind = "release"
  BY <1>1, <1>3, RowsDiffer DEF SessionOK, Does, ReleaseOK
<1>4. CASE call[s].kind = "expire"
  BY <1>1, <1>4 DEF SessionOK, Does, ExpireOK
<1>5. CASE call[s].kind = "finalize"
  BY <1>1, <1>5, RowsDiffer DEF SessionOK, Does, FinalizeOK, Waiting, Wanted
<1>6. CASE call[s].kind = "adjust"
  BY <1>6, WaitingAdjust
<1> QED
  BY <1>1, <1>2, <1>3, <1>4, <1>5, <1>6

LEMMA WaitingHoldsReservation ==
    ASSUME StatementInv, NEW s \in Session, Waiting(s),
           NEW r \in Reservation, ReservationRow(r) \in held[s]
    PROVE  \/ \E k \in Key : Wanted(s) = {KeyRow(k)}
           \/ \E u \in User : Wanted(s) = {UserRow(u)}
           \/ /\ Does(s, "expire")
              /\ \E q \in call[s].rows : Wanted(s) = {ReservationRow(q)}
<1>1. SessionOK(s) /\ call[s] # Idle /\ call[s] \in Running
      /\ call[s].kind \in {"reserve", "release", "expire", "finalize", "adjust"}
  BY WaitingKinds
<1>2. CASE call[s].kind = "reserve"
  BY <1>1, <1>2, RowsDiffer DEF SessionOK, Does, ReserveOK
<1>3. CASE call[s].kind = "release"
  <2>1. at[s] = "key"
    BY <1>1, <1>3 DEF SessionOK, Does, ReleaseOK, Waiting, Wanted
  <2>2. KeyOf[call[s].reservation] \in Key
    BY <1>1, <1>3, RunningShape, OwnersTyped
  <2>3. Wanted(s) = {KeyRow(KeyOf[call[s].reservation])}
    BY <1>1, <1>3, <2>1 DEF Wanted
  <2> QED
    BY <2>2, <2>3
<1>4. CASE call[s].kind = "expire"
  <2>1. CASE at[s] = "row"
    <3>1. call[s].rows # {} /\ Wanted(s) = {ReservationRow(OldestOf(call[s].rows))}
      BY <1>1, <1>4, <2>1 DEF Waiting, Wanted
    <3>2. OldestOf(call[s].rows) \in call[s].rows
      BY <1>1, <1>4, <3>1, RunningShape, OldestExists
    <3> QED
      BY <1>1, <1>4, <3>1, <3>2 DEF Does
  <2>2. CASE at[s] # "row"
    <3>1. Unrefunded(s) # {} /\ Wanted(s) = {KeyRow(KeyOf[OldestOf(Unrefunded(s))])}
      BY <1>1, <1>4, <2>2 DEF SessionOK, Does, ExpireOK, Waiting, Wanted
    <3>2. OldestOf(Unrefunded(s)) \in Reservation
      BY <3>1, OldestExists DEF Unrefunded, HeldReservations
    <3> QED
      BY <3>1, <3>2, OwnersTyped
  <2> QED
    BY <2>1, <2>2
<1>5. CASE call[s].kind = "finalize"
  <2>1. at[s] = "user"
    BY <1>1, <1>5 DEF SessionOK, Does, FinalizeOK, Waiting, Wanted
  <2>2. Owner(call[s].reservation) \in User
    BY <1>1, <1>5, RunningShape, OwnersTyped
  <2>3. Wanted(s) = {UserRow(Owner(call[s].reservation))}
    BY <1>1, <1>5, <2>1 DEF Wanted
  <2> QED
    BY <2>2, <2>3
<1>6. CASE call[s].kind = "adjust"
  BY <1>6, WaitingAdjust
<1> QED
  BY <1>1, <1>2, <1>3, <1>4, <1>5, <1>6

(* Of two sweeps, none waits for a row of the other and holds a row itself. *)
LEMMA SweepsInOrder ==
    ASSUME StatementInv, NEW s \in Session, NEW t \in Session, s # t,
           Does(s, "expire"), Does(t, "expire"),
           NEW x \in HeldReservations(s), NEW y \in call[s].rows,
           y \in HeldReservations(t)
    PROVE  FALSE
<1>1. /\ ExpireOK(s) /\ SweepOK(s) /\ SweepOK(t) /\ call[t] \in Running
      /\ held[s] \cap held[t] = {}
  BY DEF StatementInv, LocksInv, SessionOK, Exclusive, Does, SessionTypeOK
<1>2. /\ x \in Reservation /\ y \in Reservation
      /\ x \notin HeldReservations(t) /\ status[x] = "active"
  BY <1>1 DEF HeldReservations, ExpireOK
<1>3. x < y
  BY <1>1 DEF SweepOK
<1>4. x \in Sweep(t)
  BY <1>1, <1>2, <1>3 DEF SweepOK, Sweep
<1>5. y < x
  BY <1>1, <1>2, <1>4 DEF SweepOK, Sweep
<1> QED
  BY <1>2, <1>3, <1>5, OrderAssumption

(* Routine transactions never wait for one another in a circle: each chain of
   waits ends after two. *)
THEOREM RoutineDeadlockFree == StatementSpec => []RoutineNeverDeadlocks
<1>1. ASSUME StatementInv, NEW D \in SUBSET Session, D # {},
             \A s \in D : Routine(s),
             \A s \in D : \E t \in D : WaitsFor(s, t)
      PROVE  FALSE
  <2>1. \A s \in D : Waiting(s)
    BY <1>1 DEF Waiting, WaitsFor
  <2>2. ASSUME NEW s \in D, NEW t \in D, WaitsFor(s, t), NEW k \in Key, KeyRow(k) \in held[t]
        PROVE  FALSE
    <3>1. Does(t, "expire") /\ at[t] = "key"
      BY <1>1, <2>1, <2>2, WaitingHoldsKey
    <3>2. PICK v \in D : WaitsFor(t, v)
      BY <1>1
    <3>3. Unrefunded(t) # {} /\ Wanted(t) = {KeyRow(KeyOf[OldestOf(Unrefunded(t))])}
      BY <2>1, <3>1 DEF Waiting, Wanted, Does
    <3>4. KeyOf[OldestOf(Unrefunded(t))] \in Key
      BY <3>3, OldestExists, OwnersTyped DEF Unrefunded, HeldReservations
    <3>5. KeyRow(KeyOf[OldestOf(Unrefunded(t))]) \in held[v] /\ t # v
      BY <3>2, <3>3 DEF WaitsFor
    <3>6. Does(v, "expire") /\ at[v] = "key"
      BY <1>1, <2>1, <3>4, <3>5, WaitingHoldsKey
    <3> QED
      BY <1>1, <3>1, <3>5, <3>6, OneSweepRefunds
  <2>3. ASSUME NEW s \in D, NEW t \in D, WaitsFor(s, t), NEW k \in Key, Wanted(s) = {KeyRow(k)}
        PROVE  FALSE
    BY <2>2, <2>3 DEF WaitsFor
  <2>4. ASSUME NEW s \in D, NEW t \in D, WaitsFor(s, t), NEW u \in User, UserRow(u) \in held[t]
        PROVE  FALSE
    <3>1. PICK k \in Key : Wanted(t) = {KeyRow(k)}
      BY <1>1, <2>1, <2>4, WaitingHoldsUser
    <3> QED
      BY <1>1, <2>3, <3>1
  <2>5. ASSUME NEW s \in D, NEW t \in D, WaitsFor(s, t)
        PROVE  /\ Does(t, "expire")
               /\ HeldReservations(t) # {}
               /\ \E q \in call[t].rows : Wanted(t) = {ReservationRow(q)}
    <3>1. PICK row \in held[t] : row \in Row
      BY <1>1, <2>5 DEF WaitsFor, StatementInv, LocksInv, SessionTypeOK
    <3>2. PICK r \in Reservation : row = ReservationRow(r)
      BY <2>2, <2>4, <2>5, <3>1 DEF Row
    <3>3. PICK v \in D : WaitsFor(t, v)
      BY <1>1
    <3>4. \A k \in Key : Wanted(t) # {KeyRow(k)}
      BY <2>3, <3>3
    <3>5. \A u \in User : Wanted(t) # {UserRow(u)}
      BY <2>4, <3>3 DEF WaitsFor
    <3>6. r \in HeldReservations(t)
      BY <3>1, <3>2 DEF HeldReservations
    <3> QED
      BY <1>1, <2>1, <3>1, <3>2, <3>4, <3>5, <3>6, WaitingHoldsReservation
  <2>6. PICK s \in D, t \in D, v \in D : WaitsFor(s, t) /\ WaitsFor(t, v)
    BY <1>1
  <2>7. PICK q \in call[t].rows : Wanted(t) = {ReservationRow(q)}
    BY <2>5, <2>6
  <2>8. Does(t, "expire") /\ Does(v, "expire") /\ HeldReservations(t) # {}
    BY <2>5, <2>6
  <2>9. t # v /\ ReservationRow(q) \in held[v] /\ q \in Reservation
    <3>1. call[t] \in Running /\ call[t].kind = "expire"
      BY <1>1, <2>8 DEF StatementInv, LocksInv, SessionTypeOK, Does
    <3> QED
      BY <2>6, <2>7, <3>1, RunningShape DEF WaitsFor
  <2> QED
    BY <1>1, <2>7, <2>8, <2>9, SweepsInOrder DEF HeldReservations
<1>2. StatementInv => RoutineNeverDeadlocks
  BY <1>1 DEF RoutineNeverDeadlocks
<1> QED
  BY <1>2, LocksProtect, PTL
=============================================================================
