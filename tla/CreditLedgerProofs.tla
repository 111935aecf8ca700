------------------------- MODULE CreditLedgerProofs -------------------------
(***************************************************************************)
(* Proofs about CreditLedger, for any users, keys, reservations, amounts   *)
(* and limits.                                                             *)
(***************************************************************************)
EXTENDS CreditLedger, FiniteSetTheorems, SequenceTheorems, TLAPS

-----------------------------------------------------------------------------
(* Sums of amounts.  Total counts single credits, so its laws are those of the
   cardinality of finite sets. *)

(* A set of reservations holds finitely many credits. *)
LEMMA UnitsFinite ==
    ASSUME NEW S \in SUBSET Reservation
    PROVE  /\ IsFiniteSet(Units(S))
           /\ Total(S) \in Nat
<1> DEFINE UnitsOf(r) == {r} \X (1 .. AmountOf[r])
           Parts == {UnitsOf(r) : r \in S}
           f == [r \in S |-> UnitsOf(r)]
<1>1. IsFiniteSet(S)
  BY ReservationAssumption, FS_Subset
<1>2. f \in Surjection(S, Parts)
  BY DEF Surjection
<1>3. IsFiniteSet(Parts)
  BY <1>1, <1>2, FS_Surjection
<1>4. \A P \in Parts : IsFiniteSet(P)
  <2> TAKE P \in Parts
  <2>1. PICK r \in S : P = {r} \X (1 .. AmountOf[r])
    OBVIOUS
  <2>2. AmountOf[r] \in Int
    BY ReservationAssumption
  <2>3. IsFiniteSet({r})
    BY FS_Singleton
  <2>4. IsFiniteSet(1 .. AmountOf[r])
    BY <2>2, FS_Interval
  <2>5. IsFiniteSet({r} \X (1 .. AmountOf[r]))
    BY <2>3, <2>4, FS_Product
  <2> QED
    BY <2>1, <2>5
<1>5. IsFiniteSet(Units(S))
  BY <1>3, <1>4, FS_UNION DEF Units
<1> QED
  BY <1>5, FS_CardinalityType DEF Total

(* One reservation holds its amount. *)
LEMMA TotalOne ==
    ASSUME NEW r \in Reservation
    PROVE  Total({r}) = AmountOf[r]
<1>1. AmountOf[r] \in Nat \ {0}
  BY ReservationAssumption
<1>2. Units({r}) = {r} \X (1 .. AmountOf[r])
  BY DEF Units
<1>3. IsFiniteSet({r}) /\ Cardinality({r}) = 1
  BY FS_Singleton
<1>4. IsFiniteSet(1 .. AmountOf[r]) /\ Cardinality(1 .. AmountOf[r]) = AmountOf[r]
  BY <1>1, FS_Interval
<1>5. Cardinality({r} \X (1 .. AmountOf[r]))
        = Cardinality({r}) * Cardinality(1 .. AmountOf[r])
  BY <1>3, <1>4, FS_Product, Zenon
<1>6. Cardinality({r}) * Cardinality(1 .. AmountOf[r]) = AmountOf[r]
  BY <1>1, <1>3, <1>4
<1> QED
  BY <1>2, <1>5, <1>6 DEF Total

(* Disjoint sets of reservations add up. *)
LEMMA TotalUnion ==
    ASSUME NEW S \in SUBSET Reservation, NEW T \in SUBSET Reservation,
           S \cap T = {}
    PROVE  Total(S \cup T) = Total(S) + Total(T)
<1>1. Units(S \cup T) = Units(S) \cup Units(T)
  BY DEF Units
<1>2. Units(S) \cap Units(T) = {}
  BY DEF Units
<1>3. IsFiniteSet(Units(S)) /\ IsFiniteSet(Units(T))
  BY UnitsFinite
<1>4. Total(S) \in Nat /\ Total(T) \in Nat
  BY UnitsFinite
<1>5. Cardinality(Units(S) \cup Units(T))
        = Cardinality(Units(S)) + Cardinality(Units(T)) - Cardinality(Units(S) \cap Units(T))
  BY <1>3, FS_Union, Zenon
<1>6. Cardinality(Units(S) \cap Units(T)) = 0
  BY <1>2, FS_EmptySet
<1>7. Total(S \cup T) = Total(S) + Total(T) - 0
  BY <1>1, <1>5, <1>6 DEF Total
<1> QED
  BY <1>4, <1>7

(* What is left of a set after some of its reservations are taken out. *)
LEMMA TotalMinus ==
    ASSUME NEW T \in SUBSET Reservation, NEW S \in SUBSET T
    PROVE  /\ Total(T \ S) = Total(T) - Total(S)
           /\ Total(S) <= Total(T)
<1>1. Total((T \ S) \cup S) = Total(T \ S) + Total(S)
  BY TotalUnion
<1>2. Total((T \ S) \cup S) = Total(T)
  <2>1. (T \ S) \cup S = T
    OBVIOUS
  <2> QED
    BY <2>1
<1>3. Total(T \ S) \in Nat /\ Total(S) \in Nat
  BY UnitsFinite
<1> QED
  BY <1>1, <1>2, <1>3

-----------------------------------------------------------------------------
(* Type correctness. *)

Statuses == {"none", "active", "pending", "dead_letter"}

(* What TypeOK says of the attempts. *)
AttemptsOK ==
    /\ attempts \in [Reservation -> 0 .. MaxAttempts]
    /\ \A r \in Reservation : status[r] # "dead_letter" => attempts[r] < MaxAttempts

(* Deleting rows leaves well-typed columns. *)
LEMMA DeleteRowsType ==
    ASSUME TypeOK, NEW S, DeleteRows(S)
    PROVE  /\ status' \in [Reservation -> Statuses]
           /\ AttemptsOK'
           /\ unissued \subseteq {q \in Reservation : status'[q] = "none"}
<1>1. 0 \in 0 .. MaxAttempts /\ 0 < MaxAttempts
  BY LimitAssumption
<1>2. status' \in [Reservation -> Statuses]
  BY DEF TypeOK, DeleteRows, Statuses
<1>3. attempts' \in [Reservation -> 0 .. MaxAttempts]
  BY <1>1 DEF TypeOK, DeleteRows
<1>4. \A r \in Reservation : status'[r] # "dead_letter" => attempts'[r] < MaxAttempts
  BY <1>1 DEF TypeOK, DeleteRows
<1>5. unissued \subseteq {q \in Reservation : status'[q] = "none"}
  BY DEF TypeOK, DeleteRows
<1> QED
  BY <1>2, <1>3, <1>4, <1>5 DEF AttemptsOK

(* A journal row written for a valid balance has the columns' types. *)
LEMMA EntryForType ==
    ASSUME TypeOK, NEW u \in User, NEW balance \in 0 .. MaxCredits,
           NEW r \in Reservation \cup {NoReservation}
    PROVE  EntryFor(u, balance, r) \in Entry
<1>1. credits[u] \in 0 .. MaxCredits /\ MaxCredits \in Nat
  BY LimitAssumption DEF TypeOK
<1>2. balance - credits[u] \in Int /\ balance \in Nat
  BY <1>1
<1> QED
  BY <1>2 DEF EntryFor, Entry

LEMMA TypeInit == Init => TypeOK
<1> SUFFICES ASSUME Init PROVE TypeOK
  OBVIOUS
<1>1. SignupBonus \in 0 .. MaxCredits /\ SignupBonus \in Nat
  BY LimitAssumption
<1>2. totalQuota \in [Key -> {NoQuota} \cup Quotas]
  BY DEF Init
<1>3. \A u \in User : transactions[u] \in Seq(Entry)
  <2> TAKE u \in User
  <2>1. CASE SignupBonus = 0
    BY <2>1 DEF Init
  <2>2. CASE SignupBonus # 0
    <3> DEFINE bonus == [amount |-> SignupBonus, balanceAfter |-> SignupBonus,
                         reservation |-> NoReservation]
    <3>1. bonus \in Entry
      BY <1>1 DEF Entry
    <3>2. transactions[u] = << bonus >>
      BY <2>2 DEF Init
    <3> QED
      BY <3>1, <3>2
  <2> QED
    BY <2>1, <2>2
<1>4. transactions \in [User -> Seq(Entry)]
  BY <1>3 DEF Init
<1>5. 0 \in 0 .. MaxAttempts /\ 0 < MaxAttempts
  BY LimitAssumption
<1> QED
  BY <1>1, <1>2, <1>4, <1>5 DEF Init, TypeOK

LEMMA TypeNext == TypeOK /\ [Next]_vars => TypeOK'
<1> SUFFICES ASSUME TypeOK, [Next]_vars PROVE TypeOK'
  OBVIOUS
<1> USE DEF accountVars, reservationVars
<1>1. ASSUME NEW r \in Reservation, Reserve(r) PROVE TypeOK'
  <2>1. KeyOf[r] \in Key /\ AmountOf[r] \in Nat
    BY ReservationAssumption
  <2>2. usedCredits' \in [Key -> Nat]
    BY <1>1, <2>1 DEF Reserve, TypeOK
  <2> QED
    BY <1>1, <2>2 DEF Reserve, TypeOK
<1>2. ASSUME NEW r \in Reservation, MarkPending(r) PROVE TypeOK'
  BY <1>2 DEF MarkPending, TypeOK
<1>3. ASSUME NEW S \in SUBSET Reservation, ReleaseRows(S) PROVE TypeOK'
  <2> DEFINE refund == [k \in Key |-> Total({r \in S : KeyOf[r] = k})]
  <2>1. \A k \in Key : refund[k] \in Nat
    BY UnitsFinite
  <2>2. Refund(refund)
    BY <1>3 DEF ReleaseRows
  <2>3. usedCredits' \in [Key -> Nat]
    <3> HIDE DEF refund
    <3> QED
      BY <2>1, <2>2 DEF Refund, TypeOK
  <2>4. DeleteRows(S)
    BY <1>3 DEF ReleaseRows
  <2>5. status' \in [Reservation -> Statuses] /\ AttemptsOK'
       /\ unissued \subseteq {q \in Reservation : status'[q] = "none"}
    BY <2>4, DeleteRowsType
  <2> QED
    BY <1>3, <2>3, <2>5 DEF ReleaseRows, TypeOK, Statuses, AttemptsOK
<1>4. ASSUME NEW r \in Reservation, Charge(r) PROVE TypeOK'
  <2> DEFINE u == Owner(r)
             balance == credits[u] - AmountOf[r]
  <2>1. u \in User /\ AmountOf[r] \in Nat
    BY ReservationAssumption DEF Owner
  <2>2. balance \in 0 .. MaxCredits
    <3>1. balance >= 0
      BY <1>4 DEF Charge
    <3>2. credits[u] \in 0 .. MaxCredits /\ MaxCredits \in Nat
      BY <2>1, LimitAssumption DEF TypeOK
    <3> QED
      BY <2>1, <3>1, <3>2
  <2>3. EntryFor(u, balance, r) \in Entry
    BY <2>1, <2>2, EntryForType
  <2>4. DeleteRows({r})
    BY <1>4 DEF Charge
  <2>5. status' \in [Reservation -> Statuses] /\ AttemptsOK'
       /\ unissued \subseteq {q \in Reservation : status'[q] = "none"}
    BY <2>4, DeleteRowsType
  <2>6. credits' \in [User -> 0 .. MaxCredits]
    <3>1. credits' = [credits EXCEPT ![u] = balance]
      BY <1>4 DEF Charge
    <3> HIDE DEF balance
    <3> QED
      BY <2>2, <3>1 DEF TypeOK
  <2>7. transactions' \in [User -> Seq(Entry)]
    <3>1. transactions' =
            [transactions EXCEPT ![u] = Append(transactions[u], EntryFor(u, balance, r))]
      BY <1>4 DEF Charge
    <3>2. Append(transactions[u], EntryFor(u, balance, r)) \in Seq(Entry)
      BY <2>1, <2>3, AppendProperties DEF TypeOK
    <3> QED
      BY <3>1, <3>2 DEF TypeOK
  <2> QED
    BY <1>4, <2>5, <2>6, <2>7 DEF Charge, TypeOK, Statuses, AttemptsOK
<1>5. ASSUME NEW r \in Reservation, RecordAttempt(r) PROVE TypeOK'
  <2>1. attempts[r] \in 0 .. MaxAttempts /\ attempts[r] < MaxAttempts
    BY <1>5 DEF RecordAttempt, TypeOK
  <2>2. attempts[r] + 1 \in 0 .. MaxAttempts
    BY <2>1, LimitAssumption
  <2>3. attempts' \in [Reservation -> 0 .. MaxAttempts]
    BY <1>5, <2>2 DEF RecordAttempt, TypeOK
  <2>4. \A q \in Reservation : status'[q] # "dead_letter" => attempts'[q] < MaxAttempts
    BY <1>5, <2>2, LimitAssumption DEF RecordAttempt, TypeOK
  <2> QED
    BY <1>5, <2>3, <2>4 DEF RecordAttempt, TypeOK
<1>6. ASSUME NEW r \in Reservation, Retry(r) PROVE TypeOK'
  <2>1. 0 \in 0 .. MaxAttempts /\ 0 < MaxAttempts
    BY LimitAssumption
  <2> QED
    BY <1>6, <2>1 DEF Retry, TypeOK
<1>7. ASSUME NEW us \in SUBSET User, NEW balance \in [us -> 0 .. MaxCredits],
             Adjust(us, balance)
      PROVE TypeOK'
  <2>1. credits' \in [User -> 0 .. MaxCredits]
    BY <1>7 DEF Adjust, TypeOK
  <2>2. \A u \in us : Append(transactions[u], EntryFor(u, balance[u], NoReservation)) \in Seq(Entry)
    <3> TAKE u \in us
    <3>1. EntryFor(u, balance[u], NoReservation) \in Entry
      BY EntryForType
    <3> QED
      BY <3>1, AppendProperties DEF TypeOK
  <2>3. transactions' \in [User -> Seq(Entry)]
    BY <1>7, <2>2 DEF Adjust, TypeOK
  <2> QED
    BY <1>7, <2>1, <2>3 DEF Adjust, TypeOK
<1>8. ASSUME NEW u \in User, DeleteUser(u) PROVE TypeOK'
  <2>1. DeleteRows(LiveOf(u))
    BY <1>8 DEF DeleteUser
  <2>2. status' \in [Reservation -> Statuses] /\ AttemptsOK'
       /\ unissued \subseteq {q \in Reservation : status'[q] = "none"}
    BY <2>1, DeleteRowsType
  <2> QED
    BY <1>8, <2>2 DEF DeleteUser, TypeOK, Statuses, AttemptsOK
<1>9. ASSUME NEW u \in User, NEW on \in BOOLEAN, SetAvailable(u, on) PROVE TypeOK'
  BY <1>9 DEF SetAvailable, TypeOK
<1>10. ASSUME NEW k \in Key, DeleteKey(k) PROVE TypeOK'
  BY <1>10 DEF DeleteKey, TypeOK
<1>11. ASSUME NEW k \in Key, NEW quota \in {NoQuota} \cup Quotas, NEW on \in BOOLEAN,
              ConfigureKey(k, quota, on)
       PROVE TypeOK'
  BY <1>11 DEF ConfigureKey, TypeOK
<1>12. CASE UNCHANGED vars
  BY <1>12 DEF vars, TypeOK
<1>13. ASSUME NEW r \in Reservation, ReservationStep(r) PROVE TypeOK'
  BY <1>1, <1>2, <1>3, <1>4, <1>5, <1>6, <1>13 DEF ReservationStep, Release
<1>14. ASSUME NEW S \in SUBSET Reservation, ReleaseExpired(S) PROVE TypeOK'
  BY <1>3, <1>14 DEF ReleaseExpired
<1> QED
  BY <1>7, <1>8, <1>9, <1>10, <1>11, <1>12, <1>13, <1>14 DEF Next

(* Whatever is committed, the columns keep the types of the schema: no balance
   and no used quota is ever negative, no balance leaves the integer range, and
   only a dead letter has used up its attempts. *)
THEOREM TypeCorrect == Spec => []TypeOK
<1>1. Init => TypeOK
  BY TypeInit
<1>2. TypeOK /\ [Next]_vars => TypeOK'
  BY TypeNext
<1> QED
  BY <1>1, <1>2, PTL DEF Spec

-----------------------------------------------------------------------------
(* How the sets of open and of charged reservations change. *)

LEMMA LiveAfterDelete ==
    ASSUME TypeOK, NEW S, DeleteRows(S)
    PROVE  Live' = Live \ S
BY DEF TypeOK, DeleteRows, Live

LEMMA ChargedKept ==
    ASSUME UNCHANGED transactions
    PROVE  Charged' = Charged
BY DEF Charged, ChargedTo

(* A journal names the reservations it named, and the one of its new row. *)
LEMMA NamedAfterAppend ==
    ASSUME NEW journal \in Seq(Entry), NEW entry \in Entry, NEW r
    PROVE  (\E i \in 1 .. Len(Append(journal, entry)) :
                Append(journal, entry)[i].reservation = r)
            <=> \/ \E i \in 1 .. Len(journal) : journal[i].reservation = r
                \/ entry.reservation = r
<1>1. /\ Len(journal) \in Nat
      /\ Len(Append(journal, entry)) = Len(journal) + 1
      /\ \A i \in 1 .. Len(journal) : Append(journal, entry)[i] = journal[i]
      /\ Append(journal, entry)[Len(journal) + 1] = entry
  BY AppendProperties, LenProperties
<1> QED
  BY <1>1

(* A settlement adds its reservation to the charged ones and to no others. *)
LEMMA ChargedAfterCharge ==
    ASSUME TypeOK, NEW r \in Reservation, Charge(r)
    PROVE  Charged' = Charged \cup {r}
<1> DEFINE u == Owner(r)
           entry == EntryFor(u, credits[u] - AmountOf[r], r)
<1>1. u \in User
  BY ReservationAssumption DEF Owner
<1>2. entry \in Entry
  <2>1. credits[u] - AmountOf[r] \in 0 .. MaxCredits
    <3>1. credits[u] \in 0 .. MaxCredits /\ MaxCredits \in Nat /\ AmountOf[r] \in Nat
      BY <1>1, LimitAssumption, ReservationAssumption DEF TypeOK
    <3>2. credits[u] - AmountOf[r] >= 0
      BY DEF Charge
    <3> QED
      BY <3>1, <3>2
  <2> QED
    BY <1>1, <2>1, EntryForType
<1>3. transactions' = [transactions EXCEPT ![u] = Append(transactions[u], entry)]
  BY DEF Charge
<1>4. entry.reservation = r
  BY DEF EntryFor
<1> HIDE DEF entry, u
<1>5. \A q \in Reservation : q \in ChargedTo(u)' <=> q \in ChargedTo(u) \/ q = r
  <2> TAKE q \in Reservation
  <2>1. transactions'[u] = Append(transactions[u], entry)
    BY <1>1, <1>3 DEF TypeOK
  <2>2. transactions[u] \in Seq(Entry)
    BY <1>1 DEF TypeOK
  <2> QED
    BY <1>2, <1>4, <2>1, <2>2, NamedAfterAppend DEF ChargedTo
<1>6. \A v \in User \ {u} : ChargedTo(v)' = ChargedTo(v)
  <2> TAKE v \in User \ {u}
  <2>1. transactions'[v] = transactions[v]
    BY <1>3 DEF TypeOK
  <2> QED
    BY <2>1 DEF ChargedTo
<1>7. \A v \in User : ChargedTo(v) \subseteq Reservation /\ ChargedTo(v)' \subseteq Reservation
  BY DEF ChargedTo
<1> QED
  BY <1>1, <1>5, <1>6, <1>7 DEF Charged

(* An adjustment charges no reservation. *)
LEMMA ChargedAfterAdjust ==
    ASSUME TypeOK, NEW us \in SUBSET User, NEW balance \in [us -> 0 .. MaxCredits],
           Adjust(us, balance)
    PROVE  Charged' = Charged
<1>1. \A u \in User : ChargedTo(u)' = ChargedTo(u)
  <2> TAKE u \in User
  <2>1. CASE u \notin us
    <3>1. transactions'[u] = transactions[u]
      BY <2>1 DEF Adjust
    <3> QED
      BY <3>1 DEF ChargedTo
  <2>2. CASE u \in us
    <3> DEFINE entry == EntryFor(u, balance[u], NoReservation)
    <3>1. entry \in Entry /\ transactions[u] \in Seq(Entry)
      BY <2>2, EntryForType DEF TypeOK
    <3>2. transactions'[u] = Append(transactions[u], entry)
      BY <2>2 DEF Adjust
    <3>3. entry.reservation = NoReservation /\ NoReservation \notin Reservation
      BY MarkerAssumption DEF EntryFor
    <3> HIDE DEF entry
    <3>4. \A q \in Reservation : q \in ChargedTo(u)' <=> q \in ChargedTo(u)
      BY <3>1, <3>2, <3>3, NamedAfterAppend DEF ChargedTo
    <3> QED
      BY <3>4 DEF ChargedTo
  <2> QED
    BY <2>1, <2>2
<1> QED
  BY <1>1 DEF Charged

-----------------------------------------------------------------------------
(* The balance covers what is reserved. *)

(* An id that is still to be issued has no row: inductive with Covered, because
   a reservation could otherwise be counted twice. *)
IssuedOnce == Live \cap unissued = {}

LEMMA ReservedShrinks ==
    ASSUME Live' \subseteq Live, NEW u
    PROVE  Reserved(u)' <= Reserved(u) /\ Reserved(u) \in Nat /\ Reserved(u)' \in Nat
<1>1. LiveOf(u) \in SUBSET Reservation /\ LiveOf(u)' \in SUBSET LiveOf(u)
  BY DEF LiveOf, Live
<1>2. Total(LiveOf(u)') <= Total(LiveOf(u))
  BY <1>1, TotalMinus
<1>3. Total(LiveOf(u)') \in Nat /\ Total(LiveOf(u)) \in Nat
  BY <1>1, UnitsFinite
<1> QED
  BY <1>2, <1>3 DEF Reserved

(* Steps that open no reservation, lower no balance and orphan no row. *)
LEMMA CoveredShrinks ==
    ASSUME TypeOK, Covered, Live' \subseteq Live, users' \subseteq users,
           \A r \in Live' : Owner(r) \in users', credits' = credits
    PROVE  Covered'
<1>1. ASSUME NEW u \in users' PROVE Reserved(u)' <= credits'[u]
  <2>1. Reserved(u) <= credits[u]
    BY DEF Covered
  <2>2. Reserved(u)' <= Reserved(u) /\ Reserved(u) \in Nat /\ Reserved(u)' \in Nat
    BY ReservedShrinks
  <2>3. credits[u] \in Nat
    BY LimitAssumption DEF TypeOK
  <2> QED
    BY <2>1, <2>2, <2>3
<1> QED
  BY <1>1 DEF Covered

LEMMA CoveredReserve ==
    ASSUME TypeOK, IssuedOnce, Covered, NEW r \in Reservation, Reserve(r)
    PROVE  Covered'
<1> USE DEF accountVars
<1>1. Live' = Live \cup {r} /\ r \notin Live /\ users' = users /\ credits' = credits
  BY DEF Reserve, Live, TypeOK, IssuedOnce
<1>2. Owner(r) \in users
  BY DEF Reserve
<1>3. ASSUME NEW u \in users PROVE Reserved(u)' <= credits[u]
  <2>1. CASE u # Owner(r)
    <3>1. LiveOf(u)' = LiveOf(u)
      BY <1>1, <2>1 DEF LiveOf
    <3> QED
      BY <3>1 DEF Covered, Reserved
  <2>2. CASE u = Owner(r)
    <3>1. LiveOf(u)' = LiveOf(u) \cup {r} /\ LiveOf(u) \cap {r} = {}
      BY <1>1, <2>2 DEF LiveOf
    <3>2. LiveOf(u) \in SUBSET Reservation
      BY DEF LiveOf, Live
    <3>3. Total(LiveOf(u) \cup {r}) = Total(LiveOf(u)) + Total({r})
      BY <3>1, <3>2, TotalUnion
    <3>4. Reserved(u)' = Reserved(u) + AmountOf[r]
      BY <3>1, <3>3, TotalOne DEF Reserved
    <3>5. credits[u] - Reserved(u) >= AmountOf[r]
      BY <2>2 DEF Reserve
    <3>6. Reserved(u) \in Nat /\ credits[u] \in Nat /\ AmountOf[r] \in Nat
      BY <3>2, UnitsFinite, LimitAssumption, ReservationAssumption DEF Reserved, TypeOK
    <3> QED
      BY <3>4, <3>5, <3>6
  <2> QED
    BY <2>1, <2>2
<1> QED
  BY <1>1, <1>2, <1>3 DEF Covered

LEMMA CoveredCharge ==
    ASSUME TypeOK, Covered, NEW r \in Reservation, Charge(r)
    PROVE  Covered'
<1> USE DEF accountVars
<1>1. Live' = Live \ {r} /\ r \in Live
  BY LiveAfterDelete DEF Charge, Live
<1>2. users' = users /\ credits' = [credits EXCEPT ![Owner(r)] = credits[Owner(r)] - AmountOf[r]]
  BY DEF Charge
<1>3. ASSUME NEW u \in users PROVE Reserved(u)' <= credits'[u]
  <2>1. Reserved(u) <= credits[u] /\ u \in User
    BY DEF Covered, TypeOK
  <2>2. CASE u # Owner(r)
    <3>1. LiveOf(u)' = LiveOf(u)
      BY <1>1, <2>2 DEF LiveOf
    <3>2. credits'[u] = credits[u]
      BY <1>2, <2>1, <2>2 DEF TypeOK
    <3> QED
      BY <2>1, <3>1, <3>2 DEF Reserved
  <2>3. CASE u = Owner(r)
    <3>1. LiveOf(u)' = LiveOf(u) \ {r} /\ {r} \in SUBSET LiveOf(u)
      BY <1>1, <2>3 DEF LiveOf
    <3>2. LiveOf(u) \in SUBSET Reservation
      BY DEF LiveOf, Live
    <3>3. Total(LiveOf(u) \ {r}) = Total(LiveOf(u)) - Total({r})
      BY <3>1, <3>2, TotalMinus
    <3>4. Reserved(u)' = Reserved(u) - AmountOf[r]
      BY <3>1, <3>3, TotalOne DEF Reserved
    <3>5. credits'[u] = credits[u] - AmountOf[r]
      BY <1>2, <2>1, <2>3 DEF TypeOK
    <3>6. Reserved(u) \in Nat /\ credits[u] \in Nat /\ AmountOf[r] \in Nat
      BY <2>1, <3>2, UnitsFinite, LimitAssumption, ReservationAssumption DEF Reserved, TypeOK
    <3> QED
      BY <2>1, <3>4, <3>5, <3>6
  <2> QED
    BY <2>2, <2>3
<1>4. \A q \in Live' : Owner(q) \in users'
  BY <1>1, <1>2 DEF Covered
<1> QED
  BY <1>2, <1>3, <1>4 DEF Covered

LEMMA CoveredAdjust ==
    ASSUME TypeOK, Covered, NEW us \in SUBSET User,
           NEW balance \in [us -> 0 .. MaxCredits], Adjust(us, balance)
    PROVE  Covered'
<1> USE DEF accountVars, reservationVars
<1>1. Live' = Live /\ users' = users
  BY DEF Adjust, Live
<1>2. \A u \in User : LiveOf(u)' = LiveOf(u)
  BY <1>1 DEF LiveOf
<1>3. ASSUME NEW u \in users PROVE Reserved(u)' <= credits'[u]
  <2>1. u \in User /\ Reserved(u)' = Reserved(u) /\ Reserved(u) <= credits[u]
    BY <1>2 DEF Reserved, Covered, TypeOK
  <2>2. credits'[u] = IF u \in us THEN balance[u] ELSE credits[u]
    BY <2>1 DEF Adjust
  <2>3. CASE u \in us
    <3>1. balance[u] >= Reserved(u) /\ balance[u] \in Nat
      BY <2>3, LimitAssumption DEF Adjust
    <3>2. Reserved(u) \in Nat
      <4>1. LiveOf(u) \in SUBSET Reservation
        BY DEF LiveOf, Live
      <4> QED
        BY <4>1, UnitsFinite DEF Reserved
    <3> QED
      BY <2>1, <2>2, <2>3, <3>1, <3>2
  <2>4. CASE u \notin us
    BY <2>1, <2>2, <2>4
  <2> QED
    BY <2>3, <2>4
<1> QED
  BY <1>1, <1>3 DEF Covered

LEMMA CoveredNext == TypeOK /\ IssuedOnce /\ Covered /\ [Next]_vars => Covered' /\ IssuedOnce'
<1> SUFFICES ASSUME TypeOK, IssuedOnce, Covered, [Next]_vars
             PROVE  Covered' /\ IssuedOnce'
  OBVIOUS
<1> USE DEF accountVars, reservationVars
<1>1. ASSUME NEW r \in Reservation, Reserve(r) PROVE Covered' /\ IssuedOnce'
  BY <1>1, CoveredReserve DEF Reserve, Live, TypeOK, IssuedOnce
<1>2. ASSUME NEW S, ReleaseRows(S) PROVE Covered' /\ IssuedOnce'
  <2>1. DeleteRows(S) /\ UNCHANGED <<users, credits, unissued>>
    BY <1>2 DEF ReleaseRows
  <2>2. Live' = Live \ S
    BY <2>1, LiveAfterDelete
  <2> QED
    BY <2>1, <2>2, CoveredShrinks DEF Covered, IssuedOnce
<1>3. ASSUME NEW r \in Reservation, Charge(r) PROVE Covered' /\ IssuedOnce'
  <2>1. Live' \subseteq Live /\ unissued' = unissued
    BY <1>3, LiveAfterDelete DEF Charge
  <2> QED
    BY <1>3, <2>1, CoveredCharge DEF IssuedOnce
<1>4. ASSUME NEW us \in SUBSET User, NEW balance \in [us -> 0 .. MaxCredits],
             Adjust(us, balance)
      PROVE Covered' /\ IssuedOnce'
  BY <1>4, CoveredAdjust DEF Adjust, Live, IssuedOnce
<1>5. ASSUME NEW u \in User, DeleteUser(u) PROVE Covered' /\ IssuedOnce'
  <2>1. /\ DeleteRows(LiveOf(u))
        /\ users' = users \ {u}
        /\ UNCHANGED <<credits, unissued>>
    BY <1>5 DEF DeleteUser
  <2>2. Live' = Live \ LiveOf(u)
    BY <2>1, LiveAfterDelete
  <2>3. \A r \in Live' : Owner(r) \in users'
    BY <2>1, <2>2 DEF LiveOf, Covered
  <2> QED
    BY <2>1, <2>2, <2>3, CoveredShrinks DEF IssuedOnce
<1>6. ASSUME Live' = Live, UNCHANGED <<users, credits, unissued>>
      PROVE  Covered' /\ IssuedOnce'
  BY <1>6, CoveredShrinks DEF Covered, IssuedOnce
<1>7. ASSUME NEW r \in Reservation, MarkPending(r) \/ RecordAttempt(r) \/ Retry(r)
      PROVE  Covered' /\ IssuedOnce'
  <2>1. Live' = Live
    BY <1>7 DEF MarkPending, RecordAttempt, Retry, Live, TypeOK
  <2> QED
    BY <1>6, <1>7, <2>1 DEF MarkPending, RecordAttempt, Retry
<1>8. ASSUME NEW u \in User, NEW on \in BOOLEAN, SetAvailable(u, on)
      PROVE  Covered' /\ IssuedOnce'
  BY <1>6, <1>8 DEF SetAvailable, Live
<1>9. ASSUME NEW k \in Key, DeleteKey(k) PROVE Covered' /\ IssuedOnce'
  BY <1>6, <1>9 DEF DeleteKey, Live
<1>10. ASSUME NEW k \in Key, NEW quota \in {NoQuota} \cup Quotas, NEW on \in BOOLEAN,
              ConfigureKey(k, quota, on)
       PROVE  Covered' /\ IssuedOnce'
  BY <1>6, <1>10 DEF ConfigureKey, Live
<1>11. CASE UNCHANGED vars
  BY <1>6, <1>11 DEF vars, Live
<1>12. ASSUME NEW r \in Reservation, ReservationStep(r) PROVE Covered' /\ IssuedOnce'
  BY <1>1, <1>2, <1>3, <1>7, <1>12 DEF ReservationStep, Release
<1>13. ASSUME NEW S \in SUBSET Reservation, ReleaseExpired(S) PROVE Covered' /\ IssuedOnce'
  BY <1>2, <1>13 DEF ReleaseExpired
<1> QED
  BY <1>4, <1>5, <1>8, <1>9, <1>10, <1>11, <1>12, <1>13 DEF Next

LEMMA CoveredInit == Init => Covered /\ IssuedOnce
<1> SUFFICES ASSUME Init PROVE Covered /\ IssuedOnce
  OBVIOUS
<1>1. Live = {}
  BY DEF Init, Live
<1>2. ASSUME NEW u \in users PROVE Reserved(u) <= credits[u]
  <2>1. LiveOf(u) = {}
    BY <1>1 DEF LiveOf
  <2>2. Units({}) = {}
    BY DEF Units
  <2>3. Reserved(u) = 0
    BY <2>1, <2>2, FS_EmptySet DEF Reserved, Total
  <2>4. credits[u] = SignupBonus /\ SignupBonus \in Nat
    BY LimitAssumption DEF Init
  <2> QED
    BY <2>3, <2>4
<1> QED
  BY <1>1, <1>2 DEF Covered, IssuedOnce

(* No interleaving of calls, settlements, releases, adjustments and deletions
   leaves open reservations that their owner's balance does not cover: a
   settlement never fails for lack of balance. *)
THEOREM BalanceCovers == Spec => []Covered
<1>1. Init => TypeOK /\ IssuedOnce /\ Covered
  BY TypeInit, CoveredInit
<1>2. (TypeOK /\ IssuedOnce /\ Covered) /\ [Next]_vars => (TypeOK /\ IssuedOnce /\ Covered)'
  BY TypeNext, CoveredNext
<1> QED
  BY <1>1, <1>2, PTL DEF Spec

-----------------------------------------------------------------------------
(* What a key has used. *)

Open == Live \cup Charged
HeldBy(k) == {r \in Open : KeyOf[r] = k}

(* No id has two lives: rows, charges and unissued ids are disjoint.  Without
   it, a release could give back the quota of a call that was charged. *)
Apart == IssuedOnce /\ Charged \cap (Live \cup unissued) = {}

LEMMA OpenType == \A k : HeldBy(k) \in SUBSET Reservation
BY DEF HeldBy, Open, Live, Charged, ChargedTo

LEMMA ApartInit == Init => Apart /\ Open = {}
<1> SUFFICES ASSUME Init PROVE Apart /\ Open = {}
  OBVIOUS
<1>1. Live = {}
  BY DEF Init, Live
<1>2. ASSUME NEW u \in User PROVE ChargedTo(u) = {}
  <2>1. NoReservation \notin Reservation
    BY MarkerAssumption
  <2>2. CASE SignupBonus = 0
    <3>1. transactions[u] = << >>
      BY <2>2 DEF Init
    <3> QED
      BY <3>1 DEF ChargedTo
  <2>3. CASE SignupBonus # 0
    <3> DEFINE bonus == [amount |-> SignupBonus, balanceAfter |-> SignupBonus,
                         reservation |-> NoReservation]
    <3>1. transactions[u] = << bonus >>
      BY <2>3 DEF Init
    <3>2. bonus.reservation = NoReservation
      OBVIOUS
    <3> HIDE DEF bonus
    <3>3. \A i \in 1 .. Len(transactions[u]) : transactions[u][i].reservation = NoReservation
      BY <3>1, <3>2
    <3> QED
      BY <2>1, <3>3 DEF ChargedTo
  <2> QED
    BY <2>2, <2>3
<1>3. Charged = {}
  BY <1>2 DEF Charged
<1> QED
  BY <1>1, <1>3 DEF Apart, IssuedOnce, Open

LEMMA ApartNext == TypeOK /\ Apart /\ [Next]_vars => Apart'
<1> SUFFICES ASSUME TypeOK, Apart, [Next]_vars PROVE Apart'
  OBVIOUS
<1> USE DEF accountVars, reservationVars
<1>1. ASSUME NEW r \in Reservation, Reserve(r) PROVE Apart'
  <2>1. Live' = Live \cup {r} /\ unissued' = unissued \ {r} /\ r \in unissued
    BY <1>1 DEF Reserve, Live, TypeOK
  <2>2. Charged' = Charged
    BY <1>1, ChargedKept DEF Reserve
  <2> QED
    BY <2>1, <2>2 DEF Apart, IssuedOnce
<1>2. ASSUME NEW S, DeleteRows(S), UNCHANGED <<unissued, transactions>> PROVE Apart'
  <2>1. Live' = Live \ S /\ Charged' = Charged
    BY <1>2, LiveAfterDelete, ChargedKept
  <2> QED
    BY <1>2, <2>1 DEF Apart, IssuedOnce
<1>3. ASSUME NEW r \in Reservation, Charge(r) PROVE Apart'
  <2>1. Live' = Live \ {r} /\ unissued' = unissued /\ r \in Live
    BY <1>3, LiveAfterDelete DEF Charge, Live
  <2>2. Charged' = Charged \cup {r}
    BY <1>3, ChargedAfterCharge
  <2> QED
    BY <2>1, <2>2 DEF Apart, IssuedOnce
<1>4. ASSUME NEW us \in SUBSET User, NEW balance \in [us -> 0 .. MaxCredits],
             Adjust(us, balance)
      PROVE Apart'
  <2>1. Live' = Live /\ unissued' = unissued
    BY <1>4 DEF Adjust, Live
  <2>2. Charged' = Charged
    BY <1>4, ChargedAfterAdjust
  <2> QED
    BY <2>1, <2>2 DEF Apart, IssuedOnce
<1>5. ASSUME Live' = Live, UNCHANGED <<unissued, transactions>> PROVE Apart'
  BY <1>5, ChargedKept DEF Apart, IssuedOnce
<1>6. ASSUME NEW r \in Reservation, MarkPending(r) \/ RecordAttempt(r) \/ Retry(r)
      PROVE  Apart'
  <2>1. Live' = Live
    BY <1>6 DEF MarkPending, RecordAttempt, Retry, Live, TypeOK
  <2> QED
    BY <1>5, <1>6, <2>1 DEF MarkPending, RecordAttempt, Retry
<1>7. ASSUME NEW u \in User, NEW on \in BOOLEAN, SetAvailable(u, on) PROVE Apart'
  BY <1>5, <1>7 DEF SetAvailable, Live
<1>8. ASSUME NEW k \in Key, DeleteKey(k) PROVE Apart'
  BY <1>5, <1>8 DEF DeleteKey, Live
<1>9. ASSUME NEW k \in Key, NEW quota \in {NoQuota} \cup Quotas, NEW on \in BOOLEAN,
             ConfigureKey(k, quota, on)
      PROVE  Apart'
  BY <1>5, <1>9 DEF ConfigureKey, Live
<1>10. CASE UNCHANGED vars
  BY <1>5, <1>10 DEF vars, Live
<1>11. ASSUME NEW r \in Reservation, ReservationStep(r) PROVE Apart'
  BY <1>1, <1>2, <1>3, <1>6, <1>11 DEF ReservationStep, Release, ReleaseRows
<1>12. ASSUME NEW S \in SUBSET Reservation, ReleaseExpired(S) PROVE Apart'
  BY <1>2, <1>12 DEF ReleaseExpired, ReleaseRows
<1>13. ASSUME NEW u \in User, DeleteUser(u) PROVE Apart'
  BY <1>2, <1>13 DEF DeleteUser
<1> QED
  BY <1>4, <1>7, <1>8, <1>9, <1>10, <1>11, <1>12, <1>13 DEF Next

(* A key keeps its balance of quota when neither it nor its reservations
   change. *)
LEMMA QuotaKept ==
    ASSUME QuotaAccounting, NEW k \in apiKeys, HeldBy(k)' = HeldBy(k),
           usedCredits'[k] = usedCredits[k]
    PROVE  usedCredits'[k] = Total(HeldBy(k)')
BY DEF QuotaAccounting, HeldBy, Open

LEMMA QuotaReserve ==
    ASSUME TypeOK, Apart, QuotaAccounting, NEW r \in Reservation, Reserve(r)
    PROVE  QuotaAccounting'
<1> USE DEF accountVars
<1>1. Open' = Open \cup {r} /\ r \notin Open
  <2>1. Live' = Live \cup {r} /\ r \in unissued
    BY DEF Reserve, Live, TypeOK
  <2>2. Charged' = Charged
    BY ChargedKept DEF Reserve
  <2> QED
    BY <2>1, <2>2 DEF Open, Apart, IssuedOnce
<1>2. ASSUME NEW k \in apiKeys PROVE usedCredits'[k] = Total(HeldBy(k)')
  <2>1. k \in Key
    BY DEF TypeOK
  <2>2. CASE k # KeyOf[r]
    <3>1. HeldBy(k)' = HeldBy(k)
      BY <1>1, <2>2 DEF HeldBy
    <3>2. usedCredits'[k] = usedCredits[k]
      BY <2>1, <2>2 DEF Reserve, TypeOK
    <3> QED
      BY <3>1, <3>2, QuotaKept
  <2>3. CASE k = KeyOf[r]
    <3>1. HeldBy(k)' = HeldBy(k) \cup {r} /\ HeldBy(k) \cap {r} = {}
      BY <1>1, <2>3 DEF HeldBy
    <3>2. HeldBy(k) \in SUBSET Reservation
      BY <2>1, OpenType
    <3>3. Total(HeldBy(k) \cup {r}) = Total(HeldBy(k)) + Total({r})
      BY <3>1, <3>2, TotalUnion
    <3>4. Total(HeldBy(k)') = Total(HeldBy(k)) + AmountOf[r]
      BY <3>1, <3>3, TotalOne
    <3>5. usedCredits'[k] = usedCredits[k] + AmountOf[r]
      BY <2>1, <2>3 DEF Reserve, TypeOK
    <3>6. usedCredits[k] = Total(HeldBy(k))
      BY DEF QuotaAccounting, HeldBy, Open
    <3> QED
      BY <3>4, <3>5, <3>6
  <2> QED
    BY <2>2, <2>3
<1>3. apiKeys' = apiKeys
  BY DEF Reserve
<1> QED
  BY <1>2, <1>3 DEF QuotaAccounting, HeldBy, Open

(* greatest(used - refund, 0) never cuts anything off: the refund of a key is
   part of what the key has used. *)
LEMMA QuotaRelease ==
    ASSUME TypeOK, Apart, QuotaAccounting, NEW S \in SUBSET Live, ReleaseRows(S)
    PROVE  QuotaAccounting'
<1> USE DEF accountVars
<1> DEFINE share(k) == {r \in S : KeyOf[r] = k}
           refund == [k \in Key |-> Total(share(k))]
<1>1. Open' = Open \ S
  <2>1. Live' = Live \ S
    BY LiveAfterDelete DEF ReleaseRows
  <2>2. Charged' = Charged
    BY ChargedKept DEF ReleaseRows
  <2> QED
    BY <2>1, <2>2 DEF Open, Apart
<1>2. Refund(refund)
  BY DEF ReleaseRows
<1>3. ASSUME NEW k \in apiKeys PROVE usedCredits'[k] = Total(HeldBy(k)')
  <2>1. k \in Key
    BY DEF TypeOK
  <2>2. HeldBy(k)' = HeldBy(k) \ share(k) /\ share(k) \in SUBSET HeldBy(k)
    BY <1>1 DEF HeldBy, Open
  <2>3. HeldBy(k) \in SUBSET Reservation
    BY <2>1, OpenType
  <2>4. /\ Total(HeldBy(k) \ share(k)) = Total(HeldBy(k)) - Total(share(k))
        /\ Total(share(k)) <= Total(HeldBy(k))
    BY <2>2, <2>3, TotalMinus
  <2>5. Total(share(k)) \in Nat /\ Total(HeldBy(k)) \in Nat
    BY <2>2, <2>3, UnitsFinite
  <2>6. refund[k] = Total(share(k))
    BY <2>1
  <2>7. usedCredits[k] = Total(HeldBy(k))
    BY DEF QuotaAccounting, HeldBy, Open
  <2>8. usedCredits'[k] = IF usedCredits[k] > refund[k] THEN usedCredits[k] - refund[k] ELSE 0
    <3> HIDE DEF refund
    <3> QED
      BY <1>2, <2>1 DEF Refund
  <2>9. usedCredits'[k] = Total(HeldBy(k)) - Total(share(k))
    <3> HIDE DEF share, refund
    <3> QED
      BY <2>4, <2>5, <2>6, <2>7, <2>8
  <2> QED
    BY <2>2, <2>4, <2>9
<1>4. apiKeys' = apiKeys
  BY DEF ReleaseRows
<1> QED
  BY <1>3, <1>4 DEF QuotaAccounting, HeldBy, Open

LEMMA QuotaNext == TypeOK /\ Apart /\ QuotaAccounting /\ [Next]_vars => QuotaAccounting'
<1> SUFFICES ASSUME TypeOK, Apart, QuotaAccounting, [Next]_vars PROVE QuotaAccounting'
  OBVIOUS
<1> USE DEF accountVars, reservationVars
<1>1. ASSUME apiKeys' \subseteq apiKeys, UNCHANGED usedCredits,
             \A k \in apiKeys' : HeldBy(k)' = HeldBy(k)
      PROVE  QuotaAccounting'
  BY <1>1, QuotaKept DEF QuotaAccounting, HeldBy, Open
<1>2. ASSUME Open' = Open, apiKeys' \subseteq apiKeys, UNCHANGED usedCredits
      PROVE  QuotaAccounting'
  BY <1>1, <1>2 DEF HeldBy
<1>3. ASSUME Live' = Live, UNCHANGED <<transactions, usedCredits>>, apiKeys' \subseteq apiKeys
      PROVE  QuotaAccounting'
  BY <1>2, <1>3, ChargedKept DEF Open
<1>4. ASSUME NEW r \in Reservation, Charge(r) PROVE QuotaAccounting'
  <2>1. Live' = Live \ {r} /\ r \in Live
    BY <1>4, LiveAfterDelete DEF Charge, Live
  <2>2. Charged' = Charged \cup {r}
    BY <1>4, ChargedAfterCharge
  <2>3. Open' = Open
    BY <2>1, <2>2 DEF Open
  <2> QED
    BY <1>2, <1>4, <2>3 DEF Charge
<1>5. ASSUME NEW r \in Reservation, MarkPending(r) \/ RecordAttempt(r) \/ Retry(r)
      PROVE  QuotaAccounting'
  <2>1. Live' = Live
    BY <1>5 DEF MarkPending, RecordAttempt, Retry, Live, TypeOK
  <2> QED
    BY <1>3, <1>5, <2>1 DEF MarkPending, RecordAttempt, Retry
<1>6. ASSUME NEW r \in Reservation, Release(r) PROVE QuotaAccounting'
  <2>1. {r} \in SUBSET Live /\ ReleaseRows({r})
    BY <1>6 DEF Release, Live
  <2> QED
    BY <2>1, QuotaRelease
<1>7. ASSUME NEW S \in SUBSET Reservation, ReleaseExpired(S) PROVE QuotaAccounting'
  <2>1. S \in SUBSET Live /\ ReleaseRows(S)
    BY <1>7 DEF ReleaseExpired, Live
  <2> QED
    BY <2>1, QuotaRelease
<1>8. ASSUME NEW us \in SUBSET User, NEW balance \in [us -> 0 .. MaxCredits],
             Adjust(us, balance)
      PROVE QuotaAccounting'
  <2>1. Live' = Live
    BY <1>8 DEF Adjust, Live
  <2>2. Charged' = Charged
    BY <1>8, ChargedAfterAdjust
  <2> QED
    BY <1>2, <1>8, <2>1, <2>2 DEF Adjust, Open
<1>9. ASSUME NEW u \in User, DeleteUser(u) PROVE QuotaAccounting'
  <2>1. Live' = Live \ LiveOf(u) /\ Charged' = Charged
    BY <1>9, LiveAfterDelete, ChargedKept DEF DeleteUser
  <2>2. ASSUME NEW k \in apiKeys' PROVE HeldBy(k)' = HeldBy(k)
    <3>1. OwnerOf[k] # u
      BY <1>9, <2>2 DEF DeleteUser, TypeOK
    <3>2. \A r \in LiveOf(u) : KeyOf[r] # k
      BY <3>1 DEF LiveOf, Owner
    <3> QED
      BY <2>1, <3>2 DEF HeldBy, Open, LiveOf, Apart
  <2> QED
    BY <1>1, <1>9, <2>2 DEF DeleteUser
<1>10. ASSUME NEW u \in User, NEW on \in BOOLEAN, SetAvailable(u, on) PROVE QuotaAccounting'
  BY <1>3, <1>10 DEF SetAvailable, Live
<1>11. ASSUME NEW k \in Key, DeleteKey(k) PROVE QuotaAccounting'
  BY <1>3, <1>11 DEF DeleteKey, Live
<1>12. ASSUME NEW k \in Key, NEW quota \in {NoQuota} \cup Quotas, NEW on \in BOOLEAN,
              ConfigureKey(k, quota, on)
       PROVE  QuotaAccounting'
  BY <1>3, <1>12 DEF ConfigureKey, Live
<1>13. CASE UNCHANGED vars
  BY <1>3, <1>13 DEF vars, Live
<1>14. ASSUME NEW r \in Reservation, ReservationStep(r) PROVE QuotaAccounting'
  BY <1>4, <1>5, <1>6, <1>14, QuotaReserve DEF ReservationStep
<1> QED
  BY <1>7, <1>8, <1>9, <1>10, <1>11, <1>12, <1>13, <1>14 DEF Next

LEMMA QuotaInit == Init => QuotaAccounting
<1> SUFFICES ASSUME Init, NEW k \in apiKeys PROVE usedCredits[k] = Total(HeldBy(k))
  BY DEF QuotaAccounting, HeldBy, Open
<1>1. HeldBy(k) = {}
  BY ApartInit DEF HeldBy
<1>2. Units({}) = {}
  BY DEF Units
<1>3. Total(HeldBy(k)) = 0
  BY <1>1, <1>2, FS_EmptySet DEF Total
<1> QED
  BY <1>3 DEF Init

(* Whatever order calls are settled, released, expired and deleted in, what a
   key has used is what its open reservations hold and what it was charged. *)
THEOREM QuotaAccounted == Spec => []QuotaAccounting
<1>1. Init => TypeOK /\ Apart /\ QuotaAccounting
  BY TypeInit, ApartInit, QuotaInit
<1>2. (TypeOK /\ Apart /\ QuotaAccounting) /\ [Next]_vars => (TypeOK /\ Apart /\ QuotaAccounting)'
  BY TypeNext, ApartNext, QuotaNext
<1> QED
  BY <1>1, <1>2, PTL DEF Spec

-----------------------------------------------------------------------------
(* One charge per reservation. *)

(* A journal stays free of repetitions when the new row names nothing, or a
   reservation of its user that it did not name. *)
LEMMA NamesOnceAppend ==
    ASSUME NEW u, NEW journal \in Seq(Entry), NEW entry \in Entry, NamesOnce(u, journal),
           \/ entry.reservation = NoReservation
           \/ /\ Owner(entry.reservation) = u
              /\ \A i \in 1 .. Len(journal) : journal[i].reservation # entry.reservation
    PROVE  NamesOnce(u, Append(journal, entry))
<1> DEFINE longer == Append(journal, entry)
           n == Len(journal)
<1>1. /\ n \in Nat
      /\ Len(longer) = n + 1
      /\ \A i \in 1 .. n : longer[i] = journal[i]
      /\ longer[n + 1] = entry
  BY AppendProperties, LenProperties
<1> HIDE DEF longer
<1>2. ASSUME NEW i \in 1 .. Len(longer), NEW j \in 1 .. Len(longer),
             longer[i].reservation # NoReservation
      PROVE  /\ Owner(longer[i].reservation) = u
             /\ longer[j].reservation = longer[i].reservation => i = j
  <2>1. CASE i \in 1 .. n /\ j \in 1 .. n
    BY <1>1, <1>2, <2>1 DEF NamesOnce
  <2>2. CASE i \in 1 .. n /\ j = n + 1
    <3>1. longer[i] = journal[i] /\ longer[j] = entry
      BY <1>1, <2>2
    <3>2. Owner(journal[i].reservation) = u
      BY <1>2, <2>2, <3>1 DEF NamesOnce
    <3>3. entry.reservation # journal[i].reservation
      BY <1>2, <2>2, <3>1
    <3> QED
      BY <3>1, <3>2, <3>3
  <2>3. CASE i = n + 1
    <3>1. longer[i] = entry
      BY <1>1, <2>3
    <3>2. j \in 1 .. n => longer[j].reservation # entry.reservation
      BY <1>1, <1>2, <3>1
    <3>3. j \in 1 .. n \/ j = n + 1
      BY <1>1
    <3> QED
      BY <1>2, <2>3, <3>1, <3>2, <3>3
  <2> QED
    BY <1>1, <2>1, <2>2, <2>3
<1> QED
  BY <1>2 DEF NamesOnce, longer

LEMMA ChargedOnceCharge ==
    ASSUME TypeOK, Apart, ChargedOnce, NEW r \in Reservation, Charge(r), NEW u \in User
    PROVE  NamesOnce(u, transactions'[u])
<1> DEFINE v == Owner(r)
           entry == EntryFor(v, credits[v] - AmountOf[r], r)
<1>1. v \in User
  BY ReservationAssumption DEF Owner
<1>2. r \notin ChargedTo(v)
  BY <1>1 DEF Apart, Charge, Live, Charged
<1>3. entry \in Entry /\ entry.reservation = r
  <2>1. credits[v] - AmountOf[r] \in 0 .. MaxCredits
    <3>1. credits[v] \in 0 .. MaxCredits /\ MaxCredits \in Nat /\ AmountOf[r] \in Nat
      BY <1>1, LimitAssumption, ReservationAssumption DEF TypeOK
    <3>2. credits[v] - AmountOf[r] >= 0
      BY DEF Charge
    <3> QED
      BY <3>1, <3>2
  <2>2. entry \in Entry
    BY <1>1, <2>1, EntryForType
  <2> QED
    BY <2>2 DEF EntryFor
<1>4. transactions' = [transactions EXCEPT ![v] = Append(transactions[v], entry)]
  BY DEF Charge
<1>5. NamesOnce(u, transactions[u]) /\ transactions[u] \in Seq(Entry)
  BY DEF ChargedOnce, TypeOK
<1> HIDE DEF entry
<1>6. CASE u # v
  <2>1. transactions'[u] = transactions[u]
    BY <1>4, <1>6 DEF TypeOK
  <2> QED
    BY <1>5, <2>1
<1>7. CASE u = v
  <2>1. transactions'[u] = Append(transactions[u], entry)
    BY <1>1, <1>4, <1>7 DEF TypeOK
  <2>2. \A i \in 1 .. Len(transactions[u]) : transactions[u][i].reservation # r
    BY <1>2, <1>7 DEF ChargedTo
  <2> QED
    BY <1>3, <1>5, <1>7, <2>1, <2>2, NamesOnceAppend
<1> QED
  BY <1>6, <1>7

LEMMA ChargedOnceAdjust ==
    ASSUME TypeOK, ChargedOnce, NEW us \in SUBSET User,
           NEW balance \in [us -> 0 .. MaxCredits], Adjust(us, balance), NEW u \in User
    PROVE  NamesOnce(u, transactions'[u])
<1>1. NamesOnce(u, transactions[u]) /\ transactions[u] \in Seq(Entry)
  BY DEF ChargedOnce, TypeOK
<1>2. CASE u \notin us
  <2>1. transactions'[u] = transactions[u]
    BY <1>2 DEF Adjust
  <2> QED
    BY <1>1, <2>1
<1>3. CASE u \in us
  <2> DEFINE entry == EntryFor(u, balance[u], NoReservation)
  <2>1. entry \in Entry
    BY <1>3, EntryForType
  <2>2. transactions'[u] = Append(transactions[u], entry)
    BY <1>3 DEF Adjust
  <2>3. entry.reservation = NoReservation
    BY DEF EntryFor
  <2> HIDE DEF entry
  <2> QED
    BY <1>1, <2>1, <2>2, <2>3, NamesOnceAppend
<1> QED
  BY <1>2, <1>3

LEMMA ChargedOnceNext == TypeOK /\ Apart /\ ChargedOnce /\ [Next]_vars => ChargedOnce'
<1> SUFFICES ASSUME TypeOK, Apart, ChargedOnce, [Next]_vars PROVE ChargedOnce'
  OBVIOUS
<1> USE DEF accountVars, reservationVars
<1>1. Apart'
  BY ApartNext
<1>2. ASSUME UNCHANGED transactions PROVE ChargedOnce'
  BY <1>1, <1>2 DEF ChargedOnce, Apart
<1>3. ASSUME NEW r \in Reservation, Charge(r) PROVE ChargedOnce'
  BY <1>1, <1>3, ChargedOnceCharge DEF ChargedOnce, Apart
<1>4. ASSUME NEW us \in SUBSET User, NEW balance \in [us -> 0 .. MaxCredits],
             Adjust(us, balance)
      PROVE ChargedOnce'
  BY <1>1, <1>4, ChargedOnceAdjust DEF ChargedOnce, Apart
<1>5. ASSUME NEW r \in Reservation, ReservationStep(r) PROVE ChargedOnce'
  BY <1>2, <1>3, <1>5
     DEF ReservationStep, Reserve, MarkPending, Release, ReleaseRows, RecordAttempt, Retry
<1>6. CASE UNCHANGED vars
  BY <1>2, <1>6 DEF vars
<1> QED
  BY <1>2, <1>4, <1>5, <1>6
     DEF Next, ReleaseExpired, ReleaseRows, DeleteUser, SetAvailable, DeleteKey, ConfigureKey

LEMMA ChargedOnceInit == Init => ChargedOnce
<1> SUFFICES ASSUME Init PROVE ChargedOnce
  OBVIOUS
<1>1. Charged \cap (Live \cup unissued) = {}
  BY ApartInit DEF Apart
<1>2. ASSUME NEW u \in User, NEW i \in 1 .. Len(transactions[u])
      PROVE  transactions[u][i].reservation = NoReservation
  <2>1. CASE SignupBonus = 0
    <3>1. transactions[u] = << >>
      BY <2>1 DEF Init
    <3> QED
      BY <1>2, <3>1
  <2>2. CASE SignupBonus # 0
    <3>1. transactions[u] = << [amount |-> SignupBonus, balanceAfter |-> SignupBonus,
                                reservation |-> NoReservation] >>
      BY <2>2 DEF Init
    <3> QED
      BY <1>2, <3>1
  <2> QED
    BY <2>1, <2>2
<1> QED
  BY <1>1, <1>2 DEF ChargedOnce, NamesOnce

(* However often and by whomever a reservation is settled, its owner pays for
   it once, and what was charged is never released as well. *)
THEOREM ChargesOnce == Spec => []ChargedOnce
<1>1. Init => TypeOK /\ Apart /\ ChargedOnce
  BY TypeInit, ApartInit, ChargedOnceInit
<1>2. (TypeOK /\ Apart /\ ChargedOnce) /\ [Next]_vars => (TypeOK /\ Apart /\ ChargedOnce)'
  BY TypeNext, ApartNext, ChargedOnceNext
<1> QED
  BY <1>1, <1>2, PTL DEF Spec

-----------------------------------------------------------------------------
(* The journal as an audit of the balance. *)

(* A chain that ends at one balance is continued by the row that leads to
   another. *)
LEMMA ChainAppend ==
    ASSUME NEW journal \in Seq(Entry), NEW entry \in Entry, NEW from \in Int,
           Chain(journal, from), entry.balanceAfter = from + entry.amount
    PROVE  Chain(Append(journal, entry), entry.balanceAfter)
<1> DEFINE longer == Append(journal, entry)
           n == Len(journal)
<1>1. /\ n \in Nat
      /\ Len(longer) = n + 1
      /\ \A i \in 1 .. n : longer[i] = journal[i]
      /\ longer[n + 1] = entry
  BY AppendProperties, LenProperties
<1> HIDE DEF longer
<1>2. ASSUME NEW i \in 1 .. Len(longer)
      PROVE  longer[i].balanceAfter =
                (IF i = 1 THEN 0 ELSE longer[i - 1].balanceAfter) + longer[i].amount
  <2>1. CASE i \in 1 .. n
    <3>1. i # 1 => i - 1 \in 1 .. n
      BY <1>1, <2>1
    <3> QED
      BY <1>1, <2>1, <3>1 DEF Chain
  <2>2. CASE i = n + 1
    <3>1. from = IF i = 1 THEN 0 ELSE journal[i - 1].balanceAfter
      BY <2>2 DEF Chain
    <3>2. i # 1 => longer[i - 1] = journal[i - 1]
      BY <1>1, <2>2
    <3> QED
      BY <1>1, <2>2, <3>1, <3>2
  <2> QED
    BY <1>1, <2>1, <2>2
<1>3. Len(longer) + 1 # 1 /\ Len(longer) + 1 - 1 = n + 1
  BY <1>1
<1> QED
  BY <1>1, <1>2, <1>3 DEF Chain, longer

(* EntryFor describes the step from the present balance. *)
LEMMA ChainEntry ==
    ASSUME TypeOK, NEW u \in User, NEW balance \in 0 .. MaxCredits,
           NEW r \in Reservation \cup {NoReservation}, Chain(transactions[u], credits[u])
    PROVE  Chain(Append(transactions[u], EntryFor(u, balance, r)), balance)
<1> DEFINE entry == EntryFor(u, balance, r)
<1>1. credits[u] \in Int /\ balance \in Int
  BY LimitAssumption DEF TypeOK
<1>2. entry \in Entry /\ transactions[u] \in Seq(Entry)
  BY EntryForType DEF TypeOK
<1>3. entry.balanceAfter = balance /\ entry.balanceAfter = credits[u] + entry.amount
  BY <1>1 DEF EntryFor
<1> HIDE DEF entry
<1>4. Chain(Append(transactions[u], entry), entry.balanceAfter)
  BY <1>1, <1>2, <1>3, ChainAppend
<1> QED
  BY <1>3, <1>4 DEF entry

LEMMA ChainNext == TypeOK /\ BalanceChain /\ [Next]_vars => BalanceChain'
<1> SUFFICES ASSUME TypeOK, BalanceChain, [Next]_vars PROVE BalanceChain'
  OBVIOUS
<1> USE DEF accountVars, reservationVars
<1>1. ASSUME UNCHANGED <<credits, transactions>> PROVE BalanceChain'
  BY <1>1 DEF BalanceChain
<1>2. ASSUME NEW r \in Reservation, Charge(r), NEW u \in User
      PROVE  Chain(transactions'[u], credits'[u])
  <2> DEFINE v == Owner(r)
             balance == credits[v] - AmountOf[r]
  <2>1. v \in User /\ balance \in 0 .. MaxCredits
    <3>1. v \in User /\ AmountOf[r] \in Nat
      BY ReservationAssumption DEF Owner
    <3>2. credits[v] \in 0 .. MaxCredits /\ MaxCredits \in Nat
      BY <3>1, LimitAssumption DEF TypeOK
    <3>3. balance >= 0
      BY <1>2 DEF Charge
    <3> QED
      BY <3>1, <3>2, <3>3
  <2>2. /\ credits' = [credits EXCEPT ![v] = balance]
        /\ transactions' = [transactions EXCEPT ![v] =
                Append(transactions[v], EntryFor(v, balance, r))]
    BY <1>2 DEF Charge
  <2>3. Chain(transactions[u], credits[u])
    BY DEF BalanceChain
  <2> HIDE DEF balance, v
  <2>4. CASE u # v
    BY <2>2, <2>3, <2>4 DEF TypeOK
  <2>5. CASE u = v
    <3>1. Chain(Append(transactions[u], EntryFor(u, balance, r)), balance)
      BY <2>1, <2>3, <2>5, ChainEntry
    <3>2. /\ credits'[u] = balance
          /\ transactions'[u] = Append(transactions[u], EntryFor(u, balance, r))
      BY <2>1, <2>2, <2>5 DEF TypeOK
    <3> QED
      BY <3>1, <3>2
  <2> QED
    BY <2>4, <2>5
<1>3. ASSUME NEW us \in SUBSET User, NEW balance \in [us -> 0 .. MaxCredits],
             Adjust(us, balance), NEW u \in User
      PROVE  Chain(transactions'[u], credits'[u])
  <2>1. Chain(transactions[u], credits[u])
    BY DEF BalanceChain
  <2>2. CASE u \in us
    <3>1. Chain(Append(transactions[u], EntryFor(u, balance[u], NoReservation)), balance[u])
      BY <2>1, <2>2, ChainEntry
    <3>2. /\ credits'[u] = balance[u]
          /\ transactions'[u] = Append(transactions[u], EntryFor(u, balance[u], NoReservation))
      BY <1>3, <2>2 DEF Adjust
    <3> QED
      BY <3>1, <3>2
  <2>3. CASE u \notin us
    BY <1>3, <2>1, <2>3 DEF Adjust
  <2> QED
    BY <2>2, <2>3
<1>4. ASSUME NEW r \in Reservation, ReservationStep(r) PROVE BalanceChain'
  BY <1>1, <1>2, <1>4
     DEF ReservationStep, Reserve, MarkPending, Release, ReleaseRows, RecordAttempt, Retry,
         BalanceChain
<1>5. ASSUME NEW us \in SUBSET User, NEW balance \in [us -> 0 .. MaxCredits],
             Adjust(us, balance)
      PROVE BalanceChain'
  BY <1>3, <1>5 DEF BalanceChain
<1>6. CASE UNCHANGED vars
  BY <1>1, <1>6 DEF vars
<1> QED
  BY <1>1, <1>4, <1>5, <1>6
     DEF Next, ReleaseExpired, ReleaseRows, DeleteUser, SetAvailable, DeleteKey, ConfigureKey

LEMMA ChainInit == Init => BalanceChain
<1> SUFFICES ASSUME Init, NEW u \in User PROVE Chain(transactions[u], credits[u])
  BY DEF BalanceChain
<1>1. credits[u] = SignupBonus /\ SignupBonus \in Nat
  BY LimitAssumption DEF Init
<1>2. CASE SignupBonus = 0
  <2>1. transactions[u] = << >>
    BY <1>2 DEF Init
  <2> QED
    BY <1>1, <1>2, <2>1 DEF Chain
<1>3. CASE SignupBonus # 0
  <2>1. transactions[u] = << [amount |-> SignupBonus, balanceAfter |-> SignupBonus,
                              reservation |-> NoReservation] >>
    BY <1>3 DEF Init
  <2> QED
    BY <1>1, <2>1 DEF Chain
<1> QED
  BY <1>2, <1>3

(* The journal explains every balance: its rows follow one another from zero
   to the present value, with nothing changed on the side. *)
THEOREM JournalExplainsBalance == Spec => []BalanceChain
<1>1. Init => TypeOK /\ BalanceChain
  BY TypeInit, ChainInit
<1>2. (TypeOK /\ BalanceChain) /\ [Next]_vars => (TypeOK /\ BalanceChain)'
  BY TypeNext, ChainNext
<1> QED
  BY <1>1, <1>2, PTL DEF Spec

-----------------------------------------------------------------------------
(* Quotas at the moment they are taken. *)

LEMMA QuotaStep ==
    TypeOK /\ [Next]_vars =>
        \A k \in Key : usedCredits'[k] > usedCredits[k] =>
            (totalQuota[k] # NoQuota => usedCredits'[k] <= totalQuota[k])
<1> SUFFICES ASSUME TypeOK, [Next]_vars, NEW k \in Key,
                    usedCredits'[k] > usedCredits[k], totalQuota[k] # NoQuota
             PROVE  usedCredits'[k] <= totalQuota[k]
  OBVIOUS
<1> USE DEF accountVars, reservationVars
<1>1. usedCredits[k] \in Nat
  BY DEF TypeOK
<1>2. ASSUME NEW r \in Reservation, Reserve(r) PROVE usedCredits'[k] <= totalQuota[k]
  <2>1. k = KeyOf[r] /\ usedCredits'[k] = usedCredits[k] + AmountOf[r]
    BY <1>1, <1>2 DEF Reserve, TypeOK
  <2> QED
    BY <1>2, <2>1 DEF Reserve, WithinQuota
<1>3. ASSUME NEW S \in SUBSET Reservation, ReleaseRows(S) PROVE FALSE
  <2> DEFINE refund == [key \in Key |-> Total({r \in S : KeyOf[r] = key})]
  <2>1. refund[k] \in Nat
    BY UnitsFinite
  <2>2. Refund(refund)
    BY <1>3 DEF ReleaseRows
  <2> HIDE DEF refund
  <2> QED
    BY <1>1, <2>1, <2>2 DEF Refund
<1>4. ASSUME UNCHANGED usedCredits PROVE FALSE
  BY <1>1, <1>4
<1>5. ASSUME NEW r \in Reservation, ReservationStep(r) PROVE usedCredits'[k] <= totalQuota[k]
  BY <1>2, <1>3, <1>4, <1>5
     DEF ReservationStep, MarkPending, Release, Charge, RecordAttempt, Retry
<1>6. CASE UNCHANGED vars
  BY <1>4, <1>6 DEF vars
<1> QED
  BY <1>3, <1>4, <1>5, <1>6
     DEF Next, ReleaseExpired, Adjust, DeleteUser, SetAvailable, DeleteKey, ConfigureKey

(* A reservation takes quota only up to the limit in force at that moment; a
   limit lowered below what is used refuses every further one. *)
THEOREM QuotaIsRespected == Spec => QuotaRespected
<1>1. TypeOK /\ [Next]_vars =>
        [\A k \in Key : usedCredits'[k] > usedCredits[k] =>
            (totalQuota[k] # NoQuota => usedCredits'[k] <= totalQuota[k])]_vars
  BY QuotaStep
<1>2. Spec => []TypeOK
  BY TypeCorrect
<1> QED
  BY <1>1, <1>2, PTL DEF Spec, QuotaRespected
=============================================================================
