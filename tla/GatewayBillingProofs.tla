------------------------ MODULE GatewayBillingProofs ------------------------
(***************************************************************************)
(* What holds of paid gateway calls for any number of calls, workers, keys *)
(* and accounts.  Every step of the gateway is a transaction of the ledger *)
(* or leaves it alone, so the theorems of CreditLedgerProofs carry over;   *)
(* the invariants of the calls themselves rest on them.                    *)
(***************************************************************************)
EXTENDS GatewayBilling, CreditLedgerProofs

-----------------------------------------------------------------------------
(* The gateway uses the ledger only through its transactions. *)

LEMMA FinalizeIsLedgerStep ==
    ASSUME NEW r \in Reservation, NEW hasCall, Finalize(r, hasCall)
    PROVE  [Next]_vars
BY DEF Finalize, Quiet, ledgerVars, Next, ReservationStep

LEMMA CallIsLedgerStep ==
    ASSUME NEW r \in Reservation, CallStep(r)
    PROVE  [Next]_vars
<1> USE DEF Quiet, ledgerVars
<1>1. ASSUME ReservationStep(r) PROVE [Next]_vars
  BY <1>1 DEF Next
<1>2. CASE Authorize(r)
  BY <1>1, <1>2 DEF Authorize, ReservationStep
<1>3. CASE PersistCharge(r)
  BY <1>1, <1>3 DEF PersistCharge, ReservationStep
<1>4. CASE PersistFree(r) \/ CatchRelease(r) \/ HookFinally(r)
  BY <1>1, <1>4 DEF PersistFree, CatchRelease, HookFinally, ReleaseOpen, ReservationStep
<1>5. CASE HookSettle(r)
  BY <1>5, FinalizeIsLedgerStep DEF HookSettle
<1>6. CASE ProxyCompletes(r) \/ ProxyFails(r) \/ HookLog(r) \/ HookLink(r)
  BY <1>6 DEF ProxyCompletes, ProxyFails, HookLog, HookLink
<1> QED
  BY <1>2, <1>3, <1>4, <1>5, <1>6 DEF CallStep

LEMMA WorkerIsLedgerStep ==
    ASSUME NEW w \in Worker, WorkerStep(w)
    PROVE  [Next]_vars
<1> USE DEF Quiet, ledgerVars
<1>1. ASSUME NEW S \in SUBSET Reservation, WorkerExpire(w, S) \/ WorkerClaim(w, S)
      PROVE  [Next]_vars
  BY <1>1 DEF WorkerExpire, WorkerClaim, Next
<1>2. ASSUME NEW r \in Reservation, WorkerSettles(w, r) \/ WorkerFails(w, r)
      PROVE  [Next]_vars
  BY <1>2, FinalizeIsLedgerStep DEF WorkerSettles, WorkerFails
<1>3. ASSUME NEW r \in Reservation, WorkerRecords(w, r) \/ WorkerFailsToRecord(w, r)
      PROVE  [Next]_vars
  BY <1>3 DEF WorkerRecords, WorkerFailsToRecord, Next, ReservationStep
<1>4. CASE WorkerCrash(w)
  BY <1>4 DEF WorkerCrash
<1> QED
  BY <1>1, <1>2, <1>3, <1>4 DEF WorkerStep

LEMMA GatewayIsLedgerStep == [GatewayNext]_gatewayVars => [Next]_vars
<1> SUFFICES ASSUME [GatewayNext]_gatewayVars PROVE [Next]_vars
  OBVIOUS
<1>1. ASSUME NEW r \in Reservation, CallStep(r) \/ Crash(r) PROVE [Next]_vars
  BY <1>1, CallIsLedgerStep DEF Crash, ledgerVars
<1>2. ASSUME NEW w \in Worker, WorkerStep(w) PROVE [Next]_vars
  BY <1>2, WorkerIsLedgerStep
<1>3. ASSUME NEW r \in Reservation, ForceFinalize(r) PROVE [Next]_vars
  BY <1>3, FinalizeIsLedgerStep DEF ForceFinalize
<1>4. ASSUME NEW r \in Reservation, ForceRelease(r) \/ ForceRetry(r) PROVE [Next]_vars
  BY <1>4 DEF ForceRelease, ForceRetry, Next, ReservationStep
<1>5. ASSUME NEW u \in User, RemoveUser(u) PROVE [Next]_vars
  BY <1>5 DEF RemoveUser, Next
<1>6. CASE UNCHANGED gatewayVars
  BY <1>6 DEF gatewayVars, ledgerVars
<1> QED
  BY <1>1, <1>2, <1>3, <1>4, <1>5, <1>6 DEF GatewayNext, AdminStep

(* The gateway, its hook, the worker and the administrator, with every failure
   and crash between their steps, implement the ledger. *)
THEOREM GatewayImplementsLedger == GatewaySpec => Spec
<1>1. GatewayInit => Init
  BY DEF GatewayInit
<1> QED
  BY <1>1, GatewayIsLedgerStep, PTL DEF GatewaySpec, Spec

(* So every balance covers the calls in progress, whatever they do. *)
THEOREM CallsAreCovered == GatewaySpec => []Covered
BY GatewayImplementsLedger, BalanceCovers, PTL

-----------------------------------------------------------------------------
(* Types of what the calls keep. *)

Steps == {"start", "proxy", "persist", "catch", "log", "link", "settle",
          "finally", "recorded", "done"}

CallTypeOK ==
    /\ pc \in [Reservation -> Steps]
    /\ statusCode \in [Reservation -> {"none", "ok", "error"}]
    /\ creditsCost \in [Reservation -> Nat]

LEMMA GotoType ==
    ASSUME pc \in [Reservation -> Steps], NEW r \in Reservation, NEW next \in Steps,
           Goto(r, next)
    PROVE  pc' \in [Reservation -> Steps]
BY DEF Goto

LEMMA FinalizeType ==
    ASSUME CallTypeOK, NEW r \in Reservation, NEW hasCall, Finalize(r, hasCall)
    PROVE  creditsCost' \in [Reservation -> Nat]
<1>1. AmountOf[r] \in Nat
  BY ReservationAssumption
<1> QED
  BY <1>1 DEF Finalize, CallTypeOK

LEMMA CallTypeNext == CallTypeOK /\ [GatewayNext]_gatewayVars => CallTypeOK'
<1> SUFFICES ASSUME CallTypeOK, [GatewayNext]_gatewayVars PROVE CallTypeOK'
  OBVIOUS
<1> USE DEF callVars, logVars, workerVars
<1>1. ASSUME NEW r \in Reservation, CallStep(r) PROVE CallTypeOK'
  <2>1. ASSUME NEW next \in Steps, Goto(r, next),
               creditsCost' \in [Reservation -> Nat],
               statusCode' \in [Reservation -> {"none", "ok", "error"}]
        PROVE  CallTypeOK'
    BY <2>1, GotoType DEF CallTypeOK
  <2>2. ASSUME NEW next \in Steps, Goto(r, next), UNCHANGED <<creditsCost, statusCode>>
        PROVE  CallTypeOK'
    BY <2>1, <2>2 DEF CallTypeOK
  <2>3. CASE Authorize(r)
    BY <2>2, <2>3 DEF Authorize, Steps
  <2>4. CASE ProxyCompletes(r)
    BY <2>1, <2>4 DEF ProxyCompletes, CallTypeOK, Steps
  <2>5. CASE ProxyFails(r)
    BY <2>2, <2>5 DEF ProxyFails, Steps
  <2>6. CASE PersistCharge(r)
    BY <2>2, <2>6 DEF PersistCharge, Steps
  <2>7. CASE PersistFree(r)
    BY <2>2, <2>7 DEF PersistFree, Steps
  <2>8. CASE CatchRelease(r)
    BY <2>1, <2>8 DEF CatchRelease, CallTypeOK, Steps
  <2>9. CASE HookLog(r)
    BY <2>2, <2>9 DEF HookLog, Steps
  <2>10. CASE HookLink(r)
    BY <2>2, <2>10 DEF HookLink, Steps
  <2>11. CASE HookSettle(r)
    <3>1. \E next \in Steps : Goto(r, next)
      BY <2>11 DEF HookSettle, Steps
    <3>2. creditsCost' \in [Reservation -> Nat]
      BY <2>11, FinalizeType DEF HookSettle, CallTypeOK
    <3> QED
      BY <3>1, <3>2, <2>1, <2>11 DEF HookSettle, CallTypeOK
  <2>12. CASE HookFinally(r)
    BY <2>2, <2>12 DEF HookFinally, Steps
  <2> QED
    BY <1>1, <2>3, <2>4, <2>5, <2>6, <2>7, <2>8, <2>9, <2>10, <2>11, <2>12 DEF CallStep
<1>2. ASSUME NEW r \in Reservation, Crash(r) PROVE CallTypeOK'
  BY <1>2, GotoType DEF Crash, CallTypeOK, Steps
<1>3. ASSUME NEW r \in Reservation, NEW hasCall, Finalize(r, hasCall), UNCHANGED callVars
      PROVE  CallTypeOK'
  BY <1>3, FinalizeType DEF CallTypeOK
<1>4. ASSUME UNCHANGED <<callVars, logVars>> PROVE CallTypeOK'
  BY <1>4 DEF CallTypeOK
<1>5. ASSUME NEW w \in Worker, WorkerStep(w) PROVE CallTypeOK'
  BY <1>3, <1>4, <1>5 DEF WorkerStep, WorkerExpire, WorkerClaim, WorkerSettles, WorkerFails,
                          WorkerRecords, WorkerFailsToRecord, WorkerCrash
<1>6. CASE AdminStep
  BY <1>3, <1>4, <1>6 DEF AdminStep, ForceRelease, ForceFinalize, ForceRetry, RemoveUser
<1>7. CASE UNCHANGED gatewayVars
  BY <1>4, <1>7 DEF gatewayVars
<1> QED
  BY <1>1, <1>2, <1>5, <1>6, <1>7 DEF GatewayNext

LEMMA CallTypeInit == GatewayInit => CallTypeOK
BY DEF GatewayInit, CallTypeOK, Steps

-----------------------------------------------------------------------------
(* Who owes: what was charged, and the rows that will be. *)

Owed == Charged \cup {r \in Reservation : status[r] \in {"pending", "dead_letter"}}

LEMMA OwedAfterFinalize ==
    ASSUME TypeOK, NEW r \in Reservation, NEW hasCall, Finalize(r, hasCall)
    PROVE  /\ Owed' \subseteq Owed
           /\ Charged' = Charged \cup {r}
<1>1. CASE r \in Charged
  <2>1. UNCHANGED <<status, transactions>>
    BY <1>1 DEF Finalize, Quiet, ledgerVars, vars
  <2> QED
    BY <1>1, <2>1, ChargedKept DEF Owed
<1>2. CASE r \notin Charged
  <2>1. Charge(r)
    BY <1>2 DEF Finalize
  <2>2. Charged' = Charged \cup {r} /\ r \in Owed
    BY <2>1, ChargedAfterCharge DEF Charge, Owed
  <2>3. \A q \in Reservation : status'[q] \in {"none", status[q]}
    BY <2>1 DEF Charge, DeleteRows
  <2> QED
    BY <2>2, <2>3 DEF Owed
<1> QED
  BY <1>1, <1>2

(* What the calls keep about a response that is to be charged: its handler saw
   it delivered.  The first conjunct alone is not inductive. *)
Delivery ==
    /\ OnlyDeliveredIsOwed
    /\ \A r \in Reservation : pc[r] = "persist" /\ ShouldCharge(r) => r \in delivered

LEMMA DeliveryKept ==
    ASSUME Delivery, Owed' \subseteq Owed, delivered \subseteq delivered',
           \A r \in Reservation : pc'[r] = "persist" =>
                pc[r] = "persist" /\ statusCode'[r] = statusCode[r]
    PROVE  Delivery'
BY DEF Delivery, OnlyDeliveredIsOwed, Owed, ShouldCharge

LEMMA OwedKept ==
    ASSUME TypeOK, UNCHANGED transactions,
           \A r \in Reservation : status'[r] \in {"pending", "dead_letter"} =>
                status[r] \in {"pending", "dead_letter"}
    PROVE  Owed' \subseteq Owed
BY ChargedKept DEF Owed

(* A release, an expiry, a retry, a counted attempt and a deleted user leave
   nobody owing who did not owe. *)
LEMMA OwedNotByLedger ==
    ASSUME TypeOK,
           \/ Quiet
           \/ \E r \in Reservation : Reserve(r) \/ Release(r) \/ RecordAttempt(r) \/ Retry(r)
           \/ \E S \in SUBSET Reservation : ReleaseExpired(S)
           \/ \E u \in User : DeleteUser(u)
    PROVE  Owed' \subseteq Owed
<1>1. CASE Quiet
  BY <1>1, OwedKept DEF Quiet, ledgerVars, vars
<1>2. ASSUME NEW r \in Reservation, Reserve(r) PROVE Owed' \subseteq Owed
  BY <1>2, OwedKept DEF Reserve, TypeOK
<1>3. ASSUME NEW S, ReleaseRows(S) PROVE Owed' \subseteq Owed
  BY <1>3, OwedKept DEF ReleaseRows, DeleteRows
<1>4. ASSUME NEW r \in Reservation, RecordAttempt(r) PROVE Owed' \subseteq Owed
  BY <1>4, OwedKept DEF RecordAttempt, TypeOK
<1>5. ASSUME NEW r \in Reservation, Retry(r) PROVE Owed' \subseteq Owed
  BY <1>5, OwedKept DEF Retry, TypeOK
<1>6. ASSUME NEW u \in User, DeleteUser(u) PROVE Owed' \subseteq Owed
  BY <1>6, OwedKept DEF DeleteUser, DeleteRows
<1> QED
  BY <1>1, <1>2, <1>3, <1>4, <1>5, <1>6 DEF Release, ReleaseExpired

LEMMA DeliveryCall ==
    ASSUME TypeOK, CallTypeOK, Delivery, NEW r \in Reservation, CallStep(r)
    PROVE  Delivery'
<1> USE DEF callVars, logVars
<1>1. ASSUME NEW next \in Steps, Goto(r, next), next # "persist",
             Owed' \subseteq Owed, UNCHANGED delivered,
             \A q \in Reservation \ {r} : statusCode'[q] = statusCode[q]
      PROVE  Delivery'
  BY <1>1, DeliveryKept DEF Goto, CallTypeOK
<1>2. CASE Authorize(r)
  <2>1. Owed' \subseteq Owed
    BY <1>2, OwedNotByLedger DEF Authorize
  <2> QED
    BY <1>1, <1>2, <2>1 DEF Authorize, Steps
<1>3. CASE ProxyCompletes(r)
  <2>1. Owed' = Owed
    BY <1>3, ChargedKept DEF ProxyCompletes, ledgerVars, vars, Owed
  <2> QED
    BY <1>3, <2>1 DEF ProxyCompletes, Delivery, OnlyDeliveredIsOwed, Owed, ShouldCharge,
                      Goto, CallTypeOK
<1>4. CASE ProxyFails(r) \/ HookLog(r) \/ HookLink(r)
  <2>1. Quiet
    BY <1>4 DEF ProxyFails, HookLog, HookLink, Quiet
  <2>2. Owed' \subseteq Owed
    BY <2>1, OwedNotByLedger
  <2> QED
    BY <1>1, <1>4, <2>2 DEF ProxyFails, HookLog, HookLink, Steps
<1>5. CASE PersistCharge(r)
  <2>1. Owed' \subseteq Owed \cup {r} /\ r \in delivered
    <3>1. CASE MarkPending(r)
      <4>1. Charged' = Charged
        BY <3>1, ChargedKept DEF MarkPending
      <4> QED
        BY <1>5, <3>1, <4>1 DEF MarkPending, TypeOK, Owed, PersistCharge, Delivery
    <3>2. CASE Quiet
      BY <1>5, <3>2, OwedNotByLedger DEF PersistCharge, Delivery
    <3> QED
      BY <1>5, <3>1, <3>2 DEF PersistCharge
  <2>2. UNCHANGED <<delivered, statusCode>>
    BY <1>5 DEF PersistCharge
  <2>3. \A q \in Reservation : pc'[q] = "persist" => pc[q] = "persist"
    BY <1>5 DEF PersistCharge, Goto, CallTypeOK
  <2> QED
    BY <2>1, <2>2, <2>3 DEF Delivery, OnlyDeliveredIsOwed, Owed, ShouldCharge
<1>6. CASE PersistFree(r) \/ CatchRelease(r) \/ HookFinally(r)
  <2>1. Release(r) \/ Quiet
    BY <1>6 DEF PersistFree, CatchRelease, HookFinally, ReleaseOpen
  <2>2. Owed' \subseteq Owed
    BY <2>1, OwedNotByLedger
  <2>3. \E next \in Steps \ {"persist"} : Goto(r, next)
    BY <1>6 DEF PersistFree, CatchRelease, HookFinally, Steps
  <2>4. UNCHANGED delivered /\ \A q \in Reservation \ {r} : statusCode'[q] = statusCode[q]
    BY <1>6 DEF PersistFree, CatchRelease, HookFinally, CallTypeOK
  <2> QED
    BY <1>1, <2>2, <2>3, <2>4
<1>7. CASE HookSettle(r)
  <2>1. Quiet \/ Finalize(r, TRUE)
    BY <1>7 DEF HookSettle, Quiet
  <2>2. Owed' \subseteq Owed
    BY <2>1, OwedNotByLedger, OwedAfterFinalize
  <2> QED
    BY <1>1, <1>7, <2>2 DEF HookSettle, Steps
<1> QED
  BY <1>2, <1>3, <1>4, <1>5, <1>6, <1>7 DEF CallStep

LEMMA DeliveryNext ==
    TypeOK /\ CallTypeOK /\ Delivery /\ [GatewayNext]_gatewayVars => Delivery'
<1> SUFFICES ASSUME TypeOK, CallTypeOK, Delivery, [GatewayNext]_gatewayVars PROVE Delivery'
  OBVIOUS
<1>1. ASSUME NEW r \in Reservation, CallStep(r) PROVE Delivery'
  BY <1>1, DeliveryCall
<1>2. ASSUME Owed' \subseteq Owed, UNCHANGED callVars PROVE Delivery'
  BY <1>2, DeliveryKept DEF callVars
<1>3. ASSUME NEW r \in Reservation, Crash(r) PROVE Delivery'
  <2>1. Owed' \subseteq Owed
    BY <1>3, OwedNotByLedger DEF Crash, Quiet
  <2> QED
    BY <1>3, <2>1, DeliveryKept DEF Crash, Goto, CallTypeOK
<1>4. ASSUME NEW r \in Reservation, NEW hasCall, Finalize(r, hasCall), UNCHANGED callVars
      PROVE  Delivery'
  BY <1>2, <1>4, OwedAfterFinalize
<1>5. ASSUME NEW w \in Worker, WorkerStep(w) PROVE Delivery'
  <2>1. ASSUME NEW S \in SUBSET Reservation, WorkerExpire(w, S) \/ WorkerClaim(w, S)
        PROVE  Delivery'
    BY <1>2, <2>1, OwedNotByLedger DEF WorkerExpire, WorkerClaim, Quiet, callVars
  <2>2. ASSUME NEW r \in Reservation, WorkerSettles(w, r) \/ WorkerFails(w, r)
        PROVE  Delivery'
    BY <1>2, <1>4, <2>2, OwedNotByLedger DEF WorkerSettles, WorkerFails, Quiet
  <2>3. ASSUME NEW r \in Reservation, WorkerRecords(w, r) \/ WorkerFailsToRecord(w, r)
        PROVE  Delivery'
    BY <1>2, <2>3, OwedNotByLedger DEF WorkerRecords, WorkerFailsToRecord
  <2>4. CASE WorkerCrash(w)
    BY <1>2, <2>4, OwedNotByLedger DEF WorkerCrash, Quiet
  <2> QED
    BY <1>5, <2>1, <2>2, <2>3, <2>4 DEF WorkerStep
<1>6. CASE AdminStep
  <2>1. ASSUME NEW r \in Reservation, ForceRelease(r) \/ ForceRetry(r) PROVE Delivery'
    BY <1>2, <2>1, OwedNotByLedger DEF ForceRelease, ForceRetry
  <2>2. ASSUME NEW r \in Reservation, ForceFinalize(r) PROVE Delivery'
    BY <1>4, <2>2 DEF ForceFinalize
  <2>3. ASSUME NEW u \in User, RemoveUser(u) PROVE Delivery'
    BY <1>2, <2>3, OwedNotByLedger DEF RemoveUser
  <2> QED
    BY <1>6, <2>1, <2>2, <2>3 DEF AdminStep
<1>7. CASE UNCHANGED gatewayVars
  BY <1>2, <1>7, OwedNotByLedger DEF gatewayVars, Quiet
<1> QED
  BY <1>1, <1>3, <1>5, <1>6, <1>7 DEF GatewayNext

LEMMA DeliveryInit == GatewayInit => Delivery
<1> SUFFICES ASSUME GatewayInit PROVE Delivery
  OBVIOUS
<1>1. Charged = {}
  BY ApartInit DEF GatewayInit, Open
<1> QED
  BY <1>1 DEF GatewayInit, Init, Delivery, OnlyDeliveredIsOwed

(* Nobody pays for a call that failed, timed out or was refused: only a response
   delivered to its end is pending, dead-lettered or charged. *)
THEOREM ChargesOnlyDelivered == GatewaySpec => []OnlyDeliveredIsOwed
<1>1. GatewayInit => CallTypeOK /\ Delivery
  BY CallTypeInit, DeliveryInit
<1>2. GatewaySpec => []TypeOK
  BY GatewayImplementsLedger, TypeCorrect, PTL
<1>3. TypeOK /\ (CallTypeOK /\ Delivery) /\ [GatewayNext]_gatewayVars => (CallTypeOK /\ Delivery)'
  BY CallTypeNext, DeliveryNext
<1>4. Delivery => OnlyDeliveredIsOwed
  BY DEF Delivery
<1> QED
  BY <1>1, <1>2, <1>3, <1>4, PTL DEF GatewaySpec

-----------------------------------------------------------------------------
(* The call log agrees with the charges. *)

LogOK ==
    /\ ChargeReachesCallLog
    /\ CostOnlyIfCharged

(* A step that charges nothing and finishes no hook's settlement. *)
LEMMA LogKept ==
    ASSUME LogOK, UNCHANGED <<logVars, transactions>>,
           \A r \in Reservation : pc'[r] = "recorded" => pc[r] = "recorded"
    PROVE  LogOK'
BY ChargedKept DEF LogOK, ChargeReachesCallLog, CostOnlyIfCharged, logVars

LEMMA LogFinalize ==
    ASSUME TypeOK, CallTypeOK, LogOK, NEW r \in Reservation, NEW hasCall \in BOOLEAN,
           Finalize(r, hasCall),
           \A q \in Reservation : pc'[q] = "recorded" =>
                pc[q] = "recorded" \/ (q = r /\ hasCall)
    PROVE  LogOK'
<1>1. Charged' = Charged \cup {r} /\ UNCHANGED linked
  BY OwedAfterFinalize DEF Finalize
<1>2. \A q \in Reservation \ {r} :
            /\ q \in journalled' <=> q \in journalled
            /\ creditsCost'[q] = creditsCost[q]
  BY DEF Finalize, CallTypeOK
<1>3. CASE hasCall \/ r \in journalled \/ (r \notin Charged /\ r \in linked)
  <2>1. journalled' = journalled \cup {r} /\ creditsCost'[r] = AmountOf[r]
    BY <1>3 DEF Finalize, CallTypeOK
  <2> QED
    BY <1>1, <1>2, <2>1 DEF LogOK, ChargeReachesCallLog, CostOnlyIfCharged
<1>4. CASE ~ (hasCall \/ r \in journalled \/ (r \notin Charged /\ r \in linked))
  <2>1. UNCHANGED <<journalled, creditsCost>>
    BY <1>4 DEF Finalize
  <2>2. r \notin linked \/ r \in Charged
    BY <1>4
  <2> QED
    BY <1>1, <1>4, <2>1, <2>2 DEF LogOK, ChargeReachesCallLog, CostOnlyIfCharged
<1> QED
  BY <1>3, <1>4

LEMMA JournalKept ==
    ASSUME \/ Quiet
           \/ \E r \in Reservation : \/ Reserve(r) \/ MarkPending(r) \/ Release(r)
                                     \/ RecordAttempt(r) \/ Retry(r)
           \/ \E S \in SUBSET Reservation : ReleaseExpired(S)
           \/ \E u \in User : DeleteUser(u)
    PROVE  UNCHANGED transactions
BY DEF Quiet, ledgerVars, vars, Reserve, MarkPending, Release, ReleaseExpired, ReleaseRows,
       RecordAttempt, Retry, DeleteUser

LEMMA LogCall ==
    ASSUME TypeOK, Apart, CallTypeOK, LogOK, NEW r \in Reservation, CallStep(r)
    PROVE  LogOK'
<1>1. ASSUME NEW next \in Steps \ {"recorded"}, Goto(r, next), UNCHANGED <<logVars, transactions>>
      PROVE  LogOK'
  BY <1>1, LogKept DEF Goto, CallTypeOK
<1>2. CASE Authorize(r) \/ PersistCharge(r)
  <2>1. UNCHANGED <<logVars, transactions>>
    BY <1>2, JournalKept DEF Authorize, PersistCharge
  <2> QED
    BY <1>1, <1>2, <2>1 DEF Authorize, PersistCharge, Steps
<1>3. CASE PersistFree(r) \/ CatchRelease(r) \/ HookFinally(r)
  <2>1. Release(r) \/ Quiet
    BY <1>3 DEF PersistFree, CatchRelease, HookFinally, ReleaseOpen
  <2>2. UNCHANGED <<logVars, transactions>>
    BY <1>3, <2>1, JournalKept DEF PersistFree, CatchRelease, HookFinally
  <2>3. \E next \in Steps \ {"recorded"} : Goto(r, next)
    BY <1>3 DEF PersistFree, CatchRelease, HookFinally, Steps
  <2> QED
    BY <1>1, <2>2, <2>3
<1>4. CASE ProxyCompletes(r) \/ ProxyFails(r) \/ HookLog(r)
  <2>1. UNCHANGED <<logVars, transactions>>
    BY <1>4 DEF ProxyCompletes, ProxyFails, HookLog, ledgerVars, vars
  <2> QED
    BY <1>1, <1>4, <2>1 DEF ProxyCompletes, ProxyFails, HookLog, Steps
<1>5. CASE HookLink(r)
  <2>1. /\ linked' \subseteq IF status[r] = "pending" THEN linked \cup {r} ELSE linked
        /\ UNCHANGED <<journalled, creditsCost>>
        /\ \E next \in {"settle", "finally"} : Goto(r, next)
    BY <1>5 DEF HookLink
  <2>2. status[r] = "pending" => r \notin Charged
    BY DEF Apart, Live
  <2>3. Charged' = Charged
    BY <1>5, ChargedKept DEF HookLink, ledgerVars, vars
  <2>4. \A q \in Reservation : pc'[q] = "recorded" => pc[q] = "recorded"
    BY <2>1 DEF Goto, CallTypeOK
  <2> QED
    BY <2>1, <2>2, <2>3, <2>4 DEF LogOK, ChargeReachesCallLog, CostOnlyIfCharged
<1>6. CASE HookSettle(r)
  <2>1. CASE Finalize(r, TRUE)
    <3>1. \A q \in Reservation : pc'[q] = "recorded" => pc[q] = "recorded" \/ q = r
      BY <1>6 DEF HookSettle, Goto, CallTypeOK
    <3> QED
      BY <2>1, <3>1, LogFinalize
  <2>2. CASE UNCHANGED <<ledgerVars, logVars>> /\ Goto(r, "finally")
    BY <1>1, <2>2 DEF ledgerVars, vars, Steps
  <2> QED
    BY <1>6, <2>1, <2>2 DEF HookSettle
<1> QED
  BY <1>2, <1>3, <1>4, <1>5, <1>6 DEF CallStep

LEMMA LogNext ==
    TypeOK /\ Apart /\ CallTypeOK /\ LogOK /\ [GatewayNext]_gatewayVars => LogOK'
<1> SUFFICES ASSUME TypeOK, Apart, CallTypeOK, LogOK, [GatewayNext]_gatewayVars PROVE LogOK'
  OBVIOUS
<1>1. ASSUME NEW r \in Reservation, CallStep(r) PROVE LogOK'
  BY <1>1, LogCall
<1>2. ASSUME UNCHANGED <<logVars, transactions, pc>> PROVE LogOK'
  BY <1>2, LogKept
<1>3. ASSUME NEW r \in Reservation, Crash(r) PROVE LogOK'
  BY <1>3, LogKept DEF Crash, Goto, CallTypeOK, ledgerVars, vars
<1>4. ASSUME NEW r \in Reservation, Finalize(r, FALSE), UNCHANGED callVars PROVE LogOK'
  BY <1>4, LogFinalize DEF callVars
<1>5. ASSUME NEW w \in Worker, WorkerStep(w) PROVE LogOK'
  <2>1. ASSUME NEW S \in SUBSET Reservation, WorkerExpire(w, S) \/ WorkerClaim(w, S)
        PROVE  LogOK'
    BY <1>2, <2>1, JournalKept DEF WorkerExpire, WorkerClaim, Quiet, callVars
  <2>2. ASSUME NEW r \in Reservation, WorkerSettles(w, r) \/ WorkerFails(w, r)
        PROVE  LogOK'
    BY <1>2, <1>4, <2>2 DEF WorkerSettles, WorkerFails, ledgerVars, vars, callVars
  <2>3. ASSUME NEW r \in Reservation, WorkerRecords(w, r) \/ WorkerFailsToRecord(w, r)
        PROVE  LogOK'
    BY <1>2, <2>3, JournalKept DEF WorkerRecords, WorkerFailsToRecord, callVars
  <2>4. CASE WorkerCrash(w)
    BY <1>2, <2>4 DEF WorkerCrash, ledgerVars, vars, callVars
  <2> QED
    BY <1>5, <2>1, <2>2, <2>3, <2>4 DEF WorkerStep
<1>6. CASE AdminStep
  <2>1. ASSUME NEW r \in Reservation, ForceRelease(r) \/ ForceRetry(r) PROVE LogOK'
    BY <1>2, <2>1, JournalKept DEF ForceRelease, ForceRetry, callVars
  <2>2. ASSUME NEW r \in Reservation, ForceFinalize(r) PROVE LogOK'
    BY <1>4, <2>2 DEF ForceFinalize
  <2>3. ASSUME NEW u \in User, RemoveUser(u) PROVE LogOK'
    BY <1>2, <2>3, JournalKept DEF RemoveUser, callVars
  <2> QED
    BY <1>6, <2>1, <2>2, <2>3 DEF AdminStep
<1>7. CASE UNCHANGED gatewayVars
  BY <1>2, <1>7 DEF gatewayVars, ledgerVars, vars, callVars
<1> QED
  BY <1>1, <1>3, <1>5, <1>6, <1>7 DEF GatewayNext

LEMMA LogInit == GatewayInit => LogOK
<1> SUFFICES ASSUME GatewayInit PROVE LogOK
  OBVIOUS
<1>1. Charged = {}
  BY ApartInit DEF GatewayInit, Open
<1> QED
  BY <1>1 DEF GatewayInit, LogOK, ChargeReachesCallLog, CostOnlyIfCharged

LEMMA LogAgrees == GatewaySpec => []LogOK
<1>1. GatewayInit => CallTypeOK /\ LogOK
  BY CallTypeInit, LogInit
<1>2. Spec => [](TypeOK /\ Apart)
  <2>1. Init => TypeOK /\ Apart
    BY TypeInit, ApartInit
  <2>2. (TypeOK /\ Apart) /\ [Next]_vars => (TypeOK /\ Apart)'
    BY TypeNext, ApartNext
  <2> QED
    BY <2>1, <2>2, PTL DEF Spec
<1>3. (TypeOK /\ Apart) /\ (CallTypeOK /\ LogOK) /\ [GatewayNext]_gatewayVars
            => (CallTypeOK /\ LogOK)'
  BY CallTypeNext, LogNext
<1> QED
  BY <1>1, <1>2, <1>3, GatewayImplementsLedger, PTL DEF GatewaySpec

(* A settlement that any worker, hook or administrator commits first still ends
   on the call's own log row. *)
THEOREM ChargesReachCallLog == GatewaySpec => []ChargeReachesCallLog
<1>1. LogOK => ChargeReachesCallLog
  BY DEF LogOK
<1> QED
  BY <1>1, LogAgrees, PTL

(* No call log row shows a price that nobody paid. *)
THEOREM LoggedCostWasCharged == GatewaySpec => []CostOnlyIfCharged
<1>1. LogOK => CostOnlyIfCharged
  BY DEF LogOK
<1> QED
  BY <1>1, LogAgrees, PTL
=============================================================================
