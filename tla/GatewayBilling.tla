--------------------------- MODULE GatewayBilling ---------------------------
(***************************************************************************)
(* The life of paid gateway calls on top of CreditLedger: the request      *)
(* handler (reserve, proxy, persist the outcome), its after-response hook  *)
(* (write the call log, link it, settle), the retry worker and the         *)
(* administrator.  Each database transaction is one step; it may fail, and *)
(* its reply may be lost after it committed, which the caller cannot tell  *)
(* apart.  The process that serves a call, and a worker, may stop between  *)
(* any two steps.                                                          *)
(*                                                                         *)
(* A call makes at most one reservation, and its api_calls row has an id   *)
(* of its own: the reservation r stands for the call and its row too.      *)
(***************************************************************************)
EXTENDS CreditLedger

CONSTANTS
    Worker  \* runs of processReservations that may overlap (a lease can lapse)

VARIABLES
    pc,             \* what the handler or the hook of each call does next
    context,        \* calls whose apiBilling.creditReservation is set
    statusCode,     \* class of res.statusCode: "ok" is 2xx or 3xx
    delivered,      \* calls whose successful response was sent to its end
    linked,         \* reservations whose row was given its api_call_id
    journalled,     \* reservations whose journal row has its api_call_id
    creditsCost,    \* api_calls.credits_cost of each call
    queue,          \* rows each worker has claimed and not yet processed
    failed,         \* the row whose settlement just failed, per worker
    forced          \* history: reservations an administrator released

ledgerVars == vars
callVars == <<pc, context, statusCode, delivered>>
logVars == <<linked, journalled, creditsCost>>
workerVars == <<queue, failed>>
gatewayVars == <<ledgerVars, callVars, logVars, workerVars, forced>>

-----------------------------------------------------------------------------
GatewayInit ==
    /\ Init
    /\ pc = [r \in Reservation |-> "start"]
    /\ context = {}
    /\ statusCode = [r \in Reservation |-> "none"]
    /\ delivered = {}
    /\ linked = {}
    /\ journalled = {}
    /\ creditsCost = [r \in Reservation |-> 0]
    /\ queue = [w \in Worker |-> {}]
    /\ failed = [w \in Worker |-> {}]
    /\ forced = {}

Goto(r, next) == pc' = [pc EXCEPT ![r] = next]

Quiet == UNCHANGED ledgerVars

(* SLIP: any response of the upstream is charged. *)
ShouldChargeAnyStatus(r) == statusCode[r] # "none"

(* shouldChargeGatewayCall; every route of this model has a price. *)
ShouldCharge(r) == statusCode[r] = "ok"

(* releaseReservation as the request path calls it. *)
ReleaseOpen(r) == status[r] \in {"active", "pending"} /\ Release(r)

-----------------------------------------------------------------------------
(* authorize: the reservation is in the request context only when its reply
   arrives.  Otherwise the call is refused (402, 403, 503) and ends. *)
Authorize(r) ==
    /\ pc[r] = "start"
    /\ \/ Reserve(r) /\ Goto(r, "proxy") /\ context' = context \cup {r}
       \/ Reserve(r) /\ Goto(r, "done") /\ UNCHANGED context
       \/ Quiet /\ Goto(r, "done") /\ UNCHANGED context
    /\ UNCHANGED <<statusCode, delivered, logVars, workerVars, forced>>

(* sendProxy streams the whole body of the upstream's response, and ends the
   client's, before it returns. *)
ProxyCompletes(r) ==
    /\ pc[r] = "proxy"
    /\ \E class \in {"ok", "error"} :
        /\ statusCode' = [statusCode EXCEPT ![r] = class]
        /\ delivered' = IF class = "ok" THEN delivered \cup {r} ELSE delivered
    /\ Goto(r, "persist")
    /\ UNCHANGED <<ledgerVars, context, logVars, workerVars, forced>>

(* No target, timeout, disconnection, a response that is too large: before or
   after the headers were sent. *)
ProxyFails(r) ==
    /\ pc[r] = "proxy"
    /\ Goto(r, "catch")
    /\ UNCHANGED <<ledgerVars, context, statusCode, delivered, logVars, workerVars, forced>>

(* persistGatewayBillingOutcome for a response to charge: an update that finds
   no active row throws like one that fails. *)
PersistCharge(r) ==
    /\ pc[r] = "persist"
    /\ ShouldCharge(r)
    /\ \/ MarkPending(r) /\ Goto(r, "log")
       \/ MarkPending(r) /\ Goto(r, "catch")
       \/ Quiet /\ Goto(r, "catch")
    /\ UNCHANGED <<context, statusCode, delivered, logVars, workerVars, forced>>

(* ... and for one that is free: whether a row was there does not matter. *)
PersistFree(r) ==
    /\ pc[r] = "persist"
    /\ ~ ShouldCharge(r)
    /\ \/ /\ ReleaseOpen(r) \/ (status[r] \notin {"active", "pending"} /\ Quiet)
          /\ Goto(r, "log")
          /\ context' = context \ {r}
       \/ /\ ReleaseOpen(r) \/ Quiet
          /\ Goto(r, "catch")
          /\ UNCHANGED context
    /\ UNCHANGED <<statusCode, delivered, logVars, workerVars, forced>>

(* The catch block: releaseGatewayBillingReservation, and an error status
   whatever happened before. *)
CatchRelease(r) ==
    /\ pc[r] = "catch"
    /\ \/ ReleaseOpen(r) /\ context' = context \ {r}
       \/ (ReleaseOpen(r) \/ Quiet) /\ UNCHANGED context
    /\ statusCode' = [statusCode EXCEPT ![r] = "error"]
    /\ Goto(r, "log")
    /\ UNCHANGED <<delivered, logVars, workerVars, forced>>

-----------------------------------------------------------------------------
(* SLIP: the price is logged with the call, before the settlement. *)
HookLogPrice(r) ==
    /\ pc[r] = "log"
    /\ ShouldCharge(r) /\ r \in context
    /\ creditsCost' = [creditsCost EXCEPT ![r] = AmountOf[r]]
    /\ Goto(r, "link")
    /\ UNCHANGED <<ledgerVars, context, statusCode, delivered, linked, journalled,
                   workerVars, forced>>

(* recordApiCall: the call log row, which may fail to be written. *)
HookLog(r) ==
    /\ pc[r] = "log"
    /\ \/ ShouldCharge(r) /\ r \in context /\ Goto(r, "link")
       \/ Goto(r, "finally")
    /\ UNCHANGED <<ledgerVars, context, statusCode, delivered, logVars, workerVars, forced>>

(* linkApiCall: only a pending row takes the id. *)
HookLink(r) ==
    /\ pc[r] = "link"
    /\ \/ /\ linked' = IF status[r] = "pending" THEN linked \cup {r} ELSE linked
          /\ \E next \in {"settle", "finally"} : Goto(r, next)
       \/ UNCHANGED linked /\ Goto(r, "finally")
    /\ UNCHANGED <<ledgerVars, context, statusCode, delivered, journalled,
                   creditsCost, workerVars, forced>>

(* SLIP: a reservation settled before is left as it is. *)
FinalizeOnce(r, hasCall) ==
    /\ IF r \in Charged THEN UNCHANGED <<ledgerVars, journalled, creditsCost>>
       ELSE /\ Charge(r)
            /\ IF hasCall \/ r \in linked
               THEN /\ journalled' = journalled \cup {r}
                    /\ creditsCost' = [creditsCost EXCEPT ![r] = AmountOf[r]]
               ELSE UNCHANGED <<journalled, creditsCost>>
    /\ UNCHANGED linked

(* finalizeReservation, committed: the call id comes from the caller or from
   the row; a reservation settled before only gets the id it lacked (the code
   deletes its row once more, and there is none: ChargedOnce). *)
Finalize(r, hasCall) ==
    LET named == \/ hasCall
                 \/ r \in journalled
                 \/ r \notin Charged /\ r \in linked
    IN  /\ IF r \in Charged THEN Quiet ELSE Charge(r)
        /\ journalled' = IF named THEN journalled \cup {r} ELSE journalled
        /\ creditsCost' = IF named THEN [creditsCost EXCEPT ![r] = AmountOf[r]] ELSE creditsCost
        /\ UNCHANGED linked

(* The worker and the hook settle pending rows; an administrator dead-letter
   rows as well. *)
Due(r) == r \in Charged \/ status[r] = "pending"

(* The hook's settlement.  When it returns, the call is recorded: the finally
   block has nothing to give back.  When it throws, the worker will retry. *)
HookSettle(r) ==
    /\ pc[r] = "settle"
    /\ \/ Due(r) /\ Finalize(r, TRUE) /\ Goto(r, "recorded")
       \/ Due(r) /\ Finalize(r, TRUE) /\ Goto(r, "finally")
       \/ UNCHANGED <<ledgerVars, logVars>> /\ Goto(r, "finally")
    /\ UNCHANGED <<context, statusCode, delivered, workerVars, forced>>

(* The finally block gives back what is not to be charged. *)
HookFinally(r) ==
    /\ pc[r] = "finally"
    /\ IF r \in context /\ ~ ShouldCharge(r) THEN ReleaseOpen(r) \/ Quiet ELSE Quiet
    /\ Goto(r, "done")
    /\ UNCHANGED <<context, statusCode, delivered, logVars, workerVars, forced>>

(* The process that serves the call stops. *)
Crash(r) ==
    /\ pc[r] \notin {"start", "done", "recorded"}
    /\ Goto(r, "done")
    /\ UNCHANGED <<ledgerVars, context, statusCode, delivered, logVars, workerVars, forced>>

CallStep(r) ==
    \/ Authorize(r)
    \/ ProxyCompletes(r)
    \/ ProxyFails(r)
    \/ PersistCharge(r)
    \/ PersistFree(r)
    \/ CatchRelease(r)
    \/ HookLog(r)
    \/ HookLink(r)
    \/ HookSettle(r)
    \/ HookFinally(r)

-----------------------------------------------------------------------------
Idle(w) == queue[w] = {} /\ failed[w] = {}

(* processReservations starts with the active rows past the cutoff.  The cutoff
   is far beyond a call's timeout, but nothing stops a handler that was
   suspended from coming back later. *)
WorkerExpire(w, S) ==
    /\ Idle(w)
    /\ ReleaseExpired(S)
    /\ UNCHANGED <<callVars, logVars, workerVars, forced>>

(* claimDueReservations takes no lock: two workers may claim the same rows. *)
WorkerClaim(w, S) ==
    /\ Idle(w)
    /\ S # {}
    /\ \A r \in S : status[r] = "pending"
    /\ queue' = [queue EXCEPT ![w] = S]
    /\ UNCHANGED <<ledgerVars, callVars, logVars, failed, forced>>

WorkerSettles(w, r) ==
    /\ failed[w] = {}
    /\ r \in queue[w]
    /\ Due(r)
    /\ Finalize(r, FALSE)
    /\ queue' = [queue EXCEPT ![w] = @ \ {r}]
    /\ UNCHANGED <<callVars, failed, forced>>

(* The settlement threw, with or without having committed. *)
WorkerFails(w, r) ==
    /\ failed[w] = {}
    /\ r \in queue[w]
    /\ \/ Due(r) /\ Finalize(r, FALSE)
       \/ UNCHANGED <<ledgerVars, logVars>>
    /\ queue' = [queue EXCEPT ![w] = @ \ {r}]
    /\ failed' = [failed EXCEPT ![w] = {r}]
    /\ UNCHANGED <<callVars, forced>>

(* markReservationAttempt writes, or finds nothing pending to write to. *)
WorkerRecords(w, r) ==
    /\ failed[w] = {r}
    /\ RecordAttempt(r) \/ (status[r] # "pending" /\ Quiet)
    /\ failed' = [failed EXCEPT ![w] = {}]
    /\ UNCHANGED <<callVars, logVars, queue, forced>>

WorkerFailsToRecord(w, r) ==
    /\ failed[w] = {r}
    /\ Quiet
    /\ failed' = [failed EXCEPT ![w] = {}]
    /\ UNCHANGED <<callVars, logVars, queue, forced>>

WorkerCrash(w) ==
    /\ ~ Idle(w)
    /\ queue' = [queue EXCEPT ![w] = {}]
    /\ failed' = [failed EXCEPT ![w] = {}]
    /\ UNCHANGED <<ledgerVars, callVars, logVars, forced>>

WorkerStep(w) ==
    \/ \E S \in SUBSET Reservation : WorkerExpire(w, S) \/ WorkerClaim(w, S)
    \/ \E r \in Reservation :
        \/ WorkerSettles(w, r)
        \/ WorkerFails(w, r)
        \/ WorkerRecords(w, r)
        \/ WorkerFailsToRecord(w, r)
    \/ WorkerCrash(w)

-----------------------------------------------------------------------------
(* The administrator's decisions on a reservation. *)
ForceRelease(r) ==
    /\ Release(r)
    /\ forced' = forced \cup {r}
    /\ UNCHANGED <<callVars, logVars, workerVars>>

ForceFinalize(r) ==
    /\ Due(r) \/ status[r] = "dead_letter"
    /\ Finalize(r, FALSE)
    /\ UNCHANGED <<callVars, workerVars, forced>>

ForceRetry(r) ==
    /\ Retry(r)
    /\ UNCHANGED <<callVars, logVars, workerVars, forced>>

RemoveUser(u) ==
    /\ DeleteUser(u)
    /\ UNCHANGED <<callVars, logVars, workerVars, forced>>

AdminStep ==
    \/ \E r \in Reservation : ForceRelease(r) \/ ForceFinalize(r) \/ ForceRetry(r)
    \/ \E u \in User : RemoveUser(u)

GatewayNext ==
    \/ \E r \in Reservation : CallStep(r) \/ Crash(r)
    \/ \E w \in Worker : WorkerStep(w)
    \/ AdminStep

GatewaySpec == GatewayInit /\ [][GatewayNext]_gatewayVars

(* A worker that has claimed rows goes on, row by row, or crashes. *)
WorkerGoesOn(w) ==
    \/ WorkerCrash(w)
    \/ \E r \in Reservation :
            WorkerSettles(w, r) \/ WorkerFails(w, r) \/ WorkerRecords(w, r)
                \/ WorkerFailsToRecord(w, r)

(* The timer starts a worker every 30 seconds, and its queries return every row
   that is due (the oldest 100, the next 20, then the others), so a row that
   stays active or pending is met again and again.  The database and the worker
   may fail any number of times, but not every time for ever: of the expiries of
   a row, and of the settlements and recorded attempts, one is committed. *)
Fairness ==
    /\ \A w \in Worker : WF_gatewayVars(WorkerGoesOn(w))
    /\ \A r \in Reservation :
        /\ SF_gatewayVars(\E w \in Worker, S \in SUBSET Reservation :
                              r \in S /\ WorkerExpire(w, S))
        /\ SF_gatewayVars(\E w \in Worker, S \in SUBSET Reservation :
                              r \in S /\ WorkerClaim(w, S))
        /\ SF_gatewayVars(\E w \in Worker : WorkerSettles(w, r) \/ WorkerRecords(w, r))

FairSpec == GatewaySpec /\ Fairness

-----------------------------------------------------------------------------
(* Only a caller that received a successful response to its end ever owes for
   it: no timeout, disconnection, error status or refused call is charged,
   whichever of its transactions lost their replies. *)
OnlyDeliveredIsOwed ==
    \A r \in Reservation :
        r \in Charged \/ status[r] \in {"pending", "dead_letter"} => r \in delivered

(* A charge finds its call log row: once the call id reached the pending row, or
   the hook's settlement returned, the journal names the call and the call shows
   the price, even when a worker or an administrator settled first. *)
ChargeReachesCallLog ==
    \A r \in Reservation :
        pc[r] = "recorded" \/ r \in Charged \cap linked =>
            r \in Charged \cap journalled /\ creditsCost[r] = AmountOf[r]

(* The call log shows a price only for calls that were charged. *)
CostOnlyIfCharged ==
    \A r \in Reservation : creditsCost[r] # 0 => r \in Charged \cap journalled

(* docs/architecture/billing.md:18: a successful response is returned only after
   its reservation became pending. *)
PendingBeforeReturned ==
    \A r \in delivered :
        \/ status[r] \in {"pending", "dead_letter"}
        \/ r \in Charged
        \/ r \in forced
        \/ Owner(r) \notin users

(* docs/architecture/billing.md:22: what is pending or dead-letter is never
   released automatically. *)
PendingIsKept ==
    [][\A r \in Reservation :
        status[r] \in {"pending", "dead_letter"} /\ status'[r] = "none" =>
            \/ r \in Charged'
            \/ r \in forced'
            \/ Owner(r) \notin users']_gatewayVars

(* A reservation does not hold balance and quota for ever: an active row is
   settled, released or expired. *)
ActiveEnds == \A r \in Reservation : status[r] = "active" ~> status[r] # "active"

(* What is owed is collected, or waits for the administrator. *)
PendingEnds == \A r \in Reservation : status[r] = "pending" ~> status[r] # "pending"
=============================================================================
