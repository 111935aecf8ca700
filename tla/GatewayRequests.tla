-------------------------- MODULE GatewayRequests --------------------------
(***************************************************************************)
(* The way of a request through the gateway to a target: the rate limits   *)
(* of its route (checkRateLimits of dynamic-gateway-access-service.ts with *)
(* server/utils/rate-limit), the order of the targets, the attempts and    *)
(* what they teach about the health of the targets                         *)
(* (dynamic-gateway-target-service.ts).                                    *)
(*                                                                         *)
(* Requests overlap, and are those of one subject to one route.  With      *)
(* Redis, a script counts them; it may run late, several times, and for a  *)
(* request that has been refused meanwhile.  Redis keeps a counter until   *)
(* it expires.  Without Redis they are counted in the memory of the        *)
(* process, one window after the other, which forgets counters when it is  *)
(* full and all of them when the process restarts.  An answer stands for   *)
(* the headers of a response; its body is not modelled.                    *)
(***************************************************************************)
EXTENDS Integers, FiniteSets, Sequences

CONSTANTS
  Requests,
  TargetCount,      \* targets of the upstream; a target is its place among them
  WindowCount,      \* windows of rate limits; a window is its place among them
  Length,           \* [windows -> length in ticks]
  Limit,            \* [windows -> limit]
  EjectionBase, EjectionMaximum, EjectionThreshold, MaxFailures,
  MaxClock,         \* bound on time, in ticks
  MaxResends,       \* bound on the runs of a script that nobody hears of
  MaxEvents,        \* bound on probes, and on losses of memory
  None

Targets == 1..TargetCount
Windows == 1..WindowCount

Results == {"unavailable", "limited", "answered", "auth_failed", "timeout",
            "unreachable", "aborted", "lost"}

ASSUME GatewayAssumption ==
  /\ IsFiniteSet(Requests)
  /\ TargetCount \in Nat \ {0} /\ WindowCount \in Nat
  /\ Length \in [Windows -> Nat \ {0}] /\ Limit \in [Windows -> Nat \ {0}]
  /\ EjectionBase \in Nat \ {0} /\ EjectionMaximum \in Nat \ {0}
  /\ EjectionThreshold \in Nat \ {0} /\ MaxFailures \in Nat \ {0}
  /\ MaxClock \in Nat /\ MaxResends \in Nat /\ MaxEvents \in Nat
  /\ None \notin Results /\ None \notin 0..MaxClock

VARIABLES
  shared,   \* is Redis configured?
  windows,  \* how many windows the route limits
  counter,  \* the counters, in Redis or in memory, by window and start
  health,   \* targetHealth
  req,
  now,
  events,   \* how many of the MaxEvents have happened
  forgotten \* history: <<request, window>> whose count the memory has lost

vars == <<shared, windows, counter, health, req, now, events, forgotten>>

(* A limit of 0 or less is none: the windows of the route are the others. *)
Used == 1..windows

Healthy == [failures |-> 0, until |-> 0]
NewRequest(safe) ==
  [at |-> "new", safe |-> safe, time |-> 0, window |-> 0, admitted |-> FALSE,
   took |-> [w \in Windows |-> None], runs |-> 0, order |-> <<>>, index |-> 0,
   contacts |-> [t \in Targets |-> 0], aborted |-> FALSE, deaf |-> FALSE, result |-> None]

Init ==
  /\ shared \in BOOLEAN
  /\ windows \in 0..WindowCount
  /\ counter = [key \in Windows \X (0..MaxClock) |-> 0]
  /\ health = [t \in Targets |-> Healthy]
  /\ \E safe \in [Requests -> BOOLEAN] : req = [r \in Requests |-> NewRequest(safe[r])]
  /\ now = 0
  /\ events = 0
  /\ forgotten = {}

Become(r, record) == req' = [req EXCEPT ![r] = record]

(* What is over is kept by its result and its histories, and by the time   *)
(* of a script that may still run.                                         *)
Ended(record, result) ==
  [record EXCEPT !.at = "done", !.result = result, !.window = 0,
                 !.time = IF result \in {"unavailable", "lost"} THEN @ ELSE 0,
                 !.order = <<>>, !.index = 0, !.aborted = FALSE, !.deaf = FALSE]
Finish(r, result) == Become(r, Ended(req[r], result))

-----------------------------------------------------------------------------
(* checkRateLimits *)

(* alignWindow *)
Start(w, time) == (time \div Length[w]) * Length[w]

Expired(w, start) == start + Length[w] =< now

(* What the script reads: an expired key is gone. *)
Count(w, start) == IF Expired(w, start) THEN 0 ELSE counter[<<w, start>>]

(* INCR, with an expiry at the end of the window. *)
Increment(keys) ==
  [key \in DOMAIN counter |->
     IF key \in keys /\ ~Expired(key[1], key[2]) THEN counter[key] + 1 ELSE counter[key]]

Keys(r) == {<<w, Start(w, req[r].time)>> : w \in Used}

Arrive(r) ==
  /\ req[r].at = "new"
  /\ Become(r, [req[r] EXCEPT !.at = "limit", !.time = now, !.window = 1])
  /\ UNCHANGED <<shared, windows, counter, health, now, events, forgotten>>

Admit(r, record) == Become(r, [record EXCEPT !.at = "order", !.admitted = TRUE])

(* No limit at all. *)
Unlimited(r) ==
  /\ req[r].at = "limit" /\ windows = 0
  /\ Admit(r, req[r])
  /\ UNCHANGED <<shared, windows, counter, health, now, events, forgotten>>

HasRoom(key) == Count(key[1], key[2]) < Limit[key[1]]

(* SLIP: every window that has room is counted. *)
OneByOne(keys) == Increment({key \in keys : HasRoom(key)})

(* ATOMIC_MULTI_WINDOW_SCRIPT: all windows, or none. *)
AllOrNone(keys) == IF \A key \in keys : HasRoom(key) THEN Increment(keys) ELSE counter

(* What a run of the script that counts a request makes of it. *)
Run(r) ==
  [req[r] EXCEPT !.runs = @ + 1,
                 !.took = [w \in Windows |-> IF w \in Used THEN Start(w, req[r].time) ELSE None]]

(* consumeMultiWindowAtomic: the script runs and its reply arrives.        *)
ConsumeAtomic(r) ==
  LET fits == \A key \in Keys(r) : HasRoom(key)
  IN  /\ shared /\ windows > 1
      /\ req[r].at = "limit"
      /\ counter' = AllOrNone(Keys(r))
      /\ \/ fits /\ Admit(r, Run(r))
         \/ ~fits /\ Finish(r, "limited")
      /\ UNCHANGED <<shared, windows, health, now, events, forgotten>>

(* createRedisRateLimiter: one window is counted first and compared then.  *)
ConsumeOne(r) ==
  LET fits == \A key \in Keys(r) : HasRoom(key)
  IN  /\ shared /\ windows = 1
      /\ req[r].at = "limit"
      /\ counter' = Increment(Keys(r))
      /\ \/ fits /\ Admit(r, Run(r))
         \/ ~fits /\ Become(r, Ended(Run(r), "limited"))
      /\ UNCHANGED <<shared, windows, health, now, events, forgotten>>

(* The script of a request that waits for it, or no longer does.           *)
UnderWay(r) ==
  \/ req[r].at = "limit"
  \/ req[r].result \in {"unavailable", "lost"} /\ ~req[r].admitted

(* A run that nobody hears of: the connection breaks before the reply and  *)
(* the client sends the command again when it is back, or the request has  *)
(* been refused or its process is gone.  A run that finds no room in one   *)
(* of several windows changes nothing.                                     *)
RunUnheard(r) ==
  /\ shared /\ windows > 0
  /\ UnderWay(r) /\ req[r].runs < MaxResends
  /\ windows > 1 => \A key \in Keys(r) : HasRoom(key)
  /\ counter' = Increment(Keys(r))
  /\ Become(r, Run(r))
  /\ UNCHANGED <<shared, windows, health, now, events, forgotten>>

(* Redis is not connected, or the retries of the command are used up: the  *)
(* request is refused, with no fallback to memory.                         *)
LimiterUnavailable(r) ==
  /\ shared /\ windows > 0
  /\ req[r].at = "limit"
  /\ Finish(r, "unavailable")
  /\ UNCHANGED <<shared, windows, counter, health, now, events, forgotten>>

(* The memory of the process: each window reads the clock again, and keeps *)
(* what it has counted when a later one refuses.                           *)
ConsumeMemory(r) ==
  LET w == req[r].window
      key == <<w, Start(w, now)>>
      counted == [req[r] EXCEPT !.took[w] = key[2]]
  IN  /\ ~shared /\ windows > 0
      /\ req[r].at = "limit"
      /\ counter' = Increment({key})
      /\ \/ ~HasRoom(key) /\ Become(r, Ended(counted, "limited"))
         \/ HasRoom(key) /\ w = windows /\ Admit(r, counted)
         \/ HasRoom(key) /\ w < windows /\ Become(r, [counted EXCEPT !.window = w + 1])
      /\ UNCHANGED <<shared, windows, health, now, events, forgotten>>

(* The memory loses counters, and with them whom they counted.             *)
Forget(keys) ==
  /\ counter' = [key \in DOMAIN counter |-> IF key \in keys THEN 0 ELSE counter[key]]
  /\ forgotten' = forgotten \cup
       {at \in Requests \X Windows : <<at[2], req[at[1]].took[at[2]]>> \in keys}

(* cleanup: with more than MAX_BUCKETS counters, those of other subjects   *)
(* included, the oldest quarter goes, counters that still count too.       *)
Evict(key) ==
  /\ ~shared /\ counter[key] > 0
  /\ events < MaxEvents
  /\ events' = events + 1
  /\ Forget({key})
  /\ UNCHANGED <<shared, windows, health, req, now>>

-----------------------------------------------------------------------------
(* orderedGatewayTargets and createGatewayProxyFetch *)

IsAvailable(t) == health[t].until =< now

(* availableTargets: all of them when every one is ejected. *)
Candidates ==
  IF \E t \in Targets : IsAvailable(t) THEN {t \in Targets : IsAvailable(t)} ELSE Targets

(* From one of the candidates on, in the order of the upstream and around. *)
Steps(first, t) == (t - first) % TargetCount
Rotations ==
  {order \in [1..Cardinality(Candidates) -> Candidates] :
     \A i, j \in DOMAIN order : i < j => Steps(order[1], order[i]) < Steps(order[1], order[j])}

(* SLIP: every method is tried again. *)
Always(r) == TRUE

MayRetry(r) == req[r].safe

(* The next attempt: its abort listener hears only what happens from now. *)
Contacting(record, order, i) ==
  [record EXCEPT !.at = "wait", !.order = order, !.index = i,
                 !.contacts[order[i]] = @ + 1, !.deaf = record.aborted]

(* The counter of the upstream and the weights pick where the turn starts. *)
Order(r) ==
  /\ req[r].at = "order"
  /\ \E order \in Rotations :
       Become(r, Contacting(req[r], IF MayRetry(r) THEN order ELSE <<order[1]>>, 1))
  /\ UNCHANGED <<shared, windows, counter, health, now, events, forgotten>>

Current(r) == req[r].order[req[r].index]

(* SLIP: the last target is left out. *)
LastButOne(r) == req[r].index >= Len(req[r].order) - 1

IsLast(r) == req[r].index = Len(req[r].order)

Minimum(a, b) == IF a < b THEN a ELSE b

(* SLIP: the failures are counted without an end. *)
CountOn(failures) == failures + 1

NextFailures(failures) == Minimum(failures + 1, MaxFailures)

(* The base time of an ejection, doubled n times. *)
Backoff[n \in Nat] == IF n = 0 THEN EjectionBase ELSE 2 * Backoff[n - 1]

(* markTargetUnavailable, recordGatewayTargetAvailability *)
MarkUnavailable(t) ==
  LET failures == NextFailures(health[t].failures)
  IN  health' = [health EXCEPT ![t] =
        [failures |-> failures,
         until |-> IF failures < EjectionThreshold THEN 0
                   ELSE now + Minimum(EjectionMaximum, Backoff[failures - EjectionThreshold])]]

MarkResponsive(t) == health' = [health EXCEPT ![t] = Healthy]

(* Does the attempt go on?  It was begun before the abort and hears it, or *)
(* nothing has been aborted, or it was begun after the abort.              *)
Heard(r) == req[r].aborted /\ ~req[r].deaf

(* The target's answer is the response.  A service token it rejects is an  *)
(* error of the gateway, and the target is responsive all the same.        *)
Answer(r, tokenRejected) ==
  /\ req[r].at = "wait" /\ ~Heard(r)
  /\ MarkResponsive(Current(r))
  /\ Finish(r, IF tokenRejected THEN "auth_failed" ELSE "answered")
  /\ UNCHANGED <<shared, windows, counter, now, events, forgotten>>

(* 502, 503 or 504: the last one is the response. *)
AnswerRetryable(r) ==
  /\ req[r].at = "wait" /\ ~Heard(r)
  /\ MarkUnavailable(Current(r))
  /\ IF IsLast(r) THEN Finish(r, "answered")
     ELSE Become(r, [req[r] EXCEPT !.at = "cancel"])
  /\ UNCHANGED <<shared, windows, counter, now, events, forgotten>>

(* The body has been thrown away: the next target, without a look at what  *)
(* has been aborted meanwhile.                                             *)
BodyCancelled(r) ==
  /\ req[r].at = "cancel"
  /\ Become(r, Contacting(req[r], req[r].order, req[r].index + 1))
  /\ UNCHANGED <<shared, windows, counter, health, now, events, forgotten>>

(* The connection fails, or the attempt is over its slice of the time.     *)
AttemptFails(r, timedOut) ==
  /\ req[r].at = "wait" /\ ~req[r].aborted
  /\ MarkUnavailable(Current(r))
  /\ IF ~MayRetry(r) \/ IsLast(r)
     THEN Finish(r, IF timedOut THEN "timeout" ELSE "unreachable")
     ELSE Become(r, Contacting(req[r], req[r].order, req[r].index + 1))
  /\ UNCHANGED <<shared, windows, counter, now, events, forgotten>>

(* The client has gone, or the time of the route is over. *)
Abort(r) ==
  /\ req[r].at \in {"wait", "cancel"} /\ ~req[r].aborted
  /\ Become(r, [req[r] EXCEPT !.aborted = TRUE])
  /\ UNCHANGED <<shared, windows, counter, health, now, events, forgotten>>

(* An attempt that ends after an abort is not the fault of its target.     *)
AttemptAborted(r) ==
  /\ req[r].at = "wait" /\ req[r].aborted
  /\ Finish(r, "aborted")
  /\ UNCHANGED <<shared, windows, counter, health, now, events, forgotten>>

-----------------------------------------------------------------------------
(* gateway-target-health-probe.ts, and updateTarget with another address   *)
(* or another enabled.                                                     *)
Probe(t, online) ==
  /\ events < MaxEvents
  /\ events' = events + 1
  /\ IF online THEN MarkResponsive(t) ELSE MarkUnavailable(t)
  /\ UNCHANGED <<shared, windows, counter, req, now, forgotten>>

(* The process restarts: the requests it serves end, and its memory is     *)
(* lost, the counters included unless they are in Redis.                   *)
Restart ==
  /\ events < MaxEvents
  /\ events' = events + 1
  /\ health' = [t \in Targets |-> Healthy]
  /\ req' = [r \in Requests |->
       IF req[r].at \in {"new", "done"} THEN req[r] ELSE Ended(req[r], "lost")]
  /\ IF shared THEN UNCHANGED <<counter, forgotten>> ELSE Forget(DOMAIN counter)
  /\ UNCHANGED <<shared, windows, now>>

Tick ==
  /\ now < MaxClock
  /\ now' = now + 1
  /\ UNCHANGED <<shared, windows, counter, health, req, events, forgotten>>

Next ==
  \/ \E r \in Requests : Arrive(r)
  \/ \E r \in Requests : Unlimited(r)
  \/ \E r \in Requests : ConsumeAtomic(r)
  \/ \E r \in Requests : ConsumeOne(r)
  \/ \E r \in Requests : RunUnheard(r)
  \/ \E r \in Requests : LimiterUnavailable(r)
  \/ \E r \in Requests : ConsumeMemory(r)
  \/ \E w \in Windows, start \in 0..MaxClock : Evict(<<w, start>>)
  \/ \E r \in Requests : Order(r)
  \/ \E r \in Requests, tokenRejected \in BOOLEAN : Answer(r, tokenRejected)
  \/ \E r \in Requests : AnswerRetryable(r)
  \/ \E r \in Requests : BodyCancelled(r)
  \/ \E r \in Requests, timedOut \in BOOLEAN : AttemptFails(r, timedOut)
  \/ \E r \in Requests : Abort(r)
  \/ \E r \in Requests : AttemptAborted(r)
  \/ \E t \in Targets, online \in BOOLEAN : Probe(t, online)
  \/ Restart
  \/ Tick

Spec == Init /\ [][Next]_vars

-----------------------------------------------------------------------------
(* Properties *)

Request ==
  [at : {"new", "limit", "order", "wait", "cancel", "done"}, safe : BOOLEAN,
   time : 0..MaxClock, window : 0..(WindowCount + 1), admitted : BOOLEAN,
   took : [Windows -> 0..MaxClock \cup {None}], runs : 0..MaxResends + 1,
   order : Seq(Targets), index : Nat, contacts : [Targets -> Nat],
   aborted : BOOLEAN, deaf : BOOLEAN, result : Results \cup {None}]

(* Type invariant. *)
TypeOK ==
  /\ shared \in BOOLEAN
  /\ windows \in 0..WindowCount
  /\ counter \in [Windows \X (0..MaxClock) -> Nat]
  /\ health \in [Targets -> [failures : 0..MaxFailures, until : 0..MaxClock + EjectionMaximum]]
  /\ req \in [Requests -> Request]
  /\ now \in 0..MaxClock
  /\ events \in 0..MaxEvents
  /\ forgotten \subseteq Requests \X Windows

Admitted(w, start) ==
  {r \in Requests : req[r].admitted /\ req[r].took[w] = start}
Remembered(w) == {r \in Requests : shared \/ <<r, w>> \notin forgotten}
RunsAt(w, start) ==
  {run \in Requests \X (1..MaxResends + 1) :
     req[run[1]].took[w] = start /\ run[2] =< req[run[1]].runs}

(* With Redis, no window admits more requests than its limit, however late *)
(* and often scripts run; and a run that finds one of several windows full *)
(* counts in none: as long as a window lasts, its counter is the number of *)
(* runs that counted a request in all of them (the scripts).  In memory,   *)
(* no window admits more than its limit between two losses of its counter  *)
(* (memoryRateLimiter).                                                    *)
WithinLimits ==
  \A w \in Used, start \in 0..MaxClock :
    ~Expired(w, start) =>
      /\ Cardinality(Admitted(w, start) \cap Remembered(w)) =< Limit[w]
      /\ shared => counter[<<w, start>>] = Cardinality(RunsAt(w, start))

(* Only a request that was counted in every window reaches a target, none  *)
(* twice, and one that may not be repeated no second one, whatever fails   *)
(* (createGatewayProxyFetch).                                              *)
ContactedOnce ==
  \A r \in Requests :
    LET contacted == {t \in Targets : req[r].contacts[t] > 0}
    IN  /\ \A t \in Targets : req[r].contacts[t] =< 1
        /\ contacted # {} => req[r].admitted /\ \A w \in Used : req[r].took[w] # None
        /\ ~req[r].safe => Cardinality(contacted) =< 1

(* A request that may be repeated is given up only when every target that  *)
(* was not ejected when its turn came has been tried (orderedGatewayTargets *)
(* and createGatewayProxyFetch).                                           *)
GivesUpLast ==
  [][\A r \in Requests :
       req[r].safe /\ req[r].at = "wait" /\ req'[r].result \in {"timeout", "unreachable"}
       => \A i \in DOMAIN req[r].order : req[r].contacts[req[r].order[i]] = 1]_vars
=============================================================================
