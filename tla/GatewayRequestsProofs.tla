----------------------- MODULE GatewayRequestsProofs -----------------------
(***************************************************************************)
(* Rate limits and attempts of the gateway, for any number of requests,    *)
(* targets and windows: no window admits more than its limit while its     *)
(* counter lasts, no target is contacted twice for a request, and none     *)
(* that was candidate is left out.                                         *)
(***************************************************************************)
EXTENDS GatewayRequests, FiniteSetTheorems, SequenceTheorems, TLAPS

-----------------------------------------------------------------------------
(* The doubling of the ejection time.  A table of its first values exists  *)
(* and is the only one, so the recursive function is one.                  *)

BackoffTable(n, g) ==
  /\ g \in [0..n -> Nat]
  /\ \A m \in 0..n : g[m] = IF m = 0 THEN EjectionBase ELSE 2 * g[m - 1]

LEMMA LeastExists ==
  ASSUME NEW S \in SUBSET Nat, S # {}
  PROVE  \E n \in S : \A m \in S : n =< m
<1>1. PICK n \in S : \A m \in S : <<m, n>> \notin OpToRel(<, Nat)
  BY NatLessThanWellFounded, WFMin, Zenon
<1>2. \A m \in S : ~(m < n)
  BY <1>1, Zenon DEF OpToRel
<1>3. \A m \in S : n =< m
  BY <1>2
<1> QED
  BY <1>3

LEMMA TableExists == \A n \in Nat : \E g : BackoffTable(n, g)
<1> DEFINE Without == {n \in Nat : ~\E g : BackoffTable(n, g)}
<1>1. SUFFICES ASSUME Without # {} PROVE FALSE
  BY <1>1
<1>2. Without \in SUBSET Nat
  OBVIOUS
<1>3. PICK n \in Without : \A m \in Without : n =< m
  <2> HIDE DEF Without
  <2> QED BY <1>1, <1>2, LeastExists
<1>4. CASE n = 0
  <2>1. BackoffTable(0, [m \in 0..0 |-> EjectionBase])
    BY GatewayAssumption DEF BackoffTable
  <2> QED BY <1>4, <2>1
<1>5. CASE n # 0
  <2>1. n \in Nat /\ n - 1 \in Nat /\ n - 1 \notin Without
    BY <1>3, <1>5
  <2>2. PICK g : BackoffTable(n - 1, g)
    BY <2>1
  <2>3. PICK h : h = [m \in 0..n |-> IF m = n THEN 2 * g[n - 1] ELSE g[m]]
    OBVIOUS
  <2>4. h \in [0..n -> Nat]
    BY <2>1, <2>2, <2>3 DEF BackoffTable
  <2>5. ASSUME NEW m \in 0..n
        PROVE  h[m] = IF m = 0 THEN EjectionBase ELSE 2 * h[m - 1]
    BY <2>1, <2>2, <2>3, <1>5 DEF BackoffTable
  <2> QED BY <2>4, <2>5 DEF BackoffTable
<1> QED
  BY <1>4, <1>5

LEMMA TableUnique ==
  ASSUME NEW n \in Nat, NEW k \in Nat, NEW g, NEW h,
         BackoffTable(n, g), BackoffTable(k, h)
  PROVE  \A m \in Nat : m =< n /\ m =< k => g[m] = h[m]
<1> DEFINE Differ == {m \in Nat : m =< n /\ m =< k /\ g[m] # h[m]}
<1>1. SUFFICES ASSUME Differ # {} PROVE FALSE
  BY <1>1
<1>2. Differ \in SUBSET Nat
  OBVIOUS
<1>3. PICK m \in Differ : \A other \in Differ : m =< other
  <2> HIDE DEF Differ
  <2> QED BY <1>1, <1>2, LeastExists
<1>4. m \in 0..n /\ m \in 0..k
  OBVIOUS
<1>5. CASE m = 0
  BY <1>4, <1>5 DEF BackoffTable
<1>6. CASE m # 0
  <2>1. m - 1 \in Nat /\ m - 1 =< n /\ m - 1 =< k /\ m - 1 \notin Differ
    BY <1>3, <1>4, <1>6
  <2>2. g[m - 1] = h[m - 1]
    BY <2>1
  <2> QED BY <1>4, <1>6, <2>2 DEF BackoffTable
<1> QED
  BY <1>5, <1>6

LEMMA BackoffUnfolds ==
  Backoff = [n \in Nat |-> IF n = 0 THEN EjectionBase ELSE 2 * Backoff[n - 1]]
<1> DEFINE Table(n) == CHOOSE g : BackoffTable(n, g)
           F == [n \in Nat |-> Table(n)[n]]
<1>1. ASSUME NEW n \in Nat PROVE BackoffTable(n, Table(n))
  BY TableExists
<1>2. ASSUME NEW n \in Nat
      PROVE  F[n] = IF n = 0 THEN EjectionBase ELSE 2 * F[n - 1]
  <2>1. PICK g : g = Table(n) /\ BackoffTable(n, g)
    BY <1>1
  <2>2. F[n] = g[n] /\ n \in 0..n
    BY <2>1
  <2>3. CASE n = 0
    BY <2>1, <2>2, <2>3 DEF BackoffTable
  <2>4. CASE n # 0
    <3>1. n - 1 \in Nat
      BY <2>4
    <3>2. PICK h : h = Table(n - 1) /\ BackoffTable(n - 1, h)
      BY <1>1, <3>1
    <3>3. F[n - 1] = h[n - 1]
      BY <3>1, <3>2
    <3>4. g[n - 1] = h[n - 1]
      BY <2>1, <3>1, <3>2, TableUnique
    <3>5. g[n] = 2 * g[n - 1]
      BY <2>1, <2>2, <2>4 DEF BackoffTable
    <3> QED BY <2>2, <2>4, <3>3, <3>4, <3>5
  <2> QED BY <2>3, <2>4
<1>3. F = [n \in Nat |-> IF n = 0 THEN EjectionBase ELSE 2 * F[n - 1]]
  <2> HIDE DEF F
  <2>1. F = [n \in Nat |-> F[n]]
    BY DEF F
  <2> QED BY <1>2, <2>1
<1>4. \E f : f = [n \in Nat |-> IF n = 0 THEN EjectionBase ELSE 2 * f[n - 1]]
  <2> HIDE DEF F
  <2> QED BY <1>3
<1> QED
  BY <1>4 DEF Backoff

(* An ejection is a time. *)
LEMMA BackoffIsTime == \A n \in Nat : Backoff[n] \in Nat
<1> DEFINE Odd == {n \in Nat : Backoff[n] \notin Nat}
<1>1. SUFFICES ASSUME Odd # {} PROVE FALSE
  BY <1>1
<1>2. Odd \in SUBSET Nat
  OBVIOUS
<1>3. PICK n \in Odd : \A m \in Odd : n =< m
  <2> HIDE DEF Odd
  <2> QED BY <1>1, <1>2, LeastExists
<1>4. Backoff[n] = IF n = 0 THEN EjectionBase ELSE 2 * Backoff[n - 1]
  BY BackoffUnfolds
<1>5. CASE n = 0
  BY <1>4, <1>5, GatewayAssumption
<1>6. CASE n # 0
  <2>1. n - 1 \in Nat /\ n - 1 \notin Odd
    BY <1>3, <1>6
  <2> QED BY <1>4, <1>6, <2>1
<1> QED
  BY <1>5, <1>6

-----------------------------------------------------------------------------
(* The inductive invariant. *)

(* It found room in the window, and has not been refused since. *)
Passed(q, w) == q.admitted \/ (q.at = "limit" /\ w < q.window)
PassedAt(w, start) ==
  {r \in Remembered(w) : req[r].took[w] = start /\ Passed(req[r], w)}

(* A counter that lasts covers those who passed the window and are not     *)
(* forgotten, no more than the limit allows; in Redis it counts the runs   *)
(* of the script.                                                          *)
Counted ==
  \A w \in Used, start \in 0..MaxClock :
    ~Expired(w, start) =>
      /\ Cardinality(PassedAt(w, start)) =< counter[<<w, start>>]
      /\ Cardinality(PassedAt(w, start)) =< Limit[w]
      /\ shared => counter[<<w, start>>] = Cardinality(RunsAt(w, start))

(* What a request has taken, by the window it has come to. *)
LimitsOK(q) ==
  /\ q.time =< now
  /\ q.at = "new" => q.runs = 0 /\ \A w \in Windows : q.took[w] = None
  /\ q.at = "limit" =>
       /\ q.window >= 1
       /\ windows > 0 => q.window =< windows
       /\ IF shared THEN q.window = 1
          ELSE \A w \in Windows : q.took[w] = None <=> w >= q.window
  /\ q.at \in {"new", "limit"} => ~q.admitted
  /\ q.at \in {"order", "wait", "cancel"} => q.admitted
  /\ q.admitted => \A w \in Used : q.took[w] # None

(* While a script is under way, each of its runs has taken the same.       *)
Away(q) == q.at = "limit" \/ (q.result \in {"unavailable", "lost"} /\ ~q.admitted)
ScriptOK(q) ==
  shared /\ Away(q) =>
    /\ q.runs =< MaxResends
    /\ \A w \in Used : q.took[w] = IF q.runs = 0 THEN None ELSE Start(w, q.time)

(* The targets contacted are those of the order up to the current one. *)
Attempting(q) ==
  /\ q.index \in 1..Len(q.order)
  /\ \A i, j \in 1..Len(q.order) : q.order[i] = q.order[j] => i = j
  /\ \A t \in Targets : q.contacts[t] = 1 <=> \E i \in 1..q.index : q.order[i] = t
  /\ ~q.safe => Len(q.order) = 1
  /\ q.at = "cancel" => q.index < Len(q.order)

AttemptsOK(q) ==
  /\ q.at # "done" => q.result = None
  /\ \A t \in Targets : q.contacts[t] \in {0, 1}
  /\ (\E t \in Targets : q.contacts[t] = 1) => q.admitted
  /\ ~q.safe => \A t, u \in Targets : q.contacts[t] = 1 /\ q.contacts[u] = 1 => t = u
  /\ q.at \in {"new", "limit", "order"} => \A t \in Targets : q.contacts[t] = 0
  /\ q.at \in {"wait", "cancel"} => Attempting(q)

RequestOK(q) == LimitsOK(q) /\ ScriptOK(q) /\ AttemptsOK(q)
RequestsOK == \A r \in Requests : RequestOK(req[r])

RequestsInv == TypeOK /\ Counted /\ RequestsOK

-----------------------------------------------------------------------------
(* Times and counters. *)

LEMMA StartIsTime ==
  ASSUME NEW w \in Windows, NEW time \in 0..MaxClock
  PROVE  Start(w, time) \in 0..time
<1>1. Length[w] \in Nat \ {0} /\ time \in Nat
  BY GatewayAssumption
<1>2. \A a \in Nat : \A b \in Nat \ {0} : (a \div b) * b \in 0..a
  OBVIOUS
<1> QED
  BY <1>1, <1>2 DEF Start

LEMMA IncrementType ==
  ASSUME TypeOK, NEW keys
  PROVE  /\ Increment(keys) \in [Windows \X (0..MaxClock) -> Nat]
         /\ \A w \in Windows, s \in 0..MaxClock :
              Increment(keys)[<<w, s>>] =
                IF <<w, s>> \in keys /\ ~Expired(w, s) THEN counter[<<w, s>>] + 1
                ELSE counter[<<w, s>>]
<1>1. counter \in [Windows \X (0..MaxClock) -> Nat]
  BY DEF TypeOK
<1>2. DOMAIN counter = Windows \X (0..MaxClock)
  BY <1>1
<1>3. ASSUME NEW w \in Windows, NEW s \in 0..MaxClock
      PROVE  Increment(keys)[<<w, s>>] =
                IF <<w, s>> \in keys /\ ~Expired(w, s) THEN counter[<<w, s>>] + 1
                ELSE counter[<<w, s>>]
  BY <1>2 DEF Increment
<1>4. ASSUME NEW key \in Windows \X (0..MaxClock)
      PROVE  (IF key \in keys /\ ~Expired(key[1], key[2]) THEN counter[key] + 1
              ELSE counter[key]) \in Nat
  BY <1>1
<1> QED
  BY <1>2, <1>3, <1>4 DEF Increment

LEMMA HealthType ==
  ASSUME TypeOK, NEW t \in Targets, MarkUnavailable(t) \/ MarkResponsive(t)
  PROVE  health' \in [Targets -> [failures : 0..MaxFailures,
                                  until : 0..MaxClock + EjectionMaximum]]
<1> DEFINE Health == [failures : 0..MaxFailures, until : 0..MaxClock + EjectionMaximum]
<1>1. health \in [Targets -> Health] /\ now \in 0..MaxClock
  BY DEF TypeOK
<1>2. CASE MarkResponsive(t)
  <2>1. Healthy \in Health
    BY GatewayAssumption DEF Healthy
  <2> QED BY <1>1, <1>2, <2>1 DEF MarkResponsive
<1>3. CASE MarkUnavailable(t)
  <2>1. PICK failures : failures = NextFailures(health[t].failures)
    OBVIOUS
  <2>2. health[t].failures \in 0..MaxFailures
    BY <1>1
  <2>3. failures \in 0..MaxFailures
    BY <2>1, <2>2, GatewayAssumption DEF NextFailures, Minimum
  <2>4. PICK until : until = IF failures < EjectionThreshold THEN 0
                   ELSE now + Minimum(EjectionMaximum, Backoff[failures - EjectionThreshold])
    OBVIOUS
  <2>5. until \in 0..MaxClock + EjectionMaximum
    <3>1. CASE failures < EjectionThreshold
      BY <2>4, <3>1, GatewayAssumption
    <3>2. CASE ~(failures < EjectionThreshold)
      <4>1. failures - EjectionThreshold \in Nat
        BY <2>3, <3>2, GatewayAssumption
      <4>2. Minimum(EjectionMaximum, Backoff[failures - EjectionThreshold])
              \in 0..EjectionMaximum
        BY <4>1, BackoffIsTime, GatewayAssumption DEF Minimum
      <4> QED BY <1>1, <2>4, <3>2, <4>2, GatewayAssumption
    <3> QED BY <3>1, <3>2
  <2>6. health' = [health EXCEPT ![t] = [failures |-> failures, until |-> until]]
    BY <1>3, <2>1, <2>4 DEF MarkUnavailable
  <2> QED BY <1>1, <2>3, <2>5, <2>6
<1> QED
  BY <1>2, <1>3

(* What a step of r, after which it is q, does to one counter that lasts:  *)
(* it is the same, or it counts one more, for a script one more run of it, *)
(* where there was room for whoever passes.                                *)
SameCount(r, q, w, start) ==
  /\ counter'[<<w, start>>] = counter[<<w, start>>]
  /\ q.took[w] = start /\ Passed(q, w) => req[r].took[w] = start /\ Passed(req[r], w)
  /\ shared => \A n \in 1..MaxResends + 1 :
       q.took[w] = start /\ n =< q.runs <=> req[r].took[w] = start /\ n =< req[r].runs
OneMore(r, q, w, start) ==
  /\ counter'[<<w, start>>] = counter[<<w, start>>] + 1
  /\ Passed(q, w) => counter[<<w, start>>] < Limit[w]
  /\ shared => /\ q.runs = req[r].runs + 1 /\ q.runs \in 1..MaxResends + 1
               /\ q.took[w] = start /\ (req[r].runs > 0 => req[r].took[w] = start)
Counts(r, q) ==
  \A w \in Used, start \in 0..MaxClock :
    ~Expired(w, start) => SameCount(r, q, w, start) \/ OneMore(r, q, w, start)

LEMMA PairIs ==
  ASSUME NEW A, NEW B, NEW pair \in A \X B, NEW a, NEW b
  PROVE  pair = <<a, b>> <=> pair[1] = a /\ pair[2] = b
OBVIOUS

(* The runs of the other requests stay as they are. *)
LEMMA RunsAfterStep ==
  ASSUME TypeOK, NEW r \in Requests, NEW q \in Request, req'[r] = q,
         \A s \in Requests \ {r} : req'[s] = req[s], shared,
         NEW w \in Windows, NEW start
  PROVE  /\ SameCount(r, q, w, start) => RunsAt(w, start)' = RunsAt(w, start)
         /\ OneMore(r, q, w, start) =>
              Cardinality(RunsAt(w, start)') = Cardinality(RunsAt(w, start)) + 1
         /\ IsFiniteSet(RunsAt(w, start))
<1>1. PICK runs, runsAfter : runs = RunsAt(w, start) /\ runsAfter = RunsAt(w, start)'
  OBVIOUS
<1>2. PICK all : all = Requests \X (1..MaxResends + 1)
  OBVIOUS
<1>3. runs \subseteq all /\ runsAfter \subseteq all
  BY <1>1, <1>2 DEF RunsAt
<1>4. IsFiniteSet(runs)
  <2>1. IsFiniteSet(1..MaxResends + 1) /\ IsFiniteSet(Requests)
    BY FS_Interval, GatewayAssumption
  <2>2. IsFiniteSet(all)
    BY <1>2, <2>1, FS_Product
  <2> QED BY <1>3, <2>2, FS_Subset
<1>5. ASSUME NEW run \in all
      PROVE  /\ run \in runs <=> req[run[1]].took[w] = start /\ run[2] =< req[run[1]].runs
             /\ run \in runsAfter <=> req'[run[1]].took[w] = start /\ run[2] =< req'[run[1]].runs
             /\ run[1] \in Requests /\ run[2] \in 1..MaxResends + 1
             /\ run[1] # r => (run \in runsAfter <=> run \in runs)
  <2>1. run \in runs <=> req[run[1]].took[w] = start /\ run[2] =< req[run[1]].runs
    BY <1>1, <1>2 DEF RunsAt
  <2>2. run \in runsAfter <=> req'[run[1]].took[w] = start /\ run[2] =< req'[run[1]].runs
    BY <1>1, <1>2 DEF RunsAt
  <2>3. run[1] \in Requests /\ run[2] \in 1..MaxResends + 1
    BY <1>2
  <2>4. run[1] # r => req'[run[1]] = req[run[1]]
    BY <2>3
  <2> QED BY <2>1, <2>2, <2>3, <2>4
<1>6. ASSUME SameCount(r, q, w, start) PROVE runsAfter = runs
  <2>1. ASSUME NEW run \in all PROVE run \in runsAfter <=> run \in runs
    <3>1. run[1] = r => (run \in runsAfter <=> run \in runs)
      BY <1>5, <1>6 DEF SameCount
    <3> QED BY <1>5, <3>1
  <2> QED BY <1>3, <2>1
<1>7. ASSUME OneMore(r, q, w, start)
      PROVE  Cardinality(runsAfter) = Cardinality(runs) + 1
  <2>1. PICK n \in 1..MaxResends + 1 : n = q.runs /\ n = req[r].runs + 1
    BY <1>7 DEF OneMore
  <2>2. q.took[w] = start /\ (req[r].runs > 0 => req[r].took[w] = start)
    BY <1>7 DEF OneMore
  <2>3. PICK before \in Nat : before = req[r].runs /\ n = before + 1
    <3>1. req[r].runs \in Nat
      BY GatewayAssumption DEF TypeOK, Request
    <3> QED BY <2>1, <3>1
  <2>4. PICK last \in all : last = <<r, n>> /\ last[1] = r /\ last[2] = n
    <3>1. <<r, n>> \in all
      BY <1>2
    <3> QED BY <3>1
  <2>5. last \notin runs
    <3>1. ~(n =< before)
      BY <2>3
    <3> QED BY <1>5, <2>3, <2>4, <3>1
  <2>6. ASSUME NEW run \in all PROVE run \in runsAfter <=> run \in runs \cup {last}
    <3>1. run = last <=> run[1] = r /\ run[2] = n
      BY <1>2, <2>4, PairIs
    <3>2. CASE run[1] # r
      BY <1>5, <3>1, <3>2
    <3>3. CASE run[1] = r
      <4>1. PICK m \in 1..MaxResends + 1 : m = run[2]
        BY <1>5
      <4>2. run \in runsAfter <=> m =< n
        BY <1>5, <2>1, <2>2, <3>3, <4>1
      <4>3. run \in runs <=> m =< before
        <5>1. m =< before => before > 0
          BY <2>3
        <5> QED BY <1>5, <2>2, <2>3, <3>3, <4>1, <5>1
      <4>4. m =< n <=> m =< before \/ m = n
        BY <2>3
      <4> QED BY <3>1, <3>3, <4>1, <4>2, <4>3, <4>4
    <3> QED BY <3>2, <3>3
  <2>7. runsAfter = runs \cup {last}
    BY <1>3, <2>6
  <2> QED BY <1>4, <2>5, <2>7, FS_AddElement
<1> QED
  BY <1>1, <1>4, <1>6, <1>7

LEMMA CountedAfterStep ==
  ASSUME TypeOK, Counted, NEW r \in Requests, NEW q \in Request, Become(r, q),
         UNCHANGED <<shared, windows, now, forgotten>>, Counts(r, q)
  PROVE  Counted'
<1>1. SUFFICES ASSUME NEW w \in Used, NEW start \in 0..MaxClock, ~Expired(w, start)
               PROVE  /\ Cardinality(PassedAt(w, start)') =< counter'[<<w, start>>]
                      /\ Cardinality(PassedAt(w, start)') =< Limit[w]
                      /\ shared => counter'[<<w, start>>] = Cardinality(RunsAt(w, start)')
  BY DEF Counted, Used, Expired
<1>2. w \in Windows /\ Limit[w] \in Nat
  BY GatewayAssumption DEF Used, TypeOK, Windows
<1>3. PICK count \in Nat : count = counter[<<w, start>>]
  BY <1>2 DEF TypeOK
<1>4. req'[r] = q /\ \A s \in Requests \ {r} : req'[s] = req[s]
  BY DEF TypeOK, Become
<1>5. PICK passed, passedAfter :
         passed = PassedAt(w, start) /\ passedAfter = PassedAt(w, start)'
  OBVIOUS
<1>6. passed \subseteq Requests /\ passedAfter \subseteq Requests
  BY <1>5 DEF PassedAt, Remembered
<1>7. IsFiniteSet(passed) /\ Cardinality(passed) \in Nat
  BY <1>6, FS_Subset, FS_CardinalityType, GatewayAssumption
<1>8. /\ Cardinality(passed) =< count /\ Cardinality(passed) =< Limit[w]
      /\ shared => count = Cardinality(RunsAt(w, start))
  BY <1>1, <1>3, <1>5 DEF Counted
<1>9. \A s \in Requests \ {r} : s \in passedAfter => s \in passed
  BY <1>4, <1>5 DEF PassedAt, Remembered
<1>10. r \in passedAfter => q.took[w] = start /\ Passed(q, w)
  BY <1>4, <1>5 DEF PassedAt
<1>11. r \in passedAfter /\ req[r].took[w] = start /\ Passed(req[r], w) => r \in passed
  BY <1>5 DEF PassedAt, Remembered
<1>12. SameCount(r, q, w, start) \/ OneMore(r, q, w, start)
  BY <1>1, Zenon DEF Counts
<1>13. CASE SameCount(r, q, w, start)
  <2>1. counter'[<<w, start>>] = count
    BY <1>3, <1>13 DEF SameCount
  <2>2. passedAfter \subseteq passed
    <3>1. r \in passedAfter => r \in passed
      BY <1>10, <1>11, <1>13 DEF SameCount
    <3> QED BY <1>6, <1>9, <3>1
  <2>3. Cardinality(passedAfter) \in Nat /\ Cardinality(passedAfter) =< Cardinality(passed)
    BY <1>7, <2>2, FS_Subset, FS_CardinalityType
  <2>4. shared => count = Cardinality(RunsAt(w, start)')
    BY <1>2, <1>4, <1>8, <1>13, RunsAfterStep
  <2> QED BY <1>2, <1>5, <1>7, <1>8, <2>1, <2>3, <2>4
<1>14. CASE OneMore(r, q, w, start)
  <2>1. /\ counter'[<<w, start>>] = count + 1
        /\ shared => count + 1 = Cardinality(RunsAt(w, start)')
    BY <1>2, <1>3, <1>4, <1>8, <1>14, RunsAfterStep DEF OneMore
  <2>2. CASE r \in passedAfter /\ r \notin passed
    <3>1. passedAfter \subseteq passed \cup {r}
      BY <1>6, <1>9
    <3>2. Cardinality(passed \cup {r}) = Cardinality(passed) + 1 /\ IsFiniteSet(passed \cup {r})
      BY <1>7, <2>2, FS_AddElement
    <3>3. Cardinality(passedAfter) \in Nat /\ Cardinality(passedAfter) =< Cardinality(passed) + 1
      BY <3>1, <3>2, FS_Subset, FS_CardinalityType
    <3>4. count < Limit[w]
      BY <1>3, <1>10, <1>14, <2>2 DEF OneMore
    <3>5. Cardinality(passedAfter) =< count + 1 /\ Cardinality(passedAfter) =< Limit[w]
      BY <1>2, <1>7, <1>8, <3>3, <3>4
    <3> QED BY <1>5, <2>1, <3>5
  <2>3. CASE ~(r \in passedAfter /\ r \notin passed)
    <3>1. passedAfter \subseteq passed
      BY <1>6, <1>9, <2>3
    <3>2. Cardinality(passedAfter) \in Nat /\ Cardinality(passedAfter) =< Cardinality(passed)
      BY <1>7, <3>1, FS_Subset, FS_CardinalityType
    <3>3. Cardinality(passedAfter) =< count + 1 /\ Cardinality(passedAfter) =< Limit[w]
      BY <1>2, <1>7, <1>8, <3>2
    <3> QED BY <1>5, <2>1, <3>3
  <2> QED BY <2>2, <2>3
<1> QED
  BY <1>12, <1>13, <1>14

(* What holds of a request after a step that leaves the time alone. *)
LEMMA RequestAfter ==
  ASSUME UNCHANGED <<shared, windows, now>>, NEW s \in Requests, RequestOK(req'[s])
  PROVE  RequestOK(req[s])'
<1>1. PICK p : p = req'[s]
  OBVIOUS
<1>2. LimitsOK(p) /\ ScriptOK(p) /\ AttemptsOK(p)
  BY <1>1 DEF RequestOK
<1>3. LimitsOK(req[s])'
  BY <1>1, <1>2 DEF LimitsOK, Used
<1>4. ScriptOK(req[s])'
  BY <1>1, <1>2 DEF ScriptOK, Away, Used
<1>5. AttemptsOK(req[s])'
  BY <1>1, <1>2 DEF AttemptsOK, Attempting
<1> QED
  BY <1>3, <1>4, <1>5 DEF RequestOK

(* A step of r leaves the other requests alone. *)
LEMMA RequestStep ==
  ASSUME RequestsInv, NEW r \in Requests, NEW q \in Request, Become(r, q),
         UNCHANGED <<shared, windows, now, events, forgotten>>,
         RequestOK(q), Counts(r, q),
         counter' \in [Windows \X (0..MaxClock) -> Nat],
         health' \in [Targets -> [failures : 0..MaxFailures,
                                  until : 0..MaxClock + EjectionMaximum]]
  PROVE  RequestsInv'
<1>1. req \in [Requests -> Request]
  BY DEF RequestsInv, TypeOK
<1>2. req' \in [Requests -> Request] /\ req'[r] = q
      /\ \A s \in Requests \ {r} : req'[s] = req[s]
  BY <1>1 DEF Become
<1>3. TypeOK'
  <2>1. Request' = Request
    BY DEF Request
  <2> QED BY <1>2, <2>1 DEF RequestsInv, TypeOK
<1>4. Counted'
  BY CountedAfterStep DEF RequestsInv
<1>5. ASSUME NEW s \in Requests PROVE RequestOK(req[s])'
  <2>1. RequestOK(req'[s])
    BY <1>2 DEF RequestsInv, RequestsOK
  <2> QED BY <2>1, RequestAfter
<1> QED
  BY <1>3, <1>4, <1>5 DEF RequestsInv, RequestsOK

-----------------------------------------------------------------------------
(* The records of a request. *)

LEMMA EndedFacts ==
  ASSUME NEW q \in Request, NEW result \in Results
  PROVE  LET e == Ended(q, result)
         IN  /\ e \in Request /\ e.at = "done" /\ e.result = result
             /\ e.time = IF result \in {"unavailable", "lost"} THEN q.time ELSE 0
             /\ e.safe = q.safe /\ e.admitted = q.admitted
             /\ e.took = q.took /\ e.runs = q.runs /\ e.contacts = q.contacts
<1>1. 0 \in 0..MaxClock /\ 0 \in 0..(WindowCount + 1) /\ <<>> \in Seq(Targets)
  BY GatewayAssumption, EmptySeq
<1> QED
  BY <1>1 DEF Ended, Request

(* The end of a request that was served, or that waited for its limits.    *)
LEMMA EndedOK ==
  ASSUME TypeOK, NEW q \in Request, NEW result \in Results,
         q.at \in {"limit", "order", "wait", "cancel"}, RequestOK(q)
  PROVE  RequestOK(Ended(q, result))
<1>1. PICK e : e = Ended(q, result)
  OBVIOUS
<1>2. /\ e \in Request /\ e.at = "done" /\ e.result = result
      /\ e.time = IF result \in {"unavailable", "lost"} THEN q.time ELSE 0
      /\ e.safe = q.safe /\ e.admitted = q.admitted
      /\ e.took = q.took /\ e.runs = q.runs /\ e.contacts = q.contacts
  BY <1>1, EndedFacts
<1>3. LimitsOK(q) /\ ScriptOK(q) /\ AttemptsOK(q)
  BY DEF RequestOK
<1>4. LimitsOK(e)
  BY <1>2, <1>3 DEF LimitsOK, TypeOK
<1>5. ScriptOK(e)
  <2>1. Away(e) => Away(q) /\ e.time = q.time
    BY <1>2, <1>3 DEF Away, LimitsOK
  <2> QED BY <1>2, <1>3, <2>1 DEF ScriptOK
<1>6. AttemptsOK(e)
  BY <1>2, <1>3 DEF AttemptsOK
<1> QED
  BY <1>1, <1>4, <1>5, <1>6 DEF RequestOK

LEMMA ContactingFacts ==
  ASSUME NEW q \in Request, NEW order \in Seq(Targets), NEW i \in 1..Len(order),
         NEW c, c = Contacting(q, order, i)
  PROVE  /\ c \in Request
         /\ c.at = "wait" /\ c.order = order /\ c.index = i
         /\ \A t \in Targets :
              c.contacts[t] = IF t = order[i] THEN q.contacts[t] + 1 ELSE q.contacts[t]
         /\ c.safe = q.safe /\ c.admitted = q.admitted /\ c.took = q.took /\ c.runs = q.runs
         /\ c.time = q.time /\ c.window = q.window /\ c.result = q.result
<1>1. order[i] \in Targets
  BY LenProperties, ElementOfSeq
<1>2. q.contacts \in [Targets -> Nat]
  BY DEF Request
<1>3. PICK contacts : contacts = [q.contacts EXCEPT ![order[i]] = @ + 1]
  OBVIOUS
<1>4. contacts \in [Targets -> Nat]
  BY <1>1, <1>2, <1>3
<1>5. c = [q EXCEPT !.at = "wait", !.order = order, !.index = i,
                                   !.contacts = contacts, !.deaf = q.aborted]
  BY <1>3 DEF Contacting, Request
<1>6. i \in Nat
  BY LenProperties
<1>7. \A t \in Targets :
        contacts[t] = IF t = order[i] THEN q.contacts[t] + 1 ELSE q.contacts[t]
  BY <1>1, <1>2, <1>3
<1>8. c.at = "wait" /\ c.order = order /\ c.index = i /\ c.contacts = contacts
  BY <1>5, SMT DEF Request
<1>9. /\ c.safe = q.safe /\ c.admitted = q.admitted /\ c.took = q.took /\ c.runs = q.runs
      /\ c.time = q.time /\ c.window = q.window /\ c.result = q.result
  BY <1>5, SMT DEF Request
<1>10. c \in Request
  BY <1>4, <1>5, <1>6 DEF Request
<1> QED
  BY <1>7, <1>8, <1>9, <1>10

(* The next attempt goes to a target that has not been contacted yet. *)
LEMMA ContactingOK ==
  ASSUME TypeOK, NEW q \in Request, NEW order \in Seq(Targets), NEW i \in 1..Len(order),
         LimitsOK(q), q.at \in {"order", "wait", "cancel"}, q.result = None,
         \A j, k \in 1..Len(order) : order[j] = order[k] => j = k,
         \A t \in Targets : q.contacts[t] \in {0, 1},
         \A t \in Targets : q.contacts[t] = 1 <=> \E j \in 1..(i - 1) : order[j] = t,
         ~q.safe => Len(order) = 1
  PROVE  RequestOK(Contacting(q, order, i))
<1>1. PICK c : c = Contacting(q, order, i)
  OBVIOUS
<1>2. /\ c \in Request
      /\ c.at = "wait" /\ c.order = order /\ c.index = i
      /\ \A t \in Targets :
           c.contacts[t] = IF t = order[i] THEN q.contacts[t] + 1 ELSE q.contacts[t]
      /\ c.safe = q.safe /\ c.admitted = q.admitted /\ c.took = q.took
      /\ c.time = q.time /\ c.window = q.window /\ c.result = q.result
  BY <1>1, ContactingFacts
<1>3. order[i] \in Targets /\ Len(order) \in Nat
  BY LenProperties, ElementOfSeq
<1>4. q.contacts \in [Targets -> Nat]
  BY DEF Request
<1>5. LimitsOK(c)
  BY <1>2 DEF LimitsOK
<1>6. q.contacts[order[i]] = 0
  <2>1. \A j \in 1..(i - 1) : j \in 1..Len(order) /\ j # i
    BY <1>3
  <2>2. \A j \in 1..(i - 1) : order[j] # order[i]
    BY <2>1
  <2> QED BY <1>3, <2>2
<1>7. \A t \in Targets : c.contacts[t] = IF t = order[i] THEN 1 ELSE q.contacts[t]
  BY <1>2, <1>3, <1>4, <1>6
<1>8. \A t \in Targets : c.contacts[t] = 1 <=> \E j \in 1..i : order[j] = t
  <2>1. \A j \in 1..i : j = i \/ j \in 1..(i - 1)
    BY <1>3
  <2>2. \A j \in 1..(i - 1) : j \in 1..i
    BY <1>3
  <2>3. i \in 1..i
    BY <1>3
  <2> SUFFICES ASSUME NEW t \in Targets
               PROVE  c.contacts[t] = 1 <=> \E j \in 1..i : order[j] = t
    OBVIOUS
  <2>4. CASE t = order[i]
    BY <1>7, <2>3, <2>4
  <2>5. CASE t # order[i]
    <3>1. c.contacts[t] = 1 <=> \E j \in 1..(i - 1) : order[j] = t
      BY <1>7, <2>5
    <3>2. \A j \in 1..i : order[j] = t => j \in 1..(i - 1)
      BY <2>1, <2>5
    <3> QED BY <2>2, <3>1, <3>2, Zenon
  <2> QED BY <2>4, <2>5
<1>9. c.admitted
  BY <1>2 DEF LimitsOK
<1>10. ~c.safe => \A t, u \in Targets : c.contacts[t] = 1 /\ c.contacts[u] = 1 => t = u
  <2>1. ~c.safe => \A j \in 1..i : j = 1
    BY <1>2, <1>3
  <2> QED BY <1>8, <2>1
<1>11. Attempting(c)
  BY <1>2, <1>8 DEF Attempting
<1>12. \A t \in Targets : c.contacts[t] \in {0, 1}
  BY <1>7
<1>13. AttemptsOK(c)
  BY <1>2, <1>9, <1>10, <1>11, <1>12 DEF AttemptsOK
<1>14. ScriptOK(c)
  BY <1>2, <1>9 DEF ScriptOK, Away
<1> QED
  BY <1>1, <1>5, <1>13, <1>14 DEF RequestOK

-----------------------------------------------------------------------------
(* The order of the targets. *)

LEMMA RotationFacts ==
  ASSUME NEW order \in Rotations
  PROVE  /\ order \in Seq(Targets) /\ Len(order) \in Nat \ {0}
         /\ \A i, j \in 1..Len(order) : order[i] = order[j] => i = j
<1>1. Candidates \subseteq Targets /\ Candidates # {}
  <2>1. 1 \in Targets
    BY GatewayAssumption DEF Targets
  <2> QED BY <2>1 DEF Candidates
<1>2. IsFiniteSet(Targets)
  BY GatewayAssumption, FS_Interval DEF Targets
<1>3. PICK n : n = Cardinality(Candidates)
  OBVIOUS
<1>4. n \in Nat \ {0}
  BY <1>1, <1>2, <1>3, FS_Subset, FS_CardinalityType, FS_EmptySet
<1>5. order \in [1..n -> Candidates]
  BY <1>3 DEF Rotations
<1>6. order \in [1..n -> Targets]
  BY <1>1, <1>5
<1>7. order \in Seq(Targets) /\ Len(order) = n
  BY <1>4, <1>6
<1>8. \A i \in 1..n : Steps(order[1], order[i]) \in Int
  BY <1>4, <1>6, GatewayAssumption DEF Steps, Targets
<1>9. \A i, j \in 1..n : i < j => Steps(order[1], order[i]) < Steps(order[1], order[j])
  BY <1>5 DEF Rotations
<1>10. ASSUME NEW i \in 1..n, NEW j \in 1..n, order[i] = order[j] PROVE i = j
  BY <1>4, <1>8, <1>9, <1>10
<1> QED
  BY <1>4, <1>7, <1>10

-----------------------------------------------------------------------------
(* Each action keeps the invariant. *)

(* Nothing has been counted: the histories of r are as they were. *)
LEMMA NothingCounted ==
  ASSUME NEW r \in Requests, NEW q, q.took = req[r].took, q.runs = req[r].runs,
         counter' = counter,
         \A w \in Used : Passed(q, w) => Passed(req[r], w)
  PROVE  Counts(r, q)
BY DEF SameCount, Counts

LEMMA InitOK == Init => RequestsInv
<1> SUFFICES ASSUME Init PROVE RequestsInv
  OBVIOUS
<1>1. PICK safe \in [Requests -> BOOLEAN] : req = [r \in Requests |-> NewRequest(safe[r])]
  BY DEF Init
<1>2. 0 \in 0..MaxClock /\ 0 \in 0..(WindowCount + 1) /\ <<>> \in Seq(Targets)
      /\ 0 \in 0..MaxFailures /\ 0 \in 0..(MaxClock + EjectionMaximum) /\ 0 \in 0..MaxEvents /\ 0 \in 0..(MaxResends + 1)
  BY GatewayAssumption, EmptySeq
<1>3. ASSUME NEW r \in Requests
      PROVE  req[r] \in Request /\ RequestOK(req[r])
  <2>1. PICK q : q = NewRequest(safe[r])
    OBVIOUS
  <2>2. q \in Request
    BY <1>1, <1>2, <2>1 DEF NewRequest, Request
  <2>3. LimitsOK(q)
    BY <1>1, <2>1 DEF NewRequest, LimitsOK, Init
  <2>4. AttemptsOK(q)
    BY <1>1, <2>1 DEF NewRequest, AttemptsOK
  <2>5. ScriptOK(q)
    BY <2>1, GatewayAssumption DEF NewRequest, ScriptOK, Away, Results
  <2> QED BY <1>1, <2>1, <2>2, <2>3, <2>4, <2>5 DEF RequestOK
<1>4. TypeOK
  <2>1. Healthy \in [failures : 0..MaxFailures, until : 0..MaxClock + EjectionMaximum]
    BY <1>2 DEF Healthy
  <2>2. req \in [Requests -> Request]
    BY <1>1, <1>3
  <2>3. counter \in [Windows \X (0..MaxClock) -> Nat]
    BY DEF Init
  <2>4. health \in [Targets -> [failures : 0..MaxFailures, until : 0..MaxClock + EjectionMaximum]]
    BY <2>1 DEF Init
  <2> QED BY <1>2, <2>2, <2>3, <2>4 DEF Init, TypeOK
<1>5. Counted
  <2> SUFFICES ASSUME NEW w \in Used, NEW start \in 0..MaxClock
               PROVE  /\ Cardinality(PassedAt(w, start)) =< counter[<<w, start>>]
                      /\ Cardinality(PassedAt(w, start)) =< Limit[w]
                      /\ counter[<<w, start>>] = Cardinality(RunsAt(w, start))
    BY DEF Counted
  <2>1. w \in Windows /\ Limit[w] \in Nat
    BY GatewayAssumption DEF Used, Init, Windows
  <2>2. \A r \in Requests : req[r].took[w] = None
    BY <1>1, <2>1 DEF NewRequest
  <2>3. PassedAt(w, start) = {} /\ RunsAt(w, start) = {}
    <3>1. start # None
      BY GatewayAssumption
    <3> QED BY <2>2, <3>1 DEF PassedAt, RunsAt, Remembered
  <2>4. counter[<<w, start>>] = 0
    BY <2>1 DEF Init
  <2> QED BY <2>1, <2>3, <2>4, FS_EmptySet
<1> QED
  BY <1>3, <1>4, <1>5 DEF RequestsInv, RequestsOK

LEMMA ArriveOK == ASSUME RequestsInv, NEW r \in Requests, Arrive(r) PROVE RequestsInv'
<1>1. PICK q : q = [req[r] EXCEPT !.at = "limit", !.time = now, !.window = 1]
  OBVIOUS
<1>2. req[r] \in Request /\ LimitsOK(req[r]) /\ AttemptsOK(req[r]) /\ req[r].at = "new"
  BY DEF RequestsInv, RequestsOK, RequestOK, TypeOK, Arrive
<1>3. now \in 0..MaxClock /\ 1 \in 0..(WindowCount + 1) /\ windows \in Nat
  BY GatewayAssumption DEF RequestsInv, TypeOK
<1>4. q \in Request
  BY <1>1, <1>2, <1>3 DEF Request
<1>5. /\ q.at = "limit" /\ q.time = now /\ q.window = 1 /\ q.took = req[r].took
      /\ q.admitted = req[r].admitted /\ q.contacts = req[r].contacts
      /\ q.result = req[r].result /\ q.safe = req[r].safe /\ q.runs = req[r].runs
  BY <1>1, <1>2 DEF Request
<1>6. \A w \in Windows : w >= 1
  BY GatewayAssumption DEF Windows
<1>7. LimitsOK(q)
  BY <1>2, <1>3, <1>5, <1>6 DEF LimitsOK
<1>8. AttemptsOK(q)
  BY <1>2, <1>5 DEF AttemptsOK
<1>9. Counts(r, q)
  <2>1. \A w \in Used : Passed(q, w) => Passed(req[r], w)
    BY <1>3, <1>5 DEF Passed, Used
  <2> QED BY <1>5, <2>1, NothingCounted DEF Arrive
<1>10. ScriptOK(q)
  <2>1. Used \subseteq Windows
    BY GatewayAssumption DEF Used, Windows, RequestsInv, TypeOK
  <2>2. q.runs = 0 /\ \A w \in Used : q.took[w] = None
    BY <1>2, <1>5, <2>1 DEF LimitsOK
  <2> QED BY <2>2, GatewayAssumption DEF ScriptOK
<1> QED
  BY <1>1, <1>4, <1>7, <1>8, <1>9, <1>10, RequestStep
     DEF Arrive, RequestOK, RequestsInv, TypeOK

(* A request at the limits. *)
LEMMA AtLimit ==
  ASSUME RequestsInv, NEW r \in Requests, req[r].at = "limit"
  PROVE  /\ req[r] \in Request /\ RequestOK(req[r])
         /\ LimitsOK(req[r]) /\ ScriptOK(req[r]) /\ AttemptsOK(req[r])
         /\ ~req[r].admitted /\ req[r].result = None
         /\ \A t \in Targets : req[r].contacts[t] = 0
         /\ windows \in Nat /\ Used \subseteq Windows
         /\ now \in 0..MaxClock /\ req[r].time \in 0..MaxClock
<1>1. /\ req[r] \in Request /\ RequestOK(req[r])
      /\ LimitsOK(req[r]) /\ ScriptOK(req[r]) /\ AttemptsOK(req[r])
  BY DEF RequestsInv, RequestsOK, RequestOK, TypeOK
<1>2. windows \in Nat /\ Used \subseteq Windows /\ now \in 0..MaxClock
  BY GatewayAssumption DEF RequestsInv, TypeOK, Used, Windows
<1>3. req[r].time \in 0..MaxClock
  BY <1>1 DEF Request
<1>4. ~req[r].admitted /\ req[r].result = None /\ \A t \in Targets : req[r].contacts[t] = 0
  BY <1>1 DEF LimitsOK, AttemptsOK
<1> QED
  BY <1>1, <1>2, <1>3, <1>4

(* A request that has been counted, and waits as it did before. *)
StillAtLimit(r, p) ==
  /\ p \in Request /\ p.at = "limit" /\ ~p.admitted /\ p.result = None
  /\ p.time = req[r].time /\ p.window = req[r].window
  /\ \A t \in Targets : p.contacts[t] = 0

(* The two ends of checkRateLimits. *)
AdmittedAs(p) == [p EXCEPT !.at = "order", !.admitted = TRUE]

LEMMA Admitting ==
  ASSUME RequestsInv, NEW r \in Requests, req[r].at = "limit", NEW p, StillAtLimit(r, p),
         \A w \in Used : p.took[w] # None,
         NEW q, q = AdmittedAs(p)
  PROVE  /\ q \in Request /\ q.took = p.took /\ q.runs = p.runs /\ q.admitted
         /\ RequestOK(q)
<1>1. LimitsOK(req[r]) /\ p \in Request
  BY AtLimit DEF StillAtLimit
<1>2. q \in Request
  BY <1>1 DEF Request, AdmittedAs
<1>3. /\ q.at = "order" /\ q.admitted /\ q.took = p.took /\ q.runs = p.runs
      /\ q.time = req[r].time /\ q.result = None
      /\ \A t \in Targets : q.contacts[t] = 0
  BY <1>1 DEF Request, AdmittedAs, StillAtLimit
<1>4. LimitsOK(q)
  BY <1>1, <1>3 DEF LimitsOK
<1>5. ScriptOK(q)
  BY <1>3 DEF ScriptOK, Away
<1>6. AttemptsOK(q)
  BY <1>3 DEF AttemptsOK
<1> QED
  BY <1>2, <1>3, <1>4, <1>5, <1>6 DEF RequestOK

LEMMA Limiting ==
  ASSUME RequestsInv, NEW r \in Requests, req[r].at = "limit", NEW p, StillAtLimit(r, p),
         NEW q, q = Ended(p, "limited")
  PROVE  /\ q \in Request /\ q.took = p.took /\ q.runs = p.runs
         /\ \A w : ~Passed(q, w)
         /\ RequestOK(q)
<1>1. p \in Request /\ "limited" \in Results /\ now \in 0..MaxClock
  BY AtLimit DEF StillAtLimit, Results
<1>2. /\ q \in Request /\ q.at = "done" /\ q.result = "limited" /\ q.time = 0
      /\ q.admitted = p.admitted /\ q.took = p.took /\ q.runs = p.runs
      /\ q.contacts = p.contacts
  BY <1>1, EndedFacts
<1>3. ~q.admitted /\ \A t \in Targets : q.contacts[t] = 0
  BY <1>2 DEF StillAtLimit
<1>4. LimitsOK(q)
  BY <1>1, <1>2, <1>3 DEF LimitsOK
<1>5. ScriptOK(q)
  BY <1>2 DEF ScriptOK, Away
<1>6. AttemptsOK(q)
  BY <1>2, <1>3 DEF AttemptsOK
<1>7. \A w : ~Passed(q, w)
  BY <1>2, <1>3 DEF Passed
<1> QED
  BY <1>2, <1>4, <1>5, <1>6, <1>7 DEF RequestOK

LEMMA UnlimitedOK == ASSUME RequestsInv, NEW r \in Requests, Unlimited(r) PROVE RequestsInv'
<1>1. req[r] \in Request /\ req[r].at = "limit" /\ Used = {}
  BY AtLimit DEF Unlimited, Used
<1>2. StillAtLimit(r, req[r])
  BY <1>1, AtLimit DEF StillAtLimit
<1>3. PICK q : q = AdmittedAs(req[r])
  OBVIOUS
<1>4. q \in Request /\ RequestOK(q)
  BY <1>1, <1>2, <1>3, Admitting
<1>5. Become(r, q) /\ UNCHANGED <<shared, windows, counter, health, now, events, forgotten>>
  BY <1>3 DEF Unlimited, Admit, AdmittedAs
<1>6. Counts(r, q)
  BY <1>1 DEF Counts
<1> QED
  BY <1>4, <1>5, <1>6, RequestStep DEF RequestsInv, TypeOK

LEMMA StartOfTime ==
  ASSUME NEW w \in Windows, NEW time \in 0..MaxClock
  PROVE  Start(w, time) \in 0..MaxClock /\ Start(w, time) # None
<1>1. Start(w, time) \in 0..time
  BY StartIsTime
<1> QED
  BY <1>1, GatewayAssumption

(* One run more of the script of a request. *)
LEMMA RunFacts ==
  ASSUME RequestsInv, shared, NEW r \in Requests, UnderWay(r), NEW p, p = Run(r)
  PROVE  /\ req[r] \in Request /\ LimitsOK(req[r]) /\ ScriptOK(req[r]) /\ AttemptsOK(req[r])
         /\ p \in Request /\ p.runs = req[r].runs + 1 /\ p.runs \in 1..MaxResends + 1
         /\ \A w \in Used : p.took[w] = Start(w, req[r].time) /\ p.took[w] # None
         /\ \A w \in Used : req[r].runs > 0 => req[r].took[w] = p.took[w]
         /\ \A w \in Used : req[r].runs = 0 => req[r].took[w] = None
         /\ p.at = req[r].at /\ p.admitted = req[r].admitted /\ p.result = req[r].result
         /\ p.time = req[r].time /\ p.window = req[r].window
         /\ p.contacts = req[r].contacts /\ p.safe = req[r].safe
<1>1. req[r] \in Request /\ LimitsOK(req[r]) /\ ScriptOK(req[r]) /\ AttemptsOK(req[r])
  BY DEF RequestsInv, RequestsOK, RequestOK, TypeOK
<1>2. /\ req[r].runs =< MaxResends
      /\ \A w \in Used : req[r].took[w] = IF req[r].runs = 0 THEN None
                                          ELSE Start(w, req[r].time)
  <2>1. Away(req[r])
    BY DEF UnderWay, Away
  <2> QED BY <1>1, <2>1 DEF ScriptOK
<1>3. PICK took : took = [w \in Windows |-> IF w \in Used THEN Start(w, req[r].time) ELSE None]
  OBVIOUS
<1>4. Used \subseteq Windows
  BY GatewayAssumption DEF Used, Windows, RequestsInv, TypeOK
<1>5. PICK time \in 0..MaxClock : time = req[r].time
  BY <1>1 DEF Request
<1>6. took \in [Windows -> 0..MaxClock \cup {None}]
  BY <1>3, <1>5, StartOfTime
<1>7. req[r].runs \in Nat /\ req[r].runs + 1 \in 1..MaxResends + 1
      /\ req[r].runs + 1 \in 0..MaxResends + 1
  BY <1>1, <1>2, GatewayAssumption DEF Request
<1>8. p = [req[r] EXCEPT !.runs = @ + 1, !.took = took]
  BY <1>3 DEF Run
<1>9. /\ p \in Request /\ p.runs = req[r].runs + 1 /\ p.took = took
      /\ p.at = req[r].at /\ p.admitted = req[r].admitted /\ p.result = req[r].result
      /\ p.time = req[r].time /\ p.window = req[r].window
      /\ p.contacts = req[r].contacts /\ p.safe = req[r].safe
  BY <1>1, <1>6, <1>7, <1>8 DEF Request
<1>10. \A w \in Used : took[w] = Start(w, req[r].time) /\ took[w] # None
  BY <1>3, <1>4, <1>5, StartOfTime
<1> QED
  BY <1>1, <1>2, <1>7, <1>9, <1>10

(* Counting a run in every window at once. *)
LEMMA RunCounts ==
  ASSUME RequestsInv, shared, NEW r \in Requests, UnderWay(r), NEW p, p = Run(r),
         counter' = Increment(Keys(r)),
         NEW q, q.took = p.took, q.runs = p.runs,
         \A w \in Used : Passed(q, w) => \A key \in Keys(r) : HasRoom(key)
  PROVE  Counts(r, q)
<1> SUFFICES ASSUME NEW w \in Used, NEW start \in 0..MaxClock, ~Expired(w, start)
             PROVE  SameCount(r, q, w, start) \/ OneMore(r, q, w, start)
  BY DEF Counts
<1>1. w \in Windows
  BY GatewayAssumption DEF Used, Windows, RequestsInv, TypeOK
<1>2. /\ q.took[w] = Start(w, req[r].time)
      /\ q.runs = req[r].runs + 1 /\ q.runs \in 1..MaxResends + 1
      /\ req[r].runs > 0 => req[r].took[w] = q.took[w]
      /\ req[r].runs = 0 => req[r].took[w] = None
      /\ req[r].runs \in Nat
  BY RunFacts, GatewayAssumption DEF Request
<1>3. PICK keys : keys = Keys(r)
  OBVIOUS
<1>4. counter'[<<w, start>>] = IF <<w, start>> \in keys THEN counter[<<w, start>>] + 1
                               ELSE counter[<<w, start>>]
  BY <1>1, <1>3, IncrementType DEF RequestsInv
<1>5. <<w, start>> \in keys <=> start = Start(w, req[r].time)
  BY <1>3 DEF Keys
<1>6. CASE start = Start(w, req[r].time)
  <2>1. Passed(q, w) => counter[<<w, start>>] < Limit[w]
    BY <1>3, <1>5, <1>6 DEF HasRoom, Count
  <2>2. counter'[<<w, start>>] = counter[<<w, start>>] + 1
    BY <1>4, <1>5, <1>6
  <2> QED BY <1>2, <1>6, <2>1, <2>2 DEF OneMore
<1>7. CASE start # Start(w, req[r].time)
  <2>1. counter'[<<w, start>>] = counter[<<w, start>>]
    BY <1>4, <1>5, <1>7
  <2>2. \A n \in 1..MaxResends + 1 : ~(req[r].took[w] = start /\ n =< req[r].runs)
    BY <1>2, <1>7
  <2> QED BY <1>2, <1>7, <2>1, <2>2 DEF SameCount
<1> QED
  BY <1>6, <1>7

LEMMA FinishedAtLimit ==
  ASSUME RequestsInv, NEW r \in Requests, req[r].at = "limit", NEW result \in Results,
         Finish(r, result),
         UNCHANGED <<shared, windows, counter, health, now, events, forgotten>>
  PROVE  RequestsInv'
<1>1. req[r] \in Request /\ RequestOK(req[r]) /\ ~req[r].admitted
  BY AtLimit
<1>2. PICK q : q = Ended(req[r], result)
  OBVIOUS
<1>3. /\ q \in Request /\ q.at = "done" /\ q.admitted = req[r].admitted
      /\ q.took = req[r].took /\ q.runs = req[r].runs
  BY <1>1, <1>2, EndedFacts
<1>4. RequestOK(q)
  BY <1>1, <1>2, EndedOK DEF RequestsInv
<1>5. Become(r, q)
  BY <1>2 DEF Finish
<1>6. \A w \in Used : Passed(q, w) => Passed(req[r], w)
  BY <1>1, <1>3 DEF Passed
<1>7. Counts(r, q)
  BY <1>3, <1>6, NothingCounted
<1> QED
  BY <1>3, <1>4, <1>5, <1>7, RequestStep DEF RequestsInv, TypeOK

LEMMA LimiterUnavailableOK ==
  ASSUME RequestsInv, NEW r \in Requests, LimiterUnavailable(r) PROVE RequestsInv'
BY FinishedAtLimit DEF LimiterUnavailable, Results

(* A run counts the request in all its windows and admits it, or refuses   *)
(* it, or is heard of by nobody.                                           *)
LEMMA RunOK ==
  ASSUME RequestsInv, shared, NEW r \in Requests, UnderWay(r),
         counter' = Increment(Keys(r)),
         UNCHANGED <<shared, windows, health, now, events, forgotten>>,
         \/ req[r].at = "limit" /\ (\A key \in Keys(r) : HasRoom(key)) /\ Admit(r, Run(r))
         \/ req[r].at = "limit" /\ Become(r, Ended(Run(r), "limited"))
         \/ req[r].runs < MaxResends /\ Become(r, Run(r))
  PROVE  RequestsInv'
<1>1. PICK p : p = Run(r)
  OBVIOUS
<1>2. /\ req[r] \in Request /\ LimitsOK(req[r]) /\ ScriptOK(req[r]) /\ AttemptsOK(req[r])
      /\ p \in Request /\ p.runs = req[r].runs + 1 /\ p.runs \in 1..MaxResends + 1
      /\ \A w \in Used : p.took[w] = Start(w, req[r].time) /\ p.took[w] # None
      /\ p.at = req[r].at /\ p.admitted = req[r].admitted /\ p.result = req[r].result
      /\ p.time = req[r].time /\ p.window = req[r].window
      /\ p.contacts = req[r].contacts /\ p.safe = req[r].safe
  BY <1>1, RunFacts
<1>3. counter' \in [Windows \X (0..MaxClock) -> Nat]
  BY IncrementType DEF RequestsInv
<1>4. ASSUME NEW q \in Request, Become(r, q), RequestOK(q), Counts(r, q) PROVE RequestsInv'
  BY <1>3, <1>4, RequestStep DEF RequestsInv, TypeOK
<1>5. req[r].at = "limit" => StillAtLimit(r, p)
  <2>1. req[r].at = "limit" => /\ ~req[r].admitted /\ req[r].result = None
                               /\ \A t \in Targets : req[r].contacts[t] = 0
    BY AtLimit
  <2> QED BY <1>2, <2>1 DEF StillAtLimit
<1>6. CASE req[r].at = "limit" /\ (\A key \in Keys(r) : HasRoom(key)) /\ Admit(r, Run(r))
  <2>1. PICK q : q = AdmittedAs(p)
    OBVIOUS
  <2>2. q \in Request /\ q.took = p.took /\ q.runs = p.runs /\ RequestOK(q)
    BY <1>2, <1>5, <1>6, <2>1, Admitting
  <2>3. Become(r, q)
    BY <1>1, <1>6, <2>1 DEF Admit, AdmittedAs
  <2>4. Counts(r, q)
    BY <1>1, <1>6, <2>2, RunCounts
  <2> QED BY <1>4, <2>2, <2>3, <2>4
<1>7. CASE req[r].at = "limit" /\ Become(r, Ended(Run(r), "limited"))
  <2>1. PICK q : q = Ended(p, "limited")
    OBVIOUS
  <2>2. /\ q \in Request /\ q.took = p.took /\ q.runs = p.runs /\ RequestOK(q)
        /\ \A w : ~Passed(q, w)
    BY <1>5, <1>7, <2>1, Limiting
  <2>3. Become(r, q)
    BY <1>1, <1>7, <2>1
  <2>4. Counts(r, q)
    BY <1>1, <2>2, RunCounts
  <2> QED BY <1>4, <2>2, <2>3, <2>4
<1>8. CASE req[r].runs < MaxResends /\ Become(r, Run(r))
  <2>1. ~p.admitted
    BY <1>2 DEF UnderWay, LimitsOK
  <2>2. LimitsOK(p)
    <3>1. p.at # "new"
      BY <1>2, GatewayAssumption DEF UnderWay, AttemptsOK, Results
    <3> QED BY <1>2, <2>1, <3>1 DEF LimitsOK
  <2>3. ScriptOK(p)
    <3>1. req[r].runs \in Nat
      BY <1>2, GatewayAssumption DEF Request
    <3>2. p.runs =< MaxResends /\ p.runs # 0
      BY <1>2, <1>8, <3>1, GatewayAssumption
    <3> QED BY <1>2, <3>2 DEF ScriptOK
  <2>4. AttemptsOK(p)
    <3>1. p.at \in {"limit", "done"}
      BY <1>2, GatewayAssumption DEF UnderWay, AttemptsOK, Request, Results
    <3> QED BY <1>2, <3>1 DEF AttemptsOK
  <2>5. \A w \in Used : ~Passed(p, w)
    BY <1>2, <2>1 DEF Passed, LimitsOK, Used
  <2>6. Counts(r, p)
    BY <1>1, <2>5, RunCounts
  <2> QED BY <1>1, <1>2, <1>4, <1>8, <2>2, <2>3, <2>4, <2>6 DEF RequestOK
<1> QED
  BY <1>6, <1>7, <1>8

LEMMA ConsumeAtomicOK ==
  ASSUME RequestsInv, NEW r \in Requests, ConsumeAtomic(r) PROVE RequestsInv'
<1>1. /\ shared /\ req[r].at = "limit" /\ UnderWay(r) /\ "limited" \in Results
      /\ UNCHANGED <<shared, windows, health, now, events, forgotten>>
  BY DEF ConsumeAtomic, Results, UnderWay
<1>2. CASE \A key \in Keys(r) : HasRoom(key)
  <2>1. counter' = Increment(Keys(r)) /\ Admit(r, Run(r))
    BY <1>2 DEF ConsumeAtomic, AllOrNone
  <2> QED BY <1>1, <1>2, <2>1, RunOK
<1>3. CASE ~\A key \in Keys(r) : HasRoom(key)
  <2>1. counter' = counter /\ Finish(r, "limited")
    BY <1>3 DEF ConsumeAtomic, AllOrNone
  <2> QED BY <1>1, <2>1, FinishedAtLimit
<1> QED
  BY <1>2, <1>3

LEMMA ConsumeOneOK ==
  ASSUME RequestsInv, NEW r \in Requests, ConsumeOne(r) PROVE RequestsInv'
<1>1. /\ shared /\ req[r].at = "limit" /\ UnderWay(r)
      /\ counter' = Increment(Keys(r))
      /\ UNCHANGED <<shared, windows, health, now, events, forgotten>>
  BY DEF ConsumeOne, UnderWay
<1>2. \/ (\A key \in Keys(r) : HasRoom(key)) /\ Admit(r, Run(r))
      \/ Become(r, Ended(Run(r), "limited"))
  BY DEF ConsumeOne
<1> QED
  BY <1>1, <1>2, RunOK

LEMMA RunUnheardOK ==
  ASSUME RequestsInv, NEW r \in Requests, RunUnheard(r) PROVE RequestsInv'
BY RunOK DEF RunUnheard

LEMMA ConsumeMemoryOK ==
  ASSUME RequestsInv, NEW r \in Requests, ConsumeMemory(r)
  PROVE  RequestsInv'
<1>1. /\ ~shared /\ windows > 0 /\ req[r].at = "limit"
      /\ UNCHANGED <<shared, windows, health, now, events, forgotten>>
  BY DEF ConsumeMemory
<1>2. /\ req[r] \in Request /\ LimitsOK(req[r]) /\ AttemptsOK(req[r])
      /\ ~req[r].admitted /\ req[r].result = None /\ windows \in Nat /\ Used \subseteq Windows
      /\ now \in 0..MaxClock /\ \A t \in Targets : req[r].contacts[t] = 0
  BY <1>1, AtLimit
<1>3. PICK w \in Used : w = req[r].window
  BY <1>1, <1>2 DEF LimitsOK, Request, Used
<1>4. PICK start \in 0..MaxClock : start = Start(w, now)
  BY <1>2, StartOfTime
<1>5. PICK took : took = [req[r].took EXCEPT ![w] = start]
  OBVIOUS
<1>6. req[r].took \in [Windows -> 0..MaxClock \cup {None}]
  BY <1>2 DEF Request
<1>7. /\ took \in [Windows -> 0..MaxClock \cup {None}]
      /\ \A v \in Windows : took[v] = IF v = w THEN start ELSE req[r].took[v]
  BY <1>2, <1>5, <1>6
<1>8. \A s \in 0..MaxClock : s # None
  BY GatewayAssumption
<1>9. \A v \in Windows : took[v] = None <=> v >= w + 1
  <2>1. \A v \in Windows : req[r].took[v] = None <=> v >= w
    BY <1>1, <1>2, <1>3 DEF LimitsOK
  <2>2. w \in Int /\ \A v \in Windows : v \in Int
    BY <1>2, GatewayAssumption DEF Windows
  <2> QED BY <1>7, <1>8, <2>1, <2>2
<1>10. PICK p : p = [req[r] EXCEPT !.took = took]
  OBVIOUS
<1>11. /\ StillAtLimit(r, p) /\ p.took = took /\ p.runs = req[r].runs /\ p.safe = req[r].safe
  BY <1>1, <1>2, <1>7, <1>10 DEF Request, StillAtLimit
<1>12. PICK keys : keys = {<<w, start>>}
  OBVIOUS
<1>13. /\ counter' = Increment(keys)
       /\ \/ ~HasRoom(<<w, start>>) /\ Become(r, Ended(p, "limited"))
          \/ HasRoom(<<w, start>>) /\ w = windows /\ Admit(r, p)
          \/ HasRoom(<<w, start>>) /\ w < windows /\ Become(r, [p EXCEPT !.window = w + 1])
  <2>1. p = [req[r] EXCEPT !.took[w] = start]
    BY <1>2, <1>5, <1>10 DEF Request
  <2> QED BY <1>3, <1>4, <1>12, <2>1 DEF ConsumeMemory
<1>14. counter' \in [Windows \X (0..MaxClock) -> Nat]
  BY <1>13, IncrementType DEF RequestsInv
<1>15. ASSUME NEW q \in Request, Become(r, q), RequestOK(q), q.took = took,
              Passed(q, w) => HasRoom(<<w, start>>),
              \A v \in Used : v # w /\ Passed(q, v) => Passed(req[r], v)
       PROVE  RequestsInv'
  <2>1. ASSUME NEW v \in Used, NEW s \in 0..MaxClock, ~Expired(v, s)
        PROVE  SameCount(r, q, v, s) \/ OneMore(r, q, v, s)
    <3>1. counter'[<<v, s>>] = IF <<v, s>> \in keys THEN counter[<<v, s>>] + 1
                               ELSE counter[<<v, s>>]
      BY <1>2, <1>13, <2>1, IncrementType DEF RequestsInv
    <3>2. q.took[v] = IF v = w THEN start ELSE req[r].took[v]
      BY <1>2, <1>7, <1>15
    <3>3. CASE v # w
      <4>1. counter'[<<v, s>>] = counter[<<v, s>>]
        BY <1>12, <3>1, <3>3
      <4>2. q.took[v] = s /\ Passed(q, v) => req[r].took[v] = s /\ Passed(req[r], v)
        BY <1>15, <3>2, <3>3
      <4> QED BY <1>1, <4>1, <4>2 DEF SameCount
    <3>4. CASE v = w /\ s # start
      <4>1. counter'[<<v, s>>] = counter[<<v, s>>]
        BY <1>12, <3>1, <3>4
      <4> QED BY <1>1, <3>2, <3>4, <4>1 DEF SameCount
    <3>5. CASE v = w /\ s = start
      <4>1. counter'[<<v, s>>] = counter[<<v, s>>] + 1
        BY <1>12, <3>1, <3>5
      <4>2. Passed(q, v) => counter[<<v, s>>] < Limit[v]
        BY <1>15, <2>1, <3>5 DEF HasRoom, Count
      <4> QED BY <1>1, <4>1, <4>2 DEF OneMore
    <3> QED BY <3>3, <3>4, <3>5
  <2>2. Counts(r, q)
    BY <2>1 DEF Counts
  <2> QED BY <1>1, <1>14, <1>15, <2>2, RequestStep DEF RequestsInv, TypeOK
<1>16. CASE ~HasRoom(<<w, start>>) /\ Become(r, Ended(p, "limited"))
  <2>1. PICK q : q = Ended(p, "limited")
    OBVIOUS
  <2>2. q \in Request /\ q.took = took /\ RequestOK(q) /\ \A v : ~Passed(q, v)
    BY <1>1, <1>11, <2>1, Limiting
  <2>3. Become(r, q)
    BY <1>16, <2>1
  <2> QED BY <1>15, <2>2, <2>3
<1>17. CASE HasRoom(<<w, start>>) /\ w = windows /\ Admit(r, p)
  <2>1. PICK q : q = AdmittedAs(p)
    OBVIOUS
  <2>2. \A v \in Used : p.took[v] # None
    BY <1>2, <1>9, <1>11, <1>17 DEF Used
  <2>3. q \in Request /\ q.took = took /\ RequestOK(q)
    BY <1>1, <1>11, <2>1, <2>2, Admitting
  <2>4. Become(r, q)
    BY <1>17, <2>1 DEF Admit, AdmittedAs
  <2>5. \A v \in Used : v # w => Passed(req[r], v)
    BY <1>1, <1>2, <1>3, <1>17 DEF Passed, Used
  <2> QED BY <1>15, <1>17, <2>3, <2>4, <2>5
<1>18. CASE HasRoom(<<w, start>>) /\ w < windows /\ Become(r, [p EXCEPT !.window = w + 1])
  <2>1. PICK q : q = [p EXCEPT !.window = w + 1]
    OBVIOUS
  <2>2. w + 1 \in 0..(WindowCount + 1) /\ w + 1 \in 1..windows /\ w \in Nat
    BY <1>2, <1>18, GatewayAssumption DEF Used, RequestsInv, TypeOK
  <2>3. p \in Request /\ q \in Request
    BY <1>11, <2>1, <2>2 DEF Request, StillAtLimit
  <2>4. /\ q.window = w + 1 /\ q.took = took /\ q.at = "limit" /\ ~q.admitted
        /\ q.time = req[r].time /\ q.result = None
        /\ \A t \in Targets : q.contacts[t] = 0
    BY <1>11, <2>1, <2>3 DEF Request, StillAtLimit
  <2>5. LimitsOK(q)
    <3>1. q.time =< now
      BY <1>2, <2>4 DEF LimitsOK
    <3>2. q.window >= 1 /\ q.window =< windows
      BY <1>2, <2>2, <2>4
    <3>3. \A v \in Windows : q.took[v] = None <=> v >= q.window
      BY <1>9, <2>4
    <3> QED BY <1>1, <2>4, <3>1, <3>2, <3>3 DEF LimitsOK
  <2>6. AttemptsOK(q)
    BY <2>4 DEF AttemptsOK
  <2>7. ScriptOK(q)
    BY <1>1 DEF ScriptOK
  <2>8. Become(r, q)
    BY <1>18, <2>1
  <2>9. \A v \in Used : v # w /\ Passed(q, v) => Passed(req[r], v)
    BY <1>1, <1>2, <1>3, <2>2, <2>4 DEF Passed, Used
  <2> QED BY <1>15, <1>18, <2>3, <2>4, <2>5, <2>6, <2>7, <2>8, <2>9 DEF RequestOK
<1> QED
  BY <1>13, <1>16, <1>17, <1>18

(* What the memory forgets is nobody's any more. *)
LEMMA ForgetCounted ==
  ASSUME RequestsInv, ~shared, NEW keys, keys \subseteq Windows \X (0..MaxClock), Forget(keys),
         UNCHANGED <<shared, windows, now>>,
         \A r \in Requests : /\ req'[r].took = req[r].took
                             /\ \A w \in Used : Passed(req'[r], w) => Passed(req[r], w)
  PROVE  /\ counter' \in [Windows \X (0..MaxClock) -> Nat]
         /\ forgotten' \subseteq Requests \X Windows
         /\ Counted'
<1>1. /\ counter \in [Windows \X (0..MaxClock) -> Nat]
      /\ forgotten \subseteq Requests \X Windows
  BY DEF RequestsInv, TypeOK
<1>2. counter' = [key \in Windows \X (0..MaxClock) |-> IF key \in keys THEN 0 ELSE counter[key]]
  BY <1>1 DEF Forget
<1>3. counter' \in [Windows \X (0..MaxClock) -> Nat] /\ forgotten' \subseteq Requests \X Windows
  BY <1>1, <1>2 DEF Forget
<1>4. ASSUME NEW w \in Used, NEW start \in 0..MaxClock, ~Expired(w, start)
      PROVE  /\ Cardinality(PassedAt(w, start)') =< counter'[<<w, start>>]
             /\ Cardinality(PassedAt(w, start)') =< Limit[w]
  <2>1. w \in Windows /\ Limit[w] \in Nat
    BY GatewayAssumption DEF Used, Windows, RequestsInv, TypeOK
  <2>2. PICK passed, passedAfter :
          passed = PassedAt(w, start) /\ passedAfter = PassedAt(w, start)'
    OBVIOUS
  <2>3. /\ Cardinality(passed) =< counter[<<w, start>>] /\ Cardinality(passed) =< Limit[w]
        /\ counter[<<w, start>>] \in Nat
    BY <1>1, <1>4, <2>1, <2>2 DEF RequestsInv, Counted
  <2>4. IsFiniteSet(passed)
    BY <2>2, FS_Subset, GatewayAssumption DEF PassedAt, Remembered
  <2>5. passedAfter \subseteq passed
    BY <2>2 DEF PassedAt, Remembered, Forget
  <2>6. CASE <<w, start>> \in keys
    <3>1. passedAfter = {}
      <4>1. \A r \in Requests : req[r].took[w] = start => <<r, w>> \in forgotten'
        BY <2>1, <2>6 DEF Forget
      <4> QED BY <2>2, <4>1 DEF PassedAt, Remembered
    <3>2. Cardinality(passedAfter) = 0
      BY <3>1, FS_EmptySet
    <3>3. counter'[<<w, start>>] = 0
      BY <1>2, <2>1, <2>6
    <3> QED BY <2>1, <2>2, <3>2, <3>3
  <2>7. CASE <<w, start>> \notin keys
    <3>1. counter'[<<w, start>>] = counter[<<w, start>>]
      BY <1>2, <2>1, <2>7
    <3>2. /\ Cardinality(passedAfter) \in Nat /\ Cardinality(passed) \in Nat
          /\ Cardinality(passedAfter) =< Cardinality(passed)
      BY <2>4, <2>5, FS_Subset, FS_CardinalityType
    <3> QED BY <2>1, <2>2, <2>3, <3>1, <3>2
  <2> QED BY <2>6, <2>7
<1>5. Counted'
  BY <1>4 DEF Counted, Used, Expired
<1> QED
  BY <1>3, <1>5

LEMMA EvictOK ==
  ASSUME RequestsInv, NEW key \in Windows \X (0..MaxClock), Evict(key) PROVE RequestsInv'
<1>1. /\ ~shared /\ Forget({key}) /\ UNCHANGED <<shared, windows, health, req, now>>
      /\ events' \in 0..MaxEvents
  BY GatewayAssumption DEF Evict, RequestsInv, TypeOK
<1>2. /\ counter' \in [Windows \X (0..MaxClock) -> Nat]
      /\ forgotten' \subseteq Requests \X Windows
      /\ Counted'
  BY <1>1, ForgetCounted
<1>3. TypeOK'
  BY <1>1, <1>2 DEF RequestsInv, TypeOK, Request
<1>4. RequestsOK'
  BY <1>1 DEF RequestsInv, RequestsOK, RequestOK, LimitsOK, ScriptOK, Away, AttemptsOK,
              Attempting, Used
<1> QED
  BY <1>2, <1>3, <1>4 DEF RequestsInv

(* An attempt, or the end of one, counts nothing. *)
LEMMA AttemptStep ==
  ASSUME RequestsInv, NEW r \in Requests, req[r].at \in {"order", "wait", "cancel"},
         NEW q \in Request, Become(r, q), q.took = req[r].took, q.runs = req[r].runs,
         RequestOK(q), UNCHANGED <<shared, windows, counter, now, events, forgotten>>,
         health' \in [Targets -> [failures : 0..MaxFailures,
                                  until : 0..MaxClock + EjectionMaximum]]
  PROVE  RequestsInv'
<1>1. req[r].admitted
  BY DEF RequestsInv, RequestsOK, RequestOK, LimitsOK
<1>2. \A w \in Used : Passed(q, w) => Passed(req[r], w)
  BY <1>1 DEF Passed
<1>3. Counts(r, q)
  BY <1>2, NothingCounted
<1> QED
  BY <1>3, RequestStep DEF RequestsInv, TypeOK

LEMMA Waiting ==
  ASSUME RequestsInv, NEW r \in Requests, req[r].at \in {"wait", "cancel"}
  PROVE  /\ req[r] \in Request /\ RequestOK(req[r])
         /\ LimitsOK(req[r]) /\ AttemptsOK(req[r])
         /\ req[r].order \in Seq(Targets) /\ Len(req[r].order) \in Nat
         /\ Attempting(req[r]) /\ req[r].result = None
         /\ Current(r) \in Targets
<1>1. req[r] \in Request /\ RequestOK(req[r]) /\ LimitsOK(req[r]) /\ AttemptsOK(req[r])
  BY DEF RequestsInv, RequestsOK, RequestOK, TypeOK
<1>2. Attempting(req[r]) /\ req[r].result = None
  BY <1>1 DEF AttemptsOK
<1>3. PICK order \in Seq(Targets) : order = req[r].order
  BY <1>1 DEF Request
<1>4. Len(order) \in Nat /\ \A i \in 1..Len(order) : order[i] \in Targets
  BY LenProperties, ElementOfSeq
<1>5. Current(r) \in Targets
  BY <1>2, <1>3, <1>4 DEF Current, Attempting
<1> QED
  BY <1>1, <1>2, <1>3, <1>4, <1>5

LEMMA AttemptEnds ==
  ASSUME RequestsInv, NEW r \in Requests, req[r].at \in {"wait", "cancel"},
         NEW result \in Results, Finish(r, result),
         UNCHANGED <<shared, windows, counter, now, events, forgotten>>,
         health' \in [Targets -> [failures : 0..MaxFailures,
                                  until : 0..MaxClock + EjectionMaximum]]
  PROVE  RequestsInv'
<1>1. req[r] \in Request /\ RequestOK(req[r])
  BY Waiting
<1>2. PICK q : q = Ended(req[r], result)
  OBVIOUS
<1>3. q \in Request /\ q.took = req[r].took /\ q.runs = req[r].runs
  BY <1>1, <1>2, EndedFacts
<1>4. RequestOK(q)
  BY <1>1, <1>2, EndedOK DEF RequestsInv
<1>5. Become(r, q)
  BY <1>2 DEF Finish
<1> QED
  BY <1>3, <1>4, <1>5, AttemptStep

LEMMA NextAttempt ==
  ASSUME RequestsInv, NEW r \in Requests, req[r].at \in {"wait", "cancel"},
         req[r].index # Len(req[r].order),
         Become(r, Contacting(req[r], req[r].order, req[r].index + 1)),
         UNCHANGED <<shared, windows, counter, now, events, forgotten>>,
         health' \in [Targets -> [failures : 0..MaxFailures,
                                  until : 0..MaxClock + EjectionMaximum]]
  PROVE  RequestsInv'
<1>1. /\ req[r] \in Request /\ LimitsOK(req[r]) /\ AttemptsOK(req[r])
      /\ Attempting(req[r]) /\ req[r].result = None
  BY Waiting
<1>2. PICK order \in Seq(Targets) : order = req[r].order /\ Len(order) \in Nat
  BY Waiting
<1>3. PICK i \in 1..Len(order) : i = req[r].index + 1 /\ i - 1 = req[r].index
  BY <1>1, <1>2 DEF Attempting
<1>4. /\ \A j, k \in 1..Len(order) : order[j] = order[k] => j = k
      /\ \A t \in Targets : req[r].contacts[t] = 1 <=> \E j \in 1..(i - 1) : order[j] = t
      /\ ~req[r].safe => Len(order) = 1
  BY <1>1, <1>2, <1>3 DEF Attempting
<1>5. PICK q : q = Contacting(req[r], order, i)
  OBVIOUS
<1>6. \A t \in Targets : req[r].contacts[t] \in {0, 1}
  BY <1>1 DEF AttemptsOK
<1>7. RequestOK(q)
  BY <1>1, <1>4, <1>5, <1>6, ContactingOK DEF RequestsInv
<1>8. q \in Request /\ q.took = req[r].took /\ q.runs = req[r].runs
  BY <1>1, <1>5, ContactingFacts
<1>9. Become(r, q)
  BY <1>2, <1>3, <1>5
<1> QED
  BY <1>7, <1>8, <1>9, AttemptStep

LEMMA OrderOK == ASSUME RequestsInv, NEW r \in Requests, Order(r) PROVE RequestsInv'
<1>1. PICK rotation \in Rotations :
        Become(r, Contacting(req[r], IF MayRetry(r) THEN rotation ELSE <<rotation[1]>>, 1))
  BY DEF Order
<1>2. PICK order : order = IF MayRetry(r) THEN rotation ELSE <<rotation[1]>>
  OBVIOUS
<1>3. /\ order \in Seq(Targets) /\ Len(order) \in Nat /\ 1 \in 1..Len(order)
      /\ \A j, k \in 1..Len(order) : order[j] = order[k] => j = k
      /\ ~req[r].safe => Len(order) = 1
  <2>1. /\ rotation \in Seq(Targets) /\ Len(rotation) \in Nat \ {0}
        /\ \A i, j \in 1..Len(rotation) : rotation[i] = rotation[j] => i = j
    BY RotationFacts
  <2>2. rotation[1] \in Targets
    BY <2>1, ElementOfSeq
  <2> QED BY <1>2, <2>1, <2>2 DEF MayRetry
<1>4. /\ req[r] \in Request /\ LimitsOK(req[r]) /\ AttemptsOK(req[r]) /\ req[r].at = "order"
      /\ UNCHANGED <<shared, windows, counter, health, now, events, forgotten>>
  BY DEF RequestsInv, RequestsOK, RequestOK, TypeOK, Order
<1>5. req[r].result = None /\ \A t \in Targets : req[r].contacts[t] = 0
  BY <1>4 DEF AttemptsOK
<1>6. PICK q : q = Contacting(req[r], order, 1)
  OBVIOUS
<1>7. /\ \A t \in Targets : req[r].contacts[t] \in {0, 1}
      /\ \A t \in Targets : req[r].contacts[t] = 1 <=> \E j \in 1..(1 - 1) : order[j] = t
  BY <1>5
<1>8. RequestOK(q)
  BY <1>3, <1>4, <1>5, <1>6, <1>7, ContactingOK DEF RequestsInv
<1>9. q \in Request /\ q.took = req[r].took /\ q.runs = req[r].runs
  BY <1>3, <1>4, <1>6, ContactingFacts
<1>10. Become(r, q)
  BY <1>1, <1>2, <1>6
<1> QED
  BY <1>4, <1>8, <1>9, <1>10, AttemptStep DEF RequestsInv, TypeOK

LEMMA AnswerOK ==
  ASSUME RequestsInv, NEW r \in Requests, NEW tokenRejected \in BOOLEAN,
         Answer(r, tokenRejected)
  PROVE  RequestsInv'
<1>1. req[r].at = "wait" /\ MarkResponsive(Current(r))
      /\ UNCHANGED <<shared, windows, counter, now, events, forgotten>>
  BY DEF Answer
<1>2. PICK result \in Results : Finish(r, result)
  BY DEF Answer, Results
<1>3. PICK t \in Targets : t = Current(r)
  BY <1>1, Waiting
<1>4. health' \in [Targets -> [failures : 0..MaxFailures, until : 0..MaxClock + EjectionMaximum]]
  BY <1>1, <1>3, HealthType DEF RequestsInv
<1> QED
  BY <1>1, <1>2, <1>4, AttemptEnds

LEMMA AnswerRetryableOK ==
  ASSUME RequestsInv, NEW r \in Requests, AnswerRetryable(r)
  PROVE  RequestsInv'
<1>1. req[r].at = "wait" /\ MarkUnavailable(Current(r))
      /\ UNCHANGED <<shared, windows, counter, now, events, forgotten>>
  BY DEF AnswerRetryable
<1>2. PICK t \in Targets : t = Current(r)
  BY <1>1, Waiting
<1>3. health' \in [Targets -> [failures : 0..MaxFailures, until : 0..MaxClock + EjectionMaximum]]
  BY <1>1, <1>2, HealthType DEF RequestsInv
<1>4. CASE IsLast(r)
  <2>1. Finish(r, "answered") /\ "answered" \in Results
    BY <1>4 DEF AnswerRetryable, Results
  <2> QED BY <1>1, <1>3, <2>1, AttemptEnds
<1>5. CASE ~IsLast(r)
  <2>1. PICK q : q = [req[r] EXCEPT !.at = "cancel"]
    OBVIOUS
  <2>2. /\ req[r] \in Request /\ LimitsOK(req[r]) /\ AttemptsOK(req[r])
        /\ Attempting(req[r]) /\ Len(req[r].order) \in Nat /\ req[r].result = None
    BY <1>1, Waiting
  <2>3. /\ q \in Request /\ q.at = "cancel" /\ q.order = req[r].order /\ q.index = req[r].index
        /\ q.took = req[r].took /\ q.runs = req[r].runs
        /\ q.admitted = req[r].admitted /\ q.time = req[r].time
        /\ q.contacts = req[r].contacts /\ q.safe = req[r].safe /\ q.result = req[r].result
    BY <2>1, <2>2 DEF Request
  <2>4. Become(r, q)
    BY <1>5, <2>1 DEF AnswerRetryable
  <2>5. LimitsOK(q)
    BY <1>1, <2>2, <2>3 DEF LimitsOK
  <2>6. Attempting(q)
    BY <1>5, <2>2, <2>3 DEF Attempting, IsLast
  <2>7. AttemptsOK(q)
    BY <1>1, <2>2, <2>3, <2>6 DEF AttemptsOK
  <2>8. ScriptOK(q)
    BY <1>1, <2>2, <2>3 DEF ScriptOK, Away, LimitsOK
  <2> QED BY <1>1, <1>3, <2>3, <2>4, <2>5, <2>7, <2>8, AttemptStep DEF RequestOK
<1> QED
  BY <1>4, <1>5

LEMMA BodyCancelledOK ==
  ASSUME RequestsInv, NEW r \in Requests, BodyCancelled(r) PROVE RequestsInv'
<1>1. req[r].at = "cancel" /\ Attempting(req[r]) /\ Len(req[r].order) \in Nat
  BY Waiting DEF BodyCancelled
<1>2. req[r].index # Len(req[r].order)
  BY <1>1 DEF Attempting
<1> QED
  BY <1>1, <1>2, NextAttempt DEF BodyCancelled, RequestsInv, TypeOK

LEMMA AttemptFailsOK ==
  ASSUME RequestsInv, NEW r \in Requests, NEW timedOut \in BOOLEAN, AttemptFails(r, timedOut)
  PROVE  RequestsInv'
<1>1. req[r].at = "wait" /\ MarkUnavailable(Current(r))
      /\ UNCHANGED <<shared, windows, counter, now, events, forgotten>>
  BY DEF AttemptFails
<1>2. PICK t \in Targets : t = Current(r)
  BY <1>1, Waiting
<1>3. health' \in [Targets -> [failures : 0..MaxFailures, until : 0..MaxClock + EjectionMaximum]]
  BY <1>1, <1>2, HealthType DEF RequestsInv
<1>4. CASE ~MayRetry(r) \/ IsLast(r)
  <2>1. PICK result \in Results : Finish(r, result)
    BY <1>4 DEF AttemptFails, Results
  <2> QED BY <1>1, <1>3, <2>1, AttemptEnds
<1>5. CASE ~(~MayRetry(r) \/ IsLast(r))
  <2>1. Become(r, Contacting(req[r], req[r].order, req[r].index + 1))
    BY <1>5 DEF AttemptFails
  <2>2. req[r].index # Len(req[r].order)
    BY <1>5 DEF IsLast
  <2> QED BY <1>1, <1>3, <2>1, <2>2, NextAttempt
<1> QED
  BY <1>4, <1>5

LEMMA AbortOK == ASSUME RequestsInv, NEW r \in Requests, Abort(r) PROVE RequestsInv'
<1>1. req[r].at \in {"wait", "cancel"}
      /\ UNCHANGED <<shared, windows, counter, health, now, events, forgotten>>
  BY DEF Abort
<1>2. PICK q : q = [req[r] EXCEPT !.aborted = TRUE]
  OBVIOUS
<1>3. req[r] \in Request /\ LimitsOK(req[r]) /\ AttemptsOK(req[r])
  BY <1>1, Waiting
<1>4. /\ q \in Request /\ q.at = req[r].at /\ q.order = req[r].order /\ q.index = req[r].index
      /\ q.took = req[r].took /\ q.runs = req[r].runs /\ q.admitted = req[r].admitted
      /\ q.time = req[r].time /\ q.window = req[r].window
      /\ q.contacts = req[r].contacts /\ q.safe = req[r].safe /\ q.result = req[r].result
  BY <1>2, <1>3 DEF Request
<1>5. LimitsOK(q)
  BY <1>3, <1>4 DEF LimitsOK
<1>6. AttemptsOK(q)
  BY <1>3, <1>4 DEF AttemptsOK, Attempting
<1>7. Become(r, q)
  BY <1>2 DEF Abort
<1>8. ScriptOK(q)
  BY <1>1, <1>3, <1>4 DEF ScriptOK, Away, LimitsOK
<1> QED
  BY <1>1, <1>4, <1>5, <1>6, <1>7, <1>8, AttemptStep DEF RequestOK, RequestsInv, TypeOK

LEMMA AttemptAbortedOK ==
  ASSUME RequestsInv, NEW r \in Requests, AttemptAborted(r) PROVE RequestsInv'
BY AttemptEnds DEF AttemptAborted, Results, RequestsInv, TypeOK

LEMMA CountedStays ==
  ASSUME Counted, UNCHANGED <<shared, windows, counter, req, now, forgotten>>
  PROVE  Counted'
<1>1. Used' = Used
  BY DEF Used
<1>2. \A w, start : /\ PassedAt(w, start)' = PassedAt(w, start)
                    /\ RunsAt(w, start)' = RunsAt(w, start)
                    /\ Expired(w, start)' <=> Expired(w, start)
  BY DEF PassedAt, Remembered, RunsAt, Expired
<1> QED
  BY <1>1, <1>2 DEF Counted

LEMMA ProbeOK ==
  ASSUME RequestsInv, NEW t \in Targets, NEW online \in BOOLEAN, Probe(t, online)
  PROVE  RequestsInv'
<1>1. UNCHANGED <<shared, windows, counter, req, now, forgotten>> /\ events' \in 0..MaxEvents
  BY GatewayAssumption DEF Probe, RequestsInv, TypeOK
<1>2. health' \in [Targets -> [failures : 0..MaxFailures, until : 0..MaxClock + EjectionMaximum]]
  BY HealthType DEF Probe, RequestsInv
<1>3. TypeOK'
  BY <1>1, <1>2 DEF RequestsInv, TypeOK, Request
<1>4. Counted'
  BY <1>1, CountedStays DEF RequestsInv
<1>5. RequestsOK'
  BY <1>1 DEF RequestsInv, RequestsOK, RequestOK, LimitsOK, ScriptOK, Away, AttemptsOK,
              Attempting, Used
<1> QED
  BY <1>3, <1>4, <1>5 DEF RequestsInv

(* What a restart leaves of a request. *)
LEMMA RestartFacts ==
  ASSUME RequestsInv, Restart, NEW r \in Requests
  PROVE  /\ req'[r] \in Request /\ RequestOK(req'[r])
         /\ req'[r].took = req[r].took /\ req'[r].runs = req[r].runs
         /\ \A w : Passed(req'[r], w) => Passed(req[r], w)
<1>1. req[r] \in Request /\ RequestOK(req[r]) /\ LimitsOK(req[r]) /\ AttemptsOK(req[r])
  BY DEF RequestsInv, RequestsOK, RequestOK, TypeOK
<1>2. req'[r] = IF req[r].at \in {"new", "done"} THEN req[r] ELSE Ended(req[r], "lost")
  BY DEF Restart
<1>3. CASE req[r].at \in {"new", "done"}
  BY <1>1, <1>2, <1>3
<1>4. CASE req[r].at \notin {"new", "done"}
  <2>1. "lost" \in Results /\ req[r].at \in {"limit", "order", "wait", "cancel"}
    BY <1>1, <1>4 DEF Results, Request
  <2>2. PICK e : e = Ended(req[r], "lost")
    OBVIOUS
  <2>3. /\ e \in Request /\ e.at = "done" /\ e.admitted = req[r].admitted
        /\ e.took = req[r].took /\ e.runs = req[r].runs
    BY <1>1, <2>1, <2>2, EndedFacts
  <2>4. RequestOK(e)
    BY <1>1, <2>1, <2>2, EndedOK DEF RequestsInv
  <2>5. \A w : Passed(e, w) => Passed(req[r], w)
    BY <2>3 DEF Passed
  <2>6. req'[r] = e
    BY <1>2, <1>4, <2>2
  <2> QED BY <2>3, <2>4, <2>5, <2>6
<1> QED
  BY <1>3, <1>4

LEMMA RestartOK == ASSUME RequestsInv, Restart PROVE RequestsInv'
<1>1. /\ UNCHANGED <<shared, windows, now>> /\ events' \in 0..MaxEvents
      /\ health' = [t \in Targets |-> Healthy]
      /\ IF shared THEN UNCHANGED <<counter, forgotten>> ELSE Forget(DOMAIN counter)
  BY GatewayAssumption DEF Restart, RequestsInv, TypeOK
<1>2. ASSUME NEW r \in Requests
      PROVE  /\ req'[r] \in Request /\ RequestOK(req'[r])
             /\ req'[r].took = req[r].took /\ req'[r].runs = req[r].runs
             /\ \A w : Passed(req'[r], w) => Passed(req[r], w)
  BY RestartFacts
<1>3. /\ counter' \in [Windows \X (0..MaxClock) -> Nat]
      /\ forgotten' \subseteq Requests \X Windows
      /\ Counted'
  <2>1. CASE ~shared
    <3>1. PICK keys : keys = DOMAIN counter
      OBVIOUS
    <3>2. keys \subseteq Windows \X (0..MaxClock)
      BY <3>1 DEF RequestsInv, TypeOK
    <3>3. Forget(keys)
      BY <1>1, <2>1, <3>1
    <3> QED BY <1>1, <1>2, <2>1, <3>2, <3>3, ForgetCounted
  <2>2. CASE shared
    <3>1. /\ UNCHANGED <<shared, windows, now, counter, forgotten>>
          /\ counter \in [Windows \X (0..MaxClock) -> Nat]
          /\ forgotten \subseteq Requests \X Windows
      BY <1>1, <2>2 DEF RequestsInv, TypeOK
    <3>2. ASSUME NEW w \in Used, NEW start \in 0..MaxClock, ~Expired(w, start)
          PROVE  /\ Cardinality(PassedAt(w, start)') =< counter[<<w, start>>]
                 /\ Cardinality(PassedAt(w, start)') =< Limit[w]
                 /\ counter[<<w, start>>] = Cardinality(RunsAt(w, start)')
      <4>1. w \in Windows /\ Limit[w] \in Nat /\ counter[<<w, start>>] \in Nat
        BY <3>1, GatewayAssumption DEF Used, Windows, RequestsInv, TypeOK
      <4>2. PICK passed, passedAfter :
              passed = PassedAt(w, start) /\ passedAfter = PassedAt(w, start)'
        OBVIOUS
      <4>3. /\ Cardinality(passed) =< counter[<<w, start>>]
            /\ Cardinality(passed) =< Limit[w]
            /\ counter[<<w, start>>] = Cardinality(RunsAt(w, start))
        BY <2>2, <3>2, <4>2 DEF RequestsInv, Counted
      <4>4. passedAfter \subseteq passed
        BY <1>2, <3>1, <4>2 DEF PassedAt, Remembered
      <4>5. IsFiniteSet(passed)
        BY <4>2, FS_Subset, GatewayAssumption DEF PassedAt, Remembered
      <4>6. /\ Cardinality(passedAfter) \in Nat /\ Cardinality(passed) \in Nat
            /\ Cardinality(passedAfter) =< Cardinality(passed)
        BY <4>4, <4>5, FS_Subset, FS_CardinalityType
      <4>7. RunsAt(w, start)' = RunsAt(w, start)
        <5>1. \A run \in Requests \X (1..MaxResends + 1) :
                /\ req'[run[1]].took = req[run[1]].took
                /\ req'[run[1]].runs = req[run[1]].runs
          BY <1>2
        <5> QED BY <5>1 DEF RunsAt
      <4> QED BY <4>1, <4>2, <4>3, <4>6, <4>7
    <3> QED BY <3>1, <3>2 DEF Counted, Used, Expired
  <2> QED BY <2>1, <2>2
<1>4. TypeOK'
  <2>1. health' \in [Targets -> [failures : 0..MaxFailures,
                                 until : 0..MaxClock + EjectionMaximum]]
    <3>1. 0 \in 0..MaxFailures /\ 0 \in 0..MaxClock + EjectionMaximum
      BY GatewayAssumption
    <3> QED BY <1>1, <3>1 DEF Healthy
  <2>2. req' \in [Requests -> Request]
    <3>1. DOMAIN req' = Requests /\ req' = [r \in Requests |-> req'[r]]
      BY DEF Restart
    <3> QED BY <1>2, <3>1
  <2>3. Request' = Request
    BY DEF Request
  <2> QED BY <1>1, <1>3, <2>1, <2>2, <2>3 DEF RequestsInv, TypeOK
<1>5. ASSUME NEW r \in Requests PROVE RequestOK(req[r])'
  BY <1>1, <1>2, RequestAfter
<1> QED
  BY <1>3, <1>4, <1>5 DEF RequestsInv, RequestsOK

(* A counter that lasts after the tick lasted before it. *)
LEMMA TickOK == ASSUME RequestsInv, Tick PROVE RequestsInv'
<1>1. /\ UNCHANGED <<shared, windows, counter, health, req, events, forgotten>>
      /\ now' = now + 1 /\ now' \in 0..MaxClock /\ now \in Nat
  BY GatewayAssumption DEF Tick, RequestsInv, TypeOK
<1>2. TypeOK'
  BY <1>1 DEF RequestsInv, TypeOK, Request
<1>3. Counted'
  <2>1. ASSUME NEW w \in Used, NEW start \in 0..MaxClock, ~Expired(w, start)'
        PROVE  ~Expired(w, start)
    <3>1. w \in Windows /\ Length[w] \in Nat
      BY GatewayAssumption DEF Used, Windows, RequestsInv, TypeOK
    <3> QED BY <1>1, <2>1, <3>1, GatewayAssumption DEF Expired
  <2>2. \A w, start : /\ PassedAt(w, start)' = PassedAt(w, start)
                      /\ RunsAt(w, start)' = RunsAt(w, start)
    BY <1>1 DEF PassedAt, Remembered, RunsAt
  <2>3. Used' = Used
    BY <1>1 DEF Used
  <2>4. \A w \in Used, start \in 0..MaxClock : ~Expired(w, start)' => ~Expired(w, start)
    BY <2>1
  <2> QED BY <1>1, <2>2, <2>3, <2>4 DEF RequestsInv, Counted
<1>4. ASSUME NEW r \in Requests PROVE RequestOK(req[r])'
  <2>1. PICK q \in Request : q = req[r]
    BY DEF RequestsInv, TypeOK
  <2>2. LimitsOK(q) /\ ScriptOK(q) /\ AttemptsOK(q)
    BY <2>1 DEF RequestsInv, RequestsOK, RequestOK
  <2>3. q.time =< now'
    BY <1>1, <2>2, GatewayAssumption DEF LimitsOK, Request
  <2>4. LimitsOK(req[r])'
    BY <1>1, <2>1, <2>2, <2>3 DEF LimitsOK, Used
  <2>5. ScriptOK(req[r])'
    BY <1>1, <2>1, <2>2 DEF ScriptOK, Away, Used
  <2>6. AttemptsOK(req[r])'
    BY <1>1, <2>1, <2>2 DEF AttemptsOK, Attempting
  <2> QED BY <2>4, <2>5, <2>6 DEF RequestOK
<1> QED
  BY <1>2, <1>3, <1>4 DEF RequestsInv, RequestsOK

LEMMA StepOK == RequestsInv /\ [Next]_vars => RequestsInv'
<1> SUFFICES ASSUME RequestsInv, [Next]_vars PROVE RequestsInv'
  OBVIOUS
<1>1. CASE UNCHANGED vars
  <2>1. TypeOK'
    BY <1>1 DEF vars, RequestsInv, TypeOK, Request
  <2>2. Counted'
    BY <1>1, CountedStays DEF vars, RequestsInv
  <2>3. RequestsOK'
    BY <1>1 DEF vars, RequestsInv, RequestsOK, RequestOK, LimitsOK, ScriptOK, Away,
                AttemptsOK, Attempting, Used
  <2> QED BY <2>1, <2>2, <2>3 DEF RequestsInv
<1>2. \A r \in Requests :
        /\ Arrive(r) \/ Unlimited(r) \/ ConsumeAtomic(r) \/ ConsumeOne(r) => RequestsInv'
        /\ RunUnheard(r) \/ LimiterUnavailable(r) \/ ConsumeMemory(r) => RequestsInv'
  BY ArriveOK, UnlimitedOK, ConsumeAtomicOK, ConsumeOneOK, RunUnheardOK,
     LimiterUnavailableOK, ConsumeMemoryOK
<1>3. \A r \in Requests :
        /\ Order(r) \/ AnswerRetryable(r) \/ BodyCancelled(r) \/ Abort(r) \/ AttemptAborted(r)
             => RequestsInv'
        /\ \A flag \in BOOLEAN : Answer(r, flag) \/ AttemptFails(r, flag) => RequestsInv'
  BY OrderOK, AnswerOK, AnswerRetryableOK, BodyCancelledOK, AttemptFailsOK, AbortOK,
     AttemptAbortedOK
<1>4. \A w \in Windows, start \in 0..MaxClock : Evict(<<w, start>>) => RequestsInv'
  <2> TAKE w \in Windows, start \in 0..MaxClock
  <2>1. PICK key \in Windows \X (0..MaxClock) : key = <<w, start>>
    OBVIOUS
  <2> QED BY <2>1, EvictOK
<1>5. CASE Next
  BY <1>2, <1>3, <1>4, <1>5, ProbeOK, RestartOK, TickOK DEF Next
<1> QED
  BY <1>1, <1>5

-----------------------------------------------------------------------------
(* Theorems *)

LEMMA Invariance == Spec => []RequestsInv
BY InitOK, StepOK, PTL DEF Spec

(* Health, counters and requests keep their types: failures stay within    *)
(* their bound, and an ejection, doubled with each failure, within its     *)
(* maximum (markTargetUnavailable).                                        *)
THEOREM RequestsTypeCorrect == Spec => []TypeOK
<1>1. RequestsInv => TypeOK
  BY DEF RequestsInv
<1> QED
  BY <1>1, Invariance, PTL

(* With Redis, no window admits more requests than its limit, whatever     *)
(* scripts run late, several times or for requests refused meanwhile, and  *)
(* a counter that lasts is the number of the runs that counted a request   *)
(* (the scripts).  In memory, which is lost with the process and gives up  *)
(* counters when it is full, no window admits more between two losses of   *)
(* its counter (memoryRateLimiter).                                        *)
THEOREM NeverBeyondLimits == Spec => []WithinLimits
<1>1. RequestsInv => WithinLimits
  <2> SUFFICES ASSUME RequestsInv, NEW w \in Used, NEW start \in 0..MaxClock, ~Expired(w, start)
               PROVE  /\ Cardinality(Admitted(w, start) \cap Remembered(w)) =< Limit[w]
                      /\ shared => counter[<<w, start>>] = Cardinality(RunsAt(w, start))
    BY DEF WithinLimits
  <2>1. /\ shared => counter[<<w, start>>] = Cardinality(RunsAt(w, start))
        /\ Cardinality(PassedAt(w, start)) =< Limit[w]
    BY DEF RequestsInv, Counted
  <2>2. PICK admitted : admitted = Admitted(w, start) \cap Remembered(w)
    OBVIOUS
  <2>3. admitted \subseteq PassedAt(w, start)
    BY <2>2 DEF Admitted, PassedAt, Passed
  <2>4. IsFiniteSet(PassedAt(w, start))
    BY FS_Subset, GatewayAssumption DEF PassedAt, Remembered
  <2>5. /\ Cardinality(admitted) \in Nat /\ Cardinality(PassedAt(w, start)) \in Nat
        /\ Cardinality(admitted) =< Cardinality(PassedAt(w, start))
    BY <2>3, <2>4, FS_Subset, FS_CardinalityType
  <2>6. Limit[w] \in Nat
    BY GatewayAssumption DEF Used, Windows, RequestsInv, TypeOK
  <2> QED BY <2>1, <2>2, <2>5, <2>6
<1> QED
  BY <1>1, Invariance, PTL

(* No target is contacted twice for a request, none before it is counted   *)
(* in every window, and one alone for a request that may not be repeated   *)
(* (createGatewayProxyFetch).                                              *)
THEOREM NeverContactedTwice == Spec => []ContactedOnce
<1>1. RequestsInv => ContactedOnce
  <2> SUFFICES ASSUME RequestsInv, NEW r \in Requests,
                      NEW contacted, contacted = {t \in Targets : req[r].contacts[t] > 0}
               PROVE  /\ \A t \in Targets : req[r].contacts[t] =< 1
                      /\ contacted # {} => req[r].admitted /\ \A w \in Used : req[r].took[w] # None
                      /\ ~req[r].safe => Cardinality(contacted) =< 1
    BY DEF ContactedOnce
  <2>1. LimitsOK(req[r]) /\ AttemptsOK(req[r])
    BY DEF RequestsInv, RequestsOK, RequestOK
  <2>2. \A t \in Targets : req[r].contacts[t] \in {0, 1}
    BY <2>1 DEF AttemptsOK
  <2>3. \A t \in contacted : t \in Targets /\ req[r].contacts[t] = 1
    BY <2>2
  <2>4. contacted # {} => req[r].admitted /\ \A w \in Used : req[r].took[w] # None
    BY <2>1, <2>3 DEF AttemptsOK, LimitsOK
  <2>5. ASSUME ~req[r].safe PROVE Cardinality(contacted) =< 1
    <3>1. CASE contacted = {}
      BY <3>1, FS_EmptySet
    <3>2. CASE contacted # {}
      <4>1. PICK t : t \in contacted
        BY <3>2
      <4>2. contacted = {t}
        BY <2>1, <2>3, <2>5, <4>1 DEF AttemptsOK
      <4> QED BY <4>2, FS_Singleton
    <3> QED BY <3>1, <3>2
  <2> QED BY <2>2, <2>4, <2>5
<1> QED
  BY <1>1, Invariance, PTL

(* Only its own actions, and the end of its process, change a waiting      *)
(* request.                                                                *)
LEMMA WhoMoves ==
  ASSUME TypeOK, [Next]_vars, NEW r \in Requests,
         req[r].at = "wait", req[r].result = None, req'[r] # req[r]
  PROVE  \/ \E tokenRejected \in BOOLEAN : Answer(r, tokenRejected)
         \/ AnswerRetryable(r)
         \/ \E timedOut \in BOOLEAN : AttemptFails(r, timedOut)
         \/ Abort(r)
         \/ AttemptAborted(r)
         \/ Restart
<1>1. \A s \in Requests : \A q : Become(s, q) => s = r
  BY DEF Become, TypeOK
<1>2. \A s \in Requests : ~Arrive(s) /\ ~Unlimited(s) /\ ~LimiterUnavailable(s)
                          /\ ~Order(s) /\ ~BodyCancelled(s)
  BY <1>1 DEF Arrive, Unlimited, LimiterUnavailable, Order, BodyCancelled, Admit, Finish
<1>3. \A s \in Requests : ~ConsumeAtomic(s) /\ ~ConsumeOne(s)
  BY <1>1 DEF ConsumeAtomic, ConsumeOne, Admit, Finish
<1>4. \A s \in Requests : ~ConsumeMemory(s)
  BY <1>1 DEF ConsumeMemory, Admit
<1>5. \A s \in Requests : ~RunUnheard(s)
  <2>1. ~UnderWay(r)
    BY GatewayAssumption DEF UnderWay, Results
  <2> QED BY <1>1, <2>1 DEF RunUnheard
<1>6. \A s \in Requests :
        /\ \A tokenRejected \in BOOLEAN : Answer(s, tokenRejected) => s = r
        /\ AnswerRetryable(s) => s = r
        /\ \A timedOut \in BOOLEAN : AttemptFails(s, timedOut) => s = r
        /\ Abort(s) => s = r
        /\ AttemptAborted(s) => s = r
  BY <1>1 DEF Answer, AnswerRetryable, AttemptFails, Abort, AttemptAborted, Finish
<1>7. /\ ~Tick /\ ~UNCHANGED vars /\ \A t \in Targets, online \in BOOLEAN : ~Probe(t, online)
      /\ \A w \in Windows, start \in 0..MaxClock : ~Evict(<<w, start>>)
  BY DEF Tick, vars, Probe, Evict
<1> QED
  BY <1>2, <1>3, <1>4, <1>5, <1>6, <1>7 DEF Next

(* A request that may be repeated is given up after its last candidate     *)
(* only (createGatewayProxyFetch).                                         *)
THEOREM NeverGivesUpEarly == Spec => GivesUpLast
<1>1. ASSUME RequestsInv, [Next]_vars, NEW r \in Requests,
             req[r].safe, req[r].at = "wait", req'[r].result \in {"timeout", "unreachable"},
             NEW i \in DOMAIN req[r].order
      PROVE  req[r].contacts[req[r].order[i]] = 1
  <2>1. /\ req[r] \in Request /\ Attempting(req[r]) /\ req[r].result = None
        /\ req[r].order \in Seq(Targets)
    BY <1>1, Waiting
  <2>2. req[r].result \notin {"timeout", "unreachable"} /\ req'[r] # req[r]
    BY <1>1, <2>1, GatewayAssumption DEF Results
  <2>3. \A q : Become(r, q) => req'[r] = q
    BY <1>1 DEF Become, RequestsInv, TypeOK
  <2>4. ASSUME NEW result \in Results, Finish(r, result)
        PROVE  req'[r].result = result
    <3>1. PICK q : q = Ended(req[r], result)
      OBVIOUS
    <3>2. q.result = result
      BY <2>1, <3>1 DEF Ended, Request
    <3>3. Become(r, q)
      BY <2>4, <3>1 DEF Finish
    <3> QED BY <2>3, <3>2, <3>3
  <2>5. \A tokenRejected \in BOOLEAN : ~Answer(r, tokenRejected)
    BY <1>1, <2>4 DEF Answer, Results
  <2>6. ~AnswerRetryable(r) /\ ~Abort(r) /\ ~AttemptAborted(r) /\ ~Restart
    <3>1. ~AttemptAborted(r)
      BY <1>1, <2>4 DEF AttemptAborted, Results
    <3>2. ~Abort(r)
      BY <1>1, <2>1, <2>2, <2>3 DEF Abort, Request
    <3>3. ~AnswerRetryable(r)
      BY <1>1, <2>1, <2>2, <2>3, <2>4 DEF AnswerRetryable, Results, Request
    <3>4. ~Restart
      <4>1. Restart => req'[r] = Ended(req[r], "lost")
        BY <1>1 DEF Restart
      <4>2. Ended(req[r], "lost").result = "lost"
        BY <2>1, EndedFacts DEF Results
      <4> QED BY <1>1, <4>1, <4>2
    <3> QED BY <3>1, <3>2, <3>3, <3>4
  <2>7. PICK timedOut \in BOOLEAN : AttemptFails(r, timedOut)
    BY <1>1, <2>1, <2>2, <2>5, <2>6, WhoMoves DEF RequestsInv
  <2>8. IsLast(r)
    <3> SUFFICES ASSUME ~IsLast(r) PROVE FALSE
      OBVIOUS
    <3>1. PICK q : q = Contacting(req[r], req[r].order, req[r].index + 1)
      OBVIOUS
    <3>2. q.result = req[r].result
      BY <2>1, <3>1 DEF Contacting, Request
    <3>3. Become(r, q)
      BY <1>1, <2>7, <3>1 DEF AttemptFails, MayRetry
    <3> QED BY <1>1, <2>2, <2>3, <3>2, <3>3
  <2>9. PICK order \in Seq(Targets) : order = req[r].order
    BY <2>1
  <2>10. i \in 1..Len(order) /\ order[i] \in Targets
    BY <2>9, LenProperties, ElementOfSeq
  <2>11. i \in 1..req[r].index
    BY <2>8, <2>9, <2>10 DEF IsLast
  <2> QED BY <2>1, <2>9, <2>10, <2>11 DEF Attempting
<1>2. RequestsInv /\ [Next]_vars =>
        [\A r \in Requests :
           req[r].safe /\ req[r].at = "wait" /\ req'[r].result \in {"timeout", "unreachable"}
           => \A i \in DOMAIN req[r].order : req[r].contacts[req[r].order[i]] = 1]_vars
  BY <1>1
<1> QED
  BY <1>2, Invariance, PTL DEF Spec, GivesUpLast

=============================================================================
