------------------------ MODULE RoutingRuntimeProofs ------------------------
(***************************************************************************)
(* What holds of the routes an instance keeps in memory for any number of  *)
(* requests, any cache lifetime and any stale window.                      *)
(*                                                                         *)
(* At most one load is in flight (OneLoad), so what it has read is never   *)
(* older than what is cached (InOrder): that gives the refinement.  A      *)
(* cache or a load of the current generation is as new as the latest       *)
(* announcement (Announced), and what is cached was still active when it   *)
(* was loaded (Dated): those give the three bounds on answers.             *)
(***************************************************************************)
EXTENDS RoutingRuntime, TLAPS

InFlight(q) == load[q].at # "none"

OneLoad ==
  /\ \A q \in Requests : InFlight(q) => runtimeLoad = q
  /\ runtimeLoad # None => InFlight(runtimeLoad)
  /\ \A r \in Requests : ~Idle(r) => request[r].load = runtimeLoad

InOrder ==
  /\ shown =< active
  /\ cache # None => cache.version = shown
  /\ \A q \in Requests : load[q].at = "read" => load[q].version \in shown..active

Announced ==
  /\ \A v \in uninvalidated : v =< active
  /\ announced =< active
  /\ cache # None => cache.generation =< generation
  /\ cache # None /\ cache.generation = generation => cache.version >= announced
  /\ \A q \in Requests :
       /\ load[q].at # "none" => load[q].generation =< generation
       /\ load[q].at = "read" /\ load[q].generation = generation
            => load[q].version >= announced
       /\ request[q].due =< announced
  /\ \A q, r \in Requests :
       request[r].load = q /\ load[q].at = "read" => load[q].version >= request[r].due

(* When the cached routes were read. *)
ReadAt == cache.staleUntil - (IF cache.version = 0 THEN 0 ELSE MaxStale)

Dated ==
  /\ cache # None =>
       /\ ReadAt =< clock
       /\ cache.version < active => replacedAt[cache.version] >= ReadAt
       /\ ~cache.extended => cache.expiresAt =< ReadAt + CacheTTL
       /\ cache.extended => cache.expiresAt < ReadAt + MaxStale + CacheTTL
  /\ \A q \in Requests :
       /\ InFlight(q) => load[q].now =< clock
       /\ load[q].at = "read" /\ load[q].version < active
            => replacedAt[load[q].version] >= load[q].now
       /\ request[q].calledAt =< clock

IInv == TypeOK /\ OneLoad /\ InOrder /\ Announced /\ Dated

AnswersRight == PublishedIsServed /\ AnswersRecent /\ OverrunBounded

-----------------------------------------------------------------------------
LEMMA Numbers ==
  /\ CacheTTL \in Nat /\ MaxStale \in Nat
  /\ MaxVersion \in Nat /\ MaxClock \in Nat
  /\ CacheTTL > 0 /\ CacheTTL < MaxStale
  /\ None \notin Requests
BY RuntimeAssumption

LEMMA InitTypeOK == Init => TypeOK
BY Numbers DEF Init, TypeOK, Versions, Times, Load, Request, NoLoad, NoRequest, Cache

(* What is answered from a call has the type of an answer. *)
LEMMA AnswerType ==
  ASSUME TypeOK, NEW call \in Request, NEW version \in Versions, NEW since \in Times,
         NEW source \in {"cache", "extended", "load", "stale", "unavailable"}
  PROVE  AnswerTo(call, version, source, since) \in AnswerGiven
BY DEF AnswerTo, AnswerGiven, Request

LEMMA CalledType == TypeOK => Called \in Request
<1> SUFFICES ASSUME TypeOK PROVE Called \in Request
  OBVIOUS
<1>1. Due \in Versions
  <2>1. announced \in Versions /\ 0 \in Versions
    BY Numbers DEF TypeOK, Versions
  <2> QED
    BY <2>1 DEF Due
<1>2. NoRequest \in Request
  BY Numbers DEF NoRequest, Request, Times, Versions
<1>3. clock \in Times
  BY DEF TypeOK
<1> QED
  BY <1>1, <1>2, <1>3 DEF Called, Request

(* Answering those who wait for a load keeps the types. *)
LEMMA AnsweredTypes ==
  ASSUME TypeOK, NEW q \in Requests, NEW version \in Versions,
         NEW source \in {"load", "stale", "unavailable"}, Answer(q, version, source)
  PROVE  answers' \subseteq AnswerGiven /\ request' \in [Requests -> Request]
<1>1. \A r \in Requests : request[r] \in Request
  BY DEF TypeOK
<1>2. ASSUME NEW r \in Requests
      PROVE  AnswerTo(request[r], version, source, load[q].now) \in AnswerGiven
  <2>1. PICK since \in Times : since = load[q].now
    BY DEF TypeOK, Load
  <2>2. PICK call \in Request : call = request[r]
    BY <1>1
  <2>3. AnswerTo(call, version, source, since) \in AnswerGiven
    BY AnswerType
  <2> QED BY <2>1, <2>2, <2>3
<1>3. NoRequest \in Request
  BY Numbers DEF NoRequest, Request, Times, Versions
<1> QED
  BY <1>1, <1>2, <1>3 DEF Answer, Waiting

LEMMA EndedLoad ==
  ASSUME TypeOK, NEW q \in Requests, EndLoad(q)
  PROVE  load' \in [Requests -> Load] /\ runtimeLoad' \in Requests \cup {None}
<1>1. NoLoad \in Load
  BY Numbers DEF NoLoad, Load, Times, Versions
<1> QED
  BY <1>1 DEF EndLoad, TypeOK

LEMMA TypeStep == TypeOK /\ [Next]_vars => TypeOK'
<1> SUFFICES ASSUME TypeOK, [Next]_vars PROVE TypeOK'
  OBVIOUS
<1> USE Numbers DEF database, publisher, Versions, Times
<1>1. CASE Tick
  BY <1>1 DEF Tick, TypeOK
<1>2. ASSUME NEW local \in BOOLEAN, Activate(local) PROVE TypeOK'
  <2>1. active + 1 \in Versions
    BY <1>2 DEF Activate, TypeOK
  <2> QED
    BY <1>2, <2>1 DEF Activate, TypeOK
<1>3. ASSUME NEW v \in Versions, Invalidate(v) PROVE TypeOK'
  BY <1>3 DEF Invalidate, TypeOK
<1>4. ASSUME NEW q \in Requests, Hit(q) PROVE TypeOK'
  <2>1. cache.version \in Versions
    BY <1>4 DEF Hit, Fresh, TypeOK, Cache
  <2>2. AnswerTo(Called, cache.version, IF cache.extended THEN "extended" ELSE "cache", clock)
          \in AnswerGiven
    BY <2>1, CalledType, AnswerType DEF TypeOK
  <2> QED
    BY <1>4, <2>1, <2>2 DEF Hit, TypeOK
<1>5. ASSUME NEW q \in Requests, Join(q) PROVE TypeOK'
  <2>1. [Called EXCEPT !.load = runtimeLoad] \in Request
    BY CalledType DEF TypeOK, Request
  <2> QED
    BY <1>5, <2>1 DEF Join, TypeOK
<1>6. ASSUME NEW q \in Requests, Start(q) PROVE TypeOK'
  <2>1. [Called EXCEPT !.load = q] \in Request
    BY CalledType DEF Request
  <2>2. [at |-> "query", now |-> clock, generation |-> generation, version |-> 0] \in Load
    BY DEF TypeOK, Load
  <2> QED
    BY <1>6, <2>1, <2>2 DEF Start, TypeOK
<1>7. ASSUME NEW q \in Requests, Query(q) PROVE TypeOK'
  <2>1. load' \in [Requests -> Load]
    BY <1>7 DEF Query, TypeOK, Load
  <2> QED
    BY <1>7, <2>1 DEF Query, TypeOK
<1>8. ASSUME NEW q \in Requests, Finish(q) PROVE TypeOK'
  <2>1. load[q] \in Load
    BY DEF TypeOK
  <2>2. cache' \in Cache
    BY <1>8, <2>1 DEF Finish, LoadGeneration, LoadedAt, Load, Cache
  <2>3. load[q].version \in Versions /\ Answer(q, load[q].version, "load") /\ EndLoad(q)
    BY <1>8, <2>1 DEF Finish, Load
  <2> QED
    BY <1>8, <2>2, <2>3, AnsweredTypes, EndedLoad DEF Finish, TypeOK
<1>9. ASSUME NEW q \in Requests, FailStale(q) PROVE TypeOK'
  <2>1. load[q] \in Load /\ cache \in Cache
    BY <1>9 DEF TypeOK, FailStale, Servable
  <2>2. cache' \in Cache
    <3>1. load[q].now + CacheTTL \in 0..(MaxClock + CacheTTL)
      BY <2>1 DEF Load
    <3>2. cache' = [cache EXCEPT !.expiresAt = load[q].now + CacheTTL, !.extended = TRUE]
      BY <1>9 DEF FailStale, Extension
    <3> QED
      BY <2>1, <3>1, <3>2 DEF Cache
  <2>3. cache.version \in Versions /\ Answer(q, cache.version, "stale") /\ EndLoad(q)
    BY <1>9, <2>1 DEF FailStale, Cache
  <2> QED
    BY <1>9, <2>2, <2>3, AnsweredTypes, EndedLoad DEF FailStale, TypeOK
<1>10. ASSUME NEW q \in Requests, FailUnavailable(q) PROVE TypeOK'
  <2>1. Answer(q, 0, "unavailable") /\ EndLoad(q) /\ 0 \in Versions
    BY <1>10 DEF FailUnavailable
  <2> QED
    BY <1>10, <2>1, AnsweredTypes, EndedLoad DEF FailUnavailable, TypeOK
<1>11. CASE Restart
  <2>1. NoLoad \in Load /\ NoRequest \in Request
    BY DEF NoLoad, NoRequest, Load, Request
  <2> QED
    BY <1>11, <2>1 DEF Restart, TypeOK
<1>12. CASE UNCHANGED vars
  BY <1>12 DEF vars, TypeOK
<1> QED
  BY <1>1, <1>2, <1>3, <1>4, <1>5, <1>6, <1>7, <1>8, <1>9, <1>10, <1>11, <1>12
     DEF Next

(* Type correctness of the instance's cache, loads, requests and answers. *)
THEOREM RuntimeTypeCorrect == Spec => []TypeOK
BY InitTypeOK, TypeStep, PTL DEF Spec

-----------------------------------------------------------------------------
LEMMA InitIInv == Init => IInv
<1> SUFFICES ASSUME Init PROVE IInv
  OBVIOUS
<1>1. TypeOK
  BY InitTypeOK
<1>2. OneLoad
  BY DEF Init, OneLoad, InFlight, Idle, NoLoad, NoRequest
<1>3. InOrder
  BY DEF Init, InOrder, NoLoad
<1>4. Announced
  BY DEF Init, Announced, NoLoad, NoRequest
<1>5. Dated
  BY DEF Init, Dated, InFlight, NoLoad, NoRequest
<1> QED
  BY <1>1, <1>2, <1>3, <1>4, <1>5 DEF IInv

LEMMA OneLoadStep == TypeOK /\ OneLoad /\ [Next]_vars => OneLoad'
<1> SUFFICES ASSUME TypeOK, OneLoad, [Next]_vars PROVE OneLoad'
  OBVIOUS
<1> USE Numbers DEF OneLoad, InFlight, Idle
<1>1. ASSUME UNCHANGED <<load, runtimeLoad, request>> PROVE OneLoad'
  BY <1>1
<1>2. CASE \/ Tick \/ (\E local \in BOOLEAN : Activate(local))
           \/ (\E v \in Versions : Invalidate(v)) \/ (\E q \in Requests : Hit(q))
           \/ UNCHANGED vars
  BY <1>1, <1>2 DEF Tick, Activate, Invalidate, Hit, vars
<1>3. ASSUME NEW q \in Requests, Join(q) PROVE OneLoad'
  BY <1>3 DEF Join, TypeOK, Request, Called
<1>4. ASSUME NEW q \in Requests, Start(q) PROVE OneLoad'
  BY <1>4 DEF Start, MayStart, TypeOK, Request, Called
<1>5. ASSUME NEW q \in Requests, Query(q) PROVE OneLoad'
  BY <1>5 DEF Query, TypeOK, Load
<1>6. ASSUME NEW q \in Requests, NEW version, NEW source, InFlight(q),
             Answer(q, version, source), EndLoad(q)
      PROVE  OneLoad'
  BY <1>6 DEF Answer, EndLoad, Waiting, NoLoad, NoRequest, TypeOK
<1>7. ASSUME NEW q \in Requests, Finish(q) \/ FailStale(q) \/ FailUnavailable(q)
      PROVE  OneLoad'
  BY <1>6, <1>7 DEF Finish, FailStale, FailUnavailable
<1>8. CASE Restart
  BY <1>8 DEF Restart, NoLoad, NoRequest
<1> QED
  BY <1>2, <1>3, <1>4, <1>5, <1>7, <1>8 DEF Next

(* One load at a time, and a load reads what is active then: what is kept  *)
(* and what is about to be kept is never older than what was shown.        *)
LEMMA InOrderStep == TypeOK /\ OneLoad /\ InOrder /\ [Next]_vars => InOrder'
<1> SUFFICES ASSUME TypeOK, OneLoad, InOrder, [Next]_vars PROVE InOrder'
  OBVIOUS
<1> USE Numbers DEF InOrder, database, publisher
<1>0. active \in Nat /\ shown \in Nat /\ \A q \in Requests : load[q].version \in Nat
  BY DEF TypeOK, Versions, Load
<1>1. CASE Tick
  BY <1>1 DEF Tick
<1>2. ASSUME NEW local \in BOOLEAN, Activate(local) PROVE InOrder'
  BY <1>0, <1>2 DEF Activate
<1>3. ASSUME NEW v \in Versions, Invalidate(v) PROVE InOrder'
  BY <1>3 DEF Invalidate
<1>4. ASSUME NEW q \in Requests, Hit(q) PROVE InOrder'
  BY <1>4 DEF Hit, Fresh
<1>5. ASSUME NEW q \in Requests, Join(q) PROVE InOrder'
  BY <1>5 DEF Join
<1>6. ASSUME NEW q \in Requests, Start(q) PROVE InOrder'
  BY <1>6 DEF Start, TypeOK
<1>7. ASSUME NEW q \in Requests, Query(q) PROVE InOrder'
  BY <1>0, <1>7 DEF Query, TypeOK
<1>8. ASSUME NEW q \in Requests, Finish(q) PROVE InOrder'
  <2>1. \A r \in Requests : load'[r].at = "none"
    BY <1>8 DEF Finish, EndLoad, OneLoad, InFlight, NoLoad, TypeOK
  <2>2. cache'.version = shown' /\ shown' \in shown..active /\ active' = active
    BY <1>8 DEF Finish
  <2> QED
    BY <1>0, <2>1, <2>2
<1>9. ASSUME NEW q \in Requests, FailStale(q) \/ FailUnavailable(q) PROVE InOrder'
  <2>1. \A r \in Requests : load'[r].at = "read" => load'[r] = load[r]
    BY <1>9 DEF FailStale, FailUnavailable, EndLoad, NoLoad, TypeOK
  <2>2. shown' = shown /\ active' = active
    BY <1>9 DEF FailStale, FailUnavailable, Servable
  <2>3. cache' # None => cache # None /\ cache'.version = cache.version
    <3>1. CASE FailStale(q)
      BY <3>1 DEF FailStale, Servable, TypeOK, Cache
    <3>2. CASE FailUnavailable(q)
      BY <3>2 DEF FailUnavailable
    <3> QED
      BY <1>9, <3>1, <3>2
  <2> QED
    BY <2>1, <2>2, <2>3
<1>10. CASE Restart
  BY <1>10 DEF Restart, NoLoad
<1>11. CASE UNCHANGED vars
  BY <1>11 DEF vars
<1> QED
  BY <1>1, <1>2, <1>3, <1>4, <1>5, <1>6, <1>7, <1>8, <1>9, <1>10, <1>11 DEF Next

LEMMA ViewInit == Init => View!Init
BY DEF Init, View!Init

LEMMA ViewStep == TypeOK /\ InOrder /\ InOrder' /\ [Next]_vars => [View!Next]_<<active, shown>>
<1> SUFFICES ASSUME TypeOK, InOrder, InOrder', [Next]_vars
             PROVE  [View!Next]_<<active, shown>>
  OBVIOUS
<1> USE DEF View!Next, database, publisher
<1>0. active \in Nat /\ shown \in Nat
  BY DEF TypeOK, Versions
<1>1. ASSUME NEW local \in BOOLEAN, Activate(local) PROVE View!Activate
  BY <1>1 DEF Activate, View!Activate
<1>2. ASSUME NEW q \in Requests, Hit(q) \/ Finish(q) \/ FailStale(q) PROVE View!Show
  <2>1. active' = active
    BY <1>2 DEF Hit, Finish, FailStale
  <2>2. shown' \in shown..active
    BY <1>0, <1>2 DEF Hit, Fresh, Finish, FailStale, Servable, InOrder
  <2> QED
    BY <2>1, <2>2 DEF View!Show
<1>3. CASE \/ Tick \/ (\E v \in Versions : Invalidate(v)) \/ Restart \/ UNCHANGED vars
           \/ \E q \in Requests : Join(q) \/ Start(q) \/ Query(q) \/ FailUnavailable(q)
  BY <1>3 DEF Tick, Invalidate, Restart, vars, Join, Start, Query, FailUnavailable
<1> QED
  BY <1>1, <1>2, <1>3 DEF Next

(* Requests never see routes go back: the instance, with its cache, loads,
   failures and restarts, implements RoutingView. *)
THEOREM RuntimeImplementsView == Spec => ViewKept
<1> DEFINE Kept == TypeOK /\ OneLoad /\ InOrder
<1>1. Init => Kept
  BY InitIInv DEF IInv
<1>2. Kept /\ [Next]_vars => Kept'
  BY TypeStep, OneLoadStep, InOrderStep
<1>3. Kept /\ Kept' /\ [Next]_vars => [View!Next]_<<active, shown>>
  BY ViewStep
<1> QED
  BY <1>1, <1>2, <1>3, ViewInit, PTL DEF Spec, ViewKept, View!Spec

-----------------------------------------------------------------------------
(* What a load of the current generation reads is as new as the latest     *)
(* announcement: an announcement ends the generation of the loads before it. *)
LEMMA AnnouncedStep ==
  TypeOK /\ OneLoad /\ InOrder /\ Announced /\ [Next]_vars => Announced'
<1> SUFFICES ASSUME TypeOK, OneLoad, InOrder, Announced, [Next]_vars PROVE Announced'
  OBVIOUS
<1> USE Numbers DEF Announced, database, publisher
<1>0. /\ active \in Nat /\ announced \in Nat /\ generation \in Nat
      /\ uninvalidated \subseteq Nat
      /\ \A q \in Requests : /\ load[q].version \in Nat /\ load[q].generation \in Nat
                             /\ request[q].due \in Nat
      /\ cache # None => cache.version \in Nat /\ cache.generation \in Nat
  BY DEF TypeOK, Versions, Load, Request, Cache
<1>1. ASSUME UNCHANGED <<uninvalidated, announced, generation, cache, load, request>>,
             active' >= active, active' \in Nat
      PROVE  Announced'
  BY <1>0, <1>1
<1>2. CASE Tick \/ UNCHANGED vars \/ \E q \in Requests : Hit(q)
  BY <1>0, <1>1, <1>2 DEF Tick, vars, Hit
<1>3. ASSUME NEW local \in BOOLEAN, Activate(local) PROVE Announced'
  <2>1. /\ active' = active + 1
        /\ uninvalidated' \subseteq uninvalidated \cup {active + 1}
        /\ UNCHANGED <<announced, generation, cache, load, request>>
    BY <1>3 DEF Activate
  <2>2. \A v \in uninvalidated' : v =< active'
    BY <1>0, <2>1
  <2> QED
    BY <1>0, <2>1, <2>2
<1>4. ASSUME NEW v \in Versions, Invalidate(v) PROVE Announced'
  <2>1. /\ generation' = generation + 1
        /\ uninvalidated' \subseteq uninvalidated
        /\ UNCHANGED <<active, cache, load, request>>
    BY <1>4 DEF Invalidate
  <2>2. announced' =< active /\ announced =< announced' /\ announced' \in Nat
    BY <1>0, <1>4 DEF Invalidate
  <2>3. cache # None => cache.generation < generation'
    BY <1>0, <2>1
  <2>4. \A q \in Requests : load[q].at # "none" => load[q].generation < generation'
    BY <1>0, <2>1
  <2>5. \A q \in Requests : request[q].due =< announced'
    BY <1>0, <2>2
  <2> QED
    BY <1>0, <2>1, <2>2, <2>3, <2>4, <2>5
<1>5. ASSUME NEW q \in Requests, Join(q) PROVE Announced'
  BY <1>0, <1>5 DEF Join, Called, Due, NoRequest, TypeOK, Request
<1>6. ASSUME NEW q \in Requests, Start(q) PROVE Announced'
  BY <1>0, <1>6 DEF Start, MayStart, Called, Due, NoRequest, TypeOK, Request, OneLoad, InFlight,
     Idle
<1>7. ASSUME NEW q \in Requests, Query(q) PROVE Announced'
  BY <1>0, <1>7 DEF Query, TypeOK
<1>8. ASSUME NEW q \in Requests, NEW version, NEW source,
             Answer(q, version, source), EndLoad(q)
      PROVE  /\ \A r \in Requests : load'[r].at # "none" => load'[r] = load[r]
             /\ \A r \in Requests : request'[r] = request[r] \/ request'[r] = NoRequest
  BY <1>8 DEF Answer, EndLoad, NoLoad, TypeOK
<1>9. ASSUME NEW q \in Requests, Finish(q) PROVE Announced'
  <2>1. UNCHANGED <<active, generation, announced, uninvalidated>>
    BY <1>9 DEF Finish
  <2>2. /\ cache'.generation = load[q].generation
        /\ cache'.version = load[q].version
        /\ load[q].at = "read"
    BY <1>9 DEF Finish, LoadGeneration
  <2>3. /\ \A r \in Requests : load'[r].at # "none" => load'[r] = load[r]
        /\ \A r \in Requests : request'[r] = request[r] \/ request'[r] = NoRequest
    BY <1>8, <1>9 DEF Finish
  <2> QED
    BY <1>0, <2>1, <2>2, <2>3 DEF NoRequest
<1>10. ASSUME NEW q \in Requests, FailStale(q) \/ FailUnavailable(q) PROVE Announced'
  <2>1. UNCHANGED <<active, generation, announced, uninvalidated>>
    BY <1>10 DEF FailStale, FailUnavailable
  <2>2. cache' # None => /\ cache # None /\ cache'.version = cache.version
                         /\ cache'.generation = cache.generation
    <3>1. CASE FailStale(q)
      BY <3>1 DEF FailStale, Servable, TypeOK, Cache
    <3>2. CASE FailUnavailable(q)
      BY <3>2 DEF FailUnavailable
    <3> QED
      BY <1>10, <3>1, <3>2
  <2>3. /\ \A r \in Requests : load'[r].at # "none" => load'[r] = load[r]
        /\ \A r \in Requests : request'[r] = request[r] \/ request'[r] = NoRequest
    BY <1>8, <1>10 DEF FailStale, FailUnavailable
  <2> QED
    BY <1>0, <2>1, <2>2, <2>3 DEF NoRequest
<1>11. CASE Restart
  BY <1>0, <1>11 DEF Restart, NoLoad, NoRequest
<1> QED
  BY <1>2, <1>3, <1>4, <1>5, <1>6, <1>7, <1>9, <1>10, <1>11 DEF Next

LEMMA DatedStep == TypeOK /\ OneLoad /\ InOrder /\ Dated /\ [Next]_vars => Dated'
<1> SUFFICES ASSUME TypeOK, OneLoad, InOrder, Dated, [Next]_vars PROVE Dated'
  OBVIOUS
<1> USE Numbers DEF Dated, InFlight, database, publisher
<1>0. /\ active \in Nat /\ clock \in Nat
      /\ \A v \in Versions : replacedAt[v] \in Nat
      /\ \A q \in Requests : /\ load[q].version \in Versions /\ load[q].version \in Nat
                             /\ load[q].now \in Nat /\ request[q].calledAt \in Nat
      /\ cache # None => /\ cache.version \in Versions /\ cache.version \in Nat
                         /\ cache.expiresAt \in Nat /\ cache.staleUntil \in Nat
  <2>1. active \in Nat /\ clock \in Nat /\ \A v \in Versions : replacedAt[v] \in Nat
    BY DEF TypeOK, Versions, Times
  <2>2. \A q \in Requests : /\ load[q].version \in Versions /\ load[q].version \in Nat
                           /\ load[q].now \in Nat
    BY DEF TypeOK, Versions, Times, Load
  <2>3. \A q \in Requests : request[q].calledAt \in Nat
    BY DEF TypeOK, Times, Request
  <2>4. cache # None => /\ cache.version \in Versions /\ cache.version \in Nat
                       /\ cache.expiresAt \in Nat /\ cache.staleUntil \in Nat
    BY DEF TypeOK, Versions, Cache
  <2> QED
    BY <2>1, <2>2, <2>3, <2>4
<1>1. CASE Tick
  BY <1>0, <1>1 DEF Tick, ReadAt
<1>2. ASSUME NEW local \in BOOLEAN, Activate(local) PROVE Dated'
  <2>1. /\ active' = active + 1
        /\ replacedAt' = [replacedAt EXCEPT ![active] = clock]
        /\ UNCHANGED <<clock, cache, load, request>>
    BY <1>2 DEF Activate
  <2>2. \A v \in Versions : v < active => replacedAt'[v] = replacedAt[v]
    BY <1>0, <2>1 DEF TypeOK
  <2>3. replacedAt'[active] = clock
    BY <2>1 DEF TypeOK
  <2>4. cache # None /\ cache.version < active' => replacedAt'[cache.version] >= ReadAt'
    <3>1. ASSUME cache # None PROVE ReadAt' = ReadAt /\ ReadAt \in Int /\ ReadAt =< clock
      BY <1>0, <2>1, <3>1 DEF ReadAt
    <3> QED
      BY <1>0, <2>1, <2>2, <2>3, <3>1
  <2>5. \A q \in Requests : load[q].at = "read" /\ load[q].version < active'
          => replacedAt'[load[q].version] >= load[q].now
    BY <1>0, <2>1, <2>2, <2>3
  <2> QED
    BY <1>0, <2>1, <2>4, <2>5 DEF ReadAt
<1>3. ASSUME UNCHANGED <<database, cache, load, request>> PROVE Dated'
  BY <1>3 DEF ReadAt
<1>4. CASE (\E v \in Versions : Invalidate(v)) \/ (\E q \in Requests : Hit(q)) \/ UNCHANGED vars
  BY <1>3, <1>4 DEF Invalidate, Hit, vars
<1>5. ASSUME NEW q \in Requests, Join(q) PROVE Dated'
  BY <1>0, <1>5 DEF Join, Called, NoRequest, TypeOK, Request, ReadAt
<1>6. ASSUME NEW q \in Requests, Start(q) PROVE Dated'
  BY <1>0, <1>6 DEF Start, Called, NoRequest, TypeOK, Request, ReadAt
<1>7. ASSUME NEW q \in Requests, Query(q) PROVE Dated'
  BY <1>0, <1>7 DEF Query, TypeOK, ReadAt
<1>8. ASSUME NEW q \in Requests, NEW version, NEW source,
             Answer(q, version, source), EndLoad(q)
      PROVE  /\ \A r \in Requests : load'[r].at # "none" => load'[r] = load[r]
             /\ \A r \in Requests : request'[r] = request[r] \/ request'[r] = NoRequest
  BY <1>8 DEF Answer, EndLoad, NoLoad, TypeOK
<1>9. ASSUME NEW q \in Requests, Finish(q) PROVE Dated'
  <2>1. UNCHANGED <<active, clock, replacedAt>>
    BY <1>9 DEF Finish
  <2>2. /\ cache'.version = load[q].version
        /\ cache'.expiresAt = load[q].now + CacheTTL
        /\ cache'.staleUntil = load[q].now + (IF load[q].version = 0 THEN 0 ELSE MaxStale)
        /\ cache'.extended = FALSE
        /\ load[q].at = "read"
    BY <1>9 DEF Finish, LoadedAt
  <2>3. /\ \A r \in Requests : load'[r].at # "none" => load'[r] = load[r]
        /\ \A r \in Requests : request'[r] = request[r] \/ request'[r] = NoRequest
    BY <1>8, <1>9 DEF Finish
  <2>4. ReadAt' = load[q].now
    BY <1>0, <2>2 DEF ReadAt
  <2> QED
    BY <1>0, <2>1, <2>2, <2>3, <2>4 DEF NoRequest
<1>10. ASSUME NEW q \in Requests, FailStale(q) PROVE Dated'
  <2>1. UNCHANGED <<active, clock, replacedAt>>
    BY <1>10 DEF FailStale
  <2>2. /\ cache # None /\ cache.version # 0 /\ cache.staleUntil > load[q].now
        /\ cache'.version = cache.version /\ cache'.staleUntil = cache.staleUntil
        /\ cache'.extended = TRUE /\ cache'.expiresAt = load[q].now + CacheTTL
    BY <1>10 DEF FailStale, Servable, Extension, TypeOK, Cache
  <2>3. /\ \A r \in Requests : load'[r].at # "none" => load'[r] = load[r]
        /\ \A r \in Requests : request'[r] = request[r] \/ request'[r] = NoRequest
    BY <1>8, <1>10 DEF FailStale
  <2> QED
    BY <1>0, <2>1, <2>2, <2>3 DEF NoRequest, ReadAt
<1>11. ASSUME NEW q \in Requests, FailUnavailable(q) PROVE Dated'
  <2>1. UNCHANGED <<active, clock, replacedAt, cache>>
    BY <1>11 DEF FailUnavailable
  <2>3. /\ \A r \in Requests : load'[r].at # "none" => load'[r] = load[r]
        /\ \A r \in Requests : request'[r] = request[r] \/ request'[r] = NoRequest
    BY <1>8, <1>11 DEF FailUnavailable
  <2> QED
    BY <1>0, <2>1, <2>3 DEF NoRequest, ReadAt
<1>12. CASE Restart
  BY <1>0, <1>12 DEF Restart, NoLoad, NoRequest
<1> QED
  BY <1>1, <1>2, <1>4, <1>5, <1>6, <1>7, <1>9, <1>10, <1>11, <1>12 DEF Next

-----------------------------------------------------------------------------
(* The answers of a step, from what is known before it. *)

(* What any answer has to satisfy, in the database of the step.            *)
Right(x) ==
  x.source # "unavailable" =>
    /\ x.source # "stale" => x.version >= x.due
    /\ x.version # active =>
         /\ x.source = "cache" => replacedAt[x.version] > x.calledAt - CacheTTL
         /\ x.source = "load" => replacedAt[x.version] >= x.since
         /\ x.source = "extended" => replacedAt[x.version] > x.calledAt - MaxStale - CacheTTL
         /\ x.source = "stale" => replacedAt[x.version] > x.since - MaxStale

LEMMA AllRight == AnswersRight <=> \A x \in answers : Right(x)
BY DEF AnswersRight, PublishedIsServed, AnswersRecent, OverrunBounded, Served, Right

LEMMA Typed ==
  ASSUME TypeOK
  PROVE  /\ active \in Nat /\ clock \in Nat /\ announced \in Nat
         /\ \A v \in Versions : replacedAt[v] \in Nat
         /\ \A q \in Requests : /\ load[q].version \in Versions /\ load[q].version \in Nat
                                /\ load[q].now \in Nat
         /\ \A q \in Requests : request[q].calledAt \in Nat /\ request[q].due \in Nat
         /\ cache # None => /\ cache.version \in Versions /\ cache.version \in Nat
                            /\ cache.expiresAt \in Nat /\ cache.staleUntil \in Nat
                            /\ cache.extended \in BOOLEAN
<1> USE Numbers
<1>1. /\ active \in Nat /\ clock \in Nat /\ announced \in Nat
      /\ \A v \in Versions : replacedAt[v] \in Nat
  BY DEF TypeOK, Versions, Times
<1>2. \A q \in Requests : /\ load[q].version \in Versions /\ load[q].version \in Nat
                         /\ load[q].now \in Nat
  BY DEF TypeOK, Versions, Times, Load
<1>3. \A q \in Requests : request[q].calledAt \in Nat /\ request[q].due \in Nat
  BY DEF TypeOK, Versions, Times, Request
<1>4. cache # None => /\ cache.version \in Versions /\ cache.version \in Nat
                     /\ cache.expiresAt \in Nat /\ cache.staleUntil \in Nat
                     /\ cache.extended \in BOOLEAN
  BY DEF TypeOK, Versions, Cache
<1> QED
  BY <1>1, <1>2, <1>3, <1>4

(* From the cache: it is young enough, or a failed load extended it.       *)
LEMMA HitRight ==
  ASSUME IInv, NEW q \in Requests, Hit(q)
  PROVE  \A x \in answers' : Right(x)
<1> USE Numbers, Typed DEF IInv
<1> DEFINE x == AnswerTo(Called, cache.version,
                         IF cache.extended THEN "extended" ELSE "cache", clock)
<1>1. answers' = {x} /\ cache # None /\ cache.generation = generation /\ clock < cache.expiresAt
  BY DEF Hit, Fresh
<1>2. /\ x.version = cache.version /\ x.calledAt = clock /\ x.due = Due
      /\ x.source = IF cache.extended THEN "extended" ELSE "cache"
  BY DEF AnswerTo, Called, NoRequest
<1>3. Due =< announced /\ Due \in Nat
  BY DEF Due
<1>4. cache.version >= x.due
  BY <1>1, <1>2, <1>3 DEF Announced
<1>5. ASSUME cache.version # active
      PROVE  /\ replacedAt[cache.version] \in Nat
             /\ ~cache.extended => replacedAt[cache.version] > clock - CacheTTL
             /\ replacedAt[cache.version] > clock - MaxStale - CacheTTL
  <2>1. cache.version < active
    BY <1>1, <1>5 DEF InOrder
  <2>2. ReadAt \in Int /\ replacedAt[cache.version] >= ReadAt
    BY <1>1, <2>1 DEF Dated, ReadAt
  <2>3. cache.extended => cache.expiresAt < ReadAt + MaxStale + CacheTTL
    BY <1>1 DEF Dated
  <2>4. ~cache.extended => cache.expiresAt =< ReadAt + CacheTTL
    BY <1>1 DEF Dated
  <2> QED
    BY <1>1, <2>2, <2>3, <2>4
<1> HIDE DEF x
<1>6. Right(x)
  BY <1>1, <1>2, <1>4, <1>5 DEF Right
<1> QED
  BY <1>1, <1>6

(* From a load, and from the snapshot when the load failed.                *)
LEMMA LoadRight ==
  ASSUME IInv, NEW q \in Requests, Finish(q) \/ FailStale(q) \/ FailUnavailable(q)
  PROVE  \A x \in answers' : Right(x)
<1> USE Numbers, Typed DEF IInv
<1>1. load[q].now \in Nat
  OBVIOUS
<1>2. ASSUME NEW version, NEW source, NEW x \in answers', Answer(q, version, source)
      PROVE  \E r \in Requests : /\ request[r].load = q
                                /\ x.version = version /\ x.source = source
                                /\ x.since = load[q].now /\ x.due = request[r].due
  BY <1>2 DEF Answer, Waiting, AnswerTo
<1>3. ASSUME Finish(q), NEW x \in answers' PROVE Right(x)
  <2>1. load[q].at = "read" /\ Answer(q, load[q].version, "load")
    BY <1>3 DEF Finish
  <2>2. PICK r \in Requests : /\ request[r].load = q
                             /\ x.version = load[q].version /\ x.source = "load"
                             /\ x.since = load[q].now /\ x.due = request[r].due
    BY <1>2, <2>1
  <2>3. x.version >= x.due
    BY <2>1, <2>2 DEF Announced
  <2>4. x.version # active => replacedAt[x.version] >= load[q].now
    BY <2>1, <2>2 DEF Dated, InOrder
  <2> QED
    BY <2>2, <2>3, <2>4 DEF Right
<1>4. ASSUME FailStale(q), NEW x \in answers' PROVE Right(x)
  <2>1. /\ cache # None /\ cache.version # 0 /\ cache.staleUntil > load[q].now
        /\ Answer(q, cache.version, "stale")
    BY <1>4 DEF FailStale, Servable
  <2>2. PICK r \in Requests : /\ x.version = cache.version /\ x.source = "stale"
                             /\ x.since = load[q].now
    BY <1>2, <2>1
  <2>3. x.version # active => /\ replacedAt[x.version] >= cache.staleUntil - MaxStale
                              /\ replacedAt[x.version] \in Nat
    BY <2>1, <2>2 DEF Dated, InOrder, ReadAt
  <2> QED
    BY <1>1, <2>1, <2>2, <2>3 DEF Right
<1>5. ASSUME FailUnavailable(q), NEW x \in answers' PROVE Right(x)
  BY <1>2, <1>5 DEF FailUnavailable, Right
<1> QED
  BY <1>3, <1>4, <1>5

LEMMA AnswersStep == IInv /\ AnswersRight /\ [Next]_vars => AnswersRight'
<1> SUFFICES ASSUME IInv, AnswersRight, [Next]_vars PROVE AnswersRight'
  OBVIOUS
<1> USE DEF database, publisher
<1>1. ASSUME UNCHANGED <<active, replacedAt>>, \A x \in answers' : Right(x)
      PROVE  AnswersRight'
  BY <1>1 DEF AnswersRight, PublishedIsServed, AnswersRecent, OverrunBounded, Served, Right
<1>2. ASSUME answers' = {} PROVE AnswersRight'
  BY <1>2 DEF AnswersRight, PublishedIsServed, AnswersRecent, OverrunBounded, Served
<1>3. CASE \/ Tick \/ (\E local \in BOOLEAN : Activate(local))
           \/ (\E v \in Versions : Invalidate(v)) \/ Restart
           \/ \E q \in Requests : Join(q) \/ Start(q) \/ Query(q)
  BY <1>2, <1>3 DEF Tick, Activate, Invalidate, Restart, Join, Start, Query
<1>4. ASSUME NEW q \in Requests, Hit(q) PROVE AnswersRight'
  BY <1>1, <1>4, HitRight DEF Hit
<1>5. ASSUME NEW q \in Requests, Finish(q) \/ FailStale(q) \/ FailUnavailable(q)
      PROVE  AnswersRight'
  <2>1. UNCHANGED <<active, replacedAt>>
    BY <1>5 DEF Finish, FailStale, FailUnavailable
  <2> QED
    BY <1>1, <1>5, <2>1, LoadRight
<1>6. CASE UNCHANGED vars
  BY <1>1, <1>6, AllRight DEF vars
<1> QED
  BY <1>3, <1>4, <1>5, <1>6 DEF Next

LEMMA AnswersInvariant == Spec => [](IInv /\ AnswersRight)
<1>1. Init => AnswersRight
  BY DEF Init, AnswersRight, PublishedIsServed, AnswersRecent, OverrunBounded, Served
<1>2. IInv /\ [Next]_vars => IInv'
  BY TypeStep, OneLoadStep, InOrderStep, AnnouncedStep, DatedStep DEF IInv
<1> QED
  BY <1>1, <1>2, InitIInv, AnswersStep, PTL DEF Spec

(* A publication announced to the process is what later requests get. *)
THEOREM PublishedIsAlwaysServed == Spec => []PublishedIsServed
BY AnswersInvariant, PTL DEF AnswersRight

(* While loads succeed, what the cache answers is no older than its        *)
(* lifetime, and what a load answers was active when the load began        *)
(* (getCompiledRuntime).                                                   *)
THEOREM AnswersAlwaysRecent == Spec => []AnswersRecent
BY AnswersInvariant, PTL DEF AnswersRight

(* A failed load takes the last snapshot beyond the window of an outage by *)
(* one cache lifetime and its own duration, and no further.                *)
THEOREM OverrunAlwaysBounded == Spec => []OverrunBounded
BY AnswersInvariant, PTL DEF AnswersRight
=============================================================================
