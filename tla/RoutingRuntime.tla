--------------------------- MODULE RoutingRuntime ---------------------------
(***************************************************************************)
(* The routes a gateway instance keeps in memory: getCompiledRuntime and   *)
(* its cache in server/services/routing-runtime-service.ts, with the       *)
(* invalidation that routing-revision-service.ts sends to its own process  *)
(* only.                                                                   *)
(*                                                                         *)
(* Activations of revisions are numbered in the order in which they        *)
(* commit; 0 stands for "no active revision" (loadCompiledRuntime returns  *)
(* null).  One instance is modelled: instances share nothing but the       *)
(* database, so the others appear as activations without an invalidation   *)
(* here.  Requests are slots that are used again and again.                *)
(***************************************************************************)
EXTENDS Integers

CONSTANTS
  Requests,    \* slots for requests being answered at once
  CacheTTL,    \* CACHE_TTL_MS
  MaxStale,    \* MAX_STALE_RUNTIME_MS
  MaxVersion,  \* bound on activations
  MaxClock,    \* bound on the clock
  None

ASSUME RuntimeAssumption ==
  /\ None \notin Requests
  /\ {CacheTTL, MaxStale, MaxVersion, MaxClock} \subseteq Nat
  /\ CacheTTL > 0 /\ CacheTTL < MaxStale

VARIABLES
  clock,
  active,          \* activations so far, the number of the active one
  replacedAt,      \* history: when each activation was replaced by the next
  uninvalidated,   \* activations this process committed and has not announced yet
  announced,       \* history: the latest activation announced to the cache
  generation,      \* runtimeGeneration
  cache,           \* runtimeCache, or None
  runtimeLoad,     \* the request whose load is in flight, or None
  load,            \* what each load captured at its start, and read
  request,         \* the load each request waits for
  answers,         \* the answers the last step gave
  shown            \* history: the latest activation an answer was given from

database == <<clock, active, replacedAt>>
publisher == <<uninvalidated, announced>>
vars == <<clock, active, replacedAt, uninvalidated, announced, generation, cache,
          runtimeLoad, load, request, answers, shown>>

Versions == 0..MaxVersion
Times == 0..MaxClock

NoLoad == [at |-> "none", now |-> 0, generation |-> 0, version |-> 0]
NoRequest == [load |-> None, calledAt |-> 0, due |-> 0]

-----------------------------------------------------------------------------
Init ==
  /\ clock = 0
  /\ active = 0
  /\ replacedAt = [v \in Versions |-> 0]
  /\ uninvalidated = {}
  /\ announced = 0
  /\ generation = 0
  /\ cache = None
  /\ runtimeLoad = None
  /\ load = [q \in Requests |-> NoLoad]
  /\ request = [q \in Requests |-> NoRequest]
  /\ answers = {}
  /\ shown = 0

(* A load lasts as long as its query: nothing limits that. *)
Tick ==
  /\ clock < MaxClock
  /\ clock' = clock + 1
  /\ UNCHANGED <<active, replacedAt, publisher, generation, cache, runtimeLoad,
                 load, request, shown>>
  /\ answers' = {}

(* A publication or a rollback commits; a local one has the cache of this  *)
(* process invalidated in a later step.                                    *)
Activate(local) ==
  /\ active < MaxVersion
  /\ active' = active + 1
  /\ replacedAt' = [replacedAt EXCEPT ![active] = clock]
  /\ uninvalidated' = IF local THEN uninvalidated \cup {active + 1} ELSE uninvalidated
  /\ UNCHANGED <<clock, announced, generation, cache, runtimeLoad, load, request, shown>>
  /\ answers' = {}

Invalidate(v) ==
  /\ v \in uninvalidated
  /\ generation' = generation + 1
  /\ uninvalidated' = uninvalidated \ {v}
  /\ announced' = IF v > announced THEN v ELSE announced
  /\ UNCHANGED <<database, cache, runtimeLoad, load, request, shown>>
  /\ answers' = {}

-----------------------------------------------------------------------------
(* getCompiledRuntime *)

Fresh == cache # None /\ cache.generation = generation /\ cache.expiresAt > clock

(* The announcement a request may count on: the latest one, unless it      *)
(* comes while a load is running that was started before it.               *)
Due == IF runtimeLoad = None \/ load[runtimeLoad].generation = generation
       THEN announced ELSE 0

Called == [NoRequest EXCEPT !.calledAt = clock, !.due = Due]

Idle(q) == request[q].load = None

(* since: when the load began that was waited for, if any. *)
AnswerTo(call, version, source, since) ==
  [calledAt |-> call.calledAt, since |-> since, due |-> call.due,
   version |-> version, source |-> source]

Hit(q) ==
  /\ Idle(q)
  /\ Fresh
  /\ answers' = {AnswerTo(Called, cache.version,
                          IF cache.extended THEN "extended" ELSE "cache", clock)}
  /\ shown' = cache.version
  /\ UNCHANGED <<database, publisher, generation, cache, runtimeLoad, load, request>>

Join(q) ==
  /\ Idle(q)
  /\ ~Fresh
  /\ runtimeLoad # None
  /\ request' = [request EXCEPT ![q] = [Called EXCEPT !.load = runtimeLoad]]
  /\ answers' = {}
  /\ UNCHANGED <<database, publisher, generation, cache, runtimeLoad, load, shown>>

(* SLIP: a load is started although one is running. *)
NothingToJoin == TRUE

MayStart == runtimeLoad = None

Start(q) ==
  /\ Idle(q)
  /\ ~Fresh
  /\ MayStart
  /\ request' = [request EXCEPT ![q] = [Called EXCEPT !.load = q]]
  /\ load' = [load EXCEPT ![q] =
       [at |-> "query", now |-> clock, generation |-> generation, version |-> 0]]
  /\ runtimeLoad' = q
  /\ answers' = {}
  /\ UNCHANGED <<database, publisher, generation, cache, shown>>

(* The query of loadCompiledRuntime sees the revision active now. *)
Query(q) ==
  /\ load[q].at = "query"
  /\ load' = [load EXCEPT ![q].at = "read", ![q].version = active]
  /\ UNCHANGED <<database, publisher, generation, cache, runtimeLoad, request, shown>>
  /\ answers' = {}

Waiting(q) == {r \in Requests : request[r].load = q}

Answer(q, version, source) ==
  /\ answers' = {AnswerTo(request[r], version, source, load[q].now) : r \in Waiting(q)}
  /\ request' = [r \in Requests |-> IF r \in Waiting(q) THEN NoRequest ELSE request[r]]

(* The load settles, those who wait are answered, and its promise is       *)
(* forgotten, before the event loop comes to another request.              *)
EndLoad(q) ==
  /\ load' = [load EXCEPT ![q] = NoLoad]
  /\ runtimeLoad' = IF runtimeLoad = q THEN None ELSE runtimeLoad

(* SLIP: the generation is read when the cache is written. *)
GenerationNow(q) == generation

LoadGeneration(q) == load[q].generation

(* SLIP: the lifetime starts when the cache is written. *)
LoadedNow(q) == clock

LoadedAt(q) == load[q].now

Finish(q) ==
  LET version == load[q].version
  IN  /\ load[q].at = "read"
      /\ cache' = [generation |-> LoadGeneration(q),
                   expiresAt |-> LoadedAt(q) + CacheTTL,
                   staleUntil |-> LoadedAt(q) + (IF version = 0 THEN 0 ELSE MaxStale),
                   version |-> version,
                   extended |-> FALSE]
      /\ Answer(q, version, "load")
      /\ shown' = version
      /\ EndLoad(q)
      /\ UNCHANGED <<database, publisher, generation>>

(* SLIP: a snapshot of any age is served. *)
AnySnapshot(q) == cache # None /\ cache.version # 0

Servable(q) == cache # None /\ cache.version # 0 /\ cache.staleUntil > load[q].now

(* SLIP: a failed load extends the snapshot by the whole stale window. *)
ExtendByWindow(q) == load[q].now + MaxStale

Extension(q) == load[q].now + CacheTTL

(* The database is unavailable, or the loader rejects what it read. *)
FailStale(q) ==
  /\ load[q].at # "none"
  /\ Servable(q)
  /\ cache' = [cache EXCEPT !.expiresAt = Extension(q), !.extended = TRUE]
  /\ Answer(q, cache.version, "stale")
  /\ shown' = cache.version
  /\ EndLoad(q)
  /\ UNCHANGED <<database, publisher, generation>>

(* RoutingRuntimeUnavailableError *)
FailUnavailable(q) ==
  /\ load[q].at # "none"
  /\ ~Servable(q)
  /\ Answer(q, 0, "unavailable")
  /\ EndLoad(q)
  /\ UNCHANGED <<database, publisher, generation, cache, shown>>

(* The process restarts: memory is lost, and so are the invalidations of   *)
(* the publications it had just committed.                                 *)
Restart ==
  /\ generation' = 0
  /\ cache' = None
  /\ runtimeLoad' = None
  /\ load' = [q \in Requests |-> NoLoad]
  /\ request' = [q \in Requests |-> NoRequest]
  /\ uninvalidated' = {}
  /\ announced' = 0
  /\ answers' = {}
  /\ UNCHANGED <<database, shown>>

Next ==
  \/ Tick
  \/ \E local \in BOOLEAN : Activate(local)
  \/ \E v \in Versions : Invalidate(v)
  \/ \E q \in Requests : Hit(q)
  \/ \E q \in Requests : Join(q)
  \/ \E q \in Requests : Start(q)
  \/ \E q \in Requests : Query(q)
  \/ \E q \in Requests : Finish(q)
  \/ \E q \in Requests : FailStale(q)
  \/ \E q \in Requests : FailUnavailable(q)
  \/ Restart

Spec == Init /\ [][Next]_vars

-----------------------------------------------------------------------------
(* Properties *)

Cache == [generation : Nat, expiresAt : 0..(MaxClock + CacheTTL),
          staleUntil : 0..(MaxClock + MaxStale), version : Versions, extended : BOOLEAN]
Load == [at : {"none", "query", "read"}, now : Times, generation : Nat, version : Versions]
Request == [load : Requests \cup {None}, calledAt : Times, due : Versions]
AnswerGiven == [calledAt : Times, since : Times, due : Versions, version : Versions,
                source : {"cache", "extended", "load", "stale", "unavailable"}]

(* Type invariant. *)
TypeOK ==
  /\ clock \in Times
  /\ active \in Versions
  /\ replacedAt \in [Versions -> Times]
  /\ uninvalidated \subseteq Versions
  /\ announced \in Versions
  /\ generation \in Nat
  /\ cache \in Cache \cup {None}
  /\ runtimeLoad \in Requests \cup {None}
  /\ load \in [Requests -> Load]
  /\ request \in [Requests -> Request]
  /\ answers \subseteq AnswerGiven
  /\ shown \in Versions

(* Requests never see routes go back: an instance answers from activations *)
(* in their order, however loads, failures, invalidations and restarts     *)
(* fall (getCompiledRuntime).                                              *)
View == INSTANCE RoutingView WITH active <- active, shown <- shown, MaxVersion <- MaxVersion
ViewKept == View!Spec

Served == {x \in answers : x.source # "unavailable"}

(* A request that arrives once a publication made by this process has been *)
(* announced is answered from that publication or a later one, unless it   *)
(* joined a load started earlier or the load failed.                       *)
PublishedIsServed == \A x \in Served : x.source # "stale" => x.version >= x.due

(* While loads succeed, an answer is at most CacheTTL old, or the routes    *)
(* were still active when the load began that was waited for: the clock is *)
(* read before the load (getCompiledRuntime).                              *)
AnswersRecent ==
  \A x \in Served :
    x.version # active
    => /\ x.source = "cache" => replacedAt[x.version] > x.calledAt - CacheTTL
       /\ x.source = "load" => replacedAt[x.version] >= x.since

(* The last valid snapshot is served for MaxStale at most, then requests   *)
(* get a 503 (docs/platform.md, and the comment on MAX_STALE_RUNTIME_MS).  *)
OutageWithinWindow ==
  \A x \in Served : x.source \in {"extended", "stale"} => x.calledAt < cache.staleUntil

(* How far beyond that window the code goes: a failed load that began in   *)
(* it gives the snapshot one more cache lifetime, and is answered from it  *)
(* whenever it fails (getCompiledRuntime).                                 *)
OverrunBounded ==
  \A x \in Served :
    x.version # active
    => /\ x.source = "extended" => replacedAt[x.version] > x.calledAt - MaxStale - CacheTTL
       /\ x.source = "stale" => replacedAt[x.version] > x.since - MaxStale
=============================================================================
