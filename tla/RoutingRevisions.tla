-------------------------- MODULE RoutingRevisions --------------------------
(***************************************************************************)
(* Publishing the gateway's routes: server/services/                       *)
(* routing-revision-service.ts with the transactions that call it          *)
(* (platform-endpoint-publication-service.ts, platform-route-service.ts,   *)
(* platform-upstream-service.ts, platform-runtime-service.ts).             *)
(*                                                                         *)
(* A publication is one database transaction at READ COMMITTED: it locks   *)
(* the row of platform_runtime, changes a table, reads the live routes,    *)
(* then the targets with their service connections, and writes a new       *)
(* revision or rolls back.  Its statements are the steps below; between    *)
(* them the writers that do not take the lock go on: service discovery and *)
(* configuration change which targets are ready and which support routes   *)
(* are active, and a new service token makes an upstream service-managed.  *)
(***************************************************************************)
EXTENDS RoutePatterns

CONSTANTS
  Publishers,        \* administrators' transactions that may be open at once
  Routes,            \* the rows api_routes may hold, as records of RoutePatterns
  SupportRoutes,     \* ids of routes that discovery switches by itself
  Upstreams, Targets,
  TargetsOf,         \* [Upstreams -> SUBSET Targets]
  Domains,           \* the default domains an administrator may set
  InitialRevisions,  \* what the database holds at first, the last one active; payloads
                     \* stored before they had a default domain are legacy
  Requests,          \* public requests the properties try, records of RoutePatterns
  MaxRevisions,      \* bound on the number of revisions
  None

RouteIds == {r.id : r \in Routes}
RoutesOf(ids) == {r \in Routes : r.id \in ids}
RoutesOn(u) == {r.id : r \in {x \in Routes : x.upstream = u}}

(* configPayload; targets[u] is {} for an upstream that is not in it. *)
Payload == [routes : SUBSET RouteIds, managed : SUBSET Upstreams,
            targets : [Upstreams -> SUBSET Targets],
            domain : Domains, legacy : BOOLEAN]

NoPayload == [routes |-> {}, managed |-> {}, targets |-> [u \in Upstreams |-> {}],
              domain |-> {}, legacy |-> FALSE]

(* The domain in force for a payload: a legacy one has none of its own. *)
RevisionDomain(payload, current) == IF payload.legacy THEN current ELSE payload.domain

UpstreamsOf(ids) == {r.upstream : r \in RoutesOf(ids)}

(* What the loader of the gateway demands of a revision. *)
Loads(payload, current) ==
  /\ ConflictFree(RoutesOf(payload.routes), RevisionDomain(payload, current))
  /\ \A u \in UpstreamsOf(payload.routes) : payload.targets[u] # {}

ASSUME RoutingAssumption ==
  /\ None \notin Publishers
  /\ {} \in Domains
  /\ TargetsOf \in [Upstreams -> SUBSET Targets]
  /\ \A r \in Routes : r.upstream \in Upstreams
  /\ \A r, s \in Routes : r.id = s.id => r = s
  /\ MaxRevisions \in Nat
  /\ InitialRevisions \in Seq(Payload)
  /\ \A i \in DOMAIN InitialRevisions :
       /\ InitialRevisions[i].domain = {}
       /\ Loads(InitialRevisions[i], {})
       /\ \A u \in Upstreams : InitialRevisions[i].targets[u] \subseteq TargetsOf[u]

(* What may stand in a route or be the default domain (hostSchema and      *)
(* normalizeRouteHost): a host has no more labels than characters.         *)
Host == {h \in [wild : BOOLEAN, labels : Seq(STRING)] : 0 < Len(h.labels) /\ Len(h.labels) =< 253}

(* Patterns that localeCompare calls equal have their parameters in the    *)
(* same places.  Their literals may still differ, as the two encodings of  *)
(* an accent do.                                                           *)
ASSUME PatternAssumption ==
  /\ \A hosts \in {r.hosts : r \in Routes} \cup Domains : hosts \subseteq Host
  /\ IsFiniteSet(Routes)
  /\ \A r \in Routes : r.shape \in Seq(STRING) /\ r.rank \in Int /\ r.id \in Int
  /\ \A r, s \in Routes : r.rank = s.rank =>
       /\ Len(r.shape) = Len(s.shape)
       /\ \A kind \in {Param, CatchAll} : Segments(r.shape, kind) = Segments(s.shape, kind)
  /\ \A r \in Routes : \A i \in DOMAIN r.shape :
       r.shape[i] # DotSegment /\ (r.shape[i] = CatchAll => i = Len(r.shape))

(* The requests made of the routes themselves: a new word in place of a    *)
(* parameter, a slash that is encoded in place of a catch-all, sent to one *)
(* of the hosts, below a wildcard, or to an unknown host.  The properties  *)
(* try these at least.                                                     *)
AllHosts == UNION ({r.hosts : r \in Routes} \cup Domains)
NameOf(host) == IF host.wild THEN <<NewWord>> \o host.labels ELSE host.labels
PathOf(shape) ==
  [i \in DOMAIN shape |-> IF shape[i] = Param THEN NewWord
                          ELSE IF shape[i] = CatchAll THEN EncodedSlash ELSE shape[i]]
OwnRequests ==
  {[method |-> r.method, path |-> PathOf(r.shape), host |-> name] :
     r \in Routes, name \in {<<NewWord>>} \cup {NameOf(host) : host \in AllHosts}}

ASSUME RequestsAssumption ==
  /\ \A r \in Routes : \A i \in DOMAIN r.shape : r.shape[i] \notin {NewWord, EncodedSlash}
  /\ \A host \in AllHosts : \A i \in DOMAIN host.labels : host.labels[i] # NewWord
  /\ OwnRequests \subseteq Requests

VARIABLES
  live,          \* ids of the routes that are active, with product, version and upstream
  enabled,       \* enabled targets
  ready,         \* targets whose configuration state isServiceTargetReady accepts
  managed,       \* upstreams with a service connection
  defaultDomain, \* platform_runtime.default_domain
  revisions,     \* routing_revisions in sequence order
  active,        \* place of platform_runtime.active_revision_id, 0 when null
  runtimeLock,   \* who holds the row of platform_runtime
  session        \* what each transaction is about to do and has read

tables == <<live, enabled, ready, managed, defaultDomain>>
vars == <<live, enabled, ready, managed, defaultDomain, revisions, active,
          runtimeLock, session>>

-----------------------------------------------------------------------------
(* A transaction's change, as the rows it switches on and off. *)

Change == [routesOn : SUBSET RouteIds, routesOff : SUBSET RouteIds,
           targetsOn : SUBSET Targets, targetsOff : SUBSET Targets,
           domain : Domains, publish : BOOLEAN]

NoChange == [routesOn |-> {}, routesOff |-> {}, targetsOn |-> {}, targetsOff |-> {},
             domain |-> defaultDomain, publish |-> TRUE]

Session == [at : {"idle", "locked", "routes", "targets"}, change : Change,
            routes : SUBSET RouteIds, managed : SUBSET Upstreams,
            enabled : SUBSET Targets, ready : SUBSET Targets]

Idle == [at |-> "idle",
         change |-> [routesOn |-> {}, routesOff |-> {}, targetsOn |-> {},
                     targetsOff |-> {}, domain |-> {}, publish |-> FALSE],
         routes |-> {}, managed |-> {}, enabled |-> {}, ready |-> {}]

(* The tables as the transaction sees them, its own change included. *)
LiveWith(change) == (live \ change.routesOff) \cup change.routesOn
EnabledWith(change) == (enabled \ change.targetsOff) \cup change.targetsOn
(* Enabling a managed target clears its configuration state. *)
ReadyWith(change) ==
  ready \ {t \in change.targetsOn : \E u \in managed : t \in TargetsOf[u]}

(* Switching a discovered route switches the support routes of its         *)
(* upstream: they are active while a public route of it is.                *)
SupportOf(u) == RoutesOn(u) \cap SupportRoutes
SupportDue(u, ids) == IF (ids \cap RoutesOn(u)) \ SupportRoutes # {} THEN SupportOf(u) ELSE {}

RouteChange(r, on, publish) ==
  LET ids == IF on THEN live \cup {r.id} ELSE live \ {r.id}
      due == IF r.upstream \in managed THEN SupportDue(r.upstream, ids) ELSE {}
      obsolete == IF r.upstream \in managed THEN SupportOf(r.upstream) \ due ELSE {}
  IN  [NoChange EXCEPT !.routesOn = (IF on THEN {r.id} ELSE {}) \cup due,
                       !.routesOff = (IF on THEN {} ELSE {r.id}) \cup obsolete,
                       !.publish = publish]

(* The last usable target of an upstream with active routes stays enabled. *)
CanDisable(u, t) ==
  LET others == (TargetsOf[u] \cap enabled) \ {t}
  IN  \/ live \cap RoutesOn(u) = {}
      \/ u \in managed /\ others \cap ready # {}
      \/ u \notin managed /\ others # {}

EnableTarget(u, t) == [NoChange EXCEPT !.targetsOn = {t}, !.publish = u \notin managed]
DisableTarget(u, t) == [NoChange EXCEPT !.targetsOff = {t}]

(* The changes an administrator can ask for now. *)
RouteChanges ==
  {RouteChange(r, r.id \notin live, TRUE) : r \in {x \in Routes : x.id \notin SupportRoutes}}
  \cup {RouteChange(r, r.id \notin live, FALSE) :
          r \in {x \in Routes : x.id \notin SupportRoutes /\ x.upstream \in managed}}
TargetChanges(u) ==
  {EnableTarget(u, t) : t \in TargetsOf[u] \ enabled}
  \cup {DisableTarget(u, t) : t \in {x \in TargetsOf[u] \cap enabled : CanDisable(u, x)}}
DomainChanges == {[NoChange EXCEPT !.domain = d] : d \in Domains}

PossibleChanges ==
  {NoChange} \cup RouteChanges \cup DomainChanges \cup UNION {TargetChanges(u) : u \in Upstreams}

-----------------------------------------------------------------------------
(* A new database, or one that was published in before. *)
LastPayload ==
  IF InitialRevisions = <<>> THEN NoPayload ELSE InitialRevisions[Len(InitialRevisions)]

Init ==
  /\ revisions = InitialRevisions
  /\ active = Len(InitialRevisions)
  /\ live = LastPayload.routes
  /\ managed = LastPayload.managed
  /\ enabled = Targets
  /\ ready = UNION {LastPayload.targets[u] : u \in LastPayload.managed}
  /\ defaultDomain = {}
  /\ runtimeLock = None
  /\ session = [p \in Publishers |-> Idle]

(* SLIP: the runtime row is read without FOR UPDATE. *)
ReadRuntimeRow(p) == runtimeLock' = p

TakeRuntimeLock(p) == runtimeLock = None /\ runtimeLock' = p

(* applyPlatformMutation and applyPlatformRevision: lock, then change. *)
Begin(p, change) ==
  /\ session[p].at = "idle"
  /\ change.publish => Len(revisions) < MaxRevisions
  /\ TakeRuntimeLock(p)
  /\ session' = [session EXCEPT ![p] = [Idle EXCEPT !.at = "locked", !.change = change]]
  /\ UNCHANGED <<tables, revisions, active>>

(* The end of a transaction, whichever way. *)
Leave(p) ==
  /\ runtimeLock' = None
  /\ session' = [session EXCEPT ![p] = Idle]

WriteChange(change) ==
  /\ live' = LiveWith(change)
  /\ enabled' = EnabledWith(change)
  /\ ready' = ReadyWith(change)
  /\ defaultDomain' = change.domain
  /\ UNCHANGED managed

(* publishRouting: false *)
CommitUnpublished(p) ==
  /\ session[p].at = "locked" /\ ~session[p].change.publish
  /\ WriteChange(session[p].change)
  /\ Leave(p)
  /\ UNCHANGED <<revisions, active>>

(* The query over routes, products, versions, upstreams and connections. *)
ReadRoutes(p) ==
  /\ session[p].at = "locked" /\ session[p].change.publish
  /\ session' = [session EXCEPT ![p].at = "routes",
                                ![p].routes = LiveWith(session[p].change),
                                ![p].managed = managed]
  /\ UNCHANGED <<tables, revisions, active, runtimeLock>>

(* The targets of those upstreams, and the connections they must match. *)
ReadTargets(p) ==
  /\ session[p].at = "routes"
  /\ session' = [session EXCEPT ![p].at = "targets",
                                ![p].enabled = EnabledWith(session[p].change),
                                ![p].ready = ReadyWith(session[p].change)]
  /\ UNCHANGED <<tables, revisions, active, runtimeLock>>

-----------------------------------------------------------------------------
(* The configuration a transaction computes from what it has read. *)

ActivePayload == IF active = 0 THEN NoPayload ELSE revisions[active]

(* SLIP: the target rows of all upstreams are not told apart. *)
UsableOfAny(s, u) == {t \in s.enabled : u \in s.managed => t \in s.ready}

UsableTargets(s, u) ==
  {t \in TargetsOf[u] \cap s.enabled : u \in s.managed => t \in s.ready}

(* SLIP: an upstream that is not ready is always left out. *)
KeepsNothing(s, u) == FALSE

(* A managed upstream without a ready target keeps what the active         *)
(* revision has of it, less the targets that have been disabled.           *)
Keeps(s, u) == u \in s.managed /\ UsableTargets(s, u) = {} /\ ActivePayload.targets[u] # {}

PublishedTargets(s, u) ==
  IF u \notin UpstreamsOf(s.routes) THEN {}
  ELSE IF Keeps(s, u) THEN ActivePayload.targets[u] \cap TargetsOf[u] \cap s.enabled
  ELSE UsableTargets(s, u)

(* SLIP: the runtime row that was read first is used after the change. *)
DomainReadFirst(s) == defaultDomain

PublishedDomain(s) == s.change.domain

Configuration(s) ==
  LET targets == [u \in Upstreams |-> PublishedTargets(s, u)]
      present == {u \in Upstreams : targets[u] # {}}
  IN  [routes |-> {id \in s.routes : UpstreamsOf({id}) \subseteq present},
       managed |-> {u \in present : IF Keeps(s, u) THEN u \in ActivePayload.managed
                                                   ELSE u \in s.managed},
       targets |-> targets,
       domain |-> PublishedDomain(s),
       legacy |-> FALSE]

(* SLIP: the conflict check uses the domain read before the change. *)
RejectedByOldDomain(s) ==
  \/ \E u \in UpstreamsOf(s.routes) \ s.managed : PublishedTargets(s, u) = {}
  \/ ~ConflictFree(RoutesOf(Configuration(s).routes), defaultDomain)

(* UPSTREAM_HAS_NO_TARGETS and REVISION_ROUTE_CONFLICT. *)
Rejected(s) ==
  \/ \E u \in UpstreamsOf(s.routes) \ s.managed : PublishedTargets(s, u) = {}
  \/ ~ConflictFree(RoutesOf(Configuration(s).routes), s.change.domain)

Store(desired) ==
  /\ revisions' = Append(revisions, desired)
  /\ active' = Len(revisions) + 1

Publish(p) ==
  LET s == session[p]
      desired == Configuration(s)
  IN  /\ s.at = "targets"
      /\ ~Rejected(s)
      /\ IF active # 0 /\ revisions[active] = desired
         THEN UNCHANGED <<revisions, active>>
         ELSE Store(desired)
      /\ WriteChange(s.change)
      /\ Leave(p)

(* The 409 answers; a lost connection or a stopped process ends a          *)
(* transaction at any point with the same effect.                          *)
Rollback(p) ==
  /\ session[p].at # "idle"
  /\ Leave(p)
  /\ UNCHANGED <<tables, revisions, active>>

(* routingRevisionService.activate, one transaction under the same lock. *)
Activate(i) ==
  LET payload == revisions[i]
      domain == RevisionDomain(payload, defaultDomain)
  IN  /\ runtimeLock = None
      /\ i # active
      /\ ConflictFree(RoutesOf(payload.routes), domain)
      /\ active' = i
      /\ defaultDomain' = domain
      /\ UNCHANGED <<live, enabled, ready, managed, revisions, runtimeLock, session>>

-----------------------------------------------------------------------------
(* The writers that do not take the runtime lock. *)

(* Discovery, a configuration push or a new desired configuration changes  *)
(* whether a target of a managed upstream is ready.                        *)
ChangeReadiness(t) ==
  /\ \E u \in managed : t \in TargetsOf[u]
  /\ ready' = IF t \in ready THEN ready \ {t} ELSE ready \cup {t}
  /\ UNCHANGED <<live, enabled, managed, defaultDomain, revisions, active,
                 runtimeLock, session>>

(* updateServiceToken *)
Connect(u) ==
  /\ u \notin managed
  /\ managed' = managed \cup {u}
  /\ UNCHANGED <<live, enabled, ready, defaultDomain, revisions, active,
                 runtimeLock, session>>

(* synchronizeEndpointSupportRoutes after a discovery.  It reads the       *)
(* public routes before it writes, so it may act on what was true before.  *)
SyncSupportRoutes(u, on) ==
  /\ u \in managed
  /\ SupportOf(u) # {}
  /\ live' = IF on THEN live \cup SupportOf(u) ELSE live \ SupportOf(u)
  /\ UNCHANGED <<enabled, ready, managed, defaultDomain, revisions, active,
                 runtimeLock, session>>

Next ==
  \/ \E p \in Publishers, change \in PossibleChanges : Begin(p, change)
  \/ \E p \in Publishers : CommitUnpublished(p)
  \/ \E p \in Publishers : ReadRoutes(p)
  \/ \E p \in Publishers : ReadTargets(p)
  \/ \E p \in Publishers : Publish(p)
  \/ \E p \in Publishers : Rollback(p)
  \/ \E i \in DOMAIN revisions : Activate(i)
  \/ \E t \in Targets : ChangeReadiness(t)
  \/ \E u \in Upstreams : Connect(u)
  \/ \E u \in Upstreams, on \in BOOLEAN : SyncSupportRoutes(u, on)

Spec == Init /\ [][Next]_vars

-----------------------------------------------------------------------------
(* Properties *)

(* The rows and sessions keep their types, the active revision exists, and *)
(* no revision sends an upstream's requests to a target of another one.    *)
TypeOK ==
  /\ live \subseteq RouteIds
  /\ enabled \subseteq Targets
  /\ ready \subseteq Targets
  /\ managed \subseteq Upstreams
  /\ defaultDomain \in Domains
  /\ revisions \in Seq(Payload)
  /\ \A i \in DOMAIN revisions, u \in Upstreams : revisions[i].targets[u] \subseteq TargetsOf[u]
  /\ active \in 0..Len(revisions)
  /\ runtimeLock \in Publishers \cup {None}
  /\ session \in [Publishers -> Session]

(* The revision the gateways are told to load passes every check of their  *)
(* loader: whatever was published, rolled back to or changed meanwhile, no *)
(* gateway meets an active revision it must refuse (routing-runtime-       *)
(* service.ts answers 503 to every request then).                          *)
ActiveRevisionLoads == active # 0 => Loads(revisions[active], defaultDomain)

(* The default domain shown and edited by administrators is the one the    *)
(* active revision answers on: a rollback brings the domain of its         *)
(* revision back, and no publication keeps an older one.                   *)
DomainAgrees ==
  active # 0 /\ ~revisions[active].legacy => revisions[active].domain = defaultDomain

(* A publication that succeeds leaves the gateway with what the tables say *)
(* at that moment, whatever another administrator was publishing: the      *)
(* domain, no disabled target, and every active public route, except those *)
(* of a service-managed upstream that has nothing to route to.             *)
PublicationIsCurrent ==
  [][\A p \in Publishers : Publish(p) =>
       LET new == revisions'[active']
       IN  /\ new.domain = defaultDomain'
           /\ new.routes \ SupportRoutes \subseteq live'
           /\ \A u \in Upstreams : new.targets[u] \subseteq enabled'
           /\ \A r \in RoutesOf((live' \ SupportRoutes) \ new.routes) :
                r.upstream \in managed' /\ new.targets[r.upstream] = {}]_vars

(* An upstream with an active public route that could serve traffic before *)
(* a publication, and one of whose published targets is still enabled, can *)
(* serve it afterwards: discovery that is late or fails, or a token that   *)
(* turns the upstream into a managed one, never drops it.                  *)
RoutedUpstreamStays ==
  [][\A p \in Publishers, u \in Upstreams :
       /\ Publish(p)
       /\ (live' \cap RoutesOn(u)) \ SupportRoutes # {}
       /\ active # 0
       /\ revisions[active].targets[u] \cap enabled' # {}
       => revisions'[active'].targets[u] # {}]_vars

(* The published routes work together: every route answers some request,   *)
(* so none that the administrators see as live is shadowed by the others   *)
(* of its revision (findRoutingRouteConflict rejects the sets in which one *)
(* would be, candidateOutranks ranks the rest), and the Allow header lists *)
(* a method exactly when a request with it finds a route.                  *)
EveryRouteReachable ==
  active # 0 =>
    LET domain == RevisionDomain(revisions[active], defaultDomain)
        routes == RoutesOf(revisions[active].routes)
        answers == {[to |-> q, from |-> Resolve(routes, domain, q)] : q \in Requests}
    IN  /\ \A r \in routes : \E a \in answers : a.from = {r}
        /\ \A a \in answers :
             a.to.method \in AllowedMethods(routes, domain, a.to.path, a.to.host)
               <=> a.from # {}

(* The order of the ids, which means nothing to an administrator, never    *)
(* decides which route answers.                                            *)
IdsNeverDecide ==
  active # 0 =>
    LET domain == RevisionDomain(revisions[active], defaultDomain)
        routes == RoutesOf(revisions[active].routes)
    IN  \A q \in Requests : \A r, s \in Candidates(routes, domain, q) :
          r # s => ~Tied(r, s, domain, q)
=============================================================================
