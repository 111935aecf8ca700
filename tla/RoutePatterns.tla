--------------------------- MODULE RoutePatterns ---------------------------
(***************************************************************************)
(* How a published route is matched and ranked, and when two routes are in *)
(* conflict: server/utils/route-pattern.ts, server/utils/                  *)
(* routing-conflict.ts and the resolution half of                          *)
(* server/services/routing-runtime-service.ts.                             *)
(*                                                                         *)
(* A path pattern is the sequence of its normalized segments: a literal,   *)
(* Param ("{name}") or, in the last place only, CatchAll ("{name+}"); "/"  *)
(* is the empty sequence.  A host is its labels, from left to right, and   *)
(* whether it starts with "*.".  A route is a record of                    *)
(*   id     its place among the ids in localeCompare order                 *)
(*   hosts  its own hosts, {} when it has none                             *)
(*   method, shape (the pattern), upstream                                 *)
(*   rank   the place of its pathPattern in localeCompare order            *)
(* A default domain is a set of hosts with at most one member.             *)
(***************************************************************************)
EXTENDS Integers, Sequences, FiniteSets

Param == "{}"
CatchAll == "{+}"

(* Request segments that need care: one whose decoded form has a slash in  *)
(* it, and one that decodes to "." or "..".                                *)
EncodedSlash == "a%2Fb"
DotSegment == "%2e%2e"

(* A word that is a segment of no pattern and a label of no host. *)
NewWord == "new"

(* The key under which a route without a host and without a default domain *)
(* is compared with the others.                                            *)
AnyHost == [wild |-> TRUE, labels |-> <<>>]

-----------------------------------------------------------------------------
(* Paths *)

Segments(shape, kind) == {i \in DOMAIN shape : shape[i] = kind}

HasCatchAll(shape) == Segments(shape, CatchAll) # {}

(* SLIP: a catch-all counts like any parameter. *)
NoPenalty(shape) == 0

CatchAllPenalty(shape) == IF HasCatchAll(shape) THEN 100 ELSE 0

PathSpecificity(shape) ==
  LET parameters == Cardinality(Segments(shape, Param) \cup Segments(shape, CatchAll))
  IN  IF shape = <<>> THEN 1000
      ELSE (Len(shape) - parameters) * 1000 + Len(shape) * 10
             - parameters - CatchAllPenalty(shape)

SegmentMatches(segment, incoming) ==
  \/ segment = Param /\ incoming # EncodedSlash
  \/ segment = CatchAll
  \/ segment = incoming

(* A catch-all takes one segment or more. *)
MatchesPath(shape, path) ==
  /\ \A i \in DOMAIN path : path[i] # DotSegment
  /\ IF HasCatchAll(shape) THEN Len(path) >= Len(shape) ELSE Len(path) = Len(shape)
  /\ \A i \in DOMAIN shape : SegmentMatches(shape[i], path[i])

-----------------------------------------------------------------------------
(* Hosts *)

EndsWith(labels, suffix) ==
  /\ Len(labels) >= Len(suffix)
  /\ \A i \in 1..Len(suffix) :
       labels[Len(labels) - Len(suffix) + i] = suffix[i]

HostMatches(host, incoming) ==
  IF host.wild
  THEN Len(incoming) > Len(host.labels) /\ EndsWith(incoming, host.labels)
  ELSE incoming = host.labels

HostsOf(route, domain) == IF route.hosts # {} THEN route.hosts ELSE domain

WildWeight == 1000000
ExactWeight == 2000000
HostWeight(host) == (IF host.wild THEN WildWeight ELSE ExactWeight) + Len(host.labels)

(* 0 when the route answers on every host, -1 when none of its hosts       *)
(* matches, otherwise the weight of the best one.                          *)
MatchingHosts(route, domain, incoming) ==
  {h \in HostsOf(route, domain) : HostMatches(h, incoming)}

BestHost(hosts) == CHOOSE h \in hosts : \A g \in hosts : HostWeight(g) =< HostWeight(h)

HostSpecificity(route, domain, incoming) ==
  IF HostsOf(route, domain) = {} THEN 0
  ELSE IF MatchingHosts(route, domain, incoming) = {} THEN -1
  ELSE HostWeight(BestHost(MatchingHosts(route, domain, incoming)))

-----------------------------------------------------------------------------
(* Conflicts *)

(* SLIP: the default domain is forgotten. *)
OwnHosts(route, domain) == IF route.hosts = {} THEN {AnyHost} ELSE route.hosts

EffectiveHosts(route, domain) ==
  IF HostsOf(route, domain) = {} THEN {AnyHost} ELSE HostsOf(route, domain)

Conflicting(r, s, domain) ==
  /\ r.id # s.id
  /\ r.method = s.method
  /\ r.shape = s.shape
  /\ EffectiveHosts(r, domain) \cap EffectiveHosts(s, domain) # {}

ConflictFree(routes, domain) ==
  \A r, s \in routes : ~Conflicting(r, s, domain)

-----------------------------------------------------------------------------
(* Resolution.  A request is a record of method, path and host (labels). *)

AnswersMethod(route, method) ==
  route.method = method \/ (method = "HEAD" /\ route.method = "GET")

MethodSpecificity(route, method) == IF route.method = method THEN 1 ELSE 0

Candidates(routes, domain, request) ==
  {r \in routes :
     /\ AnswersMethod(r, request.method)
     /\ HostSpecificity(r, domain, request.host) >= 0
     /\ MatchesPath(r.shape, request.path)}

(* The comparison of two candidates, before the ids are looked at. *)
OutranksByPattern(r, s, domain, request) ==
  LET host(x) == HostSpecificity(x, domain, request.host)
      path(x) == PathSpecificity(x.shape)
      method(x) == MethodSpecificity(x, request.method)
  IN  \/ host(r) > host(s)
      \/ host(r) = host(s) /\ path(r) > path(s)
      \/ host(r) = host(s) /\ path(r) = path(s) /\ method(r) > method(s)
      \/ host(r) = host(s) /\ path(r) = path(s) /\ method(r) = method(s)
           /\ r.rank < s.rank

Tied(r, s, domain, request) ==
  /\ ~OutranksByPattern(r, s, domain, request)
  /\ ~OutranksByPattern(s, r, domain, request)

Outranks(r, s, domain, request) ==
  \/ OutranksByPattern(r, s, domain, request)
  \/ Tied(r, s, domain, request) /\ r.id < s.id

(* The route that answers a request: {} when none does. *)
Resolve(routes, domain, request) ==
  LET candidates == Candidates(routes, domain, request)
  IN  {r \in candidates : \A s \in candidates \ {r} : Outranks(r, s, domain, request)}

(* What the Allow header of an OPTIONS or 405 answer lists. *)
AllowedMethods(routes, domain, path, host) ==
  LET answering == {r \in routes : /\ HostSpecificity(r, domain, host) >= 0
                                   /\ MatchesPath(r.shape, path)}
      methods == {r.method : r \in answering}
  IN  methods \cup (IF "GET" \in methods THEN {"HEAD"} ELSE {})
=============================================================================
