------------------------- MODULE MCRoutingRevisions -------------------------
(* Two administrators, one manual and one service-managed upstream, routes *)
(* that are in conflict under one default domain and not under the other,  *)
(* and a support route.                                                    *)
EXTENDS RoutingRevisions, TLC

CONSTANTS p1, p2, u1, u2, t1, t2, t3

MCPublishers == {p1, p2}
MCUpstreams == {u1, u2}
MCTargets == {t1, t2, t3}
MCTargetsOf == [u \in MCUpstreams |-> IF u = u1 THEN {t1} ELSE {t2, t3}]

(* Publishers are interchangeable. *)
MCSymmetry == Permutations(MCPublishers)

Exact == [wild |-> FALSE, labels |-> <<"x">>]
Wild == [wild |-> TRUE, labels |-> <<"x">>]
MCDomains == {{}, {Exact}}

Route(id, hosts, shape, rank, upstream) ==
  [id |-> id, hosts |-> hosts, method |-> "GET", shape |-> shape, rank |-> rank,
   upstream |-> upstream]

(* The catch-all sorts before the parameter, as "/{all+}" does before      *)
(* "/{id}".                                                                *)
MCRoutes ==
  {Route(1, {}, <<Param>>, 2, u1),
   Route(2, {Exact, Wild}, <<Param>>, 2, u2),
   Route(3, {}, <<CatchAll>>, 1, u2)}
MCSupportRoutes == {3}

(* A revision of an older release, then one of this release. *)
MCInitialRevisions ==
  LET targets(s1, s2) == [u \in MCUpstreams |-> IF u = u1 THEN s1 ELSE s2]
  IN  <<[routes |-> {1}, managed |-> {}, targets |-> targets({t1}, {}),
         domain |-> {}, legacy |-> TRUE],
        [routes |-> {1, 2}, managed |-> {u2}, targets |-> targets({t1}, {t2}),
         domain |-> {}, legacy |-> FALSE]>>

(* Paths of one and of two segments and a slash that is encoded, hosts    *)
(* that are listed, below a wildcard and unknown, and other methods; and   *)
(* what is made of the routes themselves.                                  *)
MCRequests ==
  LET request(m, p, h) == [method |-> m, path |-> p, host |-> h]
  IN  {request("GET", p, h) : p \in {<<"a">>, <<"a", "b">>}, h \in {<<"x">>, <<"y">>}}
        \cup {request("GET", <<"a">>, <<"w", "x">>), request("GET", <<EncodedSlash>>, <<"x">>),
              request("HEAD", <<"a">>, <<"x">>), request("POST", <<"a">>, <<"y">>)}
        \cup {request("GET", p, h) : p \in {<<NewWord>>, <<EncodedSlash>>},
                                    h \in {<<NewWord>>, <<"x">>, <<NewWord, "x">>}}
=============================================================================
