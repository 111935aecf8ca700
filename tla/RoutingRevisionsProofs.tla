----------------------- MODULE RoutingRevisionsProofs -----------------------
(***************************************************************************)
(* What holds of publications for any number of administrators, routes,    *)
(* upstreams and revisions, and of the routes that answer then.            *)
(*                                                                         *)
(* The argument: a transaction that is open holds the runtime row (Locked), *)
(* so what it has read still agrees with the tables when it publishes,     *)
(* except for the support routes and connections that discovery writes     *)
(* without the lock (Seen), and every revision that was ever stored has    *)
(* targets for its routes (Stored).  Up to the lemmas on which route       *)
(* answers, when two routes are in conflict (ConflictFree) is not looked   *)
(* into: the results before hold for every notion of conflict that         *)
(* publication, rollback and loader share.                                 *)
(***************************************************************************)
EXTENDS RoutingRevisions, FiniteSetTheorems, SequenceTheorems, TLAPS

(* What TypeOK says, part by part. *)
TableTypes ==
  /\ live \subseteq RouteIds
  /\ enabled \subseteq Targets
  /\ ready \subseteq Targets
  /\ managed \subseteq Upstreams
  /\ defaultDomain \in Domains
RevisionTypes == revisions \in Seq(Payload) /\ active \in 0..Len(revisions)
SessionTypes == runtimeLock \in Publishers \cup {None} /\ session \in [Publishers -> Session]

Locked == \A p \in Publishers : session[p].at # "idle" => runtimeLock = p

(* What an open transaction relies on. *)
Sees(p) ==
  LET s == session[p]
  IN  /\ s.at # "idle" /\ ~s.change.publish =>
           s.at = "locked" /\ s.change.domain = defaultDomain
      /\ s.at \in {"routes", "targets"} =>
           /\ s.routes \ SupportRoutes = LiveWith(s.change) \ SupportRoutes
           /\ s.managed \subseteq managed
      /\ s.at = "targets" => s.enabled = EnabledWith(s.change)
Seen == \A p \in Publishers : Sees(p)

(* A payload that every check but the one for conflicts lets through. *)
Routable(payload) ==
  /\ \A u \in Upstreams : payload.targets[u] \subseteq TargetsOf[u]
  /\ \A u \in UpstreamsOf(payload.routes) : payload.targets[u] # {}
Stored == \A i \in DOMAIN revisions : Routable(revisions[i])

IInv == /\ TableTypes /\ RevisionTypes /\ SessionTypes
        /\ Locked /\ Seen /\ Stored
        /\ ActiveRevisionLoads /\ DomainAgrees

-----------------------------------------------------------------------------
LEMMA TypesTogether == TableTypes /\ RevisionTypes /\ SessionTypes /\ Stored => TypeOK
BY DEF TypeOK, TableTypes, RevisionTypes, SessionTypes, Stored, Routable

LEMMA Constants ==
  /\ None \notin Publishers /\ {} \in Domains /\ MaxRevisions \in Nat
  /\ TargetsOf \in [Upstreams -> SUBSET Targets]
  /\ \A r \in Routes : r.upstream \in Upstreams /\ r.id \in RouteIds
  /\ \A r, s \in Routes : r.id = s.id => r = s
BY RoutingAssumption DEF RouteIds

LEMMA UpstreamsAre ==
  ASSUME NEW ids
  PROVE  UpstreamsOf(ids) \subseteq Upstreams
BY Constants DEF UpstreamsOf, RoutesOf

LEMMA IdleType == Idle \in Session /\ Idle.at = "idle"
BY Constants DEF Idle, Session, Change

LEMMA IdleSees ==
  ASSUME NEW p \in Publishers, session'[p].at = "idle"
  PROVE  Sees(p)'
BY DEF Sees

(* A transaction leaves the states of the others alone: nobody else has    *)
(* one open.                                                               *)
LEMMA OnlyHolder ==
  ASSUME SessionTypes, Locked, NEW p \in Publishers, session[p].at # "idle"
  PROVE  \A q \in Publishers \ {p} : session[q].at = "idle"
BY DEF SessionTypes, Locked

LEMMA NobodyOpen ==
  ASSUME SessionTypes, Locked, runtimeLock = None
  PROVE  \A p \in Publishers : session[p].at = "idle"
BY Constants DEF SessionTypes, Locked

(* COMMIT or ROLLBACK. *)
LEMMA LeaveKeeps ==
  ASSUME SessionTypes, Locked, NEW p \in Publishers, session[p].at # "idle", Leave(p)
  PROVE  SessionTypes' /\ Locked' /\ Seen'
<1>1. session' \in [Publishers -> Session] /\ session'[p] = Idle
      /\ \A q \in Publishers \ {p} : session'[q] = session[q]
  BY IdleType DEF Leave, SessionTypes
<1>2. \A q \in Publishers : session'[q].at = "idle"
  BY <1>1, IdleType, OnlyHolder
<1>3. SessionTypes'
  BY <1>1 DEF Leave, SessionTypes
<1> QED
  BY <1>2, <1>3, IdleSees DEF Locked, Seen

-----------------------------------------------------------------------------
(* The changes an administrator can ask for. *)
Good(c) == c \in Change /\ (~c.publish => c.domain = defaultDomain)

LEMMA ChangeTypes ==
  ASSUME TableTypes, NEW change \in PossibleChanges
  PROVE  Good(change)
<1>1. NoChange \in Change /\ NoChange.domain = defaultDomain
  BY DEF NoChange, Change, TableTypes
<1>2. Good(NoChange)
  BY <1>1 DEF Good
<1>3. ASSUME NEW r \in Routes, NEW on \in BOOLEAN, NEW publish \in BOOLEAN
      PROVE  Good(RouteChange(r, on, publish))
  <2> DEFINE ids == IF on THEN live \cup {r.id} ELSE live \ {r.id}
             due == IF r.upstream \in managed THEN SupportDue(r.upstream, ids) ELSE {}
             obsolete == IF r.upstream \in managed THEN SupportOf(r.upstream) \ due ELSE {}
             switchOn == (IF on THEN {r.id} ELSE {}) \cup due
             switchOff == (IF on THEN {} ELSE {r.id}) \cup obsolete
  <2>1. SupportOf(r.upstream) \subseteq RouteIds
    BY DEF SupportOf, RoutesOn, RouteIds
  <2>2. due \subseteq RouteIds /\ obsolete \subseteq RouteIds
    BY <2>1 DEF SupportDue
  <2>3. switchOn \in SUBSET RouteIds /\ switchOff \in SUBSET RouteIds
    BY <2>2, Constants
  <2>4. RouteChange(r, on, publish)
          = [NoChange EXCEPT !.routesOn = switchOn, !.routesOff = switchOff, !.publish = publish]
    BY DEF RouteChange
  <2> HIDE DEF switchOn, switchOff
  <2>5. \A A, B \in SUBSET RouteIds :
          Good([NoChange EXCEPT !.routesOn = A, !.routesOff = B, !.publish = publish])
    BY <1>1 DEF Change, Good
  <2> QED
    BY <2>3, <2>4, <2>5
<1>4. ASSUME NEW u \in Upstreams, NEW t \in TargetsOf[u]
      PROVE  Good(EnableTarget(u, t)) /\ Good(DisableTarget(u, t))
  <2>1. {t} \in SUBSET Targets
    BY Constants
  <2>2. \A S \in SUBSET Targets, b \in BOOLEAN :
          /\ Good([NoChange EXCEPT !.targetsOn = S, !.publish = b])
          /\ Good([NoChange EXCEPT !.targetsOff = S])
    BY <1>1 DEF Change, Good
  <2> QED
    BY <2>1, <2>2 DEF EnableTarget, DisableTarget
<1>5. ASSUME NEW d \in Domains
      PROVE  Good([NoChange EXCEPT !.domain = d])
  BY <1>1 DEF NoChange, Change, Good
<1>6. Good(change)
  <2>1. CASE change = NoChange
    BY <1>2, <2>1
  <2>2. CASE change \in RouteChanges
    <3>1. \E r \in Routes, publish \in BOOLEAN : change = RouteChange(r, r.id \notin live, publish)
      BY <2>2, Zenon DEF RouteChanges
    <3> QED
      BY <1>3, <3>1
  <2>3. ASSUME NEW u \in Upstreams, change \in TargetChanges(u)
        PROVE  Good(change)
    <3>1. \E t \in TargetsOf[u] : change \in {EnableTarget(u, t), DisableTarget(u, t)}
      BY <2>3, Zenon DEF TargetChanges
    <3> QED
      BY <1>4, <3>1
  <2>4. CASE change \in DomainChanges
    BY <1>5, <2>4 DEF DomainChanges
  <2>5. \/ change = NoChange \/ change \in RouteChanges
        \/ \E u \in Upstreams : change \in TargetChanges(u)
        \/ change \in DomainChanges
    BY DEF PossibleChanges
  <2>6. (\E u \in Upstreams : change \in TargetChanges(u)) => Good(change)
    BY <2>3
  <2> QED
    BY <2>1, <2>2, <2>4, <2>5, <2>6
<1> QED
  BY <1>6

(* The tables after a change. *)
LEMMA WriteTypes ==
  ASSUME TableTypes, NEW change \in Change, WriteChange(change)
  PROVE  TableTypes'
BY DEF TableTypes, WriteChange, LiveWith, EnabledWith, ReadyWith, Change

-----------------------------------------------------------------------------
(* The configuration a publication computes. *)
LEMMA PublishedFrom ==
  ASSUME RevisionTypes, NEW s \in Session, NEW u \in Upstreams
  PROVE  /\ PublishedTargets(s, u) \subseteq TargetsOf[u] \cap s.enabled
         /\ PublishedTargets(s, u) # {} => u \in UpstreamsOf(s.routes)
BY DEF PublishedTargets, UsableTargets

LEMMA ConfigurationFields ==
  ASSUME NEW s
  PROVE  /\ Configuration(s).targets = [u \in Upstreams |-> PublishedTargets(s, u)]
         /\ Configuration(s).routes
              = {id \in s.routes : UpstreamsOf({id}) \subseteq
                                     {u \in Upstreams : PublishedTargets(s, u) # {}}}
         /\ Configuration(s).domain = s.change.domain
         /\ Configuration(s).legacy = FALSE
<1> DEFINE targets == [u \in Upstreams |-> PublishedTargets(s, u)]
           present == {u \in Upstreams : targets[u] # {}}
<1>1. present = {u \in Upstreams : PublishedTargets(s, u) # {}}
  OBVIOUS
<1> QED
  BY <1>1 DEF Configuration, PublishedDomain

LEMMA ConfigurationType ==
  ASSUME RevisionTypes, NEW s \in Session
  PROVE  Configuration(s) \in Payload
<1>1. \A u \in Upstreams : PublishedTargets(s, u) \in SUBSET Targets
  BY PublishedFrom, Constants
<1> DEFINE targets == [u \in Upstreams |-> PublishedTargets(s, u)]
           present == {u \in Upstreams : targets[u] # {}}
           routes == {id \in s.routes : UpstreamsOf({id}) \subseteq present}
           managedUpstreams == {u \in present : IF Keeps(s, u) THEN u \in ActivePayload.managed
                                                               ELSE u \in s.managed}
<1>2. targets \in [Upstreams -> SUBSET Targets]
  BY <1>1
<1>3. s.routes \subseteq RouteIds /\ s.change.domain \in Domains
  BY DEF Session, Change
<1>4. routes \in SUBSET RouteIds /\ managedUpstreams \in SUBSET Upstreams
  BY <1>3
<1>5. Configuration(s) = [routes |-> routes, managed |-> managedUpstreams, targets |-> targets,
                          domain |-> s.change.domain, legacy |-> FALSE]
  BY DEF Configuration, PublishedDomain
<1> HIDE DEF targets, routes, managedUpstreams
<1> QED
  BY <1>2, <1>3, <1>4, <1>5 DEF Payload

LEMMA ConfigurationRoutable ==
  ASSUME RevisionTypes, NEW s \in Session
  PROVE  Routable(Configuration(s))
<1> DEFINE present == {u \in Upstreams : PublishedTargets(s, u) # {}}
<1>0. /\ Configuration(s).targets = [u \in Upstreams |-> PublishedTargets(s, u)]
      /\ Configuration(s).routes = {id \in s.routes : UpstreamsOf({id}) \subseteq present}
  BY ConfigurationFields, Zenon
<1>1. \A u \in Upstreams : Configuration(s).targets[u] = PublishedTargets(s, u)
  BY <1>0
<1>2. \A u \in Upstreams : Configuration(s).targets[u] \subseteq TargetsOf[u]
  BY <1>1, PublishedFrom
<1>3. ASSUME NEW u \in UpstreamsOf(Configuration(s).routes)
      PROVE  Configuration(s).targets[u] # {}
  <2>1. PICK r \in Routes : r.id \in Configuration(s).routes /\ r.upstream = u
    BY DEF UpstreamsOf, RoutesOf
  <2>2. u \in UpstreamsOf({r.id})
    BY <2>1 DEF UpstreamsOf, RoutesOf
  <2>3. u \in Upstreams /\ PublishedTargets(s, u) # {}
    <3>1. UpstreamsOf({r.id}) \subseteq present
      BY <1>0, <2>1
    <3> QED
      BY <2>2, <3>1
  <2> QED
    BY <1>1, <2>3
<1> QED
  BY <1>2, <1>3 DEF Routable

(* The revision a publication activates is the configuration it computed,  *)
(* new or already active.                                                  *)
LEMMA PublishActivates ==
  ASSUME RevisionTypes, Stored, NEW p \in Publishers, session[p] \in Session, Publish(p)
  PROVE  /\ RevisionTypes' /\ Stored'
         /\ active' # 0 /\ revisions'[active'] = Configuration(session[p])
<1> DEFINE s == session[p]
           desired == Configuration(s)
<1>1. desired \in Payload /\ Routable(desired)
  BY ConfigurationType, ConfigurationRoutable
<1>2. \/ active # 0 /\ revisions[active] = desired /\ UNCHANGED <<revisions, active>>
      \/ revisions' = Append(revisions, desired) /\ active' = Len(revisions) + 1
  BY DEF Publish, Store
<1> HIDE DEF desired
<1>3. CASE active # 0 /\ revisions[active] = desired /\ UNCHANGED <<revisions, active>>
  BY <1>3 DEF RevisionTypes, Stored, desired
<1>4. CASE revisions' = Append(revisions, desired) /\ active' = Len(revisions) + 1
  <2>1. revisions \in Seq(Payload) /\ Len(revisions) \in Nat
    BY DEF RevisionTypes
  <2>2. /\ revisions' \in Seq(Payload) /\ Len(revisions') = Len(revisions) + 1
        /\ revisions'[Len(revisions) + 1] = desired
        /\ \A i \in 1..Len(revisions) : revisions'[i] = revisions[i]
    BY <1>1, <1>4, <2>1
  <2>3. RevisionTypes' /\ active' # 0 /\ revisions'[active'] = desired
    BY <1>4, <2>1, <2>2 DEF RevisionTypes
  <2>4. Stored'
    <3> SUFFICES ASSUME NEW i \in DOMAIN revisions'
                 PROVE  Routable(revisions'[i])
      BY DEF Stored, Routable
    <3>1. i \in 1..Len(revisions) \/ i = Len(revisions) + 1
      BY <2>1, <2>2
    <3> QED
      BY <1>1, <2>1, <2>2, <3>1 DEF Stored
  <2> QED
    BY <2>3, <2>4 DEF desired
<1> QED
  BY <1>2, <1>3, <1>4

-----------------------------------------------------------------------------
(* Every action keeps IInv. *)

LEMMA InitIInv == Init => IInv
<1> SUFFICES ASSUME Init
             PROVE  IInv
  OBVIOUS
<1>1. InitialRevisions \in Seq(Payload)
  BY RoutingAssumption
<1>2. RevisionTypes
  BY <1>1 DEF Init, RevisionTypes
<1>3. NoPayload \in Payload
  BY Constants DEF NoPayload, Payload
<1>4. LastPayload \in Payload
  BY <1>1, <1>3 DEF LastPayload
<1>5. TableTypes
  <2>1. /\ LastPayload.routes \subseteq RouteIds /\ LastPayload.managed \subseteq Upstreams
        /\ \A u \in Upstreams : LastPayload.targets[u] \subseteq Targets
    BY <1>4 DEF Payload
  <2>2. UNION {LastPayload.targets[u] : u \in LastPayload.managed} \subseteq Targets
    BY <2>1
  <2> QED
    BY <2>1, <2>2, Constants DEF Init, TableTypes
<1>6. SessionTypes /\ \A p \in Publishers : session[p].at = "idle"
  BY IdleType DEF Init, SessionTypes
<1>7. Locked /\ Seen
  BY <1>6 DEF Locked, Seen, Sees
<1>8. Stored /\ ActiveRevisionLoads /\ DomainAgrees
  <2>1. \A i \in DOMAIN InitialRevisions :
          /\ InitialRevisions[i].domain = {} /\ Loads(InitialRevisions[i], {})
          /\ \A u \in Upstreams : InitialRevisions[i].targets[u] \subseteq TargetsOf[u]
    BY RoutingAssumption
  <2>2. Stored
    BY <2>1 DEF Stored, Routable, Loads, Init
  <2>3. active # 0 => active \in DOMAIN InitialRevisions
    BY <1>1 DEF Init
  <2> QED
    BY <2>1, <2>2, <2>3 DEF ActiveRevisionLoads, DomainAgrees, Init
<1> QED
  BY <1>2, <1>5, <1>6, <1>7, <1>8 DEF IInv

(* The steps that leave revisions and domain alone. *)
LEMMA QuietKeeps ==
  ASSUME IInv, UNCHANGED <<defaultDomain, revisions, active>>
  PROVE  RevisionTypes' /\ Stored' /\ ActiveRevisionLoads' /\ DomainAgrees'
BY DEF IInv, RevisionTypes, Stored, Routable, ActiveRevisionLoads, Loads, DomainAgrees, RevisionDomain

LEMMA BeginKeeps ==
  ASSUME IInv, NEW p \in Publishers, NEW change \in PossibleChanges, Begin(p, change)
  PROVE  IInv'
<1>1. /\ UNCHANGED <<live, enabled, ready, managed, defaultDomain, revisions, active>>
      /\ runtimeLock = None /\ runtimeLock' = p
      /\ session' = [session EXCEPT ![p] = [Idle EXCEPT !.at = "locked", !.change = change]]
  BY DEF Begin, TakeRuntimeLock, tables
<1>2. change \in Change /\ (~change.publish => change.domain = defaultDomain)
  BY ChangeTypes DEF IInv, Good
<1>3. /\ [Idle EXCEPT !.at = "locked", !.change = change] \in Session
      /\ [Idle EXCEPT !.at = "locked", !.change = change].at = "locked"
      /\ [Idle EXCEPT !.at = "locked", !.change = change].change = change
  BY <1>2, IdleType DEF Session
<1>4. /\ session' \in [Publishers -> Session]
      /\ session'[p].at = "locked" /\ session'[p].change = change
      /\ \A q \in Publishers \ {p} : session'[q] = session[q]
  BY <1>1, <1>3 DEF IInv, SessionTypes
<1>5. \A q \in Publishers \ {p} : session'[q].at = "idle"
  BY <1>1, <1>4, NobodyOpen DEF IInv
<1>6. SessionTypes' /\ Locked'
  BY <1>1, <1>4, <1>5 DEF SessionTypes, Locked
<1>7. Sees(p)'
  BY <1>1, <1>2, <1>4 DEF Sees
<1>8. Seen'
  BY <1>5, <1>7, IdleSees DEF Seen
<1>9. TableTypes'
  BY <1>1 DEF IInv, TableTypes
<1> QED
  BY <1>1, <1>6, <1>8, <1>9, QuietKeeps DEF IInv

(* The two reads of a publication. *)
LEMMA ReadKeeps ==
  ASSUME IInv, NEW p \in Publishers, ReadRoutes(p) \/ ReadTargets(p)
  PROVE  IInv'
<1>0. session[p] \in Session /\ session[p].at # "idle" /\ Sees(p)
  BY DEF IInv, SessionTypes, Seen, ReadRoutes, ReadTargets
<1>1. UNCHANGED <<live, enabled, ready, managed, defaultDomain, revisions, active, runtimeLock>>
  BY DEF ReadRoutes, ReadTargets, tables
<1>2. /\ LiveWith(session[p].change) \subseteq RouteIds /\ managed \subseteq Upstreams
      /\ EnabledWith(session[p].change) \subseteq Targets
      /\ ReadyWith(session[p].change) \subseteq Targets
  BY <1>0 DEF IInv, TableTypes, Session, Change, LiveWith, EnabledWith, ReadyWith
<1>3. PICK record \in Session :
        /\ session' = [session EXCEPT ![p] = record]
        /\ record.change = session[p].change
        /\ \/ /\ record.at = "routes" /\ session[p].change.publish
              /\ record.routes = LiveWith(session[p].change) /\ record.managed = managed
           \/ /\ record.at = "targets" /\ session[p].at = "routes"
              /\ record.routes = session[p].routes /\ record.managed = session[p].managed
              /\ record.enabled = EnabledWith(session[p].change)
  <2>1. CASE ReadRoutes(p)
    <3>1. \A A \in SUBSET RouteIds, B \in SUBSET Upstreams :
            LET r == [session[p] EXCEPT !.at = "routes", !.routes = A, !.managed = B]
            IN  /\ r \in Session /\ r.change = session[p].change /\ r.at = "routes"
                /\ r.routes = A /\ r.managed = B
      BY <1>0 DEF Session
    <3>2. session' = [session EXCEPT ![p] = [session[p] EXCEPT !.at = "routes",
                        !.routes = LiveWith(session[p].change), !.managed = managed]]
      BY <2>1 DEF ReadRoutes, IInv, SessionTypes
    <3> QED
      <4> DEFINE record == [session[p] EXCEPT !.at = "routes",
                              !.routes = LiveWith(session[p].change), !.managed = managed]
      <4>1. /\ record \in Session /\ record.change = session[p].change /\ record.at = "routes"
            /\ record.routes = LiveWith(session[p].change) /\ record.managed = managed
        BY <1>2, <3>1
      <4>2. session' = [session EXCEPT ![p] = record] /\ session[p].change.publish
        BY <2>1, <3>2 DEF ReadRoutes
      <4> HIDE DEF record
      <4> QED
        BY <4>1, <4>2
  <2>2. CASE ReadTargets(p)
    <3>1. \A A, B \in SUBSET Targets :
            LET r == [session[p] EXCEPT !.at = "targets", !.enabled = A, !.ready = B]
            IN  /\ r \in Session /\ r.change = session[p].change /\ r.at = "targets"
                /\ r.routes = session[p].routes /\ r.managed = session[p].managed
                /\ r.enabled = A
      BY <1>0 DEF Session
    <3>2. session' = [session EXCEPT ![p] = [session[p] EXCEPT !.at = "targets",
                        !.enabled = EnabledWith(session[p].change),
                        !.ready = ReadyWith(session[p].change)]]
      BY <2>2 DEF ReadTargets, IInv, SessionTypes
    <3> QED
      <4> DEFINE record == [session[p] EXCEPT !.at = "targets",
                              !.enabled = EnabledWith(session[p].change),
                              !.ready = ReadyWith(session[p].change)]
      <4>1. /\ record \in Session /\ record.change = session[p].change /\ record.at = "targets"
            /\ record.routes = session[p].routes /\ record.managed = session[p].managed
            /\ record.enabled = EnabledWith(session[p].change)
        BY <1>2, <3>1
      <4>2. session' = [session EXCEPT ![p] = record] /\ session[p].at = "routes"
        BY <2>2, <3>2 DEF ReadTargets
      <4> HIDE DEF record
      <4> QED
        BY <4>1, <4>2
  <2> QED
    BY <2>1, <2>2
<1>4. /\ session' \in [Publishers -> Session] /\ session'[p] = record
      /\ \A q \in Publishers \ {p} : session'[q] = session[q]
  BY <1>3 DEF IInv, SessionTypes
<1>5. \A q \in Publishers \ {p} : session'[q].at = "idle"
  BY <1>0, <1>4, OnlyHolder DEF IInv
<1>6. SessionTypes' /\ Locked'
  BY <1>0, <1>1, <1>3, <1>4, <1>5 DEF IInv, SessionTypes, Locked
<1>7. Sees(p)'
  BY <1>0, <1>1, <1>3, <1>4 DEF Sees, LiveWith, EnabledWith
<1>8. Seen'
  BY <1>5, <1>7, IdleSees DEF Seen
<1>9. TableTypes'
  BY <1>1 DEF IInv, TableTypes
<1> QED
  BY <1>1, <1>6, <1>8, <1>9, QuietKeeps DEF IInv

LEMMA CommitKeeps ==
  ASSUME IInv, NEW p \in Publishers, CommitUnpublished(p) \/ Rollback(p)
  PROVE  IInv'
<1>0. /\ session[p] \in Session /\ session[p].change \in Change
      /\ session[p].at # "idle" /\ Sees(p)
  BY DEF IInv, SessionTypes, Session, Seen, CommitUnpublished, Rollback
<1>1. SessionTypes' /\ Locked' /\ Seen'
  BY <1>0, LeaveKeeps DEF IInv, CommitUnpublished, Rollback
<1>2. CASE CommitUnpublished(p)
  <2>1. WriteChange(session[p].change) /\ session[p].change.domain = defaultDomain
    BY <1>0, <1>2 DEF CommitUnpublished, Sees
  <2>2. TableTypes'
    BY <1>0, <2>1, WriteTypes DEF IInv
  <2> QED
    BY <1>1, <1>2, <2>1, <2>2, QuietKeeps DEF CommitUnpublished, WriteChange, IInv
<1>3. CASE Rollback(p)
  BY <1>1, <1>3, QuietKeeps DEF Rollback, tables, IInv, TableTypes
<1> QED
  BY <1>2, <1>3

LEMMA PublishKeeps ==
  ASSUME IInv, NEW p \in Publishers, Publish(p)
  PROVE  IInv'
<1>0. /\ session[p] \in Session /\ session[p].change \in Change
      /\ session[p].at # "idle"
  BY DEF IInv, SessionTypes, Session, Publish
<1>1. SessionTypes' /\ Locked' /\ Seen'
  BY <1>0, LeaveKeeps DEF IInv, Publish
<1>2. TableTypes' /\ defaultDomain' = session[p].change.domain
  BY <1>0, WriteTypes DEF IInv, Publish, WriteChange
<1>3. RevisionTypes' /\ Stored' /\ active' # 0 /\ revisions'[active'] = Configuration(session[p])
  BY <1>0, PublishActivates DEF IInv
<1>4. /\ Configuration(session[p]).domain = session[p].change.domain
      /\ Configuration(session[p]).legacy = FALSE
  BY ConfigurationFields
<1>5. ConflictFree(RoutesOf(Configuration(session[p]).routes), session[p].change.domain)
  BY DEF Publish, Rejected
<1>6. Routable(Configuration(session[p]))
  BY <1>0, ConfigurationRoutable DEF IInv
<1> DEFINE new == Configuration(session[p])
           domain == session[p].change.domain
<1>7. Loads(new, domain)
  BY <1>4, <1>5, <1>6 DEF Loads, Routable, RevisionDomain
<1>8. ActiveRevisionLoads' /\ DomainAgrees'
  <2>1. Loads(revisions'[active'], defaultDomain')
    BY <1>2, <1>3, <1>7
  <2> QED
    BY <1>2, <1>3, <1>4, <2>1 DEF ActiveRevisionLoads, DomainAgrees, Loads, RevisionDomain
<1> QED
  BY <1>1, <1>2, <1>3, <1>8 DEF IInv

LEMMA ActivateKeeps ==
  ASSUME IInv, NEW i \in DOMAIN revisions, Activate(i)
  PROVE  IInv'
<1> DEFINE payload == revisions[i]
           domain == RevisionDomain(payload, defaultDomain)
<1>1. /\ runtimeLock = None /\ active' = i /\ defaultDomain' = domain
      /\ ConflictFree(RoutesOf(payload.routes), domain)
      /\ UNCHANGED <<live, enabled, ready, managed, revisions, runtimeLock, session>>
  BY DEF Activate
<1>2. i \in 1..Len(revisions) /\ payload \in Payload /\ Routable(payload)
  BY DEF IInv, RevisionTypes, Stored
<1>3. domain \in Domains
  BY <1>2 DEF IInv, TableTypes, RevisionDomain, Payload
<1>4. TableTypes' /\ RevisionTypes' /\ SessionTypes' /\ Locked' /\ Stored'
  BY <1>1, <1>2, <1>3 DEF IInv, TableTypes, RevisionTypes, SessionTypes, Locked, Stored, Routable
<1>5. \A p \in Publishers : session'[p].at = "idle"
  BY <1>1, NobodyOpen DEF IInv
<1>6. Seen'
  BY <1>5, IdleSees DEF Seen
<1>7. RevisionDomain(payload, domain) = domain
  BY DEF RevisionDomain
<1>8. revisions'[active'] = payload /\ active' # 0
  BY <1>1, <1>2
<1>9. Loads(payload, domain)
  BY <1>1, <1>2, <1>7 DEF Loads, Routable
<1>10. ActiveRevisionLoads' /\ DomainAgrees'
  <2>1. Loads(revisions'[active'], defaultDomain')
    BY <1>1, <1>8, <1>9
  <2>2. ~payload.legacy => payload.domain = domain
    BY DEF RevisionDomain
  <2> QED
    BY <1>1, <1>8, <2>1, <2>2 DEF ActiveRevisionLoads, DomainAgrees, Loads, RevisionDomain
<1> QED
  BY <1>4, <1>6, <1>10 DEF IInv

(* Discovery writes support routes and readiness, a token makes an         *)
(* upstream managed: open transactions rely on neither.                    *)
LEMMA UnlockedKeeps ==
  ASSUME IInv,
         \/ \E t \in Targets : ChangeReadiness(t)
         \/ \E u \in Upstreams : Connect(u)
         \/ \E u \in Upstreams, on \in BOOLEAN : SyncSupportRoutes(u, on)
         \/ UNCHANGED vars
  PROVE  IInv'
<1>1. /\ UNCHANGED <<enabled, defaultDomain, revisions, active, runtimeLock, session>>
      /\ managed \subseteq managed' /\ managed' \subseteq Upstreams
      /\ ready' \subseteq Targets
      /\ live' \subseteq RouteIds /\ live' \ SupportRoutes = live \ SupportRoutes
  <2>1. \A u \in Upstreams : SupportOf(u) \subseteq RouteIds \cap SupportRoutes
    BY DEF SupportOf, RoutesOn, RouteIds
  <2>2. CASE \E t \in Targets : ChangeReadiness(t)
    BY <2>2 DEF ChangeReadiness, IInv, TableTypes
  <2>3. CASE \E u \in Upstreams : Connect(u)
    BY <2>3 DEF Connect, IInv, TableTypes
  <2>4. CASE \E u \in Upstreams, on \in BOOLEAN : SyncSupportRoutes(u, on)
    BY <2>1, <2>4 DEF SyncSupportRoutes, IInv, TableTypes
  <2>5. CASE UNCHANGED vars
    BY <2>5 DEF vars, tables, IInv, TableTypes
  <2> QED
    BY <2>2, <2>3, <2>4, <2>5
<1>2. TableTypes' /\ SessionTypes' /\ Locked'
  BY <1>1 DEF IInv, TableTypes, SessionTypes, Locked
<1>3. Seen'
  <2> SUFFICES ASSUME NEW p \in Publishers
               PROVE  Sees(p)'
    BY DEF Seen
  <2>1. Sees(p)
    BY DEF IInv, Seen
  <2>2. LiveWith(session[p].change)' \ SupportRoutes = LiveWith(session[p].change) \ SupportRoutes
    BY <1>1 DEF LiveWith
  <2> QED
    BY <1>1, <2>1, <2>2 DEF Sees, EnabledWith
<1> QED
  BY <1>1, <1>2, <1>3, QuietKeeps DEF IInv

LEMMA NextKeeps == IInv /\ [Next]_vars => IInv'
BY BeginKeeps, ReadKeeps, CommitKeeps, PublishKeeps, ActivateKeeps, UnlockedKeeps, Zenon DEF Next

-----------------------------------------------------------------------------
(* What a publication that succeeds knows of the tables it leaves behind.  *)
LEMMA PublishedFacts ==
  ASSUME IInv, NEW p \in Publishers, Publish(p)
  PROVE  /\ session[p] \in Session
         /\ live' \ SupportRoutes = session[p].routes \ SupportRoutes
         /\ enabled' = session[p].enabled
         /\ session[p].managed \subseteq managed'
         /\ defaultDomain' = session[p].change.domain
         /\ revisions'[active'] = Configuration(session[p])
         /\ \A u \in UpstreamsOf(session[p].routes) :
              PublishedTargets(session[p], u) = {} => u \in session[p].managed
<1>1. session[p] \in Session /\ Sees(p)
  BY DEF IInv, SessionTypes, Seen
<1>2. session[p].at = "targets" /\ WriteChange(session[p].change) /\ ~Rejected(session[p])
  BY DEF Publish
<1>3. revisions'[active'] = Configuration(session[p])
  BY <1>1, PublishActivates DEF IInv
<1>4. /\ live' = LiveWith(session[p].change) /\ enabled' = EnabledWith(session[p].change)
      /\ managed' = managed /\ defaultDomain' = session[p].change.domain
  BY <1>2 DEF WriteChange
<1>5. /\ live' \ SupportRoutes = session[p].routes \ SupportRoutes
      /\ enabled' = session[p].enabled /\ session[p].managed \subseteq managed'
  BY <1>1, <1>2, <1>4 DEF Sees
<1>6. \A u \in UpstreamsOf(session[p].routes) :
        PublishedTargets(session[p], u) = {} => u \in session[p].managed
  BY <1>2 DEF Rejected
<1> QED
  BY <1>1, <1>3, <1>4, <1>5, <1>6

LEMMA CurrentStep ==
  ASSUME IInv, NEW p \in Publishers, Publish(p)
  PROVE  LET new == revisions'[active']
         IN  /\ new.domain = defaultDomain'
             /\ new.routes \ SupportRoutes \subseteq live'
             /\ \A u \in Upstreams : new.targets[u] \subseteq enabled'
             /\ \A r \in RoutesOf((live' \ SupportRoutes) \ new.routes) :
                  r.upstream \in managed' /\ new.targets[r.upstream] = {}
<1> DEFINE s == session[p]
           new == Configuration(s)
           present == {u \in Upstreams : PublishedTargets(s, u) # {}}
<1>1. /\ s \in Session /\ live' \ SupportRoutes = s.routes \ SupportRoutes
      /\ enabled' = s.enabled /\ s.managed \subseteq managed'
      /\ defaultDomain' = s.change.domain /\ revisions'[active'] = new
      /\ \A u \in UpstreamsOf(s.routes) : PublishedTargets(s, u) = {} => u \in s.managed
  BY PublishedFacts
<1>2. /\ new.targets = [u \in Upstreams |-> PublishedTargets(s, u)]
      /\ new.routes = {id \in s.routes : UpstreamsOf({id}) \subseteq present}
      /\ new.domain = s.change.domain
  BY ConfigurationFields, Zenon
<1>3. \A u \in Upstreams : PublishedTargets(s, u) \subseteq s.enabled
  BY <1>1, PublishedFrom DEF IInv
<1> HIDE DEF s, new
<1>4. ASSUME NEW r \in RoutesOf((live' \ SupportRoutes) \ new.routes)
      PROVE  r.upstream \in managed' /\ new.targets[r.upstream] = {}
  <2>1. r \in Routes /\ r.id \in s.routes /\ r.id \notin new.routes /\ r.upstream \in Upstreams
    BY <1>1, Constants DEF RoutesOf
  <2>2. \A u \in UpstreamsOf({r.id}) : u = r.upstream
    BY <2>1, Constants DEF UpstreamsOf, RoutesOf
  <2>3. r.upstream \notin present
    BY <1>2, <2>1, <2>2
  <2>4. r.upstream \in UpstreamsOf(s.routes)
    BY <2>1 DEF UpstreamsOf, RoutesOf
  <2> QED
    BY <1>1, <1>2, <2>1, <2>3, <2>4
<1> QED
  BY <1>1, <1>2, <1>3, <1>4

LEMMA StaysStep ==
  ASSUME IInv, NEW p \in Publishers, NEW u \in Upstreams, Publish(p),
         (live' \cap RoutesOn(u)) \ SupportRoutes # {}, active # 0,
         revisions[active].targets[u] \cap enabled' # {}
  PROVE  revisions'[active'].targets[u] # {}
<1> DEFINE s == session[p]
<1>1. /\ s \in Session /\ live' \ SupportRoutes = s.routes \ SupportRoutes
      /\ enabled' = s.enabled /\ revisions'[active'] = Configuration(s)
      /\ \A v \in UpstreamsOf(s.routes) : PublishedTargets(s, v) = {} => v \in s.managed
  BY PublishedFacts
<1>2. revisions'[active'].targets[u] = PublishedTargets(s, u)
  <2>1. Configuration(s).targets = [v \in Upstreams |-> PublishedTargets(s, v)]
    BY ConfigurationFields, Zenon
  <2> QED
    BY <1>1, <2>1
<1>3. u \in UpstreamsOf(s.routes)
  <2>1. PICK id \in live' : id \in RoutesOn(u) /\ id \notin SupportRoutes
    OBVIOUS
  <2>2. id \in s.routes
    BY <1>1, <2>1
  <2>3. PICK r \in Routes : r.upstream = u /\ r.id = id
    BY <2>1 DEF RoutesOn
  <2> QED
    BY <2>2, <2>3 DEF UpstreamsOf, RoutesOf
<1>4. revisions[active].targets[u] \subseteq TargetsOf[u] /\ ActivePayload = revisions[active]
  <2>1. active \in DOMAIN revisions
    BY DEF IInv, RevisionTypes
  <2> QED
    BY <2>1 DEF IInv, Stored, Routable, ActivePayload
<1> HIDE DEF s
<1>5. CASE Keeps(s, u)
  BY <1>1, <1>2, <1>3, <1>4, <1>5 DEF PublishedTargets
<1>6. CASE ~Keeps(s, u)
  <2>1. PublishedTargets(s, u) = UsableTargets(s, u)
    BY <1>3, <1>6 DEF PublishedTargets
  <2>2. u \notin s.managed \/ UsableTargets(s, u) # {} \/ ActivePayload.targets[u] = {}
    BY <1>6 DEF Keeps
  <2> QED
    BY <1>1, <1>2, <1>3, <1>4, <2>1, <2>2
<1> QED
  BY <1>5, <1>6

-----------------------------------------------------------------------------
(* Which route answers.  Two candidates that are tied have the same best   *)
(* host, the same method and the same shape, so they would be in conflict. *)

LEMMA Weights ==
  /\ WildWeight \in Nat /\ ExactWeight \in Nat
  /\ 0 < WildWeight /\ WildWeight + 253 < ExactWeight
BY SMT DEF WildWeight, ExactWeight

LEMMA HostFields ==
  ASSUME NEW h \in Host
  PROVE  /\ h.wild \in BOOLEAN /\ h.labels \in Seq(STRING)
         /\ Len(h.labels) \in Nat /\ 0 < Len(h.labels) /\ Len(h.labels) =< 253
<1>1. /\ h \in [wild : BOOLEAN, labels : Seq(STRING)]
      /\ 0 < Len(h.labels) /\ Len(h.labels) =< 253
  BY DEF Host
<1>2. h.wild \in BOOLEAN /\ h.labels \in Seq(STRING)
  BY <1>1
<1>3. PICK labels \in Seq(STRING) : labels = h.labels
  BY <1>2
<1>4. Len(labels) \in Nat
  BY LenProperties
<1> QED
  BY <1>1, <1>2, <1>3, <1>4

LEMMA WeightFacts ==
  ASSUME NEW h \in Host
  PROVE  /\ HostWeight(h) \in Nat /\ 0 < HostWeight(h) /\ HostWeight(h) =< ExactWeight + 253
         /\ h.wild => HostWeight(h) = WildWeight + Len(h.labels) /\ HostWeight(h) < ExactWeight
         /\ ~h.wild => HostWeight(h) = ExactWeight + Len(h.labels)
<1>1. PICK n \in Nat : n = Len(h.labels) /\ n =< 253
  BY HostFields
<1>2. HostWeight(h) = (IF h.wild THEN WildWeight ELSE ExactWeight) + n
  BY <1>1 DEF HostWeight
<1>3. CASE h.wild
  BY <1>1, <1>2, <1>3, Weights
<1>4. CASE ~h.wild
  BY <1>1, <1>2, <1>4, Weights
<1> QED
  BY <1>3, <1>4

LEMMA HostsEqual ==
  ASSUME NEW g \in Host, NEW h \in Host, g.wild = h.wild, g.labels = h.labels
  PROVE  g = h
<1>1. /\ g \in [wild : BOOLEAN, labels : Seq(STRING)]
      /\ h \in [wild : BOOLEAN, labels : Seq(STRING)]
  BY DEF Host
<1> QED
  BY <1>1

LEMMA BestIsOne ==
  ASSUME NEW hosts \in SUBSET Host, hosts # {}
  PROVE  BestHost(hosts) \in hosts
         /\ \A g \in hosts : HostWeight(g) =< HostWeight(BestHost(hosts))
<1>1. PICK top \in Nat : \A h \in hosts : HostWeight(h) \in Nat /\ HostWeight(h) =< top
  BY WeightFacts, Weights
<1> DEFINE distances == {top - HostWeight(h) : h \in hosts}
<1>2. distances \in SUBSET Nat /\ distances # {}
  BY <1>1
<1>3. PICK n \in distances : \A m \in distances : <<m, n>> \notin OpToRel(<, Nat)
  BY <1>2, NatLessThanWellFounded, WFMin, Zenon
<1>4. \A m \in distances : ~(m < n)
  BY <1>2, <1>3, Zenon DEF OpToRel
<1>5. PICK h \in hosts : n = top - HostWeight(h)
  OBVIOUS
<1>6. ASSUME NEW g \in hosts
      PROVE  HostWeight(g) =< HostWeight(h)
  <2>1. ~(top - HostWeight(g) < n)
    BY <1>4
  <2> QED
    BY <1>1, <1>5, <2>1
<1> QED
  BY <1>5, <1>6 DEF BestHost

LEMMA SameHost ==
  ASSUME NEW g \in Host, NEW h \in Host, NEW incoming,
         HostMatches(g, incoming), HostMatches(h, incoming), HostWeight(g) = HostWeight(h)
  PROVE  g = h
<1>1. g.wild = h.wild /\ Len(g.labels) = Len(h.labels)
  <2>1. PICK m, n \in Nat : m = Len(g.labels) /\ n = Len(h.labels)
    BY HostFields
  <2>2. PICK w \in Nat : w = HostWeight(g) /\ w = HostWeight(h)
    BY WeightFacts
  <2>3. /\ g.wild \in BOOLEAN /\ h.wild \in BOOLEAN
        /\ g.wild => w = WildWeight + m /\ w < ExactWeight
        /\ ~g.wild => w = ExactWeight + m
        /\ h.wild => w = WildWeight + n /\ w < ExactWeight
        /\ ~h.wild => w = ExactWeight + n
    BY <2>1, <2>2, WeightFacts, HostFields
  <2>4. CASE w < ExactWeight
    BY <2>1, <2>3, <2>4, Weights
  <2>5. CASE ~(w < ExactWeight)
    BY <2>1, <2>3, <2>5, Weights
  <2> QED
    BY <2>4, <2>5
<1>2. g.labels = h.labels
  <2>1. CASE g.wild
    <3>1. EndsWith(incoming, g.labels) /\ EndsWith(incoming, h.labels)
      BY <1>1, <2>1 DEF HostMatches
    <3>2. \A i \in 1..Len(g.labels) : g.labels[i] = h.labels[i]
      BY <1>1, <3>1 DEF EndsWith
    <3> QED
      BY <1>1, <3>2, HostFields, SeqEqual
  <2>2. CASE ~g.wild
    BY <1>1, <2>2 DEF HostMatches
  <2> QED
    BY <2>1, <2>2
<1> QED
  BY <1>1, <1>2, HostsEqual

LEMMA SpecificityType ==
  ASSUME NEW r, NEW domain, NEW incoming, HostsOf(r, domain) \subseteq Host
  PROVE  /\ HostSpecificity(r, domain, incoming) \in Int
         /\ HostSpecificity(r, domain, incoming) >= 0 =>
              \/ HostsOf(r, domain) = {} /\ HostSpecificity(r, domain, incoming) = 0
              \/ \E h \in HostsOf(r, domain) :
                   /\ HostMatches(h, incoming)
                   /\ HostSpecificity(r, domain, incoming) = HostWeight(h)
                   /\ HostWeight(h) > 0
<1>1. CASE HostsOf(r, domain) = {}
  BY <1>1 DEF HostSpecificity
<1>2. CASE HostsOf(r, domain) # {} /\ MatchingHosts(r, domain, incoming) = {}
  BY <1>2 DEF HostSpecificity
<1>3. CASE HostsOf(r, domain) # {} /\ MatchingHosts(r, domain, incoming) # {}
  <2>1. PICK h : h = BestHost(MatchingHosts(r, domain, incoming))
    OBVIOUS
  <2>2. h \in MatchingHosts(r, domain, incoming)
    BY <1>3, <2>1, BestIsOne DEF MatchingHosts
  <2>3. h \in HostsOf(r, domain) /\ h \in Host /\ HostMatches(h, incoming)
    BY <2>2 DEF MatchingHosts
  <2>4. HostSpecificity(r, domain, incoming) = HostWeight(h)
    BY <1>3, <2>1 DEF HostSpecificity
  <2> QED
    BY <2>3, <2>4, WeightFacts
<1> QED
  BY <1>1, <1>2, <1>3

LEMMA SharedHost ==
  ASSUME NEW r, NEW s, NEW domain, NEW incoming,
         HostsOf(r, domain) \subseteq Host, HostsOf(s, domain) \subseteq Host,
         HostSpecificity(r, domain, incoming) >= 0,
         HostSpecificity(r, domain, incoming) = HostSpecificity(s, domain, incoming)
  PROVE  EffectiveHosts(r, domain) \cap EffectiveHosts(s, domain) # {}
<1>1. CASE HostsOf(r, domain) = {}
  <2>1. HostsOf(s, domain) = {}
    BY <1>1, SpecificityType
  <2> QED
    BY <1>1, <2>1 DEF EffectiveHosts
<1>2. CASE HostsOf(r, domain) # {}
  <2>1. PICK g \in HostsOf(r, domain) :
          /\ HostMatches(g, incoming) /\ HostWeight(g) > 0
          /\ HostSpecificity(r, domain, incoming) = HostWeight(g)
    BY <1>2, SpecificityType
  <2>2. PICK h \in HostsOf(s, domain) :
          /\ HostMatches(h, incoming)
          /\ HostSpecificity(s, domain, incoming) = HostWeight(h)
    <3>1. PICK weight \in Int : weight = HostSpecificity(s, domain, incoming)
      BY SpecificityType
    <3>2. weight = HostWeight(g)
      BY <2>1, <3>1
    <3>3. weight > 0
      BY <2>1, <3>2
    <3> QED
      BY <3>1, <3>3, SpecificityType
  <2>3. g = h
    BY <2>1, <2>2, SameHost
  <2> QED
    BY <2>1, <2>2, <2>3 DEF EffectiveHosts
<1> QED
  BY <1>1, <1>2

LEMMA PathSpecificityType ==
  ASSUME NEW shape \in Seq(STRING)
  PROVE  PathSpecificity(shape) \in Int
<1>1. Len(shape) \in Nat /\ DOMAIN shape = 1..Len(shape)
  BY LenProperties
<1>2. IsFiniteSet(1..Len(shape))
  BY <1>1, FS_Interval
<1>3. Segments(shape, Param) \cup Segments(shape, CatchAll) \subseteq 1..Len(shape)
  BY <1>1 DEF Segments
<1>4. IsFiniteSet(Segments(shape, Param) \cup Segments(shape, CatchAll))
  BY <1>2, <1>3, FS_Subset
<1>5. Cardinality(Segments(shape, Param) \cup Segments(shape, CatchAll)) \in Nat
  BY <1>4, FS_CardinalityType
<1> QED
  BY <1>1, <1>5 DEF PathSpecificity, CatchAllPenalty

LEMMA SameShape ==
  ASSUME NEW r \in Routes, NEW s \in Routes, r.rank = s.rank, NEW path,
         MatchesPath(r.shape, path), MatchesPath(s.shape, path)
  PROVE  r.shape = s.shape
<1>1. /\ r.shape \in Seq(STRING) /\ s.shape \in Seq(STRING)
      /\ Len(r.shape) = Len(s.shape)
      /\ Segments(r.shape, Param) = Segments(s.shape, Param)
      /\ Segments(r.shape, CatchAll) = Segments(s.shape, CatchAll)
  BY PatternAssumption
<1>2. DOMAIN r.shape = 1..Len(r.shape) /\ DOMAIN s.shape = 1..Len(r.shape)
  BY <1>1, LenProperties
<1>3. ASSUME NEW i \in 1..Len(r.shape)
      PROVE  r.shape[i] = s.shape[i]
  <2>1. SegmentMatches(r.shape[i], path[i]) /\ SegmentMatches(s.shape[i], path[i])
    BY <1>2 DEF MatchesPath
  <2>2. /\ r.shape[i] = Param <=> s.shape[i] = Param
        /\ r.shape[i] = CatchAll <=> s.shape[i] = CatchAll
    BY <1>1, <1>2 DEF Segments
  <2> QED
    BY <2>1, <2>2 DEF SegmentMatches
<1> QED
  BY <1>1, <1>3, SeqEqual

LEMMA TiedConflict ==
  ASSUME NEW routes \in SUBSET Routes, NEW domain \in Domains, NEW q,
         NEW r \in Candidates(routes, domain, q), NEW s \in Candidates(routes, domain, q),
         r # s, Tied(r, s, domain, q)
  PROVE  r \in routes /\ s \in routes /\ Conflicting(r, s, domain)
<1>1. /\ r \in routes /\ s \in routes
      /\ AnswersMethod(r, q.method) /\ AnswersMethod(s, q.method)
      /\ HostSpecificity(r, domain, q.host) >= 0
      /\ MatchesPath(r.shape, q.path) /\ MatchesPath(s.shape, q.path)
  BY DEF Candidates
<1>2. HostsOf(r, domain) \subseteq Host /\ HostsOf(s, domain) \subseteq Host
  BY <1>1, PatternAssumption DEF HostsOf
<1>3. PICK hr, hs \in Int : hr = HostSpecificity(r, domain, q.host)
                            /\ hs = HostSpecificity(s, domain, q.host)
  BY <1>2, SpecificityType
<1>4. PICK pr, ps \in Int : pr = PathSpecificity(r.shape) /\ ps = PathSpecificity(s.shape)
  BY <1>1, PathSpecificityType, PatternAssumption
<1>5. PICK mr, ms \in {0, 1} : mr = MethodSpecificity(r, q.method)
                               /\ ms = MethodSpecificity(s, q.method)
  BY DEF MethodSpecificity
<1>6. r.rank \in Int /\ s.rank \in Int
  BY <1>1, PatternAssumption
<1>7. hr = hs /\ pr = ps /\ mr = ms /\ r.rank = s.rank
  BY <1>3, <1>4, <1>5, <1>6 DEF Tied, OutranksByPattern
<1>8. r.method = s.method
  BY <1>1, <1>5, <1>7 DEF MethodSpecificity, AnswersMethod
<1>9. r.shape = s.shape
  BY <1>1, <1>7, SameShape
<1>10. EffectiveHosts(r, domain) \cap EffectiveHosts(s, domain) # {}
  BY <1>1, <1>2, <1>3, <1>7, SharedHost
<1>11. r.id # s.id
  BY <1>1, Constants
<1> QED
  BY <1>1, <1>8, <1>9, <1>10, <1>11 DEF Conflicting

(* The candidates of a request are ranked: one of them, and only one,      *)
(* outranks the others.                                                    *)
LEMMA CandidateNumbers ==
  ASSUME NEW routes \in SUBSET Routes, NEW domain \in Domains, NEW q,
         NEW r \in Candidates(routes, domain, q)
  PROVE  /\ r \in Routes
         /\ HostSpecificity(r, domain, q.host) \in Int
         /\ PathSpecificity(r.shape) \in Int
         /\ MethodSpecificity(r, q.method) \in Int
         /\ r.rank \in Int /\ r.id \in Int
<1>1. r \in Routes
  BY DEF Candidates
<1>2. HostsOf(r, domain) \subseteq Host
  BY <1>1, PatternAssumption DEF HostsOf
<1>3. HostSpecificity(r, domain, q.host) \in Int
  BY <1>2, SpecificityType
<1>4. PathSpecificity(r.shape) \in Int
  BY <1>1, PathSpecificityType, PatternAssumption
<1>5. MethodSpecificity(r, q.method) \in Int
  BY DEF MethodSpecificity
<1> QED
  BY <1>1, <1>3, <1>4, <1>5, PatternAssumption

LEMMA OneOutranks ==
  ASSUME NEW routes \in SUBSET Routes, NEW domain \in Domains, NEW q,
         NEW r \in Candidates(routes, domain, q), NEW s \in Candidates(routes, domain, q)
  PROVE  /\ r # s => Outranks(r, s, domain, q) \/ Outranks(s, r, domain, q)
         /\ ~(Outranks(r, s, domain, q) /\ Outranks(s, r, domain, q))
<1>1. PICK hr, hs, pr, ps, mr, ms \in Int :
        /\ hr = HostSpecificity(r, domain, q.host) /\ hs = HostSpecificity(s, domain, q.host)
        /\ pr = PathSpecificity(r.shape) /\ ps = PathSpecificity(s.shape)
        /\ mr = MethodSpecificity(r, q.method) /\ ms = MethodSpecificity(s, q.method)
  BY CandidateNumbers
<1>2. /\ r.rank \in Int /\ s.rank \in Int /\ r.id \in Int /\ s.id \in Int
      /\ r # s => r.id # s.id
  BY CandidateNumbers, Constants
<1> QED
  BY <1>1, <1>2 DEF Outranks, Tied, OutranksByPattern

LEMMA OutranksOnwards ==
  ASSUME NEW routes \in SUBSET Routes, NEW domain \in Domains, NEW q,
         NEW r \in Candidates(routes, domain, q), NEW s \in Candidates(routes, domain, q),
         NEW t \in Candidates(routes, domain, q),
         Outranks(r, s, domain, q), Outranks(s, t, domain, q)
  PROVE  Outranks(r, t, domain, q)
<1>1. PICK hr, hs, ht, pr, ps, pt, mr, ms, mt \in Int :
        /\ hr = HostSpecificity(r, domain, q.host) /\ hs = HostSpecificity(s, domain, q.host)
        /\ ht = HostSpecificity(t, domain, q.host)
        /\ pr = PathSpecificity(r.shape) /\ ps = PathSpecificity(s.shape)
        /\ pt = PathSpecificity(t.shape)
        /\ mr = MethodSpecificity(r, q.method) /\ ms = MethodSpecificity(s, q.method)
        /\ mt = MethodSpecificity(t, q.method)
  BY CandidateNumbers
<1>2. /\ r.rank \in Int /\ s.rank \in Int /\ t.rank \in Int
      /\ r.id \in Int /\ s.id \in Int /\ t.id \in Int
  BY CandidateNumbers
<1> QED
  BY <1>1, <1>2 DEF Outranks, Tied, OutranksByPattern

LEMMA TopExists ==
  ASSUME NEW routes \in SUBSET Routes, NEW domain \in Domains, NEW q,
         Candidates(routes, domain, q) # {}
  PROVE  \E r : Resolve(routes, domain, q) = {r}
<1> DEFINE C == Candidates(routes, domain, q)
           Top(S, r) == r \in S /\ \A s \in S \ {r} : Outranks(r, s, domain, q)
           Topless == {S \in SUBSET C : S # {} /\ ~\E r : Top(S, r)}
           Sizes == {Cardinality(S) : S \in Topless}
<1>1. C \in SUBSET Routes /\ IsFiniteSet(C)
  <2>1. C \in SUBSET Routes
    BY DEF Candidates
  <2> QED
    BY <2>1, FS_Subset, PatternAssumption
<1>2. \A S \in SUBSET C : IsFiniteSet(S) /\ Cardinality(S) \in Nat
  BY <1>1, FS_Subset, FS_CardinalityType
<1> HIDE DEF C
<1>3. ASSUME Topless # {} PROVE FALSE
  <2>1. Sizes \in SUBSET Nat /\ Sizes # {}
    BY <1>2, <1>3
  <2>2. PICK n \in Sizes : \A m \in Sizes : <<m, n>> \notin OpToRel(<, Nat)
    BY <2>1, NatLessThanWellFounded, WFMin, Zenon
  <2>3. \A m \in Sizes : ~(m < n)
    BY <2>1, <2>2, Zenon DEF OpToRel
  <2>4. PICK S \in Topless : n = Cardinality(S)
    OBVIOUS
  <2>5. PICK c \in S : TRUE
    BY <2>4
  <2>6. IsFiniteSet(S) /\ Cardinality(S) \in Nat
    BY <1>2
  <2>7. Cardinality(S \ {c}) = Cardinality(S) - 1
    BY <2>6, FS_RemoveElement
  <2>8. S \ {c} \notin Topless
    <3>1. Cardinality(S \ {c}) < n
      BY <2>4, <2>6, <2>7
    <3>2. S \ {c} \in Topless => Cardinality(S \ {c}) \in Sizes
      OBVIOUS
    <3> QED
      BY <2>3, <3>1, <3>2
  <2>9. CASE S \ {c} = {}
    <3>1. Top(S, c)
      BY <2>9
    <3> QED
      BY <3>1
  <2>10. CASE S \ {c} # {}
    <3>1. PICK t : Top(S \ {c}, t)
      BY <2>8, <2>10
    <3>2. t \in C /\ c \in C /\ t # c
      BY <3>1
    <3>3. CASE Outranks(t, c, domain, q)
      <4>1. Top(S, t)
        BY <3>1, <3>3
      <4> QED
        BY <4>1
    <3>4. CASE Outranks(c, t, domain, q)
      <4>1. \A s \in S \ {c} : Outranks(c, s, domain, q)
        BY <3>1, <3>2, <3>4, OutranksOnwards DEF C
      <4>2. Top(S, c)
        BY <4>1
      <4> QED
        BY <4>2
    <3> QED
      BY <3>2, <3>3, <3>4, OneOutranks DEF C
  <2> QED
    BY <2>9, <2>10
<1>4. PICK r : Top(C, r)
  BY <1>3 DEF C
<1>5. ASSUME NEW s, Top(C, s) PROVE s = r
  BY <1>4, <1>5, OneOutranks DEF C
<1>6. Resolve(routes, domain, q) = {s \in C : Top(C, s)}
  BY DEF Resolve, C
<1>7. r \in C
  BY <1>4
<1> HIDE DEF Top
<1>8. {s \in C : Top(C, s)} = {r}
  BY <1>4, <1>5, <1>7
<1> QED
  BY <1>6, <1>8

-----------------------------------------------------------------------------
(* The request made of a route finds it.  No other host that matches is    *)
(* better than the one it is made of, and a pattern that matches its path  *)
(* has a lower score or is the same.                                       *)

LEMMA NewWordIsNew == NewWord # EncodedSlash /\ NewWord # DotSegment /\ EncodedSlash # DotSegment
BY DEF NewWord, EncodedSlash, DotSegment

LEMMA WiderSeq ==
  ASSUME NEW S, NEW T, S \subseteq T, NEW q \in Seq(S)
  PROVE  q \in Seq(T)
<1>1. Len(q) \in Nat /\ q \in [1..Len(q) -> S]
  BY LenProperties
<1>2. q \in [1..Len(q) -> T]
  BY <1>1
<1> QED
  BY <1>1, <1>2

LEMMA NameFacts ==
  ASSUME NEW h \in Host, h.wild
  PROVE  LET name == NameOf(h)
         IN  /\ Len(name) = Len(h.labels) + 1
             /\ name[1] = NewWord
             /\ \A i \in 1..Len(h.labels) : name[i + 1] = h.labels[i]
<1> DEFINE Words == STRING \cup {NewWord}
<1>1. PICK labels \in Seq(Words) : labels = h.labels
  BY HostFields, WiderSeq
<1> HIDE DEF Words
<1>2. PICK first \in Seq(Words) : first = <<NewWord>> /\ Len(first) = 1 /\ first[1] = NewWord
  <2>1. PICK word \in Words : word = NewWord
    BY DEF Words
  <2>2. <<word>> \in Seq(Words) /\ Len(<<word>>) = 1 /\ <<word>>[1] = word
    OBVIOUS
  <2> QED
    BY <2>1, <2>2
<1>3. NameOf(h) = first \o labels
  BY <1>1, <1>2 DEF NameOf
<1>4. Len(labels) \in Nat
  BY LenProperties
<1>5. /\ Len(first \o labels) = 1 + Len(labels)
      /\ \A i \in 1..1 + Len(labels) :
           (first \o labels)[i] = IF i =< 1 THEN first[i] ELSE labels[i - 1]
  BY <1>2, ConcatProperties
<1>6. (first \o labels)[1] = NewWord
  BY <1>2, <1>4, <1>5
<1>7. \A i \in 1..Len(labels) : (first \o labels)[i + 1] = labels[i]
  BY <1>4, <1>5
<1> QED
  BY <1>1, <1>3, <1>4, <1>5, <1>6, <1>7

LEMMA HostKnown ==
  ASSUME NEW h \in AllHosts
  PROVE  h \in Host /\ \A i \in 1..Len(h.labels) : h.labels[i] # NewWord
<1>1. h \in Host
  BY PatternAssumption DEF AllHosts
<1>2. DOMAIN h.labels = 1..Len(h.labels)
  BY <1>1, HostFields, LenProperties
<1> QED
  BY <1>1, <1>2, RequestsAssumption

LEMMA OwnNameMatches ==
  ASSUME NEW h \in AllHosts
  PROVE  HostMatches(h, NameOf(h))
<1>1. h \in Host
  BY HostKnown
<1>2. CASE h.wild
  <2>1. \E name : \E n \in Nat :
          /\ name = NameOf(h) /\ n = Len(h.labels) /\ Len(name) = n + 1
          /\ \A i \in 1..n : name[i + 1] = h.labels[i]
    <3>1. PICK n \in Nat : n = Len(h.labels)
      BY <1>1, HostFields
    <3>2. PICK name : name = NameOf(h)
      OBVIOUS
    <3>3. Len(name) = n + 1 /\ \A i \in 1..n : name[i + 1] = h.labels[i]
      BY <1>1, <1>2, <3>1, <3>2, NameFacts
    <3> QED
      BY <3>1, <3>2, <3>3
  <2>2. PICK name : \E n \in Nat :
          /\ name = NameOf(h) /\ n = Len(h.labels) /\ Len(name) = n + 1
          /\ \A i \in 1..n : name[i + 1] = h.labels[i]
    BY <2>1
  <2>3. EndsWith(name, h.labels)
    BY <2>2 DEF EndsWith
  <2> QED
    BY <1>2, <2>2, <2>3 DEF HostMatches
<1>3. CASE ~h.wild
  BY <1>3 DEF HostMatches, NameOf
<1> QED
  BY <1>2, <1>3

LEMMA OwnNameBest ==
  ASSUME NEW h \in AllHosts, NEW g \in AllHosts, HostMatches(g, NameOf(h))
  PROVE  HostWeight(g) =< HostWeight(h)
<1>1. g \in Host /\ h \in Host /\ \A i \in 1..Len(g.labels) : g.labels[i] # NewWord
  BY HostKnown
<1>2. PICK m, n \in Nat : m = Len(g.labels) /\ n = Len(h.labels) /\ 0 < m /\ 0 < n
  BY <1>1, HostFields
<1>3. PICK v, w \in Nat : v = HostWeight(g) /\ w = HostWeight(h)
  BY <1>1, WeightFacts
<1>4. /\ g.wild => v = WildWeight + m /\ v < ExactWeight
      /\ ~g.wild => v = ExactWeight + m
      /\ h.wild => w = WildWeight + n
      /\ ~h.wild => w = ExactWeight + n
  BY <1>1, <1>2, <1>3, WeightFacts
<1>5. CASE h.wild
  <2>1. PICK name : name = NameOf(h) /\ Len(name) = n + 1 /\ name[1] = NewWord
    BY <1>1, <1>2, <1>5, NameFacts
  <2>2. CASE g.wild
    <3>1. n + 1 > m
      BY <1>2, <2>1, <2>2 DEF HostMatches
    <3> QED
      BY <1>2, <1>3, <1>4, <1>5, <2>2, <3>1, Weights
  <2>3. CASE ~g.wild
    <3>1. name = g.labels
      BY <2>1, <2>3 DEF HostMatches
    <3>2. 1 \in 1..Len(g.labels)
      BY <1>2
    <3> QED
      BY <1>1, <2>1, <3>1, <3>2
  <2> QED
    BY <2>2, <2>3
<1>6. CASE ~h.wild
  <2>1. CASE g.wild
    BY <1>2, <1>3, <1>4, <1>6, <2>1, Weights
  <2>2. CASE ~g.wild
    <3>1. m = n
      BY <1>2, <1>6, <2>2 DEF HostMatches, NameOf
    <3> QED
      BY <1>3, <1>4, <1>6, <2>2, <3>1
  <2> QED
    BY <2>1, <2>2
<1> QED
  BY <1>5, <1>6

LEMMA UnknownName ==
  ASSUME NEW g \in AllHosts
  PROVE  ~HostMatches(g, <<NewWord>>)
<1>1. g \in Host /\ \A i \in 1..Len(g.labels) : g.labels[i] # NewWord
  BY HostKnown
<1>2. PICK m \in Nat : m = Len(g.labels) /\ 0 < m
  BY <1>1, HostFields
<1>3. PICK name : name = <<NewWord>> /\ Len(name) = 1 /\ name[1] = NewWord
  <2>1. \A word : Len(<<word>>) = 1 /\ <<word>>[1] = word
    OBVIOUS
  <2> QED
    BY <2>1
<1>4. CASE g.wild
  BY <1>2, <1>3, <1>4 DEF HostMatches
<1>5. CASE ~g.wild
  BY <1>1, <1>2, <1>3, <1>5 DEF HostMatches
<1> QED
  BY <1>3, <1>4, <1>5

LEMMA HostsKnown ==
  ASSUME NEW r \in Routes, NEW domain \in Domains
  PROVE  HostsOf(r, domain) \subseteq AllHosts /\ HostsOf(r, domain) \subseteq Host
<1>1. HostsOf(r, domain) \subseteq AllHosts
  BY DEF HostsOf, AllHosts
<1> QED
  BY <1>1, HostKnown

LEMMA BestName ==
  ASSUME NEW r \in Routes, NEW domain \in Domains
  PROVE  \E name \in {<<NewWord>>} \cup {NameOf(host) : host \in AllHosts} :
           /\ HostSpecificity(r, domain, name) >= 0
           /\ \A s \in Routes :
                HostSpecificity(s, domain, name) =< HostSpecificity(r, domain, name)
<1>1. CASE HostsOf(r, domain) = {}
  <2>1. HostSpecificity(r, domain, <<NewWord>>) = 0
    BY <1>1 DEF HostSpecificity
  <2>2. ASSUME NEW s \in Routes
        PROVE  HostSpecificity(s, domain, <<NewWord>>) =< 0
    <3>1. MatchingHosts(s, domain, <<NewWord>>) = {}
      BY HostsKnown, UnknownName DEF MatchingHosts
    <3> QED
      BY <3>1 DEF HostSpecificity
  <2> QED
    BY <2>1, <2>2
<1>2. CASE HostsOf(r, domain) # {}
  <2>1. PICK h \in HostsOf(r, domain) : TRUE
    BY <1>2
  <2>2. PICK name : name = NameOf(h)
    OBVIOUS
  <2>3. h \in AllHosts /\ h \in MatchingHosts(r, domain, name)
    BY <2>1, <2>2, HostsKnown, OwnNameMatches DEF MatchingHosts
  <2>4. PICK best : best = BestHost(MatchingHosts(r, domain, name))
    OBVIOUS
  <2>5. MatchingHosts(r, domain, name) \subseteq Host
    BY HostsKnown DEF MatchingHosts
  <2>6. best \in Host /\ HostWeight(h) =< HostWeight(best)
    BY <2>3, <2>4, <2>5, BestIsOne
  <2>7. HostSpecificity(r, domain, name) = HostWeight(best)
    BY <1>2, <2>3, <2>4 DEF HostSpecificity
  <2>8. PICK v, w \in Nat : v = HostWeight(h) /\ w = HostWeight(best) /\ v =< w
    BY <2>3, <2>5, <2>6, WeightFacts
  <2>9. ASSUME NEW s \in Routes
        PROVE  HostSpecificity(s, domain, name) =< w
    <3>1. PICK score \in Int : score = HostSpecificity(s, domain, name)
      BY HostsKnown, SpecificityType
    <3>2. CASE score < 0
      BY <2>8, <3>1, <3>2
    <3>3. CASE score = 0
      BY <2>8, <3>1, <3>3
    <3>4. CASE score > 0
      <4>1. PICK g \in HostsOf(s, domain) : HostMatches(g, name) /\ score = HostWeight(g)
        BY <3>1, <3>4, HostsKnown, SpecificityType
      <4>2. HostWeight(g) =< v
        BY <2>2, <2>3, <2>8, <4>1, HostsKnown, OwnNameBest
      <4>3. score =< v
        BY <4>1, <4>2
      <4> QED
        BY <2>8, <3>1, <4>3
    <3> QED
      BY <3>1, <3>2, <3>3, <3>4
  <2>10. name \in {NameOf(host) : host \in AllHosts}
    BY <2>2, <2>3
  <2> QED
    BY <2>7, <2>8, <2>9, <2>10
<1> QED
  BY <1>1, <1>2

LEMMA ScoreSum ==
  ASSUME NEW n \in Int, NEW p \in Int, NEW penalty \in Int
  PROVE  (n - p) * 1000 + n * 10 - p - penalty = 1001 * (n - p) + 9 * n - penalty
OBVIOUS

Literals(shape) == DOMAIN shape \ (Segments(shape, Param) \cup Segments(shape, CatchAll))

LEMMA Score ==
  ASSUME NEW shape \in Seq(STRING)
  PROVE  /\ IsFiniteSet(Literals(shape)) /\ Cardinality(Literals(shape)) \in Nat
         /\ shape # <<>> => PathSpecificity(shape)
              = 1001 * Cardinality(Literals(shape)) + 9 * Len(shape) - CatchAllPenalty(shape)
<1>1. PICK n \in Nat : n = Len(shape) /\ DOMAIN shape = 1..n
  BY LenProperties
<1>2. PICK P \in SUBSET (1..n) : P = Segments(shape, Param) \cup Segments(shape, CatchAll)
  BY <1>1 DEF Segments
<1>3. IsFiniteSet(1..n) /\ Cardinality(1..n) = n
  BY FS_Interval
<1>4. IsFiniteSet(P) /\ Cardinality(P) \in Nat
  BY <1>3, FS_Subset, FS_CardinalityType
<1>5. PICK places : places = 1..n /\ IsFiniteSet(places) /\ Cardinality(places) = n
  BY <1>3
<1>6. IsFiniteSet((1..n) \ P) /\ Cardinality((1..n) \ P) = n - Cardinality(P)
  <2>1. places \cap P = P
    BY <1>5
  <2>2. /\ IsFiniteSet(places \ P)
        /\ Cardinality(places \ P) = Cardinality(places) - Cardinality(places \cap P)
    BY <1>5, FS_Difference
  <2>3. IsFiniteSet(places \ P) /\ Cardinality(places \ P) = n - Cardinality(P)
    BY <1>5, <2>1, <2>2
  <2> QED
    BY <1>5, <2>3
<1>7. Literals(shape) = (1..n) \ P
  BY <1>1, <1>2 DEF Literals
<1>8. IsFiniteSet(Literals(shape)) /\ Cardinality(Literals(shape)) \in Nat
  BY <1>6, <1>7, FS_CardinalityType
<1>9. PICK c, p, penalty \in Int :
        /\ c = Cardinality(Literals(shape)) /\ p = Cardinality(P) /\ c = n - p
        /\ penalty = CatchAllPenalty(shape)
  BY <1>4, <1>6, <1>7, <1>8 DEF CatchAllPenalty
<1>10. ASSUME shape # <<>>
       PROVE  PathSpecificity(shape) = (n - p) * 1000 + n * 10 - p - penalty
  BY <1>1, <1>2, <1>9, <1>10 DEF PathSpecificity
<1>11. (n - p) * 1000 + n * 10 - p - penalty = 1001 * c + 9 * n - penalty
  <2>1. (n - p) * 1000 + n * 10 - p - penalty = 1001 * (n - p) + 9 * n - penalty
    BY ScoreSum
  <2> QED
    BY <1>9, <2>1
<1>12. shape # <<>> => PathSpecificity(shape) = 1001 * c + 9 * n - penalty
  BY <1>10, <1>11
<1> QED
  BY <1>1, <1>8, <1>9, <1>12

LEMMA OwnPath ==
  ASSUME NEW r \in Routes
  PROVE  LET path == PathOf(r.shape)
         IN  /\ DOMAIN path = 1..Len(r.shape) /\ Len(path) = Len(r.shape)
             /\ MatchesPath(r.shape, path)
<1>1. PICK shape \in Seq(STRING) : shape = r.shape
  BY PatternAssumption
<1>2. PICK n \in Nat : n = Len(shape) /\ DOMAIN shape = 1..n
  BY LenProperties
<1>3. PICK path : path = PathOf(shape)
  OBVIOUS
<1>4. DOMAIN path = 1..n
  BY <1>2, <1>3 DEF PathOf
<1>5. \A i \in 1..n : path[i] = IF shape[i] = Param THEN NewWord
                                ELSE IF shape[i] = CatchAll THEN EncodedSlash ELSE shape[i]
  BY <1>2, <1>3 DEF PathOf
<1>6. Len(path) = n
  <2> DEFINE T == STRING \cup {NewWord, EncodedSlash}
  <2>1. \A i \in 1..n : shape[i] \in STRING
    BY <1>2, ElementOfSeq
  <2>2. path = [i \in 1..n |-> path[i]]
    BY <1>2, <1>3 DEF PathOf
  <2>3. \A i \in 1..n : path[i] \in T
    BY <1>5, <2>1
  <2> HIDE DEF T
  <2>4. path \in [1..n -> T]
    BY <2>2, <2>3
  <2>5. path \in Seq(T)
    BY <2>4
  <2> QED
    BY <1>4, <2>5, LenProperties
<1>7. \A i \in 1..n : path[i] # DotSegment
  BY <1>1, <1>2, <1>5, PatternAssumption, NewWordIsNew
<1>8. \A i \in 1..n : SegmentMatches(shape[i], path[i])
  BY <1>5, NewWordIsNew DEF SegmentMatches
<1>9. MatchesPath(shape, path)
  BY <1>2, <1>4, <1>6, <1>7, <1>8 DEF MatchesPath
<1> QED
  BY <1>1, <1>2, <1>3, <1>4, <1>6, <1>9

(* A literal of a pattern that matches the path made of another pattern is *)
(* a literal of that one too.                                              *)
LEMMA SharedLiterals ==
  ASSUME NEW r \in Routes, NEW s \in Routes, MatchesPath(s.shape, PathOf(r.shape))
  PROVE  /\ Len(s.shape) =< Len(r.shape)
         /\ ~HasCatchAll(s.shape) => Len(s.shape) = Len(r.shape)
         /\ \A i \in Literals(s.shape) : i \in Literals(r.shape) /\ s.shape[i] = r.shape[i]
         /\ \A i \in DOMAIN s.shape : r.shape[i] = CatchAll => s.shape[i] # Param
<1>1. PICK R, S \in Seq(STRING) : R = r.shape /\ S = s.shape
  BY PatternAssumption
<1>2. PICK m, n \in Nat : m = Len(S) /\ n = Len(R) /\ DOMAIN S = 1..m /\ DOMAIN R = 1..n
  BY LenProperties
<1>3. PICK path : path = PathOf(R) /\ Len(path) = n
  BY <1>1, <1>2, OwnPath
<1>4. \A i \in 1..n : path[i] = IF R[i] = Param THEN NewWord
                                ELSE IF R[i] = CatchAll THEN EncodedSlash ELSE R[i]
  BY <1>2, <1>3 DEF PathOf
<1>5. MatchesPath(S, path)
  BY <1>1, <1>3
<1>6. m =< n /\ (~HasCatchAll(S) => m = n)
  BY <1>2, <1>3, <1>5 DEF MatchesPath
<1>7. \A i \in 1..m : SegmentMatches(S[i], path[i])
  BY <1>2, <1>5 DEF MatchesPath
<1>8. ASSUME NEW i \in Literals(S)
      PROVE  i \in Literals(R) /\ S[i] = R[i]
  <2>1. i \in 1..m /\ i \in 1..n
    BY <1>2, <1>6, <1>8 DEF Literals
  <2>2. S[i] # Param /\ S[i] # CatchAll
    BY <1>2, <1>8, <2>1 DEF Literals, Segments
  <2>3. S[i] = path[i]
    BY <1>7, <2>1, <2>2 DEF SegmentMatches
  <2>4. S[i] # NewWord /\ S[i] # EncodedSlash
    BY <1>1, <1>2, <2>1, RequestsAssumption
  <2>5. R[i] # Param /\ R[i] # CatchAll /\ path[i] = R[i]
    BY <1>4, <2>1, <2>3, <2>4
  <2>6. i \in Literals(R)
    BY <1>2, <2>1, <2>5 DEF Literals, Segments
  <2> QED
    BY <2>3, <2>5, <2>6
<1>9. ASSUME NEW i \in 1..m, R[i] = CatchAll
      PROVE  S[i] # Param
  <2>1. CatchAll # Param
    BY DEF CatchAll, Param
  <2>2. path[i] = EncodedSlash
    BY <1>4, <1>6, <1>9, <2>1
  <2>3. Param # EncodedSlash
    BY DEF Param, EncodedSlash
  <2> QED
    BY <1>7, <1>9, <2>1, <2>2, <2>3 DEF SegmentMatches
<1> QED
  BY <1>1, <1>2, <1>6, <1>8, <1>9

(* With the same length, the same literals and a catch-all in both or in   *)
(* neither, two patterns are the same.                                     *)
LEMMA SamePattern ==
  ASSUME NEW r \in Routes, NEW s \in Routes,
         Len(s.shape) = Len(r.shape),
         Literals(s.shape) = Literals(r.shape),
         \A i \in Literals(s.shape) : s.shape[i] = r.shape[i],
         HasCatchAll(s.shape) <=> HasCatchAll(r.shape)
  PROVE  s.shape = r.shape
<1>1. PICK R, S \in Seq(STRING) : R = r.shape /\ S = s.shape
  BY PatternAssumption
<1>2. PICK n \in Nat : n = Len(S) /\ n = Len(R) /\ DOMAIN S = 1..n /\ DOMAIN R = 1..n
  BY <1>1, LenProperties
<1>3. /\ \A i \in 1..n : S[i] = CatchAll => i = n
      /\ \A i \in 1..n : R[i] = CatchAll => i = n
  BY <1>1, <1>2, PatternAssumption
<1>4. (\E i \in 1..n : S[i] = CatchAll) <=> (\E i \in 1..n : R[i] = CatchAll)
  BY <1>1, <1>2 DEF HasCatchAll, Segments
<1>5. \A i \in 1..n : S[i] = CatchAll <=> R[i] = CatchAll
  BY <1>3, <1>4
<1>6. \A i \in 1..n : i \in Literals(S) <=> (S[i] # Param /\ S[i] # CatchAll)
  BY <1>2 DEF Literals, Segments
<1>7. \A i \in 1..n : i \in Literals(R) <=> (R[i] # Param /\ R[i] # CatchAll)
  BY <1>2 DEF Literals, Segments
<1>8. ASSUME NEW i \in 1..n
      PROVE  S[i] = R[i]
  <2>1. CASE i \in Literals(S)
    BY <1>1, <2>1
  <2>2. CASE i \notin Literals(S)
    <3>1. (S[i] = Param \/ S[i] = CatchAll) /\ (R[i] = Param \/ R[i] = CatchAll)
      BY <1>1, <1>6, <1>7, <2>2
    <3> QED
      BY <1>5, <3>1
  <2> QED
    BY <2>1, <2>2
<1>9. S = R
  BY <1>2, <1>8, SeqEqual
<1> QED
  BY <1>1, <1>9

LEMMA BetterPath ==
  ASSUME NEW r \in Routes, NEW s \in Routes, MatchesPath(s.shape, PathOf(r.shape))
  PROVE  s.shape = r.shape \/ PathSpecificity(s.shape) < PathSpecificity(r.shape)
<1>1. PICK R, S \in Seq(STRING) : R = r.shape /\ S = s.shape
  BY PatternAssumption
<1>2. PICK m, n \in Nat : m = Len(S) /\ n = Len(R)
  BY LenProperties
<1>3. m =< n /\ (~HasCatchAll(S) => m = n)
  BY <1>1, <1>2, SharedLiterals
<1>4. Literals(S) \subseteq Literals(R) /\ \A i \in Literals(S) : S[i] = R[i]
  BY <1>1, SharedLiterals
<1>5. PICK c, d \in Nat : c = Cardinality(Literals(S)) /\ d = Cardinality(Literals(R))
  BY Score
<1>6. c =< d /\ (c = d => Literals(S) = Literals(R))
  <2>1. PICK L : L = Literals(R) /\ IsFiniteSet(L)
    BY Score
  <2>2. PICK K \in SUBSET L : K = Literals(S)
    BY <1>4, <2>1
  <2>3. Cardinality(K) =< Cardinality(L) /\ (Cardinality(L) = Cardinality(K) => L = K)
    BY <2>1, FS_Subset
  <2> QED
    BY <1>5, <2>1, <2>2, <2>3
<1>7. PICK v, w \in Int : v = CatchAllPenalty(S) /\ w = CatchAllPenalty(R)
  BY DEF CatchAllPenalty
<1>8. /\ v = (IF HasCatchAll(S) THEN 100 ELSE 0)
      /\ w = (IF HasCatchAll(R) THEN 100 ELSE 0)
  BY <1>7 DEF CatchAllPenalty
<1>9. CASE S = <<>> \/ R = <<>>
  <2>1. m = 0
    BY <1>2, <1>3, <1>9
  <2>2. DOMAIN S = {}
    <3>1. DOMAIN S = 1..m
      BY <1>2, LenProperties
    <3> QED
      BY <2>1, <3>1
  <2>3. ~HasCatchAll(S)
    BY <2>2 DEF HasCatchAll, Segments
  <2>4. S = <<>> /\ R = <<>>
    BY <1>2, <1>3, <2>1, <2>3, EmptySeq
  <2> QED
    BY <1>1, <2>4
<1>10. CASE S # <<>> /\ R # <<>>
  <2>1. PICK x, y \in Int : x = PathSpecificity(S) /\ y = PathSpecificity(R)
                            /\ x = 1001 * c + 9 * m - v /\ y = 1001 * d + 9 * n - w
    <3>1. PathSpecificity(S) = 1001 * c + 9 * m - v
      BY <1>2, <1>5, <1>7, <1>10, Score
    <3>2. PathSpecificity(R) = 1001 * d + 9 * n - w
      BY <1>2, <1>5, <1>7, <1>10, Score
    <3>3. 1001 * c + 9 * m - v \in Int /\ 1001 * d + 9 * n - w \in Int
      OBVIOUS
    <3> QED
      BY <3>1, <3>2, <3>3
  <2>2. CASE c < d \/ m < n \/ v > w
    <3>1. x < y
      BY <1>3, <1>6, <1>8, <2>1, <2>2
    <3> QED
      BY <1>1, <2>1, <3>1
  <2>3. CASE c = d /\ m = n /\ ~(v > w)
    <3>1. HasCatchAll(S) => HasCatchAll(R)
      BY <1>8, <2>3
    <3>2. HasCatchAll(R) => HasCatchAll(S)
      <4>1. SUFFICES ASSUME HasCatchAll(R), ~HasCatchAll(S)
                     PROVE  FALSE
        OBVIOUS
      <4>2. DOMAIN S = 1..n /\ DOMAIN R = 1..n
        BY <1>2, <2>3, LenProperties
      <4>3. PICK i \in 1..n : R[i] = CatchAll
        BY <4>1, <4>2 DEF HasCatchAll, Segments
      <4>4. S[i] # CatchAll
        BY <4>1, <4>2 DEF HasCatchAll, Segments
      <4>5. i \notin Literals(S)
        BY <1>6, <2>3, <4>2, <4>3 DEF Literals, Segments
      <4>6. S[i] = Param
        BY <4>2, <4>4, <4>5 DEF Literals, Segments
      <4> QED
        BY <1>1, <4>2, <4>3, <4>6, SharedLiterals
    <3>3. S = R
      BY <1>1, <1>2, <1>4, <1>6, <2>3, <3>1, <3>2, SamePattern
    <3> QED
      BY <1>1, <3>3
  <2> QED
    BY <1>3, <1>6, <2>2, <2>3
<1> QED
  BY <1>9, <1>10

LEMMA OwnRequestFound ==
  ASSUME NEW routes \in SUBSET Routes, NEW domain \in Domains, ConflictFree(routes, domain),
         NEW r \in routes
  PROVE  \E q \in Requests : Resolve(routes, domain, q) = {r}
<1>1. PICK name \in {<<NewWord>>} \cup {NameOf(host) : host \in AllHosts} :
        /\ HostSpecificity(r, domain, name) >= 0
        /\ \A s \in Routes : HostSpecificity(s, domain, name) =< HostSpecificity(r, domain, name)
  BY BestName
<1>2. PICK path : path = PathOf(r.shape)
  OBVIOUS
<1>3. PICK q : q = [method |-> r.method, path |-> path, host |-> name]
  OBVIOUS
<1>4. q.method = r.method /\ q.path = path /\ q.host = name
  BY <1>3
<1>5. q \in Requests
  <2>1. q \in OwnRequests
    <3> DEFINE names == {<<NewWord>>} \cup {NameOf(host) : host \in AllHosts}
    <3>1. r \in Routes /\ name \in names
      BY <1>1
    <3>2. q = [method |-> r.method, path |-> PathOf(r.shape), host |-> name]
      BY <1>2, <1>3
    <3>3. OwnRequests = {[method |-> x.method, path |-> PathOf(x.shape), host |-> y] :
                           x \in Routes, y \in names}
      BY DEF OwnRequests
    <3> HIDE DEF names
    <3> QED
      BY <3>1, <3>2, <3>3
  <2> QED
    BY <2>1, RequestsAssumption
<1>6. r \in Candidates(routes, domain, q)
  <2>1. MatchesPath(r.shape, path)
    BY <1>2, OwnPath
  <2> QED
    BY <1>1, <1>4, <2>1 DEF Candidates, AnswersMethod
<1>7. ASSUME NEW s \in Candidates(routes, domain, q), s # r
      PROVE  OutranksByPattern(r, s, domain, q)
  <2>1. /\ s \in routes /\ s \in Routes /\ r \in Routes
        /\ s.method = r.method \/ (r.method = "HEAD" /\ s.method = "GET")
        /\ HostSpecificity(s, domain, name) >= 0
        /\ MatchesPath(s.shape, path)
    BY <1>4 DEF Candidates, AnswersMethod
  <2>2. PICK hr, hs, pr, ps, mr, ms \in Int :
          /\ hr = HostSpecificity(r, domain, q.host) /\ hs = HostSpecificity(s, domain, q.host)
          /\ pr = PathSpecificity(r.shape) /\ ps = PathSpecificity(s.shape)
          /\ mr = MethodSpecificity(r, q.method) /\ ms = MethodSpecificity(s, q.method)
    BY <1>6, CandidateNumbers
  <2>3. hs =< hr
    BY <1>1, <1>4, <2>1, <2>2
  <2>4. s.shape = r.shape \/ ps < pr
    BY <1>2, <2>1, <2>2, BetterPath
  <2>5. mr = 1 /\ (ms = 1 \/ ms = 0) /\ (ms = 1 => s.method = r.method)
    BY <1>4, <2>2 DEF MethodSpecificity
  <2>6. ~(hs = hr /\ s.shape = r.shape /\ ms = 1)
    <3>1. SUFFICES ASSUME hs = hr, s.shape = r.shape, ms = 1
                   PROVE  FALSE
      OBVIOUS
    <3>2. HostsOf(r, domain) \subseteq Host /\ HostsOf(s, domain) \subseteq Host
      BY <2>1, HostsKnown
    <3>3. EffectiveHosts(r, domain) \cap EffectiveHosts(s, domain) # {}
      BY <1>1, <1>4, <2>2, <3>1, <3>2, SharedHost
    <3>4. r.id # s.id
      BY <1>7, <2>1, Constants
    <3>5. Conflicting(r, s, domain)
      BY <2>5, <3>1, <3>3, <3>4 DEF Conflicting
    <3> QED
      BY <2>1, <3>5 DEF ConflictFree
  <2>7. hs = hr /\ s.shape = r.shape => ps = pr
    BY <2>2
  <2>8. hr > hs \/ (hr = hs /\ pr > ps) \/ (hr = hs /\ pr = ps /\ mr > ms)
    BY <2>3, <2>4, <2>5, <2>6, <2>7
  <2> QED
    BY <2>2, <2>8 DEF OutranksByPattern
<1>8. \A s \in Candidates(routes, domain, q) \ {r} : Outranks(r, s, domain, q)
  BY <1>7 DEF Outranks
<1>9. r \in Resolve(routes, domain, q)
  BY <1>6, <1>8 DEF Resolve
<1>10. \E x : Resolve(routes, domain, q) = {x}
  BY <1>6, TopExists
<1> QED
  BY <1>5, <1>9, <1>10

LEMMA ActiveConstants ==
  ASSUME IInv, active # 0
  PROVE  /\ RevisionDomain(revisions[active], defaultDomain) \in Domains
         /\ RoutesOf(revisions[active].routes) \in SUBSET Routes
<1>1. active \in DOMAIN revisions /\ revisions[active] \in Payload
  BY LenProperties DEF IInv, RevisionTypes
<1>2. PICK payload \in Payload : payload = revisions[active]
  BY <1>1
<1>3. payload.domain \in Domains /\ defaultDomain \in Domains
  BY DEF Payload, IInv, TableTypes
<1>4. RevisionDomain(payload, defaultDomain) \in Domains
  BY <1>3 DEF RevisionDomain
<1>5. RoutesOf(payload.routes) \in SUBSET Routes
  BY DEF RoutesOf
<1> QED
  BY <1>2, <1>4, <1>5

LEMMA AllowedFound ==
  ASSUME NEW routes, NEW domain, NEW q
  PROVE  q.method \in AllowedMethods(routes, domain, q.path, q.host)
           <=> Candidates(routes, domain, q) # {}
<1> DEFINE answering == {r \in routes : /\ HostSpecificity(r, domain, q.host) >= 0
                                        /\ MatchesPath(r.shape, q.path)}
           methods == {r.method : r \in answering}
<1>1. q.method \in AllowedMethods(routes, domain, q.path, q.host)
        <=> q.method \in methods \/ ("GET" \in methods /\ q.method = "HEAD")
  BY DEF AllowedMethods
<1>2. Candidates(routes, domain, q)
        = {r \in answering : r.method = q.method \/ (q.method = "HEAD" /\ r.method = "GET")}
  BY DEF Candidates, AnswersMethod
<1> HIDE DEF answering
<1> QED
  BY <1>1, <1>2

-----------------------------------------------------------------------------
(* The inductive invariant: what an open transaction of                    *)
(* routing-revision-service.ts has read agrees with the tables, and every  *)
(* stored revision has targets for its routes.                             *)
THEOREM RevisionsInductive == Spec => []IInv
BY InitIInv, NextKeeps, PTL DEF Spec

(* No publication, rollback or write of discovery leaves the types, or     *)
(* mixes up the targets of two upstreams.                                  *)
THEOREM RevisionsTypeCorrect == Spec => []TypeOK
<1>1. IInv => TypeOK
  BY TypesTogether DEF IInv
<1> QED
  BY <1>1, RevisionsInductive, PTL

(* However publications, rollbacks and discovery interleave, the active    *)
(* revision passes the checks of the gateways' loader.                     *)
THEOREM ActiveAlwaysLoads == Spec => []ActiveRevisionLoads
<1>1. IInv => ActiveRevisionLoads
  BY DEF IInv
<1> QED
  BY <1>1, RevisionsInductive, PTL

(* The default domain administrators see is that of the active revision.   *)
THEOREM DomainAlwaysAgrees == Spec => []DomainAgrees
<1>1. IInv => DomainAgrees
  BY DEF IInv
<1> QED
  BY <1>1, RevisionsInductive, PTL

(* A gateway never has to look at the ids of two routes to know which one  *)
(* answers (candidateOutranks): what would tie is rejected as a conflict.  *)
THEOREM IdsAreNeverNeeded == Spec => []IdsNeverDecide
<1>1. ASSUME IInv, active # 0, NEW q \in Requests
      PROVE  LET domain == RevisionDomain(revisions[active], defaultDomain)
                 routes == RoutesOf(revisions[active].routes)
             IN  \A r, s \in Candidates(routes, domain, q) : r # s => ~Tied(r, s, domain, q)
  <2>1. PICK domain : domain = RevisionDomain(revisions[active], defaultDomain)
    OBVIOUS
  <2>2. PICK routes : routes = RoutesOf(revisions[active].routes)
    OBVIOUS
  <2>3. domain \in Domains /\ routes \in SUBSET Routes
    BY <1>1, <2>1, <2>2, ActiveConstants
  <2>4. ConflictFree(routes, domain)
    BY <1>1, <2>1, <2>2 DEF IInv, ActiveRevisionLoads, Loads
  <2>5. \A r, s \in Candidates(routes, domain, q) : r # s => ~Tied(r, s, domain, q)
    BY <2>3, <2>4, TiedConflict DEF ConflictFree
  <2> QED
    BY <2>1, <2>2, <2>5
<1>2. IInv => IdsNeverDecide
  BY <1>1 DEF IdsNeverDecide
<1> QED
  BY <1>2, RevisionsInductive, PTL

(* With the active revision, a request has one answer, whatever the order  *)
(* its candidates are compared in, or none, and the Allow header lists its *)
(* method exactly when there is one.                                       *)
OneAnswer ==
  active # 0 =>
    LET domain == RevisionDomain(revisions[active], defaultDomain)
        routes == RoutesOf(revisions[active].routes)
    IN  \A q \in Requests :
          /\ Resolve(routes, domain, q) = {} \/ \E r \in routes : Resolve(routes, domain, q) = {r}
          /\ q.method \in AllowedMethods(routes, domain, q.path, q.host)
               <=> Resolve(routes, domain, q) # {}

(* resolve and resolveAllowedMethods agree with each other, for any routes *)
(* and any requests.                                                       *)
THEOREM AnswersAreUnique == Spec => []OneAnswer
<1>1. ASSUME IInv, active # 0, NEW q \in Requests
      PROVE  LET domain == RevisionDomain(revisions[active], defaultDomain)
                 routes == RoutesOf(revisions[active].routes)
             IN  /\ \/ Resolve(routes, domain, q) = {}
                    \/ \E r \in routes : Resolve(routes, domain, q) = {r}
                 /\ q.method \in AllowedMethods(routes, domain, q.path, q.host)
                      <=> Resolve(routes, domain, q) # {}
  <2>1. PICK domain : domain = RevisionDomain(revisions[active], defaultDomain)
    OBVIOUS
  <2>2. PICK routes : routes = RoutesOf(revisions[active].routes)
    OBVIOUS
  <2>3. domain \in Domains /\ routes \in SUBSET Routes
    BY <1>1, <2>1, <2>2, ActiveConstants
  <2>4. Resolve(routes, domain, q) \subseteq Candidates(routes, domain, q)
    BY DEF Resolve
  <2>5. Candidates(routes, domain, q) \subseteq routes
    BY DEF Candidates
  <2>6. Candidates(routes, domain, q) # {} => \E r : Resolve(routes, domain, q) = {r}
    BY <2>3, TopExists
  <2>7. q.method \in AllowedMethods(routes, domain, q.path, q.host)
          <=> Resolve(routes, domain, q) # {}
    BY <2>4, <2>6, AllowedFound
  <2>8. Resolve(routes, domain, q) = {} \/ \E r \in routes : Resolve(routes, domain, q) = {r}
    BY <2>4, <2>5, <2>6
  <2> QED
    BY <2>1, <2>2, <2>7, <2>8
<1>2. IInv => OneAnswer
  BY <1>1 DEF OneAnswer
<1> QED
  BY <1>2, RevisionsInductive, PTL

(* Under the active revision every route answers some request, and the     *)
(* Allow header lists the method of a request exactly when one answers it: *)
(* no route is hidden behind the others, whatever has been published.      *)
THEOREM RoutesAreReachable == Spec => []EveryRouteReachable
<1>1. ASSUME IInv, active # 0
      PROVE  LET domain == RevisionDomain(revisions[active], defaultDomain)
                 routes == RoutesOf(revisions[active].routes)
                 answers == {[to |-> q, from |-> Resolve(routes, domain, q)] : q \in Requests}
             IN  /\ \A r \in routes : \E a \in answers : a.from = {r}
                 /\ \A a \in answers :
                      a.to.method \in AllowedMethods(routes, domain, a.to.path, a.to.host)
                        <=> a.from # {}
  <2>1. PICK domain : domain = RevisionDomain(revisions[active], defaultDomain)
    OBVIOUS
  <2>2. PICK routes : routes = RoutesOf(revisions[active].routes)
    OBVIOUS
  <2>3. domain \in Domains /\ routes \in SUBSET Routes
    BY <1>1, <2>1, <2>2, ActiveConstants
  <2>4. ConflictFree(routes, domain)
    BY <1>1, <2>1, <2>2 DEF IInv, ActiveRevisionLoads, Loads
  <2>5. ASSUME NEW r \in routes
        PROVE  \E a \in {[to |-> q, from |-> Resolve(routes, domain, q)] : q \in Requests} :
                 a.from = {r}
    <3>1. PICK q \in Requests : Resolve(routes, domain, q) = {r}
      BY <2>3, <2>4, OwnRequestFound
    <3>2. [to |-> q, from |-> Resolve(routes, domain, q)].from = {r}
      BY <3>1
    <3> QED
      BY <3>2
  <2>6. ASSUME NEW q \in Requests
        PROVE  q.method \in AllowedMethods(routes, domain, q.path, q.host)
                 <=> Resolve(routes, domain, q) # {}
    <3>1. Resolve(routes, domain, q) \subseteq Candidates(routes, domain, q)
      BY DEF Resolve
    <3>2. Candidates(routes, domain, q) # {} => \E r : Resolve(routes, domain, q) = {r}
      BY <2>3, TopExists
    <3> QED
      BY <3>1, <3>2, AllowedFound
  <2>7. \A a \in {[to |-> q, from |-> Resolve(routes, domain, q)] : q \in Requests} :
          a.to.method \in AllowedMethods(routes, domain, a.to.path, a.to.host)
            <=> a.from # {}
    BY <2>6
  <2> QED
    BY <2>1, <2>2, <2>5, <2>7
<1>2. IInv => EveryRouteReachable
  BY <1>1 DEF EveryRouteReachable
<1> QED
  BY <1>2, RevisionsInductive, PTL

(* A publication is computed from the tables as they are when it commits.  *)
THEOREM PublicationsAreCurrent == Spec => PublicationIsCurrent
<1>1. IInv /\ [Next]_vars =>
        [\A p \in Publishers : Publish(p) =>
           LET new == revisions'[active']
           IN  /\ new.domain = defaultDomain'
               /\ new.routes \ SupportRoutes \subseteq live'
               /\ \A u \in Upstreams : new.targets[u] \subseteq enabled'
               /\ \A r \in RoutesOf((live' \ SupportRoutes) \ new.routes) :
                    r.upstream \in managed' /\ new.targets[r.upstream] = {}]_vars
  BY CurrentStep
<1> QED
  BY <1>1, RevisionsInductive, PTL DEF Spec, PublicationIsCurrent

(* A publication drops no upstream that it could keep routing to.          *)
THEOREM RoutedUpstreamsStay == Spec => RoutedUpstreamStays
<1>1. IInv /\ [Next]_vars =>
        [\A p \in Publishers, u \in Upstreams :
           /\ Publish(p)
           /\ (live' \cap RoutesOn(u)) \ SupportRoutes # {}
           /\ active # 0
           /\ revisions[active].targets[u] \cap enabled' # {}
           => revisions'[active'].targets[u] # {}]_vars
  BY StaysStep
<1> QED
  BY <1>1, RevisionsInductive, PTL DEF Spec, RoutedUpstreamStays
=============================================================================
