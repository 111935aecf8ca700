------------------------ MODULE ServiceControlProofs ------------------------
(***************************************************************************)
(* What holds of the control plane of a service-managed upstream for any   *)
(* number of operations, targets, addresses, configurations and contracts. *)
(*                                                                         *)
(* The steps of an operation rely on what it has loaded and been answered. *)
(* A push holds answers to its own revision only, and a discovery that is  *)
(* still current has loaded the rows as they are (Answered, UpToDate).     *)
(* A service never forgets a revision for an older one (Holds is kept), so *)
(* what a reached target's row says is still true of its service           *)
(* (ReachedHolds).                                                         *)
(***************************************************************************)
EXTENDS ServiceControl, WellFoundedInduction, TLAPS

-----------------------------------------------------------------------------
(* The greatest of some revisions. *)
LEMMA MaximumIs ==
  ASSUME NEW N \in Nat, NEW S \in SUBSET (0..N), S # {}
  PROVE  /\ Maximum(S) \in S
         /\ \A y \in S : y =< Maximum(S)
<1> DEFINE Bounds == {n \in Nat : \A y \in S : y =< n}
<1>1. N \in Bounds
  OBVIOUS
<1>2. PICK m \in Bounds : \A n \in Bounds : ~(<<n, m>> \in OpToRel(<, Nat))
  BY <1>1, NatLessThanWellFounded, WFMin, Zenon
<1>3. \A n \in Bounds : ~(n < m)
  BY <1>2, Zenon DEF OpToRel
<1>4. PICK x \in S : TRUE
  OBVIOUS
<1>5. m \in S
  <2>1. SUFFICES ASSUME m \notin S PROVE FALSE
    OBVIOUS
  <2>2. \A y \in S : y < m
    BY <2>1
  <2>3. m - 1 \in Bounds
    BY <1>4, <2>2
  <2> QED
    BY <1>3, <2>3
<1> QED
  BY <1>5 DEF Maximum

LEMMA Bounds == MaxRevision \in Nat \ {0} /\ MaxChanges \in Nat
BY ServiceAssumption

LEMMA NextRevisionAbove ==
  ASSUME TypeOK
  PROVE  /\ NextRevision(connection.revision, target) \in Nat
         /\ connection.revision < NextRevision(connection.revision, target)
<1> DEFINE S == {connection.revision} \cup {target[t].revision : t \in Enabled(target)}
<1>1. S \in SUBSET (0..MaxRevision) /\ connection.revision \in S
  BY DEF TypeOK, Row, Revisions, Enabled
<1>2. Maximum(S) \in 0..MaxRevision /\ connection.revision =< Maximum(S)
  BY <1>1, MaximumIs, Bounds
<1> QED
  BY <1>1, <1>2, Bounds DEF NextRevision, HighestRevision

LEMMA SynchronizationRevisionIs ==
  ASSUME TypeOK
  PROVE  /\ SynchronizationRevision(connection, target) \in Nat
         /\ \/ SynchronizationRevision(connection, target) = connection.revision
            \/ connection.revision < SynchronizationRevision(connection, target)
BY NextRevisionAbove DEF SynchronizationRevision, TypeOK, Revisions

-----------------------------------------------------------------------------
(* Types *)

LEMMA NoOpType == NoResult \in Results /\ NoOp \in Operation
<1>1. NoResult \in Results
  BY Bounds DEF NoResult, Results, Revisions, Hashes
<1>2. [t \in Targets |-> [address |-> FirstAddress[t], enabled |-> FALSE]]
        \in [Targets -> [address : Addresses, enabled : BOOLEAN]]
  BY ServiceAssumption
<1> QED
  BY <1>1, <1>2, Bounds DEF NoOp, Operation, Revisions, Hashes

LEMMA RowsType == TypeOK => Rows \in [Targets -> [address : Addresses, enabled : BOOLEAN]]
BY DEF TypeOK, Rows, Row

LEMMA TouchedIs ==
  ASSUME TypeOK, NEW o \in Operations
  PROVE  /\ Touched(op)[o] \in Operation
         /\ op[o].kind # "discovery" => Touched(op)[o] = op[o]
         /\ op[o].kind = "discovery" => Touched(op)[o] = [op[o] EXCEPT !.current = FALSE]
<1>1. op[o] \in Operation
  BY DEF TypeOK
<1>2. [op[o] EXCEPT !.current = FALSE] \in Operation
  BY <1>1 DEF Operation
<1> QED
  BY <1>1, <1>2 DEF Touched

(* The operations after a step of one of them, others made stale or not. *)
LEMMA OpType ==
  ASSUME TypeOK, NEW o \in Operations, NEW record \in Operation,
         op' = [op EXCEPT ![o] = record] \/ op' = [Touched(op) EXCEPT ![o] = record]
  PROVE  op' \in [Operations -> Operation]
<1>1. op \in [Operations -> Operation]
  BY DEF TypeOK
<1>2. Touched(op) \in [Operations -> Operation]
  BY TouchedIs DEF Touched
<1> QED
  BY <1>1, <1>2

LEMMA InitTypeOK == Init => TypeOK
<1> SUFFICES ASSUME Init PROVE TypeOK
  OBVIOUS
<1> USE Bounds, ServiceAssumption DEF Revisions, Hashes
<1>1. connection \in [revision : Revisions, hash : Hashes, contract : Contracts \cup {None}]
  BY DEF Init
<1>2. target \in [Targets -> Row] /\ \A t \in Targets : target[t].status = "unknown"
  BY DEF Init, NewTarget, Row
<1>3. service \in [Addresses -> [revision : Revisions, hash : Hashes, contract : Contracts]]
  BY DEF Init
<1>4. op \in [Operations -> Operation]
  BY NoOpType DEF Init
<1> QED
  BY <1>1, <1>2, <1>3, <1>4 DEF Init, TypeOK

LEMMA StatusType ==
  ASSUME NEW row \in Row, NEW s \in {"unknown", "error"}
  PROVE  [row EXCEPT !.status = s] \in Row /\ [row EXCEPT !.status = s].status = s
BY DEF Row

LEMMA UnverifiedType ==
  ASSUME NEW row \in Row, NEW a \in Addresses
  PROVE  /\ [Unverified(row) EXCEPT !.address = a] \in Row
         /\ [Unverified(row) EXCEPT !.address = a].status = "unknown"
         /\ [Unverified(row) EXCEPT !.enabled = TRUE] \in Row
         /\ [Unverified(row) EXCEPT !.enabled = TRUE].status = "unknown"
<1>1. \A r \in Revisions, h \in Hashes, b \in BOOLEAN, s \in {"unknown"} :
        LET new == [row EXCEPT !.revision = r, !.hash = h, !.state = b, !.status = s]
        IN  new \in Row /\ new.status = s
  BY DEF Row
<1>2. 0 \in Revisions /\ None \in Hashes
  BY Bounds DEF Revisions, Hashes
<1>3. Unverified(row) \in Row /\ Unverified(row).status = "unknown"
  BY <1>1, <1>2 DEF Unverified
<1> QED
  BY <1>3 DEF Row

LEMMA KnownType ==
  ASSUME NEW row \in Row, NEW revision \in Revisions, NEW hash \in Hashes,
         NEW s \in {"unknown", "synced", "drifted"}
  PROVE  /\ LET new == [row EXCEPT !.revision = revision, !.hash = hash,
                                   !.status = s, !.state = TRUE]
            IN  new \in Row /\ new.state = TRUE
         /\ LET new == [row EXCEPT !.revision = revision, !.hash = hash, !.state = TRUE,
                                   !.status = s]
            IN  new \in Row /\ new.state = TRUE
BY DEF Row

(* Rows that keep their type and what goes with a status.                  *)
RowsOK(rows) ==
  /\ rows \in [Targets -> Row]
  /\ \A t \in Targets : rows[t].status \in {"synced", "drifted"} => rows[t].state

LEMMA RoutedType ==
  ASSUME TypeOK, NEW rows, RowsOK(rows)
  PROVE  RoutedAfter(rows, connection) \in [Targets -> Addresses \cup {None}]
BY DEF TypeOK, RowsOK, Row, RoutedAfter

LEMMA ResultType ==
  ASSUME TypeOK, NEW o \in Operations, NEW t \in Targets, NEW result \in Results,
         Result(o, t, result)
  PROVE  op' \in [Operations -> Operation]
<1>1. op[o] \in Operation
  BY DEF TypeOK
<1>2. [op[o] EXCEPT !.results[t] = result] \in Operation
  BY <1>1 DEF Operation
<1> QED
  BY <1>2, OpType DEF Result, Set

LEMMA EndType ==
  ASSUME TypeOK, NEW o \in Operations, End(o)
  PROVE  op' \in [Operations -> Operation]
BY OpType, NoOpType DEF End, Set

LEMMA SaveType ==
  ASSUME TypeOK, NEW o \in Operations, NEW revision \in Revisions, NEW hash \in Hashes,
         SaveRevision(o, revision, hash),
         UNCHANGED <<service, routed, reached, changes>>
  PROVE  TypeOK'
<1> USE Bounds DEF SaveRevision
<1>1. connection' \in [revision : Revisions, hash : Hashes, contract : Contracts \cup {None}]
  BY DEF TypeOK
<1>2. saved' \in [Revisions -> Hashes]
  BY DEF TypeOK
<1>3. RowsOK(target')
  <2>0. target' = [t \in Targets |->
          IF target[t].enabled THEN [target[t] EXCEPT !.status = "unknown"] ELSE target[t]]
    OBVIOUS
  <2>1. \A t \in Targets : target'[t] = target[t] \/ target'[t] = [target[t] EXCEPT !.status = "unknown"]
    BY <2>0
  <2>2. \A t \in Targets : LET new == [target[t] EXCEPT !.status = "unknown"]
                           IN  new \in Row /\ new.status = "unknown"
    <3> TAKE t \in Targets
    <3>1. target[t] \in Row
      BY DEF TypeOK
    <3> QED
      BY <3>1, StatusType
  <2>3. target' \in [Targets -> Row]
    BY <2>0, <2>2 DEF TypeOK
  <2> QED
    BY <2>1, <2>2, <2>3 DEF TypeOK, RowsOK
<1>4. op' \in [Operations -> Operation]
  <2>1. op[o] \in Operation
    BY DEF TypeOK
  <2>2. [op[o] EXCEPT !.at = "push", !.base = revision,
                      !.results = [t \in Targets |-> NoResult]] \in Operation
    BY <2>1, NoOpType DEF Operation
  <2> QED
    BY <2>2, OpType
<1> QED
  BY <1>1, <1>2, <1>3, <1>4 DEF TypeOK, RowsOK

LEMMA LoadTypes ==
  ASSUME TypeOK, NEW o \in Operations
  PROVE  /\ \A v \in Values : LoadUpdate(o, v) => TypeOK'
         /\ LoadSynchronize(o) => TypeOK'
         /\ LoadDiscovery(o) => TypeOK'
<1> USE Bounds, NoOpType, RowsType DEF Set
<1>0. /\ connection.revision \in Revisions /\ connection.hash \in Hashes
      /\ connection.contract \in Contracts \cup {None}
  BY DEF TypeOK
<1>1. ASSUME NEW v \in Values, LoadUpdate(o, v) PROVE TypeOK'
  <2> DEFINE revision == NextRevision(connection.revision, target)
  <2>1. revision \in Revisions /\ v \in Hashes
    BY <1>1, NextRevisionAbove DEF LoadUpdate, Revisions, Hashes
  <2>2. [NoOp EXCEPT !.kind = "push", !.at = "save", !.base = connection.revision,
                     !.revision = revision, !.hash = v,
                     !.contract = connection.contract, !.rows = Rows] \in Operation
    BY <1>0, <2>1 DEF Operation
  <2> QED
    BY <1>1, <2>2, OpType DEF LoadUpdate, TypeOK
<1>2. ASSUME LoadSynchronize(o) PROVE TypeOK'
  <2> DEFINE revision == SynchronizationRevision(connection, target)
             at == IF revision = connection.revision THEN "push" ELSE "advance"
  <2>1. revision \in Revisions
    BY <1>2, SynchronizationRevisionIs DEF LoadSynchronize, Revisions
  <2>2. at \in {"push", "advance"}
    OBVIOUS
  <2> HIDE DEF revision, at
  <2>3. [NoOp EXCEPT !.kind = "push", !.base = connection.revision, !.at = at,
                     !.revision = revision, !.hash = connection.hash,
                     !.contract = connection.contract, !.rows = Rows] \in Operation
    BY <1>0, <2>1, <2>2 DEF Operation
  <2> QED
    BY <1>2, <2>3, OpType DEF LoadSynchronize, TypeOK, revision, at
<1>3. ASSUME LoadDiscovery(o) PROVE TypeOK'
  <2>1. [NoOp EXCEPT !.kind = "discovery", !.at = "fetch", !.rows = Rows,
                     !.contract = connection.contract] \in Operation
    BY <1>0 DEF Operation
  <2> QED
    BY <1>3, <2>1, OpType DEF LoadDiscovery, TypeOK
<1> QED
  BY <1>1, <1>2, <1>3

LEMMA PushTypes ==
  ASSUME TypeOK, NEW o \in Operations
  PROVE  /\ SaveUpdate(o) \/ Advance(o) \/ SavedByAnother(o) \/ Recover(o) => TypeOK'
         /\ \A t \in Targets : PushRefused(o, t) \/ RequestLost(o, t) \/ Fetch(o, t) => TypeOK'
         /\ \A t \in Targets, lost \in BOOLEAN : PushTaken(o, t, lost) => TypeOK'
<1> USE Bounds, NoOpType
<1>0. op[o] \in Operation /\ op[o].revision \in Revisions /\ op[o].hash \in Hashes
  BY DEF TypeOK, Operation
<1>1. ASSUME SaveUpdate(o) \/ Advance(o) PROVE TypeOK'
  BY <1>0, <1>1, SaveType DEF SaveUpdate, Advance
<1>2. ASSUME SavedByAnother(o) PROVE TypeOK'
  BY <1>2, EndType DEF SavedByAnother, TypeOK
<1>3. ASSUME Recover(o) PROVE TypeOK'
  <2> DEFINE S == {op[o].results[t].revision : t \in ResultsIn(o, {"conflict"})} \cup {op[o].revision}
  <2>1. S \in SUBSET (0..MaxRevision) /\ S # {}
    BY <1>0 DEF TypeOK, Operation, Results, ResultsIn, Revisions
  <2>2. Maximum(S) \in 0..MaxRevision
    BY <2>1, MaximumIs
  <2>3. Maximum(S) + 1 \in Revisions
    BY <1>3, <2>2 DEF Recover, Revisions
  <2> HIDE DEF S
  <2>4. [op[o] EXCEPT !.at = "advance", !.attempt = 1, !.revision = Maximum(S) + 1] \in Operation
    BY <1>0, <2>3 DEF Operation
  <2> QED
    BY <1>3, <2>4, OpType DEF Recover, Set, TypeOK, S
<1>4. ASSUME NEW t \in Targets PROVE service[op[o].rows[t].address] \in
                  [revision : Revisions, hash : Hashes, contract : Contracts]
  BY <1>0 DEF TypeOK, Operation
<1>5. ASSUME NEW t \in Targets, PushRefused(o, t) \/ RequestLost(o, t) \/ Fetch(o, t)
      PROVE  TypeOK'
  <2>1. \E result \in Results : Result(o, t, result)
    <3>1. [NoResult EXCEPT !.is = "conflict", !.revision = service[op[o].rows[t].address].revision]
            \in Results
      BY <1>4 DEF Results
    <3>2. [NoResult EXCEPT !.is = "error"] \in Results
      BY DEF Results
    <3>3. [is |-> "ok", revision |-> service[op[o].rows[t].address].revision,
           hash |-> service[op[o].rows[t].address].hash,
           contract |-> service[op[o].rows[t].address].contract] \in Results
      BY <1>4 DEF Results
    <3> QED
      BY <1>5, <3>1, <3>2, <3>3 DEF PushRefused, RequestLost, Fetch
  <2>2. op' \in [Operations -> Operation]
    BY <2>1, ResultType
  <2>3. changes' \in 0..MaxChanges
    BY <1>5 DEF PushRefused, RequestLost, Fetch, Changed, TypeOK
  <2> QED
    BY <1>5, <2>2, <2>3 DEF PushRefused, RequestLost, Fetch, TypeOK
<1>6. ASSUME NEW t \in Targets, NEW lost \in BOOLEAN, PushTaken(o, t, lost) PROVE TypeOK'
  <2>1. op' \in [Operations -> Operation]
    <3>1. [NoResult EXCEPT !.is = "error"] \in Results
      BY DEF Results
    <3>2. \A is \in {"ok", "mismatch"} :
            [is |-> is, revision |-> op[o].revision, hash |-> op[o].hash,
             contract |-> service[op[o].rows[t].address].contract] \in Results
      BY <1>0, <1>4 DEF Results
    <3>3. \E result \in Results : Result(o, t, result)
      BY <1>6, <3>1, <3>2 DEF PushTaken
    <3> QED
      BY <3>3, ResultType
  <2>2. service' \in [Addresses -> [revision : Revisions, hash : Hashes, contract : Contracts]]
    BY <1>0, <1>6 DEF PushTaken, TypeOK
  <2>3. changes' \in 0..MaxChanges
    BY <1>6 DEF PushTaken, Changed, TypeOK
  <2> QED
    BY <1>6, <2>1, <2>2, <2>3 DEF PushTaken, TypeOK
<1> QED
  BY <1>1, <1>2, <1>3, <1>5, <1>6

LEMMA PushedRowType ==
  ASSUME TypeOK, NEW o \in Operations, NEW t \in Targets
  PROVE  /\ PushedRow(o, t) \in Row
         /\ PushedRow(o, t).status \in {"synced", "drifted"} => PushedRow(o, t).state
<1>1. target[t] \in Row /\ (target[t].status \in {"synced", "drifted"} => target[t].state)
  BY DEF TypeOK
<1>2. op[o].results[t].revision \in Revisions /\ op[o].results[t].hash \in Hashes
  BY DEF TypeOK, Operation, Results
<1>3. LET new == [target[t] EXCEPT !.status = "error"] IN new \in Row /\ new.status = "error"
  BY <1>1, StatusType
<1>4. \A s \in {"synced", "drifted"} :
        LET new == [target[t] EXCEPT !.revision = op[o].results[t].revision,
                                     !.hash = op[o].results[t].hash,
                                     !.status = s, !.state = TRUE]
        IN  new \in Row /\ new.state = TRUE
  BY <1>1, <1>2, KnownType
<1> QED
  BY <1>1, <1>3, <1>4 DEF PushedRow

LEMMA DiscoveredRowType ==
  ASSUME TypeOK, NEW o \in Operations, NEW t \in Targets, NEW c, NEW conn
  PROVE  /\ DiscoveredRow(o, t, c, conn) \in Row
         /\ DiscoveredRow(o, t, c, conn).status \in {"synced", "drifted"}
              => DiscoveredRow(o, t, c, conn).state
<1>1. target[t] \in Row /\ (target[t].status \in {"synced", "drifted"} => target[t].state)
  BY DEF TypeOK
<1>2. op[o].results[t].revision \in Revisions /\ op[o].results[t].hash \in Hashes
  BY DEF TypeOK, Operation, Results
<1>3. LET new == [target[t] EXCEPT !.status = "error"] IN new \in Row /\ new.status = "error"
  BY <1>1, StatusType
<1>4. \A s \in {"unknown", "synced", "drifted"} :
        LET new == [target[t] EXCEPT !.revision = op[o].results[t].revision,
                                     !.hash = op[o].results[t].hash, !.state = TRUE,
                                     !.status = s]
        IN  new \in Row /\ new.state = TRUE
  BY <1>1, <1>2, KnownType
<1> QED
  BY <1>1, <1>3, <1>4 DEF DiscoveredRow

LEMMA ResultTypes ==
  ASSUME TypeOK, NEW o \in Operations
  PROVE  RecordPush(o) \/ PublishRouting(o) \/ CommitDiscovery(o) \/ DiscoveryFails(o) => TypeOK'
<1> USE NoOpType, Bounds
<1>1. ASSUME RecordPush(o) PROVE TypeOK'
  <2>1. RowsOK(target')
    BY <1>1, PushedRowType DEF RecordPush, RowsOK, TypeOK
  <2>2. [NoOp EXCEPT !.kind = "push", !.at = "publish"] \in Operation
    BY DEF Operation
  <2>3. op' \in [Operations -> Operation]
    BY <1>1, <2>2, OpType DEF RecordPush
  <2>4. reached' \subseteq Targets
    BY <1>1 DEF RecordPush, TypeOK, ResultsIn
  <2> QED
    BY <1>1, <2>1, <2>3, <2>4 DEF RecordPush, RowsOK, TypeOK
<1>2. ASSUME PublishRouting(o) PROVE TypeOK'
  <2>1. routed' \in [Targets -> Addresses \cup {None}]
    BY <1>2, RoutedType DEF PublishRouting, TypeOK, RowsOK
  <2> QED
    BY <1>2, <2>1, EndType DEF PublishRouting, TypeOK
<1>3. ASSUME CommitDiscovery(o) PROVE TypeOK'
  <2>1. PICK c \in Selectable(o) :
          LET changed == connection.contract \notin {None, c}
              conn == [connection EXCEPT !.contract = c,
                                         !.hash = IF changed THEN None ELSE connection.hash]
          IN  /\ connection' = conn
              /\ target' = [t \in Targets |-> DiscoveredRow(o, t, c, conn)]
              /\ reached' = reached \cup Cohort(o, c)
    BY <1>3 DEF CommitDiscovery
  <2>2. c \in Contracts \cup {None}
    <3>1. \A t \in Targets : op[o].results[t].contract \in Contracts \cup {None}
      BY DEF TypeOK, Operation, Results
    <3> QED
      BY <2>1, <3>1 DEF Selectable, ResultsIn
  <2>3. connection' \in [revision : Revisions, hash : Hashes, contract : Contracts \cup {None}]
    BY <2>1, <2>2 DEF TypeOK, Hashes
  <2>4. RowsOK(target')
    <3> DEFINE conn == connection'
    <3>1. target' = [t \in Targets |-> DiscoveredRow(o, t, c, conn)]
      BY <2>1
    <3> HIDE DEF conn
    <3> QED
      BY <3>1, DiscoveredRowType DEF RowsOK
  <2>5. reached' \subseteq Targets
    BY <2>1 DEF Cohort, ResultsIn, TypeOK
  <2>6. [NoOp EXCEPT !.kind = "discovery", !.at = "publish"] \in Operation
    BY DEF Operation
  <2>7. op' \in [Operations -> Operation]
    BY <1>3, <2>6, OpType DEF CommitDiscovery
  <2> QED
    BY <1>3, <2>3, <2>4, <2>5, <2>7 DEF CommitDiscovery, TypeOK, RowsOK
<1>4. ASSUME DiscoveryFails(o) PROVE TypeOK'
  <2>1. RowsOK(target')
    <3>1. \A t \in Targets : target[t] \in Row /\ [target[t] EXCEPT !.status = "error"] \in Row
                            /\ [target[t] EXCEPT !.status = "error"].status = "error"
      BY StatusType DEF TypeOK
    <3> QED
      BY <1>4, <3>1 DEF DiscoveryFails, RowsOK, TypeOK
  <2>2. op' \in [Operations -> Operation]
    BY <1>4, OpType DEF DiscoveryFails
  <2> QED
    BY <1>4, <2>1, <2>2 DEF DiscoveryFails, RowsOK, TypeOK
<1> QED
  BY <1>1, <1>2, <1>3, <1>4

LEMMA ChangeTypes ==
  ASSUME TypeOK
  PROVE  /\ \A t \in Targets, a \in Addresses : ChangeAddress(t, a) => TypeOK'
         /\ \A t \in Targets : Enable(t) \/ Disable(t) => TypeOK'
         /\ \A a \in Addresses, c \in Contracts : Upgrade(a, c) => TypeOK'
         /\ \A a \in Addresses, v \in Values : ForeignPush(a, v) => TypeOK'
         /\ ChangeToken => TypeOK'
         /\ \A o \in Operations : Crash(o) => TypeOK'
<1> USE Bounds DEF Changed
<1>0. Touched(op) \in [Operations -> Operation]
  BY TouchedIs DEF Touched
<1>1. ASSUME NEW t \in Targets, NEW row \in Row, row.status \in {"synced", "drifted"} => row.state
      PROVE  RowsOK([target EXCEPT ![t] = row])
  BY <1>1 DEF RowsOK, TypeOK
<1>2. ASSUME NEW t \in Targets, NEW a \in Addresses, ChangeAddress(t, a) PROVE TypeOK'
  <2>1. LET row == [Unverified(target[t]) EXCEPT !.address = a]
        IN  row \in Row /\ row.status = "unknown"
    BY UnverifiedType DEF TypeOK
  <2>2. RowsOK(target')
    BY <1>1, <1>2, <2>1 DEF ChangeAddress
  <2>3. /\ changes' \in 0..MaxChanges /\ reached' \subseteq Targets
        /\ op' \in [Operations -> Operation]
        /\ UNCHANGED <<connection, service, routed, saved>>
    BY <1>0, <1>2 DEF ChangeAddress, TypeOK
  <2> QED
    BY <2>2, <2>3 DEF RowsOK, TypeOK
<1>3. ASSUME NEW t \in Targets, Enable(t) PROVE TypeOK'
  <2>1. LET row == [Unverified(target[t]) EXCEPT !.enabled = TRUE]
        IN  row \in Row /\ row.status = "unknown"
    <3>1. target[t] \in Row /\ target[t].address \in Addresses
      BY DEF TypeOK, Row
    <3> QED
      BY <3>1, UnverifiedType
  <2>2. RowsOK(target')
    BY <1>1, <1>3, <2>1 DEF Enable
  <2> QED
    BY <1>0, <1>3, <2>2 DEF Enable, RowsOK, TypeOK
<1>4. ASSUME NEW t \in Targets, Disable(t) PROVE TypeOK'
  <2>1. target[t] \in Row /\ (target[t].status \in {"synced", "drifted"} => target[t].state)
    BY DEF TypeOK
  <2>2. LET row == [target[t] EXCEPT !.enabled = FALSE]
        IN  row \in Row /\ row.status = target[t].status /\ row.state = target[t].state
    BY <2>1 DEF Row
  <2>3. RowsOK(target')
    BY <1>1, <1>4, <2>1, <2>2 DEF Disable
  <2>4. routed' \in [Targets -> Addresses \cup {None}]
    BY <1>4, <2>3, RoutedType DEF Disable
  <2>5. /\ changes' \in 0..MaxChanges
        /\ op' \in [Operations -> Operation]
        /\ UNCHANGED <<connection, service, reached, saved>>
    BY <1>0, <1>4 DEF Disable, TypeOK
  <2> QED
    BY <2>3, <2>4, <2>5 DEF RowsOK, TypeOK
<1>5. ASSUME NEW a \in Addresses, NEW c \in Contracts, Upgrade(a, c) PROVE TypeOK'
  BY <1>5 DEF Upgrade, TypeOK
<1>6. ASSUME NEW a \in Addresses, NEW v \in Values, ForeignPush(a, v) PROVE TypeOK'
  <2>1. service' \in [Addresses -> [revision : Revisions, hash : Hashes, contract : Contracts]]
    <3>1. service[a] \in [revision : Revisions, hash : Hashes, contract : Contracts]
      BY DEF TypeOK
    <3>2. service[a].revision + 1 \in Revisions /\ v \in Hashes
      BY <1>6, <3>1 DEF ForeignPush, Revisions, Hashes
    <3>3. [service[a] EXCEPT !.revision = service[a].revision + 1, !.hash = v]
            \in [revision : Revisions, hash : Hashes, contract : Contracts]
      BY <3>1, <3>2
    <3>4. service' = [service EXCEPT ![a] =
            [service[a] EXCEPT !.revision = service[a].revision + 1, !.hash = v]]
      BY <1>6 DEF ForeignPush, TypeOK
    <3> QED
      BY <3>3, <3>4 DEF TypeOK
  <2> QED
    BY <1>6, <2>1 DEF ForeignPush, TypeOK
<1>7. ASSUME ChangeToken PROVE TypeOK'
  BY <1>0, <1>7 DEF ChangeToken, TypeOK
<1>8. ASSUME NEW o \in Operations, Crash(o) PROVE TypeOK'
  BY <1>8, EndType DEF Crash, TypeOK
<1> QED
  BY <1>2, <1>3, <1>4, <1>5, <1>6, <1>7, <1>8

LEMMA TypeStep == TypeOK /\ [Next]_vars => TypeOK'
<1> SUFFICES ASSUME TypeOK, [Next]_vars PROVE TypeOK'
  OBVIOUS
<1>1. CASE UNCHANGED vars
  BY <1>1 DEF vars, TypeOK
<1> QED
  BY <1>1, LoadTypes, PushTypes, ResultTypes, ChangeTypes DEF Next

(* Type correctness, with the status of a row going with its state. *)
THEOREM ControlTypeCorrect == Spec => []TypeOK
BY InitTypeOK, TypeStep, PTL DEF Spec

-----------------------------------------------------------------------------
(* The inductive invariant *)

Numbered(record) ==
  /\ record.at \in {"save", "advance"} => record.base < record.revision
  /\ record.at = "push" => record.base =< record.revision
  /\ record.at \in {"save", "advance", "push"} => record.kind = "push"
  /\ record.at = "fetch" => record.kind = "discovery"

Answered(record, held) ==
  record.at \in {"push", "fetch"} =>
    \A t \in Targets : record.results[t].is \in {"ok", "mismatch"} =>
      /\ record.rows[t].enabled
      /\ Holds(held[record.rows[t].address], record.results[t].revision, record.results[t].hash)
      /\ record.at = "push" => /\ record.results[t].revision = record.revision
                               /\ record.results[t].hash = record.hash

UpToDate(record, rows, known) ==
  record.at = "fetch" /\ record.current =>
    \A t \in Targets :
      /\ record.rows[t].enabled = rows[t].enabled
      /\ record.rows[t].address = rows[t].address
      /\ t \in known /\ record.results[t].is = "ok"
           => record.results[t].revision >= rows[t].revision

SavedUpTo == \A r \in Revisions : saved[r] # None => r =< connection.revision

ReachedHolds ==
  \A t \in reached : Holds(service[target[t].address], target[t].revision, target[t].hash)

ControlInv ==
  /\ \A o \in Operations : /\ Numbered(op[o])
                           /\ Answered(op[o], service)
                           /\ UpToDate(op[o], target, reached)
  /\ SavedUpTo
  /\ ReachedHolds
  /\ SyncedMeansCurrent

-----------------------------------------------------------------------------
(* What a step does to an operation: nothing, or it makes it stale, ends   *)
(* it, or is one of its own steps.                                         *)
OwnStep(p) ==
  \/ \E v \in Values : LoadUpdate(p, v)
  \/ SaveUpdate(p) \/ LoadSynchronize(p) \/ Advance(p) \/ Recover(p) \/ LoadDiscovery(p)
  \/ \E t \in Targets, lost \in BOOLEAN : PushTaken(p, t, lost)
  \/ \E t \in Targets : PushRefused(p, t) \/ RequestLost(p, t) \/ Fetch(p, t)

Same(p) == op'[p] = op[p] \/ op'[p] = [op[p] EXCEPT !.current = FALSE]
Over(p) == op'[p] = NoOp \/ op'[p].at = "publish"

LEMMA OneSteps ==
  ASSUME TypeOK, NEW o \in Operations, NEW p \in Operations, NEW record,
         op' = [op EXCEPT ![o] = record] \/ op' = [Touched(op) EXCEPT ![o] = record]
  PROVE  IF p = o THEN op'[p] = record ELSE Same(p)
<1>1. op \in [Operations -> Operation] /\ Touched(op) \in [Operations -> Operation]
  BY TouchedIs DEF TypeOK, Touched
<1>2. Touched(op)[p] = op[p] \/ Touched(op)[p] = [op[p] EXCEPT !.current = FALSE]
  BY TouchedIs
<1> QED
  BY <1>1, <1>2 DEF Same

LEMMA OperationSteps ==
  ASSUME TypeOK, [Next]_vars, NEW p \in Operations
  PROVE  Same(p) \/ Over(p) \/ OwnStep(p)
<1>1. ASSUME NEW o \in Operations,
             \/ \E v \in Values : LoadUpdate(o, v)
             \/ SaveUpdate(o) \/ LoadSynchronize(o) \/ Advance(o) \/ Recover(o) \/ LoadDiscovery(o)
             \/ \E t \in Targets, lost \in BOOLEAN : PushTaken(o, t, lost)
             \/ \E t \in Targets : PushRefused(o, t) \/ RequestLost(o, t) \/ Fetch(o, t)
      PROVE  Same(p) \/ OwnStep(p)
  <2>1. CASE p = o
    BY <1>1, <2>1 DEF OwnStep
  <2>2. CASE p # o
    <3>1. \E record : op' = [op EXCEPT ![o] = record] \/ op' = [Touched(op) EXCEPT ![o] = record]
      BY <1>1 DEF LoadUpdate, SaveUpdate, LoadSynchronize, Advance, Recover, LoadDiscovery,
         PushTaken, PushRefused, RequestLost, Fetch, SaveRevision, Set, Result
    <3> QED
      BY <2>2, <3>1, OneSteps
  <2> QED
    BY <2>1, <2>2
<1>2. ASSUME NEW o \in Operations,
             \/ SavedByAnother(o) \/ RecordPush(o) \/ PublishRouting(o) \/ CommitDiscovery(o)
             \/ DiscoveryFails(o) \/ Crash(o)
      PROVE  Same(p) \/ Over(p)
  <2>1. PICK record : /\ record = NoOp \/ record.at = "publish"
                      /\ op' = [op EXCEPT ![o] = record] \/ op' = [Touched(op) EXCEPT ![o] = record]
    <3>1. [NoOp EXCEPT !.kind = "push", !.at = "publish"].at = "publish"
          /\ [NoOp EXCEPT !.kind = "discovery", !.at = "publish"].at = "publish"
      BY DEF NoOp
    <3> QED
      BY <1>2, <3>1 DEF SavedByAnother, RecordPush, PublishRouting, CommitDiscovery,
         DiscoveryFails, Crash, End, Set
  <2>2. IF p = o THEN op'[p] = record ELSE Same(p)
    BY <2>1, OneSteps
  <2> QED
    BY <2>1, <2>2 DEF Over
<1>3. CASE \/ \E t \in Targets, a \in Addresses : ChangeAddress(t, a)
           \/ \E t \in Targets : Enable(t) \/ Disable(t)
           \/ ChangeToken
  BY <1>3, TouchedIs DEF ChangeAddress, Enable, Disable, ChangeToken, Same
<1>4. CASE \/ \E a \in Addresses, c \in Contracts : Upgrade(a, c)
           \/ \E a \in Addresses, v \in Values : ForeignPush(a, v)
           \/ UNCHANGED vars
  BY <1>4 DEF Upgrade, ForeignPush, vars, Same
<1> QED
  BY <1>1, <1>2, <1>3, <1>4 DEF Next

(* A service that holds a revision goes on holding it or a later one.      *)
LEMMA HoldsKept ==
  ASSUME TypeOK, [Next]_vars, NEW a \in Addresses, NEW revision \in Revisions, NEW hash,
         Holds(service[a], revision, hash)
  PROVE  Holds(service'[a], revision, hash)
<1>0. service[a].revision \in Nat /\ revision \in Nat
  BY DEF TypeOK, Revisions
<1>1. ASSUME NEW o \in Operations, NEW t \in Targets, NEW lost \in BOOLEAN, PushTaken(o, t, lost)
      PROVE  Holds(service'[a], revision, hash)
  <2> DEFINE b == op[o].rows[t].address
  <2>1. /\ b \in Addresses /\ op[o].revision \in Nat
        /\ service[b] \in [revision : Revisions, hash : Hashes, contract : Contracts]
    BY DEF TypeOK, Operation, Revisions
  <2>2. /\ Accepts(service[b], op[o].revision, op[o].hash)
        /\ service' = [service EXCEPT ![b].revision = op[o].revision, ![b].hash = op[o].hash]
    BY <1>1 DEF PushTaken
  <2>3. CASE a # b
    BY <2>2, <2>3 DEF TypeOK
  <2>4. CASE a = b
    <3>1. service'[a].revision = op[o].revision /\ service'[a].hash = op[o].hash
      BY <2>1, <2>2, <2>4 DEF TypeOK
    <3>2. \/ service[a].revision < op[o].revision
          \/ service[a].revision = op[o].revision /\ service[a].hash = op[o].hash
      BY <2>2, <2>4 DEF Accepts
    <3>3. service[a].revision > revision \/ (service[a].revision = revision /\ service[a].hash = hash)
      BY DEF Holds
    <3>4. \/ service'[a].revision > revision
          \/ service'[a].revision = revision /\ service'[a].hash = hash
      BY <1>0, <2>1, <3>1, <3>2, <3>3
    <3> QED
      BY <3>4 DEF Holds
  <2> QED
    BY <2>3, <2>4
<1>2. ASSUME NEW b \in Addresses, NEW c \in Contracts, Upgrade(b, c)
      PROVE  Holds(service'[a], revision, hash)
  BY <1>2 DEF Upgrade, TypeOK, Holds
<1>3. ASSUME NEW b \in Addresses, NEW v \in Values, ForeignPush(b, v)
      PROVE  Holds(service'[a], revision, hash)
  <2>1. service'[a] = service[a] \/ service'[a].revision = service[a].revision + 1
    BY <1>3 DEF ForeignPush, TypeOK
  <2> QED
    BY <1>0, <2>1 DEF Holds
<1>4. CASE UNCHANGED service
  BY <1>4
<1> QED
  BY <1>1, <1>2, <1>3, <1>4 DEF Next, vars, LoadUpdate, SaveUpdate, LoadSynchronize, Advance,
     SavedByAnother, PushRefused, RequestLost, Recover, RecordPush, PublishRouting,
     LoadDiscovery, Fetch, CommitDiscovery, DiscoveryFails, ChangeAddress, Enable, Disable,
     ChangeToken, Crash

LEMMA RecoveredRevision ==
  ASSUME TypeOK, NEW o \in Operations
  PROVE  LET ahead == {op[o].results[t].revision : t \in ResultsIn(o, {"conflict"})}
         IN  Maximum(ahead \cup {op[o].revision}) \in Nat
             /\ Maximum(ahead \cup {op[o].revision}) >= op[o].revision
<1> DEFINE S == {op[o].results[t].revision : t \in ResultsIn(o, {"conflict"})} \cup {op[o].revision}
<1>1. S \in SUBSET (0..MaxRevision) /\ op[o].revision \in S
  BY DEF TypeOK, Operation, Results, ResultsIn, Revisions
<1>2. Maximum(S) \in 0..MaxRevision /\ op[o].revision =< Maximum(S)
  BY <1>1, MaximumIs, Bounds
<1>3. op[o].revision \in Nat
  BY <1>1, Bounds
<1> QED
  BY <1>2, <1>3, Bounds

LEMMA OwnNumbered ==
  ASSUME TypeOK, NEW p \in Operations, Numbered(op[p]), OwnStep(p)
  PROVE  Numbered(op'[p])
<1> USE DEF Numbered, Set
<1>0. /\ op[p] \in Operation /\ op[p].base \in Nat /\ op[p].revision \in Nat
      /\ op \in [Operations -> Operation]
      /\ connection.revision \in Nat
  BY DEF TypeOK, Operation, Revisions
<1>1. ASSUME NEW v \in Values, LoadUpdate(p, v) PROVE Numbered(op'[p])
  BY <1>0, <1>1, NextRevisionAbove DEF LoadUpdate, NoOp
<1>2. ASSUME NEW revision \in Nat, NEW hash, SaveRevision(p, revision, hash),
             op[p].revision = revision, op[p].kind = "push"
      PROVE  Numbered(op'[p])
  <2>1. op'[p] = [op[p] EXCEPT !.at = "push", !.base = revision,
                               !.results = [t \in Targets |-> NoResult]]
    BY <1>0, <1>2, TouchedIs DEF SaveRevision, Touched
  <2>2. op'[p].at = "push" /\ op'[p].base = revision /\ op'[p].revision = revision
        /\ op'[p].kind = "push"
    BY <1>0, <1>2, <2>1 DEF Operation
  <2> QED
    BY <2>2
<1>3. CASE SaveUpdate(p) \/ Advance(p)
  BY <1>0, <1>2, <1>3 DEF SaveUpdate, Advance
<1>4. CASE LoadSynchronize(p)
  <2> DEFINE revision == SynchronizationRevision(connection, target)
  <2>1. /\ op'[p].at = IF revision = connection.revision THEN "push" ELSE "advance"
        /\ op'[p].base = connection.revision /\ op'[p].revision = revision
        /\ op'[p].kind = "push"
    BY <1>0, <1>4 DEF LoadSynchronize, NoOp
  <2> HIDE DEF revision
  <2>2. revision \in Nat /\ (revision = connection.revision \/ connection.revision < revision)
    BY SynchronizationRevisionIs DEF revision
  <2> QED
    BY <1>0, <2>1, <2>2
<1>5. CASE Recover(p)
  <2> DEFINE ahead == {op[p].results[t].revision : t \in ResultsIn(p, {"conflict"})}
             revision == Maximum(ahead \cup {op[p].revision}) + 1
  <2>1. /\ revision \in Nat /\ revision > op[p].revision
        /\ op'[p] = [op[p] EXCEPT !.at = "advance", !.attempt = 1, !.revision = revision]
    <3>1. revision \in Nat /\ revision > op[p].revision
      BY <1>0, RecoveredRevision
    <3> QED
      BY <1>0, <1>5, <3>1 DEF Recover
  <2> HIDE DEF revision
  <2>2. op'[p].at = "advance" /\ op'[p].revision = revision
        /\ op'[p].base = op[p].base /\ op'[p].kind = op[p].kind
    BY <1>0, <2>1 DEF Operation
  <2> QED
    BY <1>0, <1>5, <2>1, <2>2 DEF Recover
<1>6. CASE LoadDiscovery(p)
  BY <1>0, <1>6 DEF LoadDiscovery, NoOp
<1>7. ASSUME NEW t \in Targets, NEW result, Result(p, t, result) PROVE Numbered(op'[p])
  BY <1>0, <1>7 DEF Result, Operation
<1>8. CASE \/ \E t \in Targets, lost \in BOOLEAN : PushTaken(p, t, lost)
           \/ \E t \in Targets : PushRefused(p, t) \/ RequestLost(p, t) \/ Fetch(p, t)
  BY <1>7, <1>8 DEF PushTaken, PushRefused, RequestLost, Fetch
<1> QED
  BY <1>1, <1>3, <1>4, <1>5, <1>6, <1>8 DEF OwnStep

LEMMA SameKeeps ==
  ASSUME TypeOK, NEW p \in Operations, Same(p)
  PROVE  /\ op'[p].at = op[p].at /\ op'[p].kind = op[p].kind /\ op'[p].base = op[p].base
         /\ op'[p].rows = op[p].rows /\ op'[p].results = op[p].results
         /\ op'[p].revision = op[p].revision /\ op'[p].hash = op[p].hash
<1>1. op[p] \in Operation
  BY DEF TypeOK
<1> QED
  BY <1>1 DEF Same, Operation

LEMMA NumberedStep ==
  ASSUME TypeOK, [Next]_vars, NEW p \in Operations, Numbered(op[p])
  PROVE  Numbered(op'[p])
<1>1. CASE Same(p)
  BY <1>1, SameKeeps DEF Numbered
<1>2. CASE Over(p)
  BY <1>2 DEF Over, Numbered, NoOp
<1>3. CASE OwnStep(p)
  BY <1>3, OwnNumbered
<1> QED
  BY <1>1, <1>2, <1>3, OperationSteps

(* A push holds answers to its own revision.                               *)
LEMMA OwnAnswered ==
  ASSUME TypeOK, [Next]_vars, NEW p \in Operations, Numbered(op[p]), Answered(op[p], service),
         OwnStep(p)
  PROVE  Answered(op'[p], service')
<1> USE DEF Set
<1>0. /\ op[p] \in Operation /\ op \in [Operations -> Operation]
      /\ \A t \in Targets : /\ op[p].rows[t].address \in Addresses
                            /\ op[p].results[t].revision \in Revisions
  BY DEF TypeOK, Operation, Results
<1>1. CASE \/ \E v \in Values : LoadUpdate(p, v)
           \/ LoadSynchronize(p) \/ LoadDiscovery(p)
  <2>1. op'[p].results = NoOp.results
    <3>1. CASE \E v \in Values : LoadUpdate(p, v)
      BY <1>0, <3>1 DEF LoadUpdate, NoOp
    <3>2. CASE LoadSynchronize(p)
      BY <1>0, <3>2 DEF LoadSynchronize, NoOp
    <3>3. CASE LoadDiscovery(p)
      BY <1>0, <3>3 DEF LoadDiscovery, NoOp
    <3> QED
      BY <1>1, <3>1, <3>2, <3>3
  <2>2. \A t \in Targets : op'[p].results[t].is = "none"
    BY <2>1 DEF NoOp, NoResult
  <2> QED
    BY <2>2 DEF Answered
<1>2. ASSUME NEW revision, NEW hash, SaveRevision(p, revision, hash)
      PROVE  Answered(op'[p], service')
  <2>1. op'[p] = [op[p] EXCEPT !.at = "push", !.base = revision,
                               !.results = [t \in Targets |-> NoResult]]
    BY <1>0, <1>2, TouchedIs DEF SaveRevision, Touched
  <2>2. op'[p].results = [t \in Targets |-> NoResult]
    BY <1>0, <2>1 DEF Operation
  <2>3. \A t \in Targets : op'[p].results[t].is = "none"
    BY <2>2 DEF NoResult
  <2> QED
    BY <2>3 DEF Answered
<1>3. CASE SaveUpdate(p) \/ Advance(p)
  BY <1>2, <1>3 DEF SaveUpdate, Advance
<1>4. CASE Recover(p)
  <2>1. op'[p].at = "advance"
    BY <1>0, <1>4 DEF Recover, Operation
  <2> QED
    BY <2>1 DEF Answered
<1>5. ASSUME NEW t \in Targets, NEW result, Result(p, t, result), op[p].at \in {"push", "fetch"},
             result.is \in {"ok", "mismatch"} =>
               /\ op[p].rows[t].enabled
               /\ Holds(service'[op[p].rows[t].address], result.revision, result.hash)
               /\ op[p].at = "push" => result.revision = op[p].revision /\ result.hash = op[p].hash
      PROVE  Answered(op'[p], service')
  <2>1. op'[p] = [op[p] EXCEPT !.results[t] = result]
    BY <1>0, <1>5 DEF Result
  <2>2. /\ op'[p].at = op[p].at /\ op'[p].rows = op[p].rows
        /\ op'[p].revision = op[p].revision /\ op'[p].hash = op[p].hash
        /\ \A u \in Targets : op'[p].results[u] = IF u = t THEN result ELSE op[p].results[u]
    BY <1>0, <2>1 DEF Operation
  <2>3. \A u \in Targets : op[p].results[u].is \in {"ok", "mismatch"} =>
          Holds(service'[op[p].rows[u].address], op[p].results[u].revision, op[p].results[u].hash)
    BY <1>0, <1>5, HoldsKept DEF Answered
  <2> QED
    BY <1>5, <2>2, <2>3 DEF Answered
<1>6. ASSUME NEW t \in Targets, PushRefused(p, t) \/ RequestLost(p, t)
      PROVE  Answered(op'[p], service')
  <2> DEFINE refused == [NoResult EXCEPT !.is = "conflict",
                                         !.revision = service[op[p].rows[t].address].revision]
             lost == [NoResult EXCEPT !.is = "error"]
  <2>1. refused.is = "conflict" /\ lost.is = "error"
    BY DEF NoResult
  <2>2. op[p].at \in {"push", "fetch"} /\ (Result(p, t, refused) \/ Result(p, t, lost))
    BY <1>6 DEF PushRefused, RequestLost
  <2> HIDE DEF refused, lost
  <2> QED
    BY <1>5, <2>1, <2>2
<1>7. ASSUME NEW t \in Targets, Fetch(p, t) PROVE Answered(op'[p], service')
  <2> DEFINE held == service[op[p].rows[t].address]
             result == [is |-> "ok", revision |-> held.revision, hash |-> held.hash,
                        contract |-> held.contract]
  <2>1. /\ Result(p, t, result) /\ op[p].at = "fetch" /\ op[p].rows[t].enabled
        /\ service' = service
    BY <1>7 DEF Fetch, Unasked
  <2>2. Holds(service'[op[p].rows[t].address], result.revision, result.hash)
    BY <2>1 DEF Holds
  <2> QED
    BY <1>5, <2>1, <2>2
<1>8. ASSUME NEW t \in Targets, NEW lost \in BOOLEAN, PushTaken(p, t, lost)
      PROVE  Answered(op'[p], service')
  <2> DEFINE a == op[p].rows[t].address
             result == IF lost THEN [NoResult EXCEPT !.is = "error"]
                       ELSE [is |-> IF service[a].contract = op[p].contract THEN "ok" ELSE "mismatch",
                             revision |-> op[p].revision, hash |-> op[p].hash,
                             contract |-> service[a].contract]
  <2>1. /\ Result(p, t, result) /\ op[p].at = "push" /\ op[p].rows[t].enabled
        /\ service' = [service EXCEPT ![a].revision = op[p].revision, ![a].hash = op[p].hash]
    BY <1>8 DEF PushTaken, Unasked
  <2>2. service'[a].revision = op[p].revision /\ service'[a].hash = op[p].hash
    BY <1>0, <2>1 DEF TypeOK
  <2>3. result.is \in {"ok", "mismatch"} => result.revision = op[p].revision /\ result.hash = op[p].hash
    BY DEF NoResult
  <2>4. result.is \in {"ok", "mismatch"} => Holds(service'[a], result.revision, result.hash)
    BY <2>2, <2>3 DEF Holds
  <2> HIDE DEF result
  <2> QED
    BY <1>5, <2>1, <2>3, <2>4
<1> QED
  BY <1>1, <1>3, <1>4, <1>6, <1>7, <1>8 DEF OwnStep

LEMMA AnsweredStep ==
  ASSUME TypeOK, [Next]_vars, NEW p \in Operations, Numbered(op[p]), Answered(op[p], service)
  PROVE  Answered(op'[p], service')
<1>1. CASE Same(p)
  <2>1. /\ op'[p].at = op[p].at /\ op'[p].rows = op[p].rows /\ op'[p].results = op[p].results
        /\ op'[p].revision = op[p].revision /\ op'[p].hash = op[p].hash
    BY <1>1, SameKeeps
  <2>2. \A t \in Targets : op[p].rows[t].address \in Addresses /\ op[p].results[t].revision \in Revisions
    BY DEF TypeOK, Operation, Results
  <2> QED
    BY <2>1, <2>2, HoldsKept DEF Answered
<1>2. CASE Over(p)
  BY <1>2 DEF Over, Answered, NoOp
<1>3. CASE OwnStep(p)
  BY <1>3, OwnAnswered
<1> QED
  BY <1>1, <1>2, <1>3, OperationSteps

-----------------------------------------------------------------------------
(* Revisions *)

(* A revision is saved only above the one in force, and then it is the one *)
(* in force.                                                               *)
LEMMA SavedStep ==
  ASSUME TypeOK, [Next]_vars, SavedUpTo, \A o \in Operations : Numbered(op[o])
  PROVE  /\ SavedUpTo'
         /\ \A r \in Revisions : saved[r] # None => saved'[r] = saved[r]
<1>0. connection.revision \in Nat /\ \A r \in Revisions : r \in Nat
  BY DEF TypeOK, Revisions
<1>1. ASSUME NEW o \in Operations, SaveUpdate(o) \/ Advance(o)
      PROVE  /\ SavedUpTo'
             /\ \A r \in Revisions : saved[r] # None => saved'[r] = saved[r]
  <2>1. op[o].revision \in Revisions /\ op[o].base \in Nat
    BY DEF TypeOK, Operation, Revisions
  <2>2. connection.revision < op[o].revision
    BY <1>1 DEF SaveUpdate, Advance, NobodySaved, Numbered
  <2>3. /\ connection'.revision = op[o].revision
        /\ saved' = [saved EXCEPT ![op[o].revision] = op[o].hash]
    BY <1>1 DEF SaveUpdate, Advance, SaveRevision, TypeOK
  <2>4. saved[op[o].revision] = None
    BY <1>0, <2>1, <2>2 DEF SavedUpTo
  <2>5. \A r \in Revisions : saved'[r] = IF r = op[o].revision THEN op[o].hash ELSE saved[r]
    BY <2>3 DEF TypeOK
  <2> QED
    BY <1>0, <2>1, <2>2, <2>3, <2>4, <2>5 DEF SavedUpTo
<1>2. ASSUME saved' = saved, connection'.revision = connection.revision
      PROVE  /\ SavedUpTo'
             /\ \A r \in Revisions : saved[r] # None => saved'[r] = saved[r]
  BY <1>2 DEF SavedUpTo
<1>3. ASSUME NEW o \in Operations, CommitDiscovery(o)
      PROVE  saved' = saved /\ connection'.revision = connection.revision
  BY <1>3 DEF CommitDiscovery, TypeOK
<1>4. CASE UNCHANGED <<saved, connection>>
  BY <1>2, <1>4
<1> QED
  BY <1>1, <1>2, <1>3, <1>4 DEF Next, vars, LoadUpdate, LoadSynchronize,
     SavedByAnother, PushTaken, PushRefused, RequestLost, Recover, RecordPush, PublishRouting,
     LoadDiscovery, Fetch, DiscoveryFails, ChangeAddress, Enable, Disable,
     ChangeToken, Upgrade, ForeignPush, Crash

-----------------------------------------------------------------------------
(* Discoveries that are still current *)

LEMMA TouchedStale ==
  ASSUME TypeOK, NEW p \in Operations, Numbered(op[p]), Touched(op)[p].at = "fetch"
  PROVE  ~Touched(op)[p].current
<1>1. op[p] \in Operation
  BY DEF TypeOK
<1>2. op[p].at = "fetch"
  <2>1. CASE op[p].kind = "discovery"
    <3>1. Touched(op)[p] = [op[p] EXCEPT !.current = FALSE]
      BY <2>1, TouchedIs
    <3> QED
      BY <1>1, <3>1 DEF Operation
  <2>2. CASE op[p].kind # "discovery"
    BY <2>2, TouchedIs
  <2> QED
    BY <2>1, <2>2
<1>3. op[p].kind = "discovery"
  BY <1>2 DEF Numbered
<1>4. Touched(op)[p] = [op[p] EXCEPT !.current = FALSE]
  BY <1>3, TouchedIs
<1> QED
  BY <1>1, <1>4 DEF Operation

(* Whatever changes the rows or what is known of them makes every          *)
(* discovery stale.                                                        *)
LEMMA RowsTouch ==
  ASSUME TypeOK, [Next]_vars, NEW p \in Operations, Numbered(op[p]),
         op'[p].at = "fetch", op'[p].current
  PROVE  UNCHANGED <<target, reached>>
<1>1. ASSUME NEW o \in Operations, NEW record, record.at # "fetch",
             op' = [Touched(op) EXCEPT ![o] = record]
      PROVE  FALSE
  <2>1. p # o
    BY <1>1, TouchedIs DEF Touched
  <2>2. op'[p] = Touched(op)[p]
    BY <1>1, <2>1, TouchedIs DEF Touched
  <2> QED
    BY <2>2, TouchedStale
<1>2. ASSUME op' = Touched(op) PROVE FALSE
  BY <1>2, TouchedStale
<1>3. ASSUME NEW o \in Operations, SaveUpdate(o) \/ Advance(o) PROVE FALSE
  <2> DEFINE record == [op[o] EXCEPT !.at = "push", !.base = op[o].revision,
                                     !.results = [t \in Targets |-> NoResult]]
  <2>1. record.at # "fetch"
    BY DEF TypeOK, Operation
  <2>2. op' = [Touched(op) EXCEPT ![o] = record]
    BY <1>3 DEF SaveUpdate, Advance, SaveRevision
  <2> HIDE DEF record
  <2> QED
    BY <1>1, <2>1, <2>2
<1>4. NoOp.at # "fetch" /\ [NoOp EXCEPT !.kind = "push", !.at = "publish"].at # "fetch"
      /\ [NoOp EXCEPT !.kind = "discovery", !.at = "publish"].at # "fetch"
  BY DEF NoOp
<1>5. ASSUME NEW o \in Operations, RecordPush(o) PROVE UNCHANGED <<target, reached>>
  BY <1>1, <1>4, <1>5 DEF RecordPush
<1>6. ASSUME NEW o \in Operations, CommitDiscovery(o) PROVE FALSE
  BY <1>1, <1>4, <1>6 DEF CommitDiscovery
<1>7. ASSUME NEW o \in Operations, DiscoveryFails(o) PROVE UNCHANGED <<target, reached>>
  BY <1>1, <1>4, <1>7 DEF DiscoveryFails, TypeOK
<1>8. CASE \/ \E t \in Targets, a \in Addresses : ChangeAddress(t, a)
           \/ \E t \in Targets : Enable(t) \/ Disable(t)
  BY <1>2, <1>8 DEF ChangeAddress, Enable, Disable
<1> QED
  BY <1>3, <1>5, <1>6, <1>7, <1>8 DEF Next, vars, LoadUpdate, LoadSynchronize,
     SavedByAnother, PushTaken, PushRefused, RequestLost, Recover, PublishRouting,
     LoadDiscovery, Fetch, ChangeToken, Upgrade, ForeignPush, Crash

LEMMA UpToDateStep ==
  ASSUME TypeOK, [Next]_vars, NEW p \in Operations, Numbered(op[p]), ReachedHolds,
         UpToDate(op[p], target, reached)
  PROVE  UpToDate(op'[p], target', reached')
<1> SUFFICES ASSUME op'[p].at = "fetch", op'[p].current
             PROVE  UpToDate(op'[p], target', reached')
  BY DEF UpToDate
<1>0. /\ target' = target /\ reached' = reached
      /\ op[p] \in Operation /\ op \in [Operations -> Operation]
  BY RowsTouch DEF TypeOK
<1>1. CASE Same(p)
  <2>1. op'[p] = op[p]
    BY <1>0, <1>1 DEF Same, Operation
  <2> QED
    BY <1>0, <2>1
<1>2. CASE Over(p)
  BY <1>2 DEF Over, NoOp
<1>3. CASE LoadDiscovery(p)
  <2>1. op'[p] = [NoOp EXCEPT !.kind = "discovery", !.at = "fetch", !.rows = Rows,
                              !.contract = connection.contract]
    BY <1>0, <1>3 DEF LoadDiscovery, Set
  <2>2. op'[p].rows = Rows /\ op'[p].results = [t \in Targets |-> NoResult]
    BY <2>1 DEF NoOp
  <2>3. \A t \in Targets : op'[p].results[t].is = "none"
    BY <2>2 DEF NoResult
  <2>4. \A t \in Targets : /\ op'[p].rows[t].enabled = target[t].enabled
                          /\ op'[p].rows[t].address = target[t].address
    BY <2>2 DEF Rows
  <2> QED
    BY <1>0, <2>3, <2>4 DEF UpToDate
<1>4. ASSUME NEW t \in Targets, NEW result, Result(p, t, result),
             t \in reached /\ result.is = "ok" /\ op[p].rows[t].address = target[t].address
               => result.revision >= target[t].revision
      PROVE  UpToDate(op'[p], target', reached')
  <2>1. op'[p] = [op[p] EXCEPT !.results[t] = result]
    BY <1>0, <1>4 DEF Result, Set
  <2>2. /\ op'[p].at = op[p].at /\ op'[p].rows = op[p].rows /\ op'[p].current = op[p].current
        /\ \A u \in Targets : op'[p].results[u] = IF u = t THEN result ELSE op[p].results[u]
    <3>1. op'[p].at = op[p].at /\ op'[p].rows = op[p].rows /\ op'[p].current = op[p].current
      BY <1>0, <2>1 DEF Operation
    <3>2. op'[p].results = [op[p].results EXCEPT ![t] = result]
      BY <1>0, <2>1 DEF Operation
    <3>3. op[p].results \in [Targets -> Results]
      BY <1>0 DEF Operation
    <3> QED
      BY <3>1, <3>2, <3>3
  <2>3. \A u \in Targets : /\ op[p].rows[u].enabled = target[u].enabled
                          /\ op[p].rows[u].address = target[u].address
                          /\ u \in reached /\ op[p].results[u].is = "ok"
                               => op[p].results[u].revision >= target[u].revision
    BY <2>2 DEF UpToDate
  <2> QED
    BY <1>0, <1>4, <2>2, <2>3 DEF UpToDate
<1>5. ASSUME NEW t \in Targets, Fetch(p, t) PROVE UpToDate(op'[p], target', reached')
  <2> DEFINE held == service[op[p].rows[t].address]
             result == [is |-> "ok", revision |-> held.revision, hash |-> held.hash,
                        contract |-> held.contract]
  <2>1. Result(p, t, result)
    BY <1>5 DEF Fetch
  <2>2. ASSUME t \in reached, op[p].rows[t].address = target[t].address
        PROVE  held.revision >= target[t].revision
    <3>1. /\ Holds(held, target[t].revision, target[t].hash)
          /\ held.revision \in Nat /\ target[t].revision \in Nat
      BY <2>2 DEF ReachedHolds, TypeOK, Row, Revisions
    <3> QED
      BY <3>1 DEF Holds
  <2> QED
    BY <1>4, <2>1, <2>2
<1>6. ASSUME NEW t \in Targets, RequestLost(p, t) PROVE UpToDate(op'[p], target', reached')
  <2> DEFINE lost == [NoResult EXCEPT !.is = "error"]
  <2>1. Result(p, t, lost) /\ lost.is = "error"
    BY <1>6 DEF RequestLost, NoResult
  <2> HIDE DEF lost
  <2> QED
    BY <1>4, <2>1
<1>7. CASE \/ \E v \in Values : LoadUpdate(p, v)
           \/ SaveUpdate(p) \/ LoadSynchronize(p) \/ Advance(p) \/ Recover(p)
           \/ \E t \in Targets, lost \in BOOLEAN : PushTaken(p, t, lost)
           \/ \E t \in Targets : PushRefused(p, t)
  <2>1. op'[p].at # "fetch"
    <3>1. CASE \E v \in Values : LoadUpdate(p, v)
      BY <1>0, <3>1 DEF LoadUpdate, Set, NoOp
    <3>2. CASE LoadSynchronize(p)
      BY <1>0, <3>2 DEF LoadSynchronize, Set, NoOp
    <3>3. CASE SaveUpdate(p) \/ Advance(p)
      <4>1. op'[p] = [op[p] EXCEPT !.at = "push", !.base = op[p].revision,
                                   !.results = [t \in Targets |-> NoResult]]
        BY <1>0, <3>3, TouchedIs DEF SaveUpdate, Advance, SaveRevision, Touched
      <4> QED
        BY <1>0, <4>1 DEF Operation
    <3>4. CASE Recover(p)
      BY <1>0, <3>4 DEF Recover, Set, Operation
    <3>5. CASE \/ \E t \in Targets, lost \in BOOLEAN : PushTaken(p, t, lost)
               \/ \E t \in Targets : PushRefused(p, t)
      <4>1. \E t \in Targets : \E result : op[p].at = "push" /\ Result(p, t, result)
        BY <3>5 DEF PushTaken, PushRefused
      <4> QED
        BY <1>0, <4>1 DEF Result, Set, Operation
    <3> QED
      BY <1>7, <3>1, <3>2, <3>3, <3>4, <3>5
  <2> QED
    BY <2>1
<1> QED
  BY <1>1, <1>2, <1>3, <1>5, <1>6, <1>7, OperationSteps DEF OwnStep

-----------------------------------------------------------------------------
(* What the rows say *)

(* What the rows of targets become, in the steps that write them.          *)
LEMMA RecordedRows ==
  ASSUME TypeOK, NEW o \in Operations, RecordPush(o), StillWanted(o),
         Answered(op[o], service), NEW t \in Targets
  PROVE  /\ target'[t].address = target[t].address /\ target'[t].enabled = target[t].enabled
         /\ \/ target'[t] = target[t] /\ ~op[o].rows[t].enabled
            \/ /\ target'[t].status = "error" /\ t \notin ResultsIn(o, {"ok", "mismatch"})
               /\ target'[t].revision = target[t].revision /\ target'[t].hash = target[t].hash
            \/ /\ t \in ResultsIn(o, {"ok", "mismatch"})
               /\ target'[t].revision = connection.revision /\ target'[t].hash = connection.hash
               /\ Holds(service[op[o].rows[t].address], connection.revision, connection.hash)
<1>1. target'[t] = PushedRow(o, t) /\ op[o].at = "push"
  BY DEF RecordPush
<1>2. target[t] \in Row
  BY DEF TypeOK
<1>3. CASE ~op[o].rows[t].enabled
  BY <1>1, <1>3 DEF PushedRow
<1>4. CASE op[o].rows[t].enabled /\ op[o].results[t].is \notin {"ok", "mismatch"}
  <2>1. target'[t] = [target[t] EXCEPT !.status = "error"]
    BY <1>1, <1>4 DEF PushedRow
  <2> QED
    BY <1>2, <1>4, <2>1 DEF Row, ResultsIn
<1>5. CASE op[o].rows[t].enabled /\ op[o].results[t].is \in {"ok", "mismatch"}
  <2>1. /\ op[o].results[t].revision = connection.revision
        /\ op[o].results[t].hash = connection.hash
        /\ Holds(service[op[o].rows[t].address], connection.revision, connection.hash)
    BY <1>1, <1>5 DEF Answered, StillWanted
  <2>2. PICK s \in {"synced", "drifted"} :
          target'[t] = [target[t] EXCEPT !.revision = op[o].results[t].revision,
                                         !.hash = op[o].results[t].hash,
                                         !.status = s, !.state = TRUE]
    BY <1>1, <1>5 DEF PushedRow
  <2>3. /\ target'[t].address = target[t].address /\ target'[t].enabled = target[t].enabled
        /\ target'[t].revision = connection.revision /\ target'[t].hash = connection.hash
    BY <1>2, <2>1, <2>2 DEF Row
  <2> QED
    BY <1>5, <2>1, <2>3 DEF ResultsIn
<1> QED
  BY <1>3, <1>4, <1>5

LEMMA DiscoveredRows ==
  ASSUME TypeOK, NEW o \in Operations, CommitDiscovery(o), Answered(op[o], service),
         UpToDate(op[o], target, reached), NEW t \in Targets
  PROVE  /\ target'[t].address = target[t].address /\ target'[t].enabled = target[t].enabled
         /\ \/ target'[t] = target[t] /\ ~target[t].enabled /\ (t \in reached' => t \in reached)
            \/ /\ target'[t].status = "error" /\ (t \in reached' => t \in reached)
               /\ target'[t].revision = target[t].revision /\ target'[t].hash = target[t].hash
            \/ /\ Holds(service[target[t].address], target'[t].revision, target'[t].hash)
               /\ t \in reached => target'[t].revision >= target[t].revision
               /\ target'[t].status = "synced" =>
                    /\ target'[t].revision = connection'.revision
                    /\ target'[t].hash = connection'.hash
<1>1. PICK c \in Selectable(o) :
        LET changed == connection.contract \notin {None, c}
            conn == [connection EXCEPT !.contract = c,
                                       !.hash = IF changed THEN None ELSE connection.hash]
        IN  /\ connection' = conn
            /\ target' = [u \in Targets |-> DiscoveredRow(o, u, c, conn)]
            /\ reached' = reached \cup Cohort(o, c)
  BY DEF CommitDiscovery
<1>2. /\ op[o].at = "fetch" /\ op[o].current
      /\ op[o].rows[t].enabled = target[t].enabled /\ op[o].rows[t].address = target[t].address
  BY DEF CommitDiscovery, ContextCurrent, UpToDate
<1> DEFINE conn == connection'
<1>3. /\ target'[t] = DiscoveredRow(o, t, c, conn) /\ reached' = reached \cup Cohort(o, c)
      /\ target[t] \in Row
  BY <1>1 DEF TypeOK
<1> HIDE DEF conn
<1>4. CASE ~op[o].rows[t].enabled
  BY <1>2, <1>3, <1>4 DEF DiscoveredRow, Cohort, ResultsIn
<1>5. CASE op[o].rows[t].enabled /\ t \notin Cohort(o, c)
  <2>1. target'[t] = [target[t] EXCEPT !.status = "error"]
    BY <1>3, <1>5 DEF DiscoveredRow
  <2> QED
    BY <1>3, <1>5, <2>1 DEF Row
<1>6. CASE op[o].rows[t].enabled /\ t \in Cohort(o, c)
  <2> DEFINE result == op[o].results[t]
             status == IF conn.hash = None THEN "unknown"
                       ELSE IF MatchesDesired(result, conn) THEN "synced" ELSE "drifted"
  <2>1. target'[t] = [target[t] EXCEPT !.revision = result.revision, !.hash = result.hash,
                                       !.state = TRUE, !.status = status]
    BY <1>3, <1>6 DEF DiscoveredRow
  <2>2. result.is = "ok"
    BY <1>6 DEF Cohort, ResultsIn
  <2>3. /\ Holds(service[target[t].address], result.revision, result.hash)
        /\ t \in reached => result.revision >= target[t].revision
    BY <1>2, <2>2 DEF Answered, UpToDate
  <2>4. status = "synced" => result.revision = conn.revision /\ result.hash = conn.hash
    BY DEF MatchesDesired
  <2> HIDE DEF result, status
  <2>5. /\ target'[t].address = target[t].address /\ target'[t].enabled = target[t].enabled
        /\ target'[t].revision = result.revision /\ target'[t].hash = result.hash
        /\ target'[t].status = status
    BY <1>3, <2>1 DEF Row
  <2> QED
    BY <2>3, <2>4, <2>5 DEF conn
<1> QED
  BY <1>4, <1>5, <1>6

(* The steps that touch a row without learning anything of its service.    *)
LEMMA OtherRows ==
  ASSUME TypeOK, NEW t \in Targets,
         \/ \E o \in Operations : SaveUpdate(o) \/ Advance(o) \/ DiscoveryFails(o)
         \/ \E u \in Targets, a \in Addresses : ChangeAddress(u, a)
         \/ \E u \in Targets : Enable(u) \/ Disable(u)
  PROVE  /\ t \in reached' => /\ t \in reached /\ target'[t].address = target[t].address
                              /\ target'[t].revision = target[t].revision
                              /\ target'[t].hash = target[t].hash
         /\ target'[t].enabled /\ target'[t].status = "synced" =>
              /\ target'[t] = target[t]
              /\ connection'.revision = connection.revision /\ connection'.hash = connection.hash
<1>0. target[t] \in Row
  BY DEF TypeOK
<1>1. ASSUME NEW o \in Operations, SaveUpdate(o) \/ Advance(o)
      PROVE  /\ reached' = reached
             /\ \/ target'[t] = target[t] /\ ~target[t].enabled
                \/ target'[t] = [target[t] EXCEPT !.status = "unknown"]
  BY <1>1 DEF SaveUpdate, Advance, SaveRevision
<1>2. ASSUME NEW o \in Operations, DiscoveryFails(o)
      PROVE  /\ UNCHANGED <<reached, connection>>
             /\ \/ target'[t] = target[t]
                \/ target'[t] = [target[t] EXCEPT !.status = "error"]
  BY <1>2 DEF DiscoveryFails
<1>3. ASSUME NEW u \in Targets, NEW a \in Addresses, ChangeAddress(u, a)
      PROVE  /\ UNCHANGED connection /\ reached' = reached \ {u}
             /\ IF t = u THEN target'[t].status = "unknown" ELSE target'[t] = target[t]
  <2>1. LET row == [Unverified(target[u]) EXCEPT !.address = a]
        IN  row.status = "unknown"
    BY UnverifiedType DEF TypeOK
  <2> QED
    BY <1>3, <2>1 DEF ChangeAddress, TypeOK
<1>4. ASSUME NEW u \in Targets, Enable(u)
      PROVE  /\ UNCHANGED connection /\ reached' = reached \ {u}
             /\ IF t = u THEN target'[t].status = "unknown" ELSE target'[t] = target[t]
  <2>1. target[u] \in Row /\ target[u].address \in Addresses
    BY DEF TypeOK, Row
  <2>2. LET row == [Unverified(target[u]) EXCEPT !.enabled = TRUE]
        IN  row.status = "unknown"
    BY <2>1, UnverifiedType
  <2> QED
    BY <1>4, <2>2 DEF Enable, TypeOK
<1>5. ASSUME NEW u \in Targets, Disable(u)
      PROVE  /\ UNCHANGED <<connection, reached>>
             /\ IF t = u THEN target'[t] = [target[t] EXCEPT !.enabled = FALSE]
                         ELSE target'[t] = target[t]
  BY <1>5 DEF Disable, TypeOK
<1> QED
  BY <1>0, <1>1, <1>2, <1>3, <1>4, <1>5 DEF Row

(* The rows are written by these steps only.                               *)
LEMMA RowSteps ==
  ASSUME TypeOK, [Next]_vars
  PROVE  \/ UNCHANGED <<target, reached, connection>>
         \/ (\E o \in Operations : RecordPush(o) /\ StillWanted(o))
         \/ (\E o \in Operations : CommitDiscovery(o))
         \/ \E o \in Operations : SaveUpdate(o) \/ Advance(o) \/ DiscoveryFails(o)
         \/ \E u \in Targets, a \in Addresses : ChangeAddress(u, a)
         \/ \E u \in Targets : Enable(u) \/ Disable(u)
BY DEF Next, vars, LoadUpdate, LoadSynchronize, SavedByAnother, PushTaken, PushRefused,
   RequestLost, Recover, RecordPush, PublishRouting, LoadDiscovery, Fetch, ChangeToken,
   Upgrade, ForeignPush, Crash

LEMMA ReachedStep ==
  ASSUME TypeOK, ControlInv, [Next]_vars
  PROVE  ReachedHolds'
<1> SUFFICES ASSUME NEW t \in Targets, t \in reached'
             PROVE  Holds(service'[target'[t].address], target'[t].revision, target'[t].hash)
  BY TypeStep DEF ReachedHolds, TypeOK
<1>0. target[t].address \in Addresses /\ target[t].revision \in Revisions
  BY DEF TypeOK, Row
<1>1. ASSUME t \in reached, target'[t].address = target[t].address,
             target'[t].revision = target[t].revision, target'[t].hash = target[t].hash
      PROVE  Holds(service'[target'[t].address], target'[t].revision, target'[t].hash)
  BY <1>0, <1>1, HoldsKept DEF ControlInv, ReachedHolds
<1>2. ASSUME NEW o \in Operations, RecordPush(o), StillWanted(o)
      PROVE  Holds(service'[target'[t].address], target'[t].revision, target'[t].hash)
  <2>1. /\ service' = service
        /\ \/ t \in reached /\ t \notin ResultsIn(o, {"ok", "mismatch"})
           \/ t \in reached /\ op[o].rows[t].address = target[t].address
           \/ t \in ResultsIn(o, {"ok", "mismatch"}) /\ op[o].rows[t].address = target[t].address
    BY <1>2 DEF RecordPush
  <2>2. op[o] \in Operation /\ Answered(op[o], service)
    BY DEF TypeOK, ControlInv
  <2>3. ~op[o].rows[t].enabled => t \notin ResultsIn(o, {"ok", "mismatch"})
    BY DEF ResultsIn
  <2> QED
    BY <1>1, <1>2, <2>1, <2>2, <2>3, RecordedRows
<1>3. ASSUME NEW o \in Operations, CommitDiscovery(o)
      PROVE  Holds(service'[target'[t].address], target'[t].revision, target'[t].hash)
  <2>1. service' = service
    BY <1>3 DEF CommitDiscovery
  <2> QED
    BY <1>1, <1>3, <2>1, DiscoveredRows DEF ControlInv
<1>4. ASSUME \/ \E o \in Operations : SaveUpdate(o) \/ Advance(o) \/ DiscoveryFails(o)
             \/ \E u \in Targets, a \in Addresses : ChangeAddress(u, a)
             \/ \E u \in Targets : Enable(u) \/ Disable(u)
      PROVE  Holds(service'[target'[t].address], target'[t].revision, target'[t].hash)
  BY <1>1, <1>4, OtherRows
<1> QED
  BY <1>1, <1>2, <1>3, <1>4, RowSteps

LEMMA SyncedStep ==
  ASSUME TypeOK, ControlInv, [Next]_vars
  PROVE  SyncedMeansCurrent'
<1> SUFFICES ASSUME NEW t \in Targets, target'[t].enabled, target'[t].status = "synced"
             PROVE  target'[t].revision = connection'.revision /\ target'[t].hash = connection'.hash
  BY DEF SyncedMeansCurrent
<1>1. ASSUME target'[t] = target[t], connection'.revision = connection.revision,
             connection'.hash = connection.hash
      PROVE  target'[t].revision = connection'.revision /\ target'[t].hash = connection'.hash
  BY <1>1 DEF ControlInv, SyncedMeansCurrent
<1>2. ASSUME NEW o \in Operations, RecordPush(o), StillWanted(o)
      PROVE  target'[t].revision = connection'.revision /\ target'[t].hash = connection'.hash
  <2>1. connection' = connection /\ Answered(op[o], service)
    BY <1>2 DEF RecordPush, ControlInv
  <2> QED
    BY <1>1, <1>2, <2>1, RecordedRows
<1>3. ASSUME NEW o \in Operations, CommitDiscovery(o)
      PROVE  target'[t].revision = connection'.revision /\ target'[t].hash = connection'.hash
  <2>1. Answered(op[o], service) /\ UpToDate(op[o], target, reached)
    BY DEF ControlInv
  <2> QED
    BY <1>3, <2>1, DiscoveredRows
<1>4. ASSUME \/ \E o \in Operations : SaveUpdate(o) \/ Advance(o) \/ DiscoveryFails(o)
             \/ \E u \in Targets, a \in Addresses : ChangeAddress(u, a)
             \/ \E u \in Targets : Enable(u) \/ Disable(u)
      PROVE  target'[t].revision = connection'.revision /\ target'[t].hash = connection'.hash
  BY <1>1, <1>4, OtherRows
<1> QED
  BY <1>1, <1>2, <1>3, <1>4, RowSteps

LEMMA InitControlInv == Init => ControlInv
<1> SUFFICES ASSUME Init PROVE ControlInv
  OBVIOUS
<1>1. \A o \in Operations : /\ Numbered(op[o]) /\ Answered(op[o], service)
                           /\ UpToDate(op[o], target, reached)
  BY DEF Init, Numbered, Answered, UpToDate, NoOp
<1>2. SyncedMeansCurrent
  <2>1. \A t \in Targets : target[t].status = "unknown"
    BY DEF Init, NewTarget
  <2> QED
    BY <2>1 DEF SyncedMeansCurrent
<1>3. SavedUpTo /\ ReachedHolds
  BY DEF Init, SavedUpTo, ReachedHolds
<1> QED
  BY <1>1, <1>2, <1>3 DEF ControlInv

LEMMA ControlInvStep == TypeOK /\ ControlInv /\ [Next]_vars => ControlInv'
<1> SUFFICES ASSUME TypeOK, ControlInv, [Next]_vars PROVE ControlInv'
  OBVIOUS
<1>1. ASSUME NEW o \in Operations
      PROVE  /\ Numbered(op'[o]) /\ Answered(op'[o], service')
             /\ UpToDate(op'[o], target', reached')
  BY NumberedStep, AnsweredStep, UpToDateStep DEF ControlInv
<1>2. SavedUpTo'
  BY SavedStep DEF ControlInv
<1> QED
  BY <1>1, <1>2, ReachedStep, SyncedStep DEF ControlInv

LEMMA ControlInvariant == Spec => [](TypeOK /\ ControlInv)
BY InitTypeOK, InitControlInv, TypeStep, ControlInvStep, PTL DEF Spec

(* A target that is shown as synced holds what is wanted now, whatever
   results come late and whatever is saved meanwhile. *)
THEOREM SyncedIsCurrent == Spec => []SyncedMeansCurrent
<1>1. ControlInv => SyncedMeansCurrent
  BY DEF ControlInv
<1> QED
  BY <1>1, ControlInvariant, PTL

(* A revision number is never given to a second configuration. *)
THEOREM RevisionsAreUnique == Spec => RevisionNamesOne
<1>1. TypeOK /\ ControlInv /\ [Next]_vars
        => [\A r \in Revisions : saved[r] # None => saved'[r] = saved[r]]_vars
  BY SavedStep DEF ControlInv
<1> QED
  BY <1>1, ControlInvariant, PTL DEF Spec, RevisionNamesOne

(* What a push has recorded is not taken back by a slower discovery. *)
THEOREM DiscoveriesNeverUndo == Spec => DiscoveryNeverUndoes
<1>1. ASSUME TypeOK, ControlInv, NEW o \in Operations, CommitDiscovery(o), NEW t \in reached
      PROVE  target'[t].revision >= target[t].revision
  <2>1. /\ t \in Targets /\ target[t].revision \in Nat
        /\ Answered(op[o], service) /\ UpToDate(op[o], target, reached)
    BY <1>1 DEF TypeOK, ControlInv, Row, Revisions
  <2> QED
    BY <1>1, <2>1, DiscoveredRows
<1>2. TypeOK /\ ControlInv /\ [Next]_vars
        => [\A o \in Operations : CommitDiscovery(o) =>
              \A t \in reached : target'[t].revision >= target[t].revision]_vars
  BY <1>1
<1> QED
  BY <1>2, ControlInvariant, PTL DEF Spec, DiscoveryNeverUndoes

(* A reached target enters routing only when its service holds the wanted
   configuration, or one that came after it. *)
THEOREM RoutedAreConfigured == Spec => RoutedIsConfigured
<1>1. ASSUME TypeOK, ControlInv, [Next]_vars, NEW t \in reached,
             routed'[t] \notin {None, routed[t]}, connection.hash # None
      PROVE  Holds(service[routed'[t]], connection.revision, connection.hash)
  <2>0. t \in Targets
    BY <1>1 DEF TypeOK
  <2>1. ASSUME NEW rows, routed' = RoutedAfter(rows, connection),
               rows[t] = target[t] \/ rows[t].enabled = FALSE
        PROVE  Ready(target[t], connection) /\ routed'[t] = target[t].address
    BY <1>1, <2>0, <2>1 DEF RoutedAfter, Ready
  <2>2. Ready(target[t], connection) /\ routed'[t] = target[t].address
    <3>1. CASE \E o \in Operations : PublishRouting(o)
      BY <1>1, <2>1, <3>1 DEF PublishRouting
    <3>2. ASSUME NEW u \in Targets, Disable(u)
          PROVE  Ready(target[t], connection) /\ routed'[t] = target[t].address
      <4>1. target'[t] = target[t] \/ target'[t].enabled = FALSE
        BY <2>0, <3>2 DEF Disable, TypeOK, Row
      <4> QED
        BY <2>1, <3>2, <4>1 DEF Disable
    <3>3. CASE UNCHANGED routed
      BY <1>1, <3>3
    <3> QED
      BY <1>1, <3>1, <3>2, <3>3 DEF Next, vars, LoadUpdate, SaveUpdate, LoadSynchronize, Advance,
         SavedByAnother, PushTaken, PushRefused, RequestLost, Recover, RecordPush,
         LoadDiscovery, Fetch, CommitDiscovery, DiscoveryFails, ChangeAddress, Enable,
         ChangeToken, Upgrade, ForeignPush, Crash
  <2>3. target[t].revision = connection.revision /\ target[t].hash = connection.hash
    BY <1>1, <2>2 DEF Ready
  <2> QED
    BY <1>1, <2>2, <2>3 DEF ControlInv, ReachedHolds
<1>2. TypeOK /\ ControlInv /\ [Next]_vars
        => [\A t \in reached :
              routed'[t] \notin {None, routed[t]} /\ connection.hash # None
              => Holds(service[routed'[t]], connection.revision, connection.hash)]_vars
  BY <1>1
<1> QED
  BY <1>2, ControlInvariant, PTL DEF Spec, RoutedIsConfigured
=============================================================================
