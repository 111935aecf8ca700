--------------------------- MODULE ServiceControl ---------------------------
(***************************************************************************)
(* The control plane of one service-managed upstream: saving and pushing   *)
(* its configuration (server/services/platform-service-configuration-      *)
(* service.ts), discovering its targets (platform-service-discovery-       *)
(* service.ts), the administrators' changes of targets and tokens          *)
(* (platform-upstream-service.ts) and what is routed as a result.          *)
(*                                                                         *)
(* An operation loads the connection and the targets, talks to the service *)
(* behind each target's address, and writes its results in a transaction   *)
(* of its own; operations of several administrators overlap.  A            *)
(* configuration is the member of Values it sets (and stands for its       *)
(* hash); a contract stands for the description and the schema a service   *)
(* exposes.  Timestamps are modelled by what they are compared for: a      *)
(* discovery knows whether a row it loaded has been written since.         *)
(***************************************************************************)
EXTENDS Integers, FiniteSets

CONSTANTS
  Operations,   \* administrators' operations in progress at once
  Targets,
  Addresses,
  FirstAddress, \* [Targets -> Addresses]
  Values,       \* configurations an administrator may save
  Contracts,
  FirstContract,
  MaxRevision,  \* bound on configuration revisions (2^31 - 1 in the code)
  MaxChanges,   \* bound on failures and on what changes besides the operations
  None

ASSUME ServiceAssumption ==
  /\ None \notin Values \cup Contracts \cup Addresses
  /\ FirstAddress \in [Targets -> Addresses]
  /\ FirstContract \in Contracts
  /\ MaxRevision \in Nat \ {0}
  /\ MaxChanges \in Nat

VARIABLES
  connection,  \* upstream_service_connections: revision, hash, contract
  target,      \* upstream_targets
  service,     \* external: what the service at each address holds
  routed,      \* the address each target has in the active revision, or None
  op,          \* the operations
  reached,     \* history: targets whose recorded configuration came from their address
  saved,       \* history: what each revision was saved with
  changes      \* how many of the MaxChanges have happened

vars == <<connection, target, service, routed, op, reached, saved, changes>>

Revisions == 0..MaxRevision
Hashes == Values \cup {None}

NoResult == [is |-> "none", revision |-> 0, hash |-> None, contract |-> None]
NoOp == [kind |-> "none", at |-> "idle", base |-> 0, revision |-> 0, hash |-> None,
         contract |-> None, attempt |-> 0, current |-> TRUE,
         rows |-> [t \in Targets |-> [address |-> FirstAddress[t], enabled |-> FALSE]],
         results |-> [t \in Targets |-> NoResult]]
NewTarget(a, enabled) ==
  [address |-> a, enabled |-> enabled, revision |-> 0, hash |-> None,
   status |-> "unknown", state |-> FALSE]

(* SLIP: the status outlives the state it was given for. *)
StateOnly(row) == [row EXCEPT !.revision = 0, !.hash = None, !.state = FALSE]

(* resetServiceState: what is known of a target before it is discovered. *)
Unverified(row) ==
  [row EXCEPT !.revision = 0, !.hash = None, !.state = FALSE, !.status = "unknown"]

Maximum(S) == CHOOSE x \in S : \A y \in S : y =< x

-----------------------------------------------------------------------------
(* SLIP: a synchronised target counts, whatever it is synchronised with. *)
AnySynced(row, conn) == row.enabled /\ row.state /\ row.status # "error"

(* isServiceTargetReady *)
Ready(row, conn) ==
  /\ row.enabled /\ row.state
  /\ IF conn.hash = None
     THEN row.status # "error"
     ELSE /\ row.status = "synced"
          /\ row.revision = conn.revision
          /\ row.hash = conn.hash

(* The targets of the next routing revision: the ready ones or, while none *)
(* is, those of the active revision that are still enabled.                *)
RoutedAfter(rows, conn) ==
  LET ready == {t \in Targets : Ready(rows[t], conn)}
  IN  [t \in Targets |->
         IF ready # {} THEN (IF t \in ready THEN rows[t].address ELSE None)
         ELSE IF rows[t].enabled THEN routed[t] ELSE None]

(* Any write to the connection or a target makes running discoveries stale. *)
Touched(ops) ==
  [o \in Operations |->
     IF ops[o].kind = "discovery" THEN [ops[o] EXCEPT !.current = FALSE] ELSE ops[o]]

Enabled(rows) == {t \in Targets : rows[t].enabled}

HighestRevision(current, rows) ==
  Maximum({current} \cup {rows[t].revision : t \in Enabled(rows)})

NextRevision(current, rows) == HighestRevision(current, rows) + 1

(* serviceConfigurationSynchronizationRevision *)
SynchronizationRevision(conn, rows) ==
  IF \E t \in Enabled(rows) :
       \/ rows[t].revision > conn.revision
       \/ rows[t].revision = conn.revision /\ rows[t].hash \notin {None, conn.hash}
  THEN NextRevision(conn.revision, rows)
  ELSE conn.revision

Rows == [t \in Targets |-> [address |-> target[t].address, enabled |-> target[t].enabled]]

-----------------------------------------------------------------------------
Init ==
  /\ connection = [revision |-> 0, hash |-> None, contract |-> None]
  /\ \E on \in SUBSET Targets \ {{}} :
       target = [t \in Targets |-> NewTarget(FirstAddress[t], t \in on)]
  /\ service = [a \in Addresses |-> [revision |-> 0, hash |-> None, contract |-> FirstContract]]
  /\ routed = [t \in Targets |-> None]
  /\ op = [o \in Operations |-> NoOp]
  /\ reached = {}
  /\ saved = [r \in Revisions |-> None]
  /\ changes = 0

Idle(o) == op[o].at = "idle"
Set(o, record) == op' = [op EXCEPT ![o] = record]
End(o) == Set(o, NoOp)

(* Saving a configuration or advancing its revision: the connection, and   *)
(* every enabled target becomes unknown.                                   *)
SaveRevision(o, revision, hash) ==
  /\ connection' = [connection EXCEPT !.revision = revision, !.hash = hash]
  /\ saved' = [saved EXCEPT ![revision] = hash]
  /\ target' = [t \in Targets |->
       IF target[t].enabled THEN [target[t] EXCEPT !.status = "unknown"] ELSE target[t]]
  /\ op' = [Touched(op) EXCEPT ![o] =
       [op[o] EXCEPT !.at = "push", !.base = revision,
                     !.results = [t \in Targets |-> NoResult]]]

(* updatePlatformServiceConfiguration *)
LoadUpdate(o, value) ==
  LET revision == NextRevision(connection.revision, target)
  IN  /\ Idle(o)
      /\ connection.contract # None
      /\ revision =< MaxRevision
      /\ Set(o, [NoOp EXCEPT !.kind = "push", !.at = "save", !.base = connection.revision,
                             !.revision = revision, !.hash = value,
                             !.contract = connection.contract, !.rows = Rows])
      /\ UNCHANGED <<connection, target, service, routed, reached, saved, changes>>

Changed == changes < MaxChanges /\ changes' = changes + 1

(* SLIP: the update of the connection is not conditional on its revision. *)
AnyRevision(o) == connection.contract = op[o].contract

NobodySaved(o) ==
  /\ connection.revision = op[o].base
  /\ connection.contract = op[o].contract

SaveUpdate(o) ==
  /\ op[o].at = "save"
  /\ NobodySaved(o)
  /\ SaveRevision(o, op[o].revision, op[o].hash)
  /\ UNCHANGED <<service, routed, reached, changes>>

(* synchronizePlatformServiceConfiguration *)
LoadSynchronize(o) ==
  LET revision == SynchronizationRevision(connection, target)
  IN  /\ Idle(o)
      /\ connection.contract # None /\ connection.hash # None
      /\ revision =< MaxRevision
      /\ Set(o, [NoOp EXCEPT !.kind = "push", !.base = connection.revision,
                             !.at = IF revision = connection.revision THEN "push" ELSE "advance",
                             !.revision = revision, !.hash = connection.hash,
                             !.contract = connection.contract, !.rows = Rows])
      /\ UNCHANGED <<connection, target, service, routed, reached, saved, changes>>

(* advanceStoredConfigurationRevision *)
Advance(o) ==
  /\ op[o].at = "advance"
  /\ NobodySaved(o) /\ connection.hash = op[o].hash
  /\ SaveRevision(o, op[o].revision, op[o].hash)
  /\ UNCHANGED <<service, routed, reached, changes>>

(* SERVICE_CONFIGURATION_REVISION_CONFLICT *)
SavedByAnother(o) ==
  /\ \/ op[o].at = "save" /\ ~NobodySaved(o)
     \/ op[o].at = "advance" /\ ~(NobodySaved(o) /\ connection.hash = op[o].hash)
  /\ End(o)
  /\ UNCHANGED <<connection, target, service, routed, reached, saved, changes>>

-----------------------------------------------------------------------------
(* pushConfiguration *)

(* What a service does with a configuration it is sent: it takes a higher  *)
(* revision, or the same one with the same values, and answers 409 with    *)
(* its own revision otherwise.                                             *)
Accepts(held, revision, hash) ==
  held.revision < revision \/ (held.revision = revision /\ held.hash = hash)

Unasked(o, t) == op[o].rows[t].enabled /\ op[o].results[t].is = "none"

Result(o, t, result) == Set(o, [op[o] EXCEPT !.results[t] = result])

PushTaken(o, t, replyLost) ==
  LET a == op[o].rows[t].address
      held == service[a]
  IN  /\ op[o].at = "push" /\ Unasked(o, t)
      /\ Accepts(held, op[o].revision, op[o].hash)
      /\ service' = [service EXCEPT ![a].revision = op[o].revision, ![a].hash = op[o].hash]
      /\ Result(o, t, IF replyLost THEN [NoResult EXCEPT !.is = "error"]
                      ELSE [is |-> IF held.contract = op[o].contract THEN "ok" ELSE "mismatch",
                            revision |-> op[o].revision, hash |-> op[o].hash,
                            contract |-> held.contract])
      /\ IF replyLost THEN Changed ELSE UNCHANGED changes
      /\ UNCHANGED <<connection, target, routed, reached, saved>>

PushRefused(o, t) ==
  LET held == service[op[o].rows[t].address]
  IN  /\ op[o].at = "push" /\ Unasked(o, t)
      /\ ~Accepts(held, op[o].revision, op[o].hash)
      /\ Result(o, t, [NoResult EXCEPT !.is = "conflict", !.revision = held.revision])
      /\ UNCHANGED <<connection, target, service, routed, reached, saved, changes>>

RequestLost(o, t) ==
  /\ op[o].at \in {"push", "fetch"} /\ Unasked(o, t)
  /\ Result(o, t, [NoResult EXCEPT !.is = "error"])
  /\ Changed
  /\ UNCHANGED <<connection, target, service, routed, reached, saved>>

AllAsked(o) == \A t \in Targets : ~Unasked(o, t)
ResultsIn(o, kinds) == {t \in Targets : op[o].rows[t].enabled /\ op[o].results[t].is \in kinds}

RevisionAhead(o) ==
  /\ op[o].attempt = 0
  /\ \E t \in ResultsIn(o, {"conflict"}) : op[o].results[t].revision >= op[o].revision

(* pushConfigurationWithRevisionRecovery: once, with a higher revision. *)
Recover(o) ==
  LET ahead == {op[o].results[t].revision : t \in ResultsIn(o, {"conflict"})}
      revision == Maximum(ahead \cup {op[o].revision}) + 1
  IN  /\ op[o].at = "push" /\ AllAsked(o) /\ RevisionAhead(o)
      /\ revision =< MaxRevision
      /\ Set(o, [op[o] EXCEPT !.at = "advance", !.attempt = 1, !.revision = revision])
      /\ UNCHANGED <<connection, target, service, routed, reached, saved, changes>>

(* SLIP: results are written whatever has been saved since. *)
AlwaysWanted(o) == TRUE

StillWanted(o) ==
  connection.revision = op[o].revision /\ connection.hash = op[o].hash

PushedRow(o, t) ==
  LET result == op[o].results[t]
  IN  IF ~op[o].rows[t].enabled THEN target[t]
      ELSE IF result.is \in {"ok", "mismatch"}
      THEN [target[t] EXCEPT !.revision = result.revision, !.hash = result.hash,
                             !.status = IF result.is = "ok" THEN "synced" ELSE "drifted",
                             !.state = TRUE]
      ELSE [target[t] EXCEPT !.status = "error"]

(* The transaction that writes the results, by the ids of the targets. *)
RecordPush(o) ==
  /\ op[o].at = "push" /\ AllAsked(o) /\ ~RevisionAhead(o)
  /\ LET next == [NoOp EXCEPT !.kind = "push", !.at = "publish"]
     IN  op' = [(IF StillWanted(o) THEN Touched(op) ELSE op) EXCEPT ![o] =
                  IF ResultsIn(o, {"ok"}) = {} THEN NoOp ELSE next]
  /\ target' = IF StillWanted(o) THEN [t \in Targets |-> PushedRow(o, t)] ELSE target
  /\ reached' = IF StillWanted(o)
                THEN LET answered == ResultsIn(o, {"ok", "mismatch"})
                         moved == {t \in Targets : op[o].rows[t].address # target[t].address}
                     IN  (reached \cup answered) \ (answered \cap moved)
                ELSE reached
  /\ UNCHANGED <<connection, service, routed, saved, changes>>

(* applyPlatformRevision after a push, or after a discovery that left a    *)
(* ready target.                                                           *)
PublishRouting(o) ==
  /\ op[o].at = "publish"
  /\ routed' = IF op[o].kind = "push" \/ \E t \in Targets : Ready(target[t], connection)
               THEN RoutedAfter(target, connection) ELSE routed
  /\ End(o)
  /\ UNCHANGED <<connection, target, service, reached, saved, changes>>

-----------------------------------------------------------------------------
(* discoverPlatformService *)

LoadDiscovery(o) ==
  /\ Idle(o)
  /\ Enabled(target) # {}
  /\ Set(o, [NoOp EXCEPT !.kind = "discovery", !.at = "fetch", !.rows = Rows,
                         !.contract = connection.contract])
  /\ UNCHANGED <<connection, target, service, routed, reached, saved, changes>>

Fetch(o, t) ==
  LET held == service[op[o].rows[t].address]
  IN  /\ op[o].at = "fetch" /\ Unasked(o, t)
      /\ Result(o, t, [is |-> "ok", revision |-> held.revision, hash |-> held.hash,
                       contract |-> held.contract])
      /\ UNCHANGED <<connection, target, service, routed, reached, saved, changes>>

(* selectCompatibleTargets: the known contract while a target has it, then *)
(* the one most targets have.                                              *)
Cohort(o, c) == {t \in ResultsIn(o, {"ok"}) : op[o].results[t].contract = c}

Selectable(o) ==
  LET found == {op[o].results[t].contract : t \in ResultsIn(o, {"ok"})}
  IN  IF op[o].contract \in found THEN {op[o].contract}
      ELSE {c \in found : \A d \in found : Cardinality(Cohort(o, d)) =< Cardinality(Cohort(o, c))}

MatchesDesired(result, conn) ==
  /\ conn.hash # None /\ conn.revision > 0
  /\ result.revision = conn.revision
  /\ result.hash = conn.hash

DiscoveredRow(o, t, c, conn) ==
  LET result == op[o].results[t]
  IN  IF ~op[o].rows[t].enabled THEN target[t]
      ELSE IF t \in Cohort(o, c)
      THEN [target[t] EXCEPT
              !.revision = result.revision, !.hash = result.hash, !.state = TRUE,
              !.status = IF conn.hash = None THEN "unknown"
                         ELSE IF MatchesDesired(result, conn) THEN "synced" ELSE "drifted"]
      ELSE [target[t] EXCEPT !.status = "error"]

(* SLIP: the context is not compared with the rows again. *)
AnyContext(o) == TRUE

ContextCurrent(o) == op[o].current

CommitDiscovery(o) ==
  /\ op[o].at = "fetch" /\ AllAsked(o)
  /\ ContextCurrent(o)
  /\ \E c \in Selectable(o) :
       LET changed == connection.contract \notin {None, c}
           conn == [connection EXCEPT !.contract = c,
                                      !.hash = IF changed THEN None ELSE connection.hash]
       IN  /\ connection' = conn
           /\ target' = [t \in Targets |-> DiscoveredRow(o, t, c, conn)]
           /\ reached' = reached \cup Cohort(o, c)
  /\ op' = [Touched(op) EXCEPT ![o] = [NoOp EXCEPT !.kind = "discovery", !.at = "publish"]]
  /\ UNCHANGED <<service, routed, saved, changes>>

(* recordDiscoveryFailure: written only when nothing has changed. *)
DiscoveryFails(o) ==
  /\ op[o].at = "fetch" /\ AllAsked(o)
  /\ ContextCurrent(o) => ResultsIn(o, {"ok"}) = {}
  /\ target' = [t \in Targets |->
       IF ContextCurrent(o) /\ op[o].rows[t].enabled
       THEN [target[t] EXCEPT !.status = "error"] ELSE target[t]]
  /\ op' = [(IF ContextCurrent(o) THEN Touched(op) ELSE op) EXCEPT ![o] = NoOp]
  /\ UNCHANGED <<connection, service, routed, reached, saved, changes>>

-----------------------------------------------------------------------------
(* Administrators, the service's operators, and failures *)

(* updateTarget with another address, or enabled again: the configuration  *)
(* state is cleared and nothing is published.                              *)
ChangeAddress(t, a) ==
  /\ \A u \in Targets : target[u].address # a
  /\ target' = [target EXCEPT ![t] = [Unverified(target[t]) EXCEPT !.address = a]]
  /\ reached' = reached \ {t}
  /\ op' = Touched(op)
  /\ Changed
  /\ UNCHANGED <<connection, service, routed, saved>>

Enable(t) ==
  /\ ~target[t].enabled
  /\ target' = [target EXCEPT ![t] = [Unverified(target[t]) EXCEPT !.enabled = TRUE]]
  /\ reached' = reached \ {t}
  /\ op' = Touched(op)
  /\ Changed
  /\ UNCHANGED <<connection, service, routed, saved>>

(* Refused for the last ready target; published in the same transaction.   *)
Disable(t) ==
  /\ target[t].enabled
  /\ \E u \in Targets \ {t} : Ready(target[u], connection)
  /\ target' = [target EXCEPT ![t].enabled = FALSE]
  /\ routed' = RoutedAfter(target', connection)
  /\ op' = Touched(op)
  /\ Changed
  /\ UNCHANGED <<connection, service, reached, saved>>

(* updateServiceToken: nothing but the row of the connection changes. *)
ChangeToken ==
  /\ \E o \in Operations : op[o].at = "fetch" /\ op[o].current
  /\ op' = Touched(op)
  /\ Changed
  /\ UNCHANGED <<connection, target, service, routed, reached, saved>>

(* The service is deployed with another contract. *)
Upgrade(a, c) ==
  /\ service[a].contract # c
  /\ service' = [service EXCEPT ![a].contract = c]
  /\ Changed
  /\ UNCHANGED <<connection, target, routed, op, reached, saved>>

(* Another Platform, or this one before a restored backup, configured it. *)
ForeignPush(a, value) ==
  /\ service[a].revision < MaxRevision
  /\ service' = [service EXCEPT ![a].revision = @ + 1, ![a].hash = value]
  /\ Changed
  /\ UNCHANGED <<connection, target, routed, op, reached, saved>>

(* The process stops between two steps of an operation. *)
Crash(o) ==
  /\ ~Idle(o)
  /\ End(o)
  /\ Changed
  /\ UNCHANGED <<connection, target, service, routed, reached, saved>>

Next ==
  \/ \E o \in Operations, v \in Values : LoadUpdate(o, v)
  \/ \E o \in Operations : SaveUpdate(o)
  \/ \E o \in Operations : LoadSynchronize(o)
  \/ \E o \in Operations : Advance(o)
  \/ \E o \in Operations : SavedByAnother(o)
  \/ \E o \in Operations, t \in Targets, lost \in BOOLEAN : PushTaken(o, t, lost)
  \/ \E o \in Operations, t \in Targets : PushRefused(o, t)
  \/ \E o \in Operations, t \in Targets : RequestLost(o, t)
  \/ \E o \in Operations : Recover(o)
  \/ \E o \in Operations : RecordPush(o)
  \/ \E o \in Operations : PublishRouting(o)
  \/ \E o \in Operations : LoadDiscovery(o)
  \/ \E o \in Operations, t \in Targets : Fetch(o, t)
  \/ \E o \in Operations : CommitDiscovery(o)
  \/ \E o \in Operations : DiscoveryFails(o)
  \/ \E t \in Targets, a \in Addresses : ChangeAddress(t, a)
  \/ \E t \in Targets : Enable(t)
  \/ \E t \in Targets : Disable(t)
  \/ ChangeToken
  \/ \E a \in Addresses, c \in Contracts : Upgrade(a, c)
  \/ \E a \in Addresses, v \in Values : ForeignPush(a, v)
  \/ \E o \in Operations : Crash(o)

Spec == Init /\ [][Next]_vars

-----------------------------------------------------------------------------
(* Properties *)

Results == [is : {"none", "ok", "mismatch", "conflict", "error"}, revision : Revisions,
            hash : Hashes, contract : Contracts \cup {None}]
Row == [address : Addresses, enabled : BOOLEAN, revision : Revisions, hash : Hashes,
        status : {"unknown", "synced", "drifted", "error"}, state : BOOLEAN]
Operation ==
  [kind : {"none", "push", "discovery"},
   at : {"idle", "save", "advance", "push", "publish", "fetch"},
   base : Revisions, revision : Revisions, hash : Hashes,
   contract : Contracts \cup {None}, attempt : {0, 1}, current : BOOLEAN,
   rows : [Targets -> [address : Addresses, enabled : BOOLEAN]],
   results : [Targets -> Results]]

(* Type invariant.  A status of a configuration goes with the state it was *)
(* read from; a target that has none is unknown or in error.               *)
TypeOK ==
  /\ connection \in [revision : Revisions, hash : Hashes, contract : Contracts \cup {None}]
  /\ target \in [Targets -> Row]
  /\ \A t \in Targets :
       target[t].status \in {"synced", "drifted"} => target[t].state
  /\ service \in [Addresses -> [revision : Revisions, hash : Hashes, contract : Contracts]]
  /\ routed \in [Targets -> Addresses \cup {None}]
  /\ op \in [Operations -> Operation]
  /\ reached \subseteq Targets
  /\ saved \in [Revisions -> Hashes]
  /\ changes \in 0..MaxChanges

(* A target shown as synced is synced with what is wanted now: results of  *)
(* an older push or an overtaken discovery never say so of a configuration *)
(* that has been replaced (the conditional transactions of both services). *)
SyncedMeansCurrent ==
  \A t \in Targets :
    target[t].enabled /\ target[t].status = "synced"
    => target[t].revision = connection.revision /\ target[t].hash = connection.hash

Holds(held, revision, hash) ==
  held.revision > revision \/ (held.revision = revision /\ held.hash = hash)

(* A revision number names one configuration for good: two administrators  *)
(* who save at once, or a recovery that advances the revision, never give  *)
(* one number to two configurations.                                       *)
RevisionNamesOne ==
  [][\A r \in Revisions : saved[r] # None => saved'[r] = saved[r]]_vars

(* A discovery never takes back what a push has recorded while the         *)
(* discovery was on its way, as long as both asked the same address.       *)
DiscoveryNeverUndoes ==
  [][\A o \in Operations : CommitDiscovery(o) =>
       \A t \in reached : target'[t].revision >= target[t].revision]_vars

(* A target enters routing only once the service behind it has been given  *)
(* the configuration that is wanted (or a later one has been put there     *)
(* since), as long as the answer came from the address the target has.     *)
RoutedIsConfigured ==
  [][\A t \in reached :
       routed'[t] \notin {None, routed[t]} /\ connection.hash # None
       => Holds(service[routed'[t]], connection.revision, connection.hash)]_vars

(* docs/architecture/platform.md says that a target whose address was      *)
(* changed does not enter a new routing revision before it has been        *)
(* discovered and, where a configuration is wanted, synchronised.          *)
EntersWhenReached ==
  [][\A t \in Targets : routed'[t] \notin {None, routed[t]} => t \in reached]_vars
=============================================================================
