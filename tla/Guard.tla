-------------------------------- MODULE Guard --------------------------------
(***************************************************************************)
(* The remediation control plane (internal/remediate/guard.go): proposals, *)
(* separation of duty, the per-incident budget, approval expiry and the    *)
(* gated execution of one action against a cluster that other people edit. *)
(*                                                                         *)
(* Every method holds guard.mu for its whole body, so methods are atomic   *)
(* with respect to one another.  Execute is not atomic with respect to the *)
(* outside world: it calls the resolver, the policy store, the snapshotter *)
(* and the executor one after the other, and the clock, the cluster and    *)
(* the tenant policy move between those calls.  `exec` is the call that    *)
(* holds the mutex; every other method waits for exec = Idle.              *)
(*                                                                         *)
(* One tenant is modelled: actions, policy and idempotency keys are keyed  *)
(* by tenant, and a call for another tenant's action returns ErrNotFound.  *)
(* Calls that return an error before any assignment are stuttering steps.  *)
(*                                                                         *)
(* Beside some definitions stands a variant that no action uses: the same  *)
(* code with one plausible bug, for checking that a property notices it.   *)
(***************************************************************************)
EXTENDS Integers, FiniteSets

CONSTANTS
  ActionIDs,             \* the ids nextID may hand out
  Incidents,
  Targets,               \* (namespace, kind, name) triples
  Types,                 \* the proposed subset of ActionTypes
  Principals,            \* auth.Subject IDs and "rca:<investigation>"
  Keys,                  \* Idempotency-Key values
  Policies,              \* the tenant.Policy values an admin may install
  Wired,                 \* which of deps.Resolver, deps.Snapshot are not nil
  Executors,             \* the registered executor kinds
  DefaultExecutor,       \* cfg.DefaultExecutor
  ProposalTTL, ApprovalTTL,
  DefaultActionBudget, MaxBudgetOverrides,
  AutoExecuteOnApprove,
  MaxNow, MaxVersion,    \* bounds on the clock and on cluster edits
  None

ActionTypes == {"RollbackDeployment", "ScaleReplicas", "RestartPod",
                "ToggleFeatureFlag", "RemoveIstioFault"}

States == {"Proposed", "Approved", "Rejected", "Executing", "Verifying",
           "Succeeded", "Failed", "RolledBack", "Expired"}

PolicySet == [cap : Nat, types : SUBSET ActionTypes,
              targets : SUBSET Targets, autoAllowed : BOOLEAN]

ASSUME GuardAssumption ==
  /\ IsFiniteSet(ActionIDs)
  /\ Types \subseteq ActionTypes
  /\ Policies \subseteq PolicySet
  /\ Wired \subseteq {"resolver", "snapshotter"}
  /\ ProposalTTL \in Nat \ {0} /\ ApprovalTTL \in Nat \ {0}
  /\ DefaultActionBudget \in Nat \ {0} /\ MaxBudgetOverrides \in Nat \ {0}
  /\ AutoExecuteOnApprove \in BOOLEAN
  /\ MaxNow \in Nat /\ MaxVersion \in Nat
  /\ None \notin Principals \cup Incidents \cup Targets \cup Types \cup ActionIDs
  /\ None \notin Nat

VARIABLES
  actions,    \* guard.actions
  idemP,      \* guard.idem, the "propose" endpoint: key -> request and stored hash
  idemX,      \* guard.idem, the "execute" endpoint: key -> the action id hashed
  exec,       \* the Execute call that holds the mutex, or Idle
  now,        \* deps.Now()
  pol,        \* what the policy store returns
  cluster,    \* the live objects (external)
  logged,     \* per action, the state its last audit event records
  calls,      \* history: executor calls made for each action
  mutatedUID, \* history: the uid of the object each action's call reached
  peakCap     \* history: the largest budget cap ever in force

vars == <<actions, idemP, idemX, exec, now, pol, cluster, logged, calls,
          mutatedUID, peakCap>>
world == <<now, pol, cluster, peakCap>>
history == <<calls, mutatedUID>>

(***************************************************************************)
(* Helpers.                                                                *)
(***************************************************************************)
Requests == [incident : Incidents, type : Types, target : Targets]

NoAction ==
  [state |-> "Absent", incident |-> None, type |-> None, target |-> None,
   uid |-> 0, proposedBy |-> None, approvedBy |-> None, createdAt |-> 0,
   expiresAt |-> 0, override |-> FALSE, auto |-> FALSE, snapVer |-> 0,
   executedAt |-> 0]

Idle == [id |-> None, key |-> None, begin |-> 0, pc |-> "idle"]

RiskTier(type) ==
  CASE type \in {"RestartPod", "ScaleReplicas"} -> 1
    [] type \in {"RollbackDeployment", "ToggleFeatureFlag"} -> 2
    [] OTHER -> 3

\* The request hash covers the proposal as it is when it is hashed: a request
\* as sent carries no ID yet; Propose stamps one before it stores the hash.
RequestHash(r, id) == [req |-> r, id |-> id]

\* Not the code: failed attempts given back to the budget.
CountedLive(i) == {a \in ActionIDs : /\ actions[a].incident = i
                                     /\ actions[a].state \notin {"Absent", "Rejected", "Expired", "Failed"}}

\* budgetUsed: attempted and pending mutations of an incident.
Counted(i) == {a \in ActionIDs : /\ actions[a].incident = i
                                 /\ actions[a].state \notin {"Absent", "Rejected", "Expired"}}
BudgetUsed(i) == Cardinality(Counted(i))
CapOf(p) == IF p.cap = 0 THEN DefaultActionBudget ELSE p.cap
Overrides(i) == {a \in ActionIDs : actions[a].incident = i /\ actions[a].override}

CheckAllowlists(r, p) == r.type \in p.types /\ r.target \in p.targets

\* Not the code: anybody may approve.
AnyApprover(a, by) == TRUE

Separate(a, by) == by # actions[a].proposedBy

ProposalLapsed(a) == actions[a].createdAt + ProposalTTL <= now

\* Not the code: the comparison of an expiry off by one.
ApprovalLapsedLate(a) == actions[a].expiresAt < now

ApprovalLapsed(a) == actions[a].expiresAt <= now

\* One assignment to an action and the audit event that records it.
Move(a, rec) == actions' = [actions EXCEPT ![a] = rec]

\* Not the code: a rejection that writes no audit event.
AuditNoRefusals(a, state) ==
  logged' = IF state = "Rejected" THEN logged ELSE [logged EXCEPT ![a] = state]

Audit(a, state) == logged' = [logged EXCEPT ![a] = state]

MutexFree == exec = Idle

(***************************************************************************)
(* The API of the guard.                                                   *)
(***************************************************************************)
\* checkIdempotency for the propose endpoint.
ProposeKeyOutcome(k, r) ==
  IF idemP[k] = None THEN "fresh"
  ELSE IF idemP[k].hash # RequestHash(r, None) THEN "reused" ELSE "replay"

\* Without a resolver the target is taken as sent, with no uid (0); with one
\* the object must exist, and the answer may or may not carry its uid.
Resolves(t) == "resolver" \in Wired => cluster[t].live
ResolvedUID(t, stamped) == IF "resolver" \in Wired /\ stamped THEN cluster[t].uid ELSE 0

\* Not the code: a proposal whose proposer is not recorded.
AnonymousProposal(r, proposer, stamped) ==
  [NoAction EXCEPT !.state = "Proposed", !.incident = r.incident, !.type = r.type,
                   !.target = r.target, !.uid = ResolvedUID(r.target, stamped),
                   !.createdAt = now]

Proposal(r, proposer, stamped) ==
  [NoAction EXCEPT !.state = "Proposed", !.incident = r.incident, !.type = r.type,
                   !.target = r.target, !.uid = ResolvedUID(r.target, stamped),
                   !.proposedBy = proposer, !.createdAt = now]

Propose(a, r, proposer, k, stamped) ==
  /\ MutexFree
  /\ ProposeKeyOutcome(k, r) = "fresh"
  /\ actions[a].state = "Absent"
  /\ Resolves(r.target)
  /\ CheckAllowlists(r, pol)
  /\ BudgetUsed(r.incident) < CapOf(pol)
  /\ Move(a, Proposal(r, proposer, stamped))
  /\ Audit(a, "Proposed")
  /\ idemP' = [idemP EXCEPT ![k] = [req |-> r, hash |-> RequestHash(r, a)]]
  /\ UNCHANGED <<idemX, exec, world, history>>

\* Not the code: a rejected proposal that can be approved.
ApprovableAgain(a) == MutexFree /\ actions[a].state \in {"Proposed", "Rejected"}

Approvable(a) == MutexFree /\ actions[a].state = "Proposed"

ApproveLapsed(a) ==
  /\ Approvable(a)
  /\ ProposalLapsed(a)
  /\ Move(a, [actions[a] EXCEPT !.state = "Expired"])
  /\ Audit(a, "Expired")
  /\ UNCHANGED <<idemP, idemX, exec, world, history>>

\* The tail of Approve once the budget branch lets the action through.
AutoExecute(a) == /\ AutoExecuteOnApprove
                  /\ pol.autoAllowed
                  /\ RiskTier(actions[a].type) # 3

Approved(a, by, override) ==
  [actions[a] EXCEPT !.state = "Approved", !.approvedBy = by,
                     !.expiresAt = now + ApprovalTTL,
                     !.auto = AutoExecute(a),
                     !.override = @ \/ override]

\* Not the code: one override too many.
WithinBudgetLoose(a, override) ==
  IF override THEN Cardinality(Overrides(actions[a].incident)) <= MaxBudgetOverrides
              ELSE BudgetUsed(actions[a].incident) <= CapOf(pol)

WithinBudget(a, override) ==
  IF override THEN Cardinality(Overrides(actions[a].incident)) < MaxBudgetOverrides
              ELSE BudgetUsed(actions[a].incident) <= CapOf(pol)

Approve(a, by, override) ==
  /\ Approvable(a)
  /\ ~ProposalLapsed(a)
  /\ Separate(a, by)
  /\ WithinBudget(a, override)
  /\ Move(a, Approved(a, by, override))
  /\ Audit(a, "Approved")
  /\ UNCHANGED <<idemP, idemX, exec, world, history>>

ApproveOverBudget(a, by) ==
  /\ Approvable(a)
  /\ ~ProposalLapsed(a)
  /\ Separate(a, by)
  /\ BudgetUsed(actions[a].incident) > CapOf(pol)
  /\ Move(a, [actions[a] EXCEPT !.state = "Rejected"])
  /\ Audit(a, "Rejected")
  /\ UNCHANGED <<idemP, idemX, exec, world, history>>

Reject(a) ==
  /\ MutexFree
  /\ actions[a].state \in {"Proposed", "Approved"}
  /\ Move(a, [actions[a] EXCEPT !.state = "Rejected"])
  /\ Audit(a, "Rejected")
  /\ UNCHANGED <<idemP, idemX, exec, world, history>>

(***************************************************************************)
(* Execute, one step per call that leaves the guard.                       *)
(***************************************************************************)
\* Not the code: a failed action that can be executed again.
Retryable(a, k) ==
  MutexFree /\ idemX[k] = None /\ actions[a].state \in {"Approved", "Failed"}

\* checkIdempotency for the execute endpoint: a stored key is either a replay
\* (cached response) or an error, and changes nothing either way.
Executable(a, k) == MutexFree /\ idemX[k] = None /\ actions[a].state = "Approved"

ExecuteLapsed(a, k) ==
  /\ Executable(a, k)
  /\ ApprovalLapsed(a)
  /\ Move(a, [actions[a] EXCEPT !.state = "Expired"])
  /\ Audit(a, "Expired")
  /\ UNCHANGED <<idemP, idemX, exec, world, history>>

\* Not the code: the idempotency record written before the call.
ExecuteReserve(a, k) ==
  /\ Executable(a, k)
  /\ ~ApprovalLapsed(a)
  /\ exec' = [id |-> a, key |-> k, begin |-> now, pc |-> "resolve"]
  /\ idemX' = [idemX EXCEPT ![k] = a]
  /\ UNCHANGED <<actions, idemP, logged, world, history>>

ExecuteBegin(a, k) ==
  /\ Executable(a, k)
  /\ ~ApprovalLapsed(a)
  /\ exec' = [id |-> a, key |-> k, begin |-> now, pc |-> "resolve"]
  /\ UNCHANGED <<actions, idemP, idemX, logged, world, history>>

\* Execute returns: the mutex is released.
Return == exec' = Idle
Proceed(pc) == exec' = [exec EXCEPT !.pc = pc]
FailAudited(a) == /\ Move(a, [actions[a] EXCEPT !.state = "Failed"])
                  /\ Audit(a, "Failed")
                  /\ Return

\* The comparison is skipped for a proposal that carries no uid.
SameObject(a, stamped) ==
  /\ Resolves(actions[a].target)
  /\ actions[a].uid # 0 => ResolvedUID(actions[a].target, stamped) = actions[a].uid

\* Re-resolution, if a resolver is wired: an error, a missing object or a
\* different uid fails the action; otherwise the re-resolved target replaces
\* the proposal's.
ExecuteResolve(resolverErr, stamped) ==
  LET a == exec.id IN
  /\ exec.pc = "resolve"
  /\ \/ /\ "resolver" \notin Wired
        /\ Proceed("policy")
        /\ UNCHANGED <<actions, logged>>
     \/ /\ "resolver" \in Wired
        /\ resolverErr \/ ~SameObject(a, stamped)
        /\ FailAudited(a)
     \/ /\ "resolver" \in Wired
        /\ ~resolverErr /\ SameObject(a, stamped)
        /\ Move(a, [actions[a] EXCEPT !.uid = ResolvedUID(actions[a].target, stamped)])
        /\ Proceed("policy")
        /\ UNCHANGED logged
  /\ UNCHANGED <<idemP, idemX, world, history>>

\* Allowlists again; a policy store that errors skips the check.
ExecutePolicy(policyErr) ==
  LET a == exec.id IN
  /\ exec.pc = "policy"
  /\ \/ /\ ~policyErr /\ ~CheckAllowlists(actions[a], pol)
        /\ FailAudited(a)
     \/ /\ policyErr \/ CheckAllowlists(actions[a], pol)
        /\ Proceed("snapshot")
        /\ UNCHANGED <<actions, logged>>
  /\ UNCHANGED <<idemP, idemX, world, history>>

\* A payload can be built for every type but RemoveIstioFault, and a built
\* payload always passes checkPayloadScope.
PayloadBuilt(a) == actions[a].type # "RemoveIstioFault"

\* Not the code: a snapshot that is taken and not recorded.
SnapshotDropped(a, state) == [actions[a] EXCEPT !.state = state]

Snapshotted(a, state) ==
  [actions[a] EXCEPT !.state = state,
                     !.snapVer = IF "snapshotter" \in Wired
                                 THEN cluster[actions[a].target].ver ELSE @]

Registered == DefaultExecutor \in Executors

\* Snapshot if a snapshotter is wired, then Executing, then everything up to the executor call.
ExecuteSnapshot(snapshotErr) ==
  LET a == exec.id
      failed == /\ "snapshotter" \in Wired
                /\ snapshotErr \/ ~cluster[actions[a].target].live
  IN
  /\ exec.pc = "snapshot"
  /\ \/ /\ failed                                  \* stays Approved
        /\ Return
        /\ UNCHANGED <<actions, logged>>
     \/ /\ ~failed /\ ~Registered
        /\ Move(a, Snapshotted(a, "Failed"))       \* unknown_executor: not audited
        /\ Audit(a, "Executing")
        /\ Return
     \/ /\ ~failed /\ Registered /\ ~PayloadBuilt(a)
        /\ Move(a, Snapshotted(a, "Failed"))
        /\ Audit(a, "Failed")
        /\ Return
     \/ /\ ~failed /\ Registered /\ PayloadBuilt(a)
        /\ Move(a, Snapshotted(a, "Executing"))
        /\ Audit(a, "Executing")
        /\ Proceed("do")
  /\ UNCHANGED <<idemP, idemX, world, history>>

\* exec.Do (external).  The dry-run executor touches nothing and succeeds;
\* another one may fail, and may have changed the object by name either way.
ExecuteDo(execErr, applied) ==
  LET a == exec.id
      t == actions[a].target
      state == IF execErr THEN "Failed" ELSE "Verifying"
  IN
  /\ exec.pc = "do"
  /\ DefaultExecutor = "dryrun" => ~execErr /\ ~applied
  /\ DefaultExecutor # "dryrun" => (execErr \/ applied)
  /\ applied => cluster[t].live /\ cluster[t].ver < MaxVersion
  /\ cluster' = [cluster EXCEPT ![t].ver = IF applied THEN @ + 1 ELSE @]
  /\ mutatedUID' = [mutatedUID EXCEPT ![a] = IF applied THEN cluster[t].uid ELSE @]
  /\ calls' = [calls EXCEPT ![a] = @ + 1]
  /\ Move(a, [actions[a] EXCEPT !.state = state, !.executedAt = now])
  /\ Audit(a, state)
  /\ idemX' = [idemX EXCEPT ![exec.key] = a]
  /\ Return
  /\ UNCHANGED <<idemP, now, pol, peakCap>>

(***************************************************************************)
(* After execution.                                                        *)
(***************************************************************************)
\* A signal or verifier error leaves the zero result, which is "not verified".
Verify(a, verified) ==
  LET state == IF verified THEN "Succeeded" ELSE "Failed" IN
  /\ MutexFree
  /\ actions[a].state = "Verifying"
  /\ Move(a, [actions[a] EXCEPT !.state = state])
  /\ Audit(a, state)
  /\ UNCHANGED <<idemP, idemX, exec, world, history>>

\* Rollback never calls the executor; with a resolver it compares the live
\* resource version with the pre-mutation snapshot's, and records the outcome.
Rollback(a, resolverErr) ==
  LET live == cluster[actions[a].target]
      refused == /\ "resolver" \in Wired
                 /\ ~resolverErr /\ live.live
                 /\ actions[a].snapVer # 0
                 /\ live.ver # actions[a].snapVer
      state == IF refused THEN "Failed" ELSE "RolledBack"
  IN
  /\ MutexFree
  /\ actions[a].state \in {"Verifying", "Failed"}
  /\ Move(a, [actions[a] EXCEPT !.state = state])
  /\ Audit(a, state)
  /\ UNCHANGED <<idemP, idemX, exec, world, history>>

\* ExpireDue sweeps every lapsed action and writes no audit event.
Lapsed(a) == \/ actions[a].state = "Proposed" /\ ProposalLapsed(a)
             \/ actions[a].state = "Approved" /\ ApprovalLapsed(a)

ExpireDue ==
  /\ MutexFree
  /\ \E a \in ActionIDs : Lapsed(a)
  /\ actions' = [a \in ActionIDs |-> IF Lapsed(a)
                                     THEN [actions[a] EXCEPT !.state = "Expired"]
                                     ELSE actions[a]]
  /\ UNCHANGED <<idemP, idemX, exec, logged, world, history>>

(***************************************************************************)
(* The outside world: the clock, the cluster's other users, the admin.     *)
(***************************************************************************)
guardState == <<actions, idemP, idemX, exec, logged, calls, mutatedUID>>

Tick == /\ now < MaxNow
        /\ now' = now + 1
        /\ UNCHANGED <<guardState, pol, cluster, peakCap>>

EditTarget(t) ==
  /\ cluster[t].live /\ cluster[t].ver < MaxVersion
  /\ cluster' = [cluster EXCEPT ![t].ver = @ + 1]
  /\ UNCHANGED <<guardState, now, pol, peakCap>>

\* Deleted and created again under the same name: a different object.
ReplaceTarget(t) ==
  /\ cluster[t].ver < MaxVersion
  /\ cluster' = [cluster EXCEPT ![t] = [live |-> TRUE, uid |-> @.uid + 1, ver |-> @.ver + 1]]
  /\ UNCHANGED <<guardState, now, pol, peakCap>>

DeleteTarget(t) ==
  /\ cluster[t].live
  /\ cluster' = [cluster EXCEPT ![t].live = FALSE]
  /\ UNCHANGED <<guardState, now, pol, peakCap>>

SetPolicy(p) ==
  /\ p # pol
  /\ pol' = p
  /\ peakCap' = IF CapOf(p) > peakCap THEN CapOf(p) ELSE peakCap
  /\ UNCHANGED <<guardState, now, cluster>>

Init ==
  /\ actions = [a \in ActionIDs |-> NoAction]
  /\ idemP = [k \in Keys |-> None]
  /\ idemX = [k \in Keys |-> None]
  /\ exec = Idle
  /\ now = 0
  /\ pol \in Policies
  /\ cluster = [t \in Targets |-> [live |-> TRUE, uid |-> 1, ver |-> 1]]
  /\ logged = [a \in ActionIDs |-> "Absent"]
  /\ calls = [a \in ActionIDs |-> 0]
  /\ mutatedUID = [a \in ActionIDs |-> 0]
  /\ peakCap = CapOf(pol)

ExecuteStep == \/ \E e, u \in BOOLEAN : ExecuteResolve(e, u)
               \/ \E e \in BOOLEAN : ExecutePolicy(e)
               \/ \E e \in BOOLEAN : ExecuteSnapshot(e)
               \/ \E e, m \in BOOLEAN : ExecuteDo(e, m)

Call(a) ==
  \/ \E r \in Requests, p \in Principals, k \in Keys, u \in BOOLEAN : Propose(a, r, p, k, u)
  \/ ApproveLapsed(a)
  \/ \E p \in Principals, o \in BOOLEAN : Approve(a, p, o)
  \/ \E p \in Principals : ApproveOverBudget(a, p)
  \/ Reject(a)
  \/ \E k \in Keys : ExecuteLapsed(a, k) \/ ExecuteBegin(a, k)
  \/ \E v \in BOOLEAN : Verify(a, v)
  \/ \E e \in BOOLEAN : Rollback(a, e)

World == \/ Tick
         \/ \E t \in Targets : EditTarget(t) \/ ReplaceTarget(t) \/ DeleteTarget(t)
         \/ \E p \in Policies : SetPolicy(p)

Next == (\E a \in ActionIDs : Call(a)) \/ ExecuteStep \/ ExpireDue \/ World

Spec == Init /\ [][Next]_vars

-----------------------------------------------------------------------------
(***************************************************************************)
(* Properties.                                                             *)
(***************************************************************************)
ActionSet ==
  [state : States \cup {"Absent"}, incident : Incidents \cup {None},
   type : Types \cup {None}, target : Targets \cup {None}, uid : Nat,
   proposedBy : Principals \cup {None}, approvedBy : Principals \cup {None},
   createdAt : Nat, expiresAt : Nat, override : BOOLEAN, auto : BOOLEAN,
   snapVer : Nat, executedAt : Nat]

\* Every variable holds a value of its type.
TypeOK ==
  /\ actions \in [ActionIDs -> ActionSet]
  /\ \A a \in ActionIDs : actions[a].state # "Absent" =>
       /\ actions[a].incident \in Incidents /\ actions[a].type \in Types
       /\ actions[a].target \in Targets /\ actions[a].proposedBy \in Principals
  /\ idemP \in [Keys -> {None} \cup
       [req : Requests, hash : [req : Requests, id : ActionIDs \cup {None}]]]
  /\ idemX \in [Keys -> ActionIDs \cup {None}]
  /\ \/ exec = Idle
     \/ exec \in [id : ActionIDs, key : Keys, begin : Nat,
                   pc : {"resolve", "policy", "snapshot", "do"}]
  /\ now \in Nat
  /\ pol \in Policies
  /\ cluster \in [Targets -> [live : BOOLEAN, uid : Nat \ {0}, ver : Nat \ {0}]]
  /\ logged \in [ActionIDs -> States \cup {"Absent"}]
  /\ calls \in [ActionIDs -> Nat]
  /\ mutatedUID \in [ActionIDs -> Nat]
  /\ peakCap \in Nat

\* Separation of duty (Approve, guard.go): no action reaches the executor
\* unless somebody other than its proposer approved it.
SeparationOfDuty ==
  \A a \in ActionIDs : calls[a] > 0 =>
    /\ actions[a].approvedBy # None
    /\ actions[a].approvedBy # actions[a].proposedBy

\* Execute: the executor is called at most once for an action, however often
\* Execute is retried, under whichever key, and whatever the call returned.
ExecutedAtMostOnce == \A a \in ActionIDs : calls[a] <= 1

\* Execute: the state Executing exists only inside the call that holds the
\* mutex, so no error path strands an action there.
ExecutingOnlyInFlight ==
  \A a \in ActionIDs : actions[a].state = "Executing" => exec.id = a /\ exec.pc = "do"

\* Execute (FR-F09-6 step 3): where a snapshotter is wired no mutation happens
\* without a pre-mutation snapshot, whichever call fails in between, so that
\* Rollback's concurrent-modification check is never vacuous there.  With
\* deps.Snapshot nil the code mutates without one (guard.go:487).
SnapshotBeforeMutation ==
  "snapshotter" \in Wired => \A a \in ActionIDs : calls[a] > 0 => actions[a].snapVer # 0

\* Execute: the approval of the call in flight had not lapsed when the call
\* read the clock, and the action has not been rejected or expired since.
InFlightWasAuthorised ==
  exec # Idle => /\ actions[exec.id].state \in {"Approved", "Executing"}
                 /\ exec.begin < actions[exec.id].expiresAt
                 /\ actions[exec.id].expiresAt <= exec.begin + ApprovalTTL

\* storeIdempotency on the execute endpoint: a key that answers from the cache
\* stands for an executor call that was really made.
CachedExecuteHappened == \A k \in Keys : idemX[k] # None => calls[idemX[k]] = 1

\* The audit trail: an action in a state that authorises, records or undoes a
\* mutation got there by an audited step.
AuditedStates == {"Proposed", "Approved", "Rejected", "Executing", "Verifying",
                  "Succeeded", "RolledBack"}
AuditAgrees ==
  \A a \in ActionIDs : actions[a].state \in AuditedStates => logged[a] = actions[a].state

\* The inductive invariant behind the properties above: what the record, the
\* call history and the audit trail say of one action, and what holds of the
\* action whose Execute is in flight.
Consistent(a) ==
  LET s == actions[a].state IN
  /\ calls[a] <= 1
  /\ s \in {"Verifying", "Succeeded"} => calls[a] = 1
  /\ s \notin {"Verifying", "Succeeded", "Failed", "RolledBack"} => calls[a] = 0
  /\ s \in {"Approved", "Executing"} \/ calls[a] = 1 =>
       actions[a].approvedBy # None /\ actions[a].approvedBy # actions[a].proposedBy
  /\ "snapshotter" \in Wired /\ (s = "Executing" \/ calls[a] = 1) => actions[a].snapVer # 0
  /\ s \in AuditedStates => logged[a] = s
FreshApproval(a) ==
  actions[a].state = "Approved" => actions[a].expiresAt <= now + ApprovalTTL
Inductive ==
  /\ \A a \in ActionIDs : Consistent(a) /\ FreshApproval(a)
  /\ ExecutingOnlyInFlight
  /\ exec # Idle => actions[exec.id].state = (IF exec.pc = "do" THEN "Executing" ELSE "Approved")
  /\ InFlightWasAuthorised
  /\ CachedExecuteHappened

\* The budget (budgetUsed): an incident never sees more attempted mutations
\* than the largest cap that was ever in force, whatever becomes of them.
Attempted(i) == {a \in ActionIDs : actions[a].incident = i /\ calls[a] > 0}
BudgetBound == \A i \in Incidents : Cardinality(Attempted(i)) <= peakCap

\* Approve: at most MaxBudgetOverrides overrides are ever granted per incident.
OverrideCeiling == \A i \in Incidents : Cardinality(Overrides(i)) <= MaxBudgetOverrides

\* The guard implements RemediationGate: request, authorise, attempt once, settle.
Phase(a) ==
  CASE calls[a] > 0 -> IF actions[a].state \in {"Succeeded", "RolledBack"}
                       THEN "settled" ELSE "attempted"
    [] calls[a] = 0 ->
       CASE actions[a].state = "Absent" -> "absent"
         [] actions[a].state = "Proposed" -> "pending"
         [] actions[a].state \in {"Approved", "Executing"} -> "authorised"
         [] OTHER -> "closed"
Gate == INSTANCE RemediationGate WITH gate <- [a \in ActionIDs |-> Phase(a)]
ImplementsGate == Gate!Spec

\* What the documents say and the code does not do ----------------------------

\* checkIdempotency: an identical replay returns the cached action.
ReplayReturnsCached ==
  \A k \in Keys : idemP[k] # None => ProposeKeyOutcome(k, idemP[k].req) = "replay"

\* Execute's re-resolution (DR-22 22.3): a target deleted and recreated between
\* approval and execution is a different object and is not mutated.  Said only
\* of the proposals that carry a uid.
ReplacedTargetNotMutated ==
  \A a \in ActionIDs : mutatedUID[a] # 0 /\ actions[a].uid # 0 => mutatedUID[a] = actions[a].uid

\* Execute (DR-23 23.3): an expired approval means zero executor calls.
NoCallOnceExpired ==
  \A a \in ActionIDs : calls[a] > 0 => actions[a].executedAt < actions[a].expiresAt
=============================================================================
