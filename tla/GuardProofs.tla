----------------------------- MODULE GuardProofs -----------------------------
(***************************************************************************)
(* What the guard guarantees for every number of actions, incidents and    *)
(* principals, every policy and every clock: its inductive invariant and   *)
(* what follows from it, that it implements RemediationGate, and the two   *)
(* bounds of an incident.                                                  *)
(***************************************************************************)
EXTENDS Guard, FiniteSetTheorems, TLAPS

(***************************************************************************)
(* Type correctness.                                                       *)
(***************************************************************************)
\* The blank record every id starts with is well formed.
LEMMA NoActionType == NoAction \in ActionSet
BY GuardAssumption DEF NoAction, ActionSet

\* CapOf reads a cap of zero as the default budget: it is a number either way.
LEMMA CapType == \A p \in Policies : CapOf(p) \in Nat
BY GuardAssumption DEF CapOf, PolicySet

\* Init establishes the type invariant.
LEMMA InitType == Init => TypeOK
<1> SUFFICES ASSUME Init PROVE TypeOK
  OBVIOUS
<1>1. actions \in [ActionIDs -> ActionSet]
  BY NoActionType DEF Init
<1>2. \A a \in ActionIDs : actions[a].state = "Absent"
  BY DEF Init, NoAction
<1>3. peakCap \in Nat
  BY CapType DEF Init
<1> QED
  BY <1>1, <1>2, <1>3, GuardAssumption DEF Init, TypeOK, States

\* What the guard knows of the actions: the fields an API call may change.
CallTypes == /\ actions \in [ActionIDs -> ActionSet]
             /\ \A a \in ActionIDs : actions[a].state # "Absent" =>
                  /\ actions[a].incident \in Incidents /\ actions[a].type \in Types
                  /\ actions[a].target \in Targets /\ actions[a].proposedBy \in Principals

\* A step that writes one well-formed record keeps all of them well formed.
LEMMA MoveType ==
  ASSUME TypeOK, NEW a \in ActionIDs, NEW rec \in ActionSet, Move(a, rec),
         rec.state # "Absent" =>
           /\ rec.incident \in Incidents /\ rec.type \in Types
           /\ rec.target \in Targets /\ rec.proposedBy \in Principals
  PROVE  CallTypes'
BY DEF TypeOK, Move, CallTypes

\* The fields that no step changes once an action is proposed.
LEMMA RecordFields ==
  ASSUME TypeOK, NEW a \in ActionIDs, actions[a].state # "Absent"
  PROVE  /\ actions[a] \in ActionSet
         /\ actions[a].incident \in Incidents /\ actions[a].type \in Types
         /\ actions[a].target \in Targets /\ actions[a].proposedBy \in Principals
BY DEF TypeOK

\* A step whose only action is `a`, which was already proposed.
LEMMA UpdateType ==
  ASSUME TypeOK, NEW a \in ActionIDs, actions[a].state # "Absent", NEW rec \in ActionSet,
         rec.incident = actions[a].incident, rec.type = actions[a].type,
         rec.target = actions[a].target, rec.proposedBy = actions[a].proposedBy,
         Move(a, rec)
  PROVE  CallTypes'
BY RecordFields, MoveType

\* A step that only changes the state of one proposed action.
LEMMA StateOnlyType ==
  ASSUME TypeOK, NEW a \in ActionIDs, actions[a].state # "Absent", NEW s \in States,
         Move(a, [actions[a] EXCEPT !.state = s])
  PROVE  CallTypes'
<1> DEFINE rec == [actions[a] EXCEPT !.state = s]
<1>1. rec \in ActionSet
  BY RecordFields DEF ActionSet
<1>2. rec.incident = actions[a].incident /\ rec.type = actions[a].type
      /\ rec.target = actions[a].target /\ rec.proposedBy = actions[a].proposedBy
  BY RecordFields DEF ActionSet
<1> QED
  BY <1>1, <1>2, UpdateType

\* Every API call leaves well-typed state.
LEMMA CallType ==
  ASSUME TypeOK, NEW a \in ActionIDs, Call(a)
  PROVE  TypeOK'
<1> USE DEF world, history, Audit, States, MutexFree
<1>1. ASSUME NEW r \in Requests, NEW p \in Principals, NEW k \in Keys, NEW u \in BOOLEAN,
             Propose(a, r, p, k, u)
      PROVE  TypeOK'
  <2> DEFINE rec == Proposal(r, p, u)
  <2>1. ResolvedUID(r.target, u) \in Nat /\ now \in Nat
    BY DEF TypeOK, Requests, ResolvedUID
  <2>2. rec \in ActionSet
    BY <2>1, NoActionType DEF Proposal, ActionSet, NoAction, Requests
  <2>3. rec.incident \in Incidents /\ rec.type \in Types /\ rec.target \in Targets
        /\ rec.proposedBy \in Principals
    BY DEF Proposal, NoAction, Requests
  <2>4. CallTypes'
    BY <1>1, <2>2, <2>3, MoveType DEF Propose
  <2> QED
    BY <1>1, <2>4 DEF TypeOK, CallTypes, Propose, RequestHash
<1>2. ASSUME ApproveLapsed(a) PROVE TypeOK'
  <2>1. CallTypes'
    BY <1>2, StateOnlyType DEF ApproveLapsed, Approvable
  <2> QED
    BY <1>2, <2>1 DEF TypeOK, CallTypes, ApproveLapsed
<1>3. ASSUME NEW p \in Principals, NEW o \in BOOLEAN, Approve(a, p, o) PROVE TypeOK'
  <2>1. actions[a].state # "Absent" /\ actions[a] \in ActionSet
    BY <1>3 DEF Approve, Approvable, TypeOK
  <2>2. now + ApprovalTTL \in Nat /\ AutoExecute(a) \in BOOLEAN
    BY GuardAssumption DEF TypeOK, AutoExecute
  <2>3. Approved(a, p, o) \in ActionSet
    BY <2>1, <2>2 DEF Approved, ActionSet
  <2>4. /\ Approved(a, p, o).incident = actions[a].incident
        /\ Approved(a, p, o).type = actions[a].type
        /\ Approved(a, p, o).target = actions[a].target
        /\ Approved(a, p, o).proposedBy = actions[a].proposedBy
    BY <2>1 DEF Approved, ActionSet
  <2>5. Move(a, Approved(a, p, o))
    BY <1>3 DEF Approve
  <2>6. CallTypes'
    BY <2>1, <2>3, <2>4, <2>5, UpdateType
  <2> QED
    BY <1>3, <2>6 DEF TypeOK, CallTypes, Approve
<1>4. ASSUME NEW p \in Principals, ApproveOverBudget(a, p) PROVE TypeOK'
  <2>1. CallTypes'
    BY <1>4, StateOnlyType DEF ApproveOverBudget, Approvable
  <2> QED
    BY <1>4, <2>1 DEF TypeOK, CallTypes, ApproveOverBudget
<1>5. ASSUME Reject(a) PROVE TypeOK'
  <2>1. CallTypes'
    BY <1>5, StateOnlyType DEF Reject
  <2> QED
    BY <1>5, <2>1 DEF TypeOK, CallTypes, Reject
<1>6. ASSUME NEW k \in Keys, ExecuteLapsed(a, k) PROVE TypeOK'
  <2>1. CallTypes'
    BY <1>6, StateOnlyType DEF ExecuteLapsed, Executable
  <2> QED
    BY <1>6, <2>1 DEF TypeOK, CallTypes, ExecuteLapsed
<1>7. ASSUME NEW k \in Keys, ExecuteBegin(a, k) PROVE TypeOK'
  BY <1>7 DEF TypeOK, ExecuteBegin
<1>8. ASSUME NEW v \in BOOLEAN, Verify(a, v) PROVE TypeOK'
  <2>1. CallTypes'
    BY <1>8, StateOnlyType DEF Verify
  <2> QED
    BY <1>8, <2>1 DEF TypeOK, CallTypes, Verify
<1>9. ASSUME NEW e \in BOOLEAN, Rollback(a, e) PROVE TypeOK'
  <2>1. CallTypes'
    BY <1>9, StateOnlyType DEF Rollback
  <2> QED
    BY <1>9, <2>1 DEF TypeOK, CallTypes, Rollback
<1> QED
  BY <1>1, <1>2, <1>3, <1>4, <1>5, <1>6, <1>7, <1>8, <1>9 DEF Call

\* So does every step of the Execute call in flight.
LEMMA ExecuteStepType ==
  ASSUME TypeOK, exec # Idle => actions[exec.id].state # "Absent", ExecuteStep
  PROVE  TypeOK'
<1> USE DEF world, history, States, Return, Proceed
<1> DEFINE a == exec.id
<1>0. ASSUME exec.pc # "idle"
      PROVE  /\ a \in ActionIDs /\ exec.key \in Keys /\ exec.begin \in Nat
             /\ actions[a].state # "Absent" /\ actions[a] \in ActionSet
             /\ actions[a].target \in Targets
             /\ cluster[actions[a].target].uid \in Nat /\ cluster[actions[a].target].ver \in Nat
             /\ cluster[actions[a].target] \in [live : BOOLEAN, uid : Nat \ {0}, ver : Nat \ {0}]
  <2>1. exec # Idle
    BY <1>0 DEF Idle
  <2>2. /\ a \in ActionIDs /\ exec.key \in Keys /\ exec.begin \in Nat
    BY <2>1 DEF TypeOK
  <2>3. actions[a].state # "Absent" /\ actions[a] \in ActionSet /\ actions[a].target \in Targets
    BY <2>1, <2>2 DEF TypeOK
  <2> QED
    BY <2>2, <2>3 DEF TypeOK
<1>1. ASSUME NEW e \in BOOLEAN, NEW u \in BOOLEAN, ExecuteResolve(e, u) PROVE TypeOK'
  <2>0. exec.pc = "resolve"
    BY <1>1 DEF ExecuteResolve
  <2>1. CASE FailAudited(a)
    <3>1. CallTypes'
      BY <1>0, <2>0, <2>1, StateOnlyType DEF FailAudited
    <3> QED
      BY <1>0, <2>0, <1>1, <2>1, <3>1 DEF TypeOK, CallTypes, ExecuteResolve, FailAudited, Audit
  <2>2. CASE UNCHANGED <<actions, logged>> /\ Proceed("policy")
    BY <2>0, <1>1, <2>2 DEF TypeOK, ExecuteResolve, Idle
  <2>3. CASE Move(a, [actions[a] EXCEPT !.uid = ResolvedUID(actions[a].target, u)])
             /\ Proceed("policy") /\ UNCHANGED logged
    <3> DEFINE rec == [actions[a] EXCEPT !.uid = ResolvedUID(actions[a].target, u)]
    <3>1. rec \in ActionSet
      <4>1. ResolvedUID(actions[a].target, u) \in Nat
        BY <1>0, <2>0 DEF TypeOK, ResolvedUID
      <4> QED
        BY <1>0, <2>0, <4>1 DEF ActionSet
    <3>2. rec.incident = actions[a].incident /\ rec.type = actions[a].type
          /\ rec.target = actions[a].target /\ rec.proposedBy = actions[a].proposedBy
      BY <1>0, <2>0 DEF ActionSet
    <3>3. Move(a, rec)
      BY <2>3
    <3>4. CallTypes'
      BY <1>0, <2>0, <3>1, <3>2, <3>3, UpdateType
    <3>5. UNCHANGED logged /\ exec' = [exec EXCEPT !.pc = "policy"]
      BY <2>3
    <3>6. exec' \in [id : ActionIDs, key : Keys, begin : Nat,
                     pc : {"resolve", "policy", "snapshot", "do"}]
      BY <2>0, <3>5 DEF TypeOK, Idle
    <3> QED
      BY <1>1, <3>4, <3>5, <3>6 DEF TypeOK, CallTypes, ExecuteResolve
  <2> QED
    BY <1>0, <1>1, <2>1, <2>2, <2>3 DEF ExecuteResolve
<1>2. ASSUME NEW e \in BOOLEAN, ExecutePolicy(e) PROVE TypeOK'
  <2>0. exec.pc = "policy"
    BY <1>2 DEF ExecutePolicy
  <2>1. CASE FailAudited(a)
    <3>1. CallTypes'
      BY <1>0, <2>0, <2>1, StateOnlyType DEF FailAudited
    <3> QED
      BY <1>0, <2>0, <1>2, <2>1, <3>1 DEF TypeOK, CallTypes, ExecutePolicy, FailAudited, Audit
  <2>2. CASE ~FailAudited(a)
    BY <2>0, <1>2, <2>2 DEF TypeOK, ExecutePolicy, Idle
  <2> QED
    BY <2>1, <2>2
<1>3. ASSUME NEW e \in BOOLEAN, ExecuteSnapshot(e) PROVE TypeOK'
  <2>0. exec.pc = "snapshot"
    BY <1>3 DEF ExecuteSnapshot
  <2>1. ASSUME NEW s \in {"Failed", "Executing"}, Move(a, Snapshotted(a, s)) PROVE CallTypes'
    <3>1. Snapshotted(a, s) \in ActionSet
      BY <1>0, <2>0 DEF Snapshotted, ActionSet
    <3>2. /\ Snapshotted(a, s).incident = actions[a].incident
          /\ Snapshotted(a, s).type = actions[a].type
          /\ Snapshotted(a, s).target = actions[a].target
          /\ Snapshotted(a, s).proposedBy = actions[a].proposedBy
      BY <1>0, <2>0 DEF Snapshotted, ActionSet
    <3> QED
      BY <1>0, <2>0, <2>1, <3>1, <3>2, UpdateType
  <2>2. CASE UNCHANGED <<actions, logged>> /\ Return
    BY <1>3, <2>2 DEF TypeOK, ExecuteSnapshot
  <2>3. ASSUME NEW s \in {"Failed", "Executing"}, NEW l \in {"Failed", "Executing"},
               Move(a, Snapshotted(a, s)), Audit(a, l), Return \/ Proceed("do")
        PROVE  TypeOK'
    <3>1. CallTypes'
      BY <2>1, <2>3
    <3>2. logged' \in [ActionIDs -> States \cup {"Absent"}]
      BY <2>3 DEF TypeOK, Audit
    <3>3. exec' = Idle \/ exec' \in [id : ActionIDs, key : Keys, begin : Nat,
                                     pc : {"resolve", "policy", "snapshot", "do"}]
      BY <2>0, <2>3 DEF TypeOK, Idle
    <3> QED
      BY <1>3, <3>1, <3>2, <3>3 DEF TypeOK, CallTypes, ExecuteSnapshot
  <2> QED
    BY <1>3, <2>2, <2>3 DEF ExecuteSnapshot
<1>4. ASSUME NEW e \in BOOLEAN, NEW m \in BOOLEAN, ExecuteDo(e, m) PROVE TypeOK'
  <2> DEFINE s == IF e THEN "Failed" ELSE "Verifying"
             rec == [actions[a] EXCEPT !.state = s, !.executedAt = now]
             t == actions[a].target
  <2>0. exec.pc = "do"
    BY <1>4 DEF ExecuteDo
  <2>1. rec \in ActionSet
    BY <1>0, <2>0 DEF TypeOK, ActionSet
  <2>2. rec.incident = actions[a].incident /\ rec.type = actions[a].type
        /\ rec.target = actions[a].target /\ rec.proposedBy = actions[a].proposedBy
    BY <1>0, <2>0 DEF ActionSet
  <2>3. Move(a, rec)
    BY <1>4 DEF ExecuteDo
  <2>4. CallTypes'
    BY <1>0, <2>0, <2>1, <2>2, <2>3, UpdateType
  <2>5. cluster' \in [Targets -> [live : BOOLEAN, uid : Nat \ {0}, ver : Nat \ {0}]]
    <3>1. cluster' = [cluster EXCEPT ![t].ver = IF m THEN @ + 1 ELSE @]
      BY <1>4 DEF ExecuteDo
    <3> QED
      BY <1>0, <2>0, <3>1 DEF TypeOK
  <2>6. calls' \in [ActionIDs -> Nat] /\ mutatedUID' \in [ActionIDs -> Nat]
    BY <1>0, <2>0, <1>4 DEF TypeOK, ExecuteDo
  <2>7. idemX' \in [Keys -> ActionIDs \cup {None}] /\ exec' = Idle
        /\ logged' \in [ActionIDs -> States \cup {"Absent"}]
    BY <1>0, <2>0, <1>4 DEF TypeOK, ExecuteDo, Audit
  <2> QED
    BY <1>4, <2>4, <2>5, <2>6, <2>7 DEF TypeOK, CallTypes, ExecuteDo
<1> QED
  BY <1>1, <1>2, <1>3, <1>4 DEF ExecuteStep

\* And the sweep, the outside world, and a stuttering step.
LEMMA OtherStepType ==
  ASSUME TypeOK, ExpireDue \/ World \/ UNCHANGED vars
  PROVE  TypeOK'
<1> USE DEF world, history, guardState
<1>1. CASE ExpireDue
  <2>1. \A a \in ActionIDs : Lapsed(a) => actions[a].state # "Absent"
    BY DEF Lapsed
  <2>2. ASSUME NEW a \in ActionIDs
        PROVE  /\ actions'[a] \in ActionSet
               /\ actions'[a].state # "Absent" =>
                    /\ actions'[a].incident \in Incidents /\ actions'[a].type \in Types
                    /\ actions'[a].target \in Targets /\ actions'[a].proposedBy \in Principals
    <3>0. actions[a] \in ActionSet
      BY DEF TypeOK
    <3>1. CASE Lapsed(a)
      <4>1. actions'[a] = [actions[a] EXCEPT !.state = "Expired"]
        BY <1>1, <3>1 DEF ExpireDue
      <4>2. actions[a].incident \in Incidents /\ actions[a].type \in Types
            /\ actions[a].target \in Targets /\ actions[a].proposedBy \in Principals
        BY <2>1, <3>1 DEF TypeOK
      <4> QED
        BY <3>0, <4>1, <4>2 DEF ActionSet, States
    <3>2. CASE ~Lapsed(a)
      <4>1. actions'[a] = actions[a]
        BY <1>1, <3>2 DEF ExpireDue
      <4> QED
        BY <4>1 DEF TypeOK
    <3> QED
      BY <3>1, <3>2
  <2>3. CallTypes'
    BY <1>1, <2>2 DEF CallTypes, ExpireDue
  <2> QED
    BY <1>1, <2>3 DEF TypeOK, CallTypes, ExpireDue
<1>2. CASE World
  <2>1. CASE Tick
    BY <2>1 DEF TypeOK, Tick
  <2>2. ASSUME NEW t \in Targets, EditTarget(t) \/ ReplaceTarget(t) \/ DeleteTarget(t)
        PROVE  TypeOK'
    <3> DEFINE Obj == [live : BOOLEAN, uid : Nat \ {0}, ver : Nat \ {0}]
    <3>0. cluster \in [Targets -> Obj] /\ cluster[t] \in Obj
      BY DEF TypeOK
    <3>a. ASSUME EditTarget(t) PROVE cluster' \in [Targets -> Obj]
      BY <3>0, <3>a DEF EditTarget
    <3>b. ASSUME ReplaceTarget(t) PROVE cluster' \in [Targets -> Obj]
      <4> DEFINE o == [live |-> TRUE, uid |-> cluster[t].uid + 1, ver |-> cluster[t].ver + 1]
      <4>1. o \in Obj
        BY <3>0
      <4>2. cluster' = [cluster EXCEPT ![t] = o]
        BY <3>b DEF ReplaceTarget
      <4> QED
        BY <3>0, <4>1, <4>2
    <3>c. ASSUME DeleteTarget(t) PROVE cluster' \in [Targets -> Obj]
      BY <3>0, <3>c DEF DeleteTarget
    <3>1. cluster' \in [Targets -> Obj]
      BY <2>2, <3>a, <3>b, <3>c
    <3> QED
      BY <2>2, <3>1 DEF TypeOK, EditTarget, ReplaceTarget, DeleteTarget
  <2>3. ASSUME NEW p \in Policies, SetPolicy(p) PROVE TypeOK'
    <3>1. peakCap' \in Nat
      BY <2>3, CapType DEF TypeOK, SetPolicy
    <3> QED
      BY <2>3, <3>1 DEF TypeOK, SetPolicy
  <2> QED
    BY <1>2, <2>1, <2>2, <2>3 DEF World
<1>3. CASE UNCHANGED vars
  BY <1>3 DEF TypeOK, vars
<1> QED
  BY <1>1, <1>2, <1>3

(***************************************************************************)
(* The inductive invariant.                                                *)
(***************************************************************************)
\* Init establishes the inductive invariant.
LEMMA InitInductive == Init => Inductive
<1> SUFFICES ASSUME Init PROVE Inductive
  OBVIOUS
<1>1. \A a \in ActionIDs : Consistent(a) /\ FreshApproval(a)
  BY DEF Init, NoAction, Consistent, FreshApproval, AuditedStates
<1>2. CachedExecuteHappened
  BY DEF Init, CachedExecuteHappened
<1> QED
  BY <1>1, <1>2 DEF Init, Inductive, ExecutingOnlyInFlight, InFlightWasAuthorised, NoAction

\* What Consistent says of an action depends on that action alone.
LEMMA ConsistentFrame ==
  ASSUME NEW b \in ActionIDs, Consistent(b), actions'[b] = actions[b],
         calls'[b] = calls[b], logged'[b] = logged[b]
  PROVE  Consistent(b)'
BY DEF Consistent, AuditedStates

\* A step taken while no Execute is in flight that writes one action, audits
\* its new state and neither starts Executing nor makes a call.
LEMMA QuietStep ==
  ASSUME TypeOK, Inductive, NEW a \in ActionIDs, NEW rec, NEW s,
         exec = Idle, exec' = exec, calls' = calls, idemX' = idemX,
         Move(a, rec), Audit(a, s), rec.state # "Executing", now' = now,
         rec.state = "Approved" => rec.expiresAt = now + ApprovalTTL, Consistent(a)'
  PROVE  Inductive'
<1>0. actions'[a] = rec
  BY DEF TypeOK, Move
<1>1. \A b \in ActionIDs : Consistent(b)' /\ FreshApproval(b)'
  <2>1. ASSUME NEW b \in ActionIDs, b # a PROVE Consistent(b)' /\ FreshApproval(b)'
    <3>1. actions'[b] = actions[b] /\ logged'[b] = logged[b]
      BY <2>1 DEF TypeOK, Move, Audit
    <3> QED
      BY <3>1, ConsistentFrame DEF Inductive, FreshApproval
  <2>2. FreshApproval(a)'
    BY <1>0, GuardAssumption DEF TypeOK, FreshApproval
  <2> QED
    BY <2>1, <2>2
<1>2. ExecutingOnlyInFlight'
  BY DEF TypeOK, Move, Inductive, ExecutingOnlyInFlight, Idle
<1>3. CachedExecuteHappened'
  BY DEF Inductive, CachedExecuteHappened
<1> QED
  BY <1>1, <1>2, <1>3 DEF Inductive, InFlightWasAuthorised

\* Every API call preserves the inductive invariant.
LEMMA CallInductive ==
  ASSUME TypeOK, Inductive, NEW a \in ActionIDs, Call(a)
  PROVE  Inductive'
<1> USE DEF world, history, MutexFree
<1>0. Consistent(a) /\ actions[a] \in ActionSet
  BY DEF Inductive, TypeOK
<1>1. ASSUME NEW r \in Requests, NEW p \in Principals, NEW k \in Keys, NEW u \in BOOLEAN,
             Propose(a, r, p, k, u)
      PROVE  Inductive'
  <2> DEFINE rec == Proposal(r, p, u)
  <2>1. actions'[a] = rec /\ rec.state = "Proposed" /\ logged'[a] = "Proposed" /\ calls' = calls
    BY <1>1 DEF Propose, Proposal, Move, Audit, NoAction, TypeOK
  <2>2. calls[a] = 0
    BY <1>0, <1>1 DEF Propose, Consistent
  <2>3. Consistent(a)'
    BY <2>1, <2>2 DEF Consistent, AuditedStates
  <2>4. Move(a, rec) /\ Audit(a, "Proposed")
    BY <1>1 DEF Propose
  <2> QED
    BY <1>1, <2>1, <2>3, <2>4, QuietStep DEF Propose
<1>2. ASSUME ApproveLapsed(a) PROVE Inductive'
  <2> DEFINE rec == [actions[a] EXCEPT !.state = "Expired"]
  <2>1. actions'[a] = rec /\ rec.state = "Expired" /\ calls' = calls
    BY <1>0, <1>2 DEF ApproveLapsed, Move, TypeOK, ActionSet
  <2>2. calls[a] = 0
    BY <1>0, <1>2 DEF ApproveLapsed, Approvable, Consistent
  <2>3. Consistent(a)'
    BY <2>1, <2>2 DEF Consistent, AuditedStates
  <2>4. Move(a, rec) /\ Audit(a, "Expired")
    BY <1>2 DEF ApproveLapsed
  <2> QED
    BY <1>2, <2>1, <2>3, <2>4, QuietStep DEF ApproveLapsed, Approvable
<1>3. ASSUME NEW p \in Principals, NEW o \in BOOLEAN, Approve(a, p, o) PROVE Inductive'
  <2> DEFINE rec == Approved(a, p, o)
  <2>1. actions'[a] = rec /\ logged'[a] = "Approved" /\ calls' = calls
    BY <1>3 DEF Approve, Move, Audit, TypeOK
  <2>2. rec.state = "Approved" /\ rec.approvedBy = p /\ rec.proposedBy = actions[a].proposedBy
        /\ rec.expiresAt = now + ApprovalTTL
    BY <1>0 DEF Approved, ActionSet
  <2>3. calls[a] = 0 /\ p # actions[a].proposedBy /\ p # None
    BY <1>0, <1>3, GuardAssumption DEF Approve, Approvable, Separate, Consistent
  <2>4. Consistent(a)'
    BY <2>1, <2>2, <2>3 DEF Consistent, AuditedStates
  <2>5. Move(a, rec) /\ Audit(a, "Approved")
    BY <1>3 DEF Approve
  <2> QED
    BY <1>3, <2>1, <2>2, <2>4, <2>5, QuietStep DEF Approve, Approvable
<1>4. ASSUME NEW p \in Principals, ApproveOverBudget(a, p) PROVE Inductive'
  <2> DEFINE rec == [actions[a] EXCEPT !.state = "Rejected"]
  <2>1. actions'[a] = rec /\ rec.state = "Rejected" /\ logged'[a] = "Rejected" /\ calls' = calls
    BY <1>0, <1>4 DEF ApproveOverBudget, Move, Audit, TypeOK, ActionSet
  <2>2. calls[a] = 0
    BY <1>0, <1>4 DEF ApproveOverBudget, Approvable, Consistent
  <2>3. Consistent(a)'
    BY <2>1, <2>2 DEF Consistent, AuditedStates
  <2>4. Move(a, rec) /\ Audit(a, "Rejected")
    BY <1>4 DEF ApproveOverBudget
  <2> QED
    BY <1>4, <2>1, <2>3, <2>4, QuietStep DEF ApproveOverBudget, Approvable
<1>5. ASSUME Reject(a) PROVE Inductive'
  <2> DEFINE rec == [actions[a] EXCEPT !.state = "Rejected"]
  <2>1. actions'[a] = rec /\ rec.state = "Rejected" /\ logged'[a] = "Rejected" /\ calls' = calls
    BY <1>0, <1>5 DEF Reject, Move, Audit, TypeOK, ActionSet
  <2>2. calls[a] = 0
    BY <1>0, <1>5 DEF Reject, Consistent
  <2>3. Consistent(a)'
    BY <2>1, <2>2 DEF Consistent, AuditedStates
  <2>4. Move(a, rec) /\ Audit(a, "Rejected")
    BY <1>5 DEF Reject
  <2> QED
    BY <1>5, <2>1, <2>3, <2>4, QuietStep DEF Reject
<1>6. ASSUME NEW k \in Keys, ExecuteLapsed(a, k) PROVE Inductive'
  <2> DEFINE rec == [actions[a] EXCEPT !.state = "Expired"]
  <2>1. actions'[a] = rec /\ rec.state = "Expired" /\ calls' = calls
    BY <1>0, <1>6 DEF ExecuteLapsed, Move, TypeOK, ActionSet
  <2>2. calls[a] = 0
    BY <1>0, <1>6 DEF ExecuteLapsed, Executable, Consistent
  <2>3. Consistent(a)'
    BY <2>1, <2>2 DEF Consistent, AuditedStates
  <2>4. Move(a, rec) /\ Audit(a, "Expired")
    BY <1>6 DEF ExecuteLapsed
  <2> QED
    BY <1>6, <2>1, <2>3, <2>4, QuietStep DEF ExecuteLapsed, Executable
<1>7. ASSUME NEW k \in Keys, ExecuteBegin(a, k) PROVE Inductive'
  <2>1. UNCHANGED <<actions, calls, idemX, logged>> /\ actions[a].state = "Approved"
        /\ exec' = [id |-> a, key |-> k, begin |-> now, pc |-> "resolve"]
    BY <1>7 DEF ExecuteBegin, Executable
  <2>2. now < actions[a].expiresAt /\ actions[a].expiresAt <= now + ApprovalTTL
    BY <1>0, <1>7, <2>1 DEF ExecuteBegin, ApprovalLapsed, Inductive, FreshApproval, TypeOK, ActionSet
  <2>3. \A b \in ActionIDs : Consistent(b)' /\ FreshApproval(b)'
    BY <1>7, <2>1, ConsistentFrame DEF Inductive, FreshApproval, ExecuteBegin
  <2>4. ExecutingOnlyInFlight'
    BY <1>7, <2>1 DEF Inductive, ExecutingOnlyInFlight, ExecuteBegin, Executable, Idle
  <2>5. CachedExecuteHappened'
    BY <2>1 DEF Inductive, CachedExecuteHappened
  <2> QED
    BY <2>1, <2>2, <2>3, <2>4, <2>5 DEF Inductive, InFlightWasAuthorised
<1>8. ASSUME NEW v \in BOOLEAN, Verify(a, v) PROVE Inductive'
  <2> DEFINE s == IF v THEN "Succeeded" ELSE "Failed"
             rec == [actions[a] EXCEPT !.state = s]
  <2>1. actions'[a] = rec /\ rec.state = s /\ logged'[a] = s /\ calls' = calls
        /\ rec.snapVer = actions[a].snapVer /\ rec.approvedBy = actions[a].approvedBy
        /\ rec.proposedBy = actions[a].proposedBy
    BY <1>0, <1>8 DEF Verify, Move, Audit, TypeOK, ActionSet
  <2>2. calls[a] = 1
    BY <1>0, <1>8 DEF Verify, Consistent
  <2>3. Consistent(a)'
    BY <1>0, <2>1, <2>2 DEF Consistent, AuditedStates
  <2>4. Move(a, rec) /\ Audit(a, s)
    BY <1>8 DEF Verify
  <2> QED
    BY <1>8, <2>1, <2>3, <2>4, QuietStep DEF Verify
<1>9. ASSUME NEW e \in BOOLEAN, Rollback(a, e) PROVE Inductive'
  <2>1. PICK s \in {"Failed", "RolledBack"} :
          Move(a, [actions[a] EXCEPT !.state = s]) /\ Audit(a, s)
    BY <1>9 DEF Rollback
  <2> DEFINE rec == [actions[a] EXCEPT !.state = s]
  <2>2. actions'[a] = rec /\ rec.state = s /\ logged'[a] = s /\ calls' = calls
        /\ rec.snapVer = actions[a].snapVer /\ rec.approvedBy = actions[a].approvedBy
        /\ rec.proposedBy = actions[a].proposedBy
    BY <1>0, <1>9, <2>1 DEF Rollback, Move, Audit, TypeOK, ActionSet
  <2>3. Consistent(a)'
    BY <1>0, <2>2 DEF Consistent, AuditedStates
  <2> QED
    BY <1>9, <2>1, <2>2, <2>3, QuietStep DEF Rollback
<1> QED
  BY <1>1, <1>2, <1>3, <1>4, <1>5, <1>6, <1>7, <1>8, <1>9 DEF Call

\* A step of the Execute call in flight that writes its action, and returns
\* leaving it other than Executing, or goes on to the next call.
LEMMA FlightStep ==
  ASSUME TypeOK, Inductive, NEW a \in ActionIDs, NEW rec, exec # Idle, a = exec.id,
         Move(a, rec), \A b \in ActionIDs \ {a} : logged'[b] = logged[b] /\ calls'[b] = calls[b],
         now' = now, Consistent(a)', CachedExecuteHappened',
         rec.expiresAt = actions[a].expiresAt, rec.state = "Approved" => rec.state = actions[a].state,
         \/ exec' = Idle /\ rec.state # "Executing"
         \/ /\ exec' # Idle /\ exec'.id = a /\ exec'.begin = exec.begin
            /\ rec.state = (IF exec'.pc = "do" THEN "Executing" ELSE "Approved")
  PROVE  Inductive'
<1>0. actions'[a] = rec
  BY DEF TypeOK, Move
<1>1. \A b \in ActionIDs : Consistent(b)' /\ FreshApproval(b)'
  <2>1. ASSUME NEW b \in ActionIDs, b # a PROVE Consistent(b)' /\ FreshApproval(b)'
    <3>1. actions'[b] = actions[b] /\ logged'[b] = logged[b] /\ calls'[b] = calls[b]
      BY <2>1 DEF TypeOK, Move
    <3> QED
      BY <3>1, ConsistentFrame DEF Inductive, FreshApproval
  <2>2. FreshApproval(a)'
    BY <1>0 DEF Inductive, FreshApproval
  <2> QED
    BY <2>1, <2>2
<1>2. \A b \in ActionIDs : b # a => actions'[b].state # "Executing"
  BY DEF TypeOK, Move, Inductive, ExecutingOnlyInFlight
<1>3. ExecutingOnlyInFlight'
  BY <1>0, <1>2 DEF ExecutingOnlyInFlight
<1>4. InFlightWasAuthorised'
  BY <1>0 DEF Inductive, InFlightWasAuthorised
<1> QED
  BY <1>0, <1>1, <1>3, <1>4 DEF Inductive

\* Only a call in flight takes a step of Execute.
LEMMA StepInFlight == ExecuteStep => exec # Idle
<1> SUFFICES ASSUME exec = Idle, ExecuteStep PROVE FALSE
  OBVIOUS
<1>1. exec.pc \notin {"resolve", "policy", "snapshot", "do"}
  BY DEF Idle
<1>2. ~(\E e, u \in BOOLEAN : ExecuteResolve(e, u)) /\ ~(\E e \in BOOLEAN : ExecutePolicy(e))
  BY <1>1 DEF ExecuteResolve, ExecutePolicy
<1>3. ~(\E e \in BOOLEAN : ExecuteSnapshot(e)) /\ ~(\E e, m \in BOOLEAN : ExecuteDo(e, m))
  BY <1>1 DEF ExecuteSnapshot, ExecuteDo
<1> QED
  BY <1>2, <1>3 DEF ExecuteStep

\* Every step of the call in flight preserves the invariant.
LEMMA ExecuteStepInductive ==
  ASSUME TypeOK, Inductive, ExecuteStep
  PROVE  Inductive'
<1> USE DEF world, history, Return, Proceed
<1>i. exec # Idle
  BY StepInFlight
<1>p. PICK a \in ActionIDs : a = exec.id
  BY <1>i DEF TypeOK
<1>0. /\ exec # Idle /\ a = exec.id /\ exec.key \in Keys /\ actions[a] \in ActionSet
      /\ exec \in [id : ActionIDs, key : Keys, begin : Nat,
                   pc : {"resolve", "policy", "snapshot", "do"}]
      /\ Consistent(a)
  BY <1>i, <1>p DEF TypeOK, Inductive
<1>a. actions[a].state = (IF exec.pc = "do" THEN "Executing" ELSE "Approved")
  BY <1>0 DEF Inductive
<1>b. calls[a] = 0
  BY <1>0, <1>a DEF Consistent
<1>1. ASSUME FailAudited(a), UNCHANGED <<calls, idemX, now>> PROVE Inductive'
  <2> DEFINE rec == [actions[a] EXCEPT !.state = "Failed"]
  <2>1. actions'[a] = rec /\ rec.state = "Failed" /\ rec.expiresAt = actions[a].expiresAt
    BY <1>0, <1>1 DEF FailAudited, Move, TypeOK, ActionSet
  <2>2. Consistent(a)'
    BY <1>0, <1>1, <1>b, <2>1 DEF Consistent, AuditedStates
  <2>3. CachedExecuteHappened'
    BY <1>0, <1>1 DEF Inductive, CachedExecuteHappened
  <2>4. \A b \in ActionIDs \ {a} : logged'[b] = logged[b] /\ calls'[b] = calls[b]
    BY <1>0, <1>1 DEF FailAudited, Audit, TypeOK
  <2>5. Move(a, rec) /\ exec' = Idle
    BY <1>0, <1>1 DEF FailAudited
  <2> QED
    BY <1>0, <1>1, <2>1, <2>2, <2>3, <2>4, <2>5, FlightStep
<1>c. ASSUME NEW pc \in {"policy", "snapshot"}, exec.pc # "do",
             UNCHANGED <<actions, logged, calls, now, idemX>>, exec' = [exec EXCEPT !.pc = pc]
      PROVE  Inductive'
  <2>1. exec' # Idle /\ exec'.id = a /\ exec'.begin = exec.begin /\ exec'.pc = pc
    BY <1>0, <1>c DEF Idle
  <2>2. \A b \in ActionIDs : Consistent(b)' /\ FreshApproval(b)'
    BY <1>0, <1>c, ConsistentFrame DEF Inductive, FreshApproval
  <2>3. CachedExecuteHappened' /\ ExecutingOnlyInFlight'
    BY <1>0, <1>a, <1>c DEF Inductive, CachedExecuteHappened, ExecutingOnlyInFlight
  <2> QED
    BY <1>0, <1>a, <1>c, <2>1, <2>2, <2>3 DEF Inductive, InFlightWasAuthorised
<1>2. ASSUME NEW e \in BOOLEAN, NEW u \in BOOLEAN, ExecuteResolve(e, u) PROVE Inductive'
  <2>1. CASE FailAudited(a)
    BY <1>0, <1>1, <1>2, <2>1 DEF ExecuteResolve
  <2>2. CASE UNCHANGED <<actions, logged>> /\ Proceed("policy")
    BY <1>0, <1>2, <1>c, <2>2 DEF ExecuteResolve
  <2>3. CASE Move(a, [actions[a] EXCEPT !.uid = ResolvedUID(actions[a].target, u)])
             /\ Proceed("policy") /\ UNCHANGED logged
    <3> DEFINE rec == [actions[a] EXCEPT !.uid = ResolvedUID(actions[a].target, u)]
    <3>1. /\ Move(a, rec) /\ logged' = logged /\ calls' = calls /\ now' = now /\ idemX' = idemX
          /\ exec' = [exec EXCEPT !.pc = "policy"] /\ exec.pc = "resolve"
      BY <1>0, <1>2, <2>3 DEF ExecuteResolve
    <3>2. /\ actions'[a] = rec /\ rec.state = "Approved" /\ rec.expiresAt = actions[a].expiresAt
          /\ rec.approvedBy = actions[a].approvedBy /\ rec.proposedBy = actions[a].proposedBy
      BY <1>0, <1>a, <3>1 DEF Move, TypeOK, ActionSet
    <3>3. Consistent(a)'
      BY <1>0, <1>a, <1>b, <3>1, <3>2 DEF Consistent, AuditedStates
    <3>4. CachedExecuteHappened'
      BY <1>0, <3>1 DEF Inductive, CachedExecuteHappened
    <3>5. exec' # Idle /\ exec'.id = a /\ exec'.begin = exec.begin /\ exec'.pc = "policy"
      BY <1>0, <3>1 DEF Idle
    <3> QED
      BY <1>0, <1>a, <3>1, <3>2, <3>3, <3>4, <3>5, FlightStep
  <2> QED
    BY <1>0, <1>2, <2>1, <2>2, <2>3 DEF ExecuteResolve
<1>3. ASSUME NEW e \in BOOLEAN, ExecutePolicy(e) PROVE Inductive'
  <2>1. CASE FailAudited(a)
    BY <1>0, <1>1, <1>3, <2>1 DEF ExecutePolicy
  <2>2. CASE UNCHANGED <<actions, logged>> /\ Proceed("snapshot")
    BY <1>0, <1>3, <1>c, <2>2 DEF ExecutePolicy
  <2> QED
    BY <1>0, <1>3, <2>1, <2>2 DEF ExecutePolicy
<1>4. ASSUME NEW e \in BOOLEAN, ExecuteSnapshot(e) PROVE Inductive'
  <2>1. CASE UNCHANGED <<actions, logged>> /\ Return
    <3>1. \A b \in ActionIDs : Consistent(b)' /\ FreshApproval(b)'
      BY <1>0, <1>4, <2>1, ConsistentFrame DEF ExecuteSnapshot, Inductive, FreshApproval
    <3>2. CachedExecuteHappened' /\ ExecutingOnlyInFlight'
      BY <1>0, <1>4, <2>1 DEF ExecuteSnapshot, Inductive, CachedExecuteHappened, ExecutingOnlyInFlight
    <3> QED
      BY <1>0, <2>1, <3>1, <3>2 DEF Inductive, InFlightWasAuthorised
  <2>2. ASSUME NEW s \in {"Failed", "Executing"}, NEW l \in {"Failed", "Executing"},
               Move(a, Snapshotted(a, s)), Audit(a, l),
               \/ s = "Failed" /\ Return
               \/ s = "Executing" /\ l = s /\ Proceed("do")
        PROVE  Inductive'
    <3> DEFINE rec == Snapshotted(a, s)
    <3>1. cluster[actions[a].target].ver # 0
      BY <1>0, <1>a, <1>4 DEF TypeOK, ExecuteSnapshot
    <3>2. /\ actions'[a] = rec /\ rec.state = s /\ rec.expiresAt = actions[a].expiresAt
          /\ rec.approvedBy = actions[a].approvedBy /\ rec.proposedBy = actions[a].proposedBy
          /\ "snapshotter" \in Wired => rec.snapVer # 0
      BY <1>0, <2>2, <3>1 DEF Move, TypeOK, ActionSet, Snapshotted
    <3>3. calls' = calls /\ now' = now /\ idemX' = idemX /\ exec.pc = "snapshot"
      BY <1>0, <1>4 DEF ExecuteSnapshot
    <3>4. Consistent(a)'
      BY <1>0, <1>a, <1>b, <2>2, <3>2, <3>3 DEF Consistent, AuditedStates, Audit, TypeOK
    <3>5. CachedExecuteHappened'
      BY <1>0, <3>3 DEF Inductive, CachedExecuteHappened
    <3>6. \A b \in ActionIDs \ {a} : logged'[b] = logged[b] /\ calls'[b] = calls[b]
      BY <1>0, <2>2, <3>3 DEF Audit, TypeOK
    <3>7. \/ exec' = Idle /\ rec.state # "Executing"
          \/ /\ exec' # Idle /\ exec'.id = a /\ exec'.begin = exec.begin
             /\ rec.state = "Executing" /\ exec'.pc = "do"
      BY <1>0, <2>2, <3>2 DEF Idle
    <3> QED
      BY <1>0, <2>2, <3>2, <3>3, <3>4, <3>5, <3>6, <3>7, FlightStep
  <2> QED
    BY <1>0, <1>4, <2>1, <2>2 DEF ExecuteSnapshot
<1>5. ASSUME NEW e \in BOOLEAN, NEW m \in BOOLEAN, ExecuteDo(e, m) PROVE Inductive'
  <2> DEFINE s == IF e THEN "Failed" ELSE "Verifying"
             rec == [actions[a] EXCEPT !.state = s, !.executedAt = now]
  <2>1. /\ Move(a, rec) /\ Audit(a, s) /\ exec' = Idle /\ now' = now /\ exec.pc = "do"
        /\ calls' = [calls EXCEPT ![a] = @ + 1] /\ idemX' = [idemX EXCEPT ![exec.key] = a]
    BY <1>0, <1>5 DEF ExecuteDo
  <2>2. /\ actions'[a] = rec /\ rec.state = s /\ rec.expiresAt = actions[a].expiresAt
        /\ rec.approvedBy = actions[a].approvedBy /\ rec.proposedBy = actions[a].proposedBy
        /\ rec.snapVer = actions[a].snapVer
    BY <1>0, <2>1 DEF Move, TypeOK, ActionSet
  <2>3. calls'[a] = 1 /\ logged'[a] = s
    BY <1>0, <1>b, <2>1 DEF TypeOK, Audit
  <2>4. Consistent(a)'
    BY <1>0, <1>a, <2>1, <2>2, <2>3 DEF Consistent, AuditedStates
  <2>5. \A b \in ActionIDs \ {a} : logged'[b] = logged[b] /\ calls'[b] = calls[b]
    BY <1>0, <2>1 DEF Audit, TypeOK
  <2>6. CachedExecuteHappened'
    <3> SUFFICES ASSUME NEW k \in Keys, idemX'[k] # None PROVE calls'[idemX'[k]] = 1
      BY DEF CachedExecuteHappened
    <3>1. CASE k = exec.key
      BY <1>0, <2>1, <2>3, <3>1 DEF TypeOK
    <3>2. CASE k # exec.key
      <4>1. idemX'[k] = idemX[k] /\ idemX[k] \in ActionIDs /\ calls[idemX[k]] = 1
        BY <1>0, <2>1, <3>2 DEF TypeOK, Inductive, CachedExecuteHappened
      <4>2. idemX[k] # a
        BY <1>0, <1>b, <4>1
      <4> QED
        BY <1>0, <2>5, <4>1, <4>2
    <3> QED
      BY <1>0, <3>1, <3>2
  <2>7. rec.state # "Executing" /\ rec.state # "Approved" /\ rec.expiresAt = actions[a].expiresAt
    BY <2>2
  <2>8. Move(a, rec) /\ exec' = Idle /\ now' = now
    BY <2>1
  <2> HIDE DEF rec
  <2> QED
    BY <1>0, <2>4, <2>5, <2>6, <2>7, <2>8, FlightStep
<1> QED
  BY <1>2, <1>3, <1>4, <1>5 DEF ExecuteStep

\* The sweep and the outside world preserve the invariant.
LEMMA OtherStepInductive ==
  ASSUME TypeOK, TypeOK', Inductive, ExpireDue \/ World \/ UNCHANGED vars
  PROVE  Inductive'
<1> USE DEF world, history, guardState
<1>1. CASE ExpireDue
  <2>1. /\ exec = Idle /\ UNCHANGED <<exec, calls, logged, idemX, now>>
        /\ \A a \in ActionIDs : actions'[a] = IF Lapsed(a) THEN [actions[a] EXCEPT !.state = "Expired"]
                                               ELSE actions[a]
    BY <1>1 DEF ExpireDue, MutexFree
  <2>2. ASSUME NEW a \in ActionIDs PROVE Consistent(a)' /\ FreshApproval(a)'
                                         /\ actions'[a].state # "Executing"
    <3>0. Consistent(a) /\ FreshApproval(a) /\ actions[a] \in ActionSet /\ actions[a].state # "Executing"
      BY <2>1 DEF Inductive, TypeOK, ExecutingOnlyInFlight, Idle
    <3>1. CASE Lapsed(a)
      <4>1. actions'[a].state = "Expired" /\ calls[a] = 0
        BY <2>1, <3>0, <3>1 DEF Lapsed, Consistent, ActionSet
      <4> QED
        BY <2>1, <4>1 DEF Consistent, FreshApproval, AuditedStates
    <3>2. CASE ~Lapsed(a)
      BY <2>1, <3>0, <3>2, ConsistentFrame DEF FreshApproval
    <3> QED
      BY <3>1, <3>2
  <2>3. CachedExecuteHappened'
    BY <2>1 DEF Inductive, CachedExecuteHappened
  <2> QED
    BY <2>1, <2>2, <2>3 DEF Inductive, ExecutingOnlyInFlight, InFlightWasAuthorised
<1>2. CASE World \/ UNCHANGED vars
  <2>1. UNCHANGED guardState /\ now <= now' /\ now' \in Nat
    BY <1>2 DEF World, Tick, EditTarget, ReplaceTarget, DeleteTarget, SetPolicy, vars, TypeOK
  <2>2. ASSUME NEW a \in ActionIDs PROVE Consistent(a)' /\ FreshApproval(a)'
    <3>1. Consistent(a) /\ FreshApproval(a) /\ actions[a].expiresAt \in Nat
      BY DEF Inductive, TypeOK, ActionSet
    <3> QED
      BY <2>1, <3>1, ConsistentFrame, GuardAssumption DEF FreshApproval, TypeOK
  <2> QED
    BY <2>1, <2>2 DEF Inductive, ExecutingOnlyInFlight, InFlightWasAuthorised, CachedExecuteHappened
<1> QED
  BY <1>1, <1>2

(***************************************************************************)
(* The theorems.                                                           *)
(***************************************************************************)
\* Type correctness and the inductive invariant, together: the types of the
\* call in flight need the invariant, and the invariant needs the types.
THEOREM InductiveInvariant == Spec => [](TypeOK /\ Inductive)
<1>1. Init => TypeOK /\ Inductive
  BY InitType, InitInductive
<1>2. TypeOK /\ Inductive /\ [Next]_vars => TypeOK' /\ Inductive'
  <2> SUFFICES ASSUME TypeOK, Inductive, [Next]_vars PROVE TypeOK' /\ Inductive'
    OBVIOUS
  <2>1. ASSUME NEW a \in ActionIDs, Call(a) PROVE TypeOK' /\ Inductive'
    BY <2>1, CallType, CallInductive
  <2>2. CASE ExecuteStep
    <3>1. exec # Idle => actions[exec.id].state # "Absent"
      BY DEF Inductive
    <3> QED
      BY <2>2, <3>1, ExecuteStepType, ExecuteStepInductive
  <2>3. CASE ExpireDue \/ World \/ UNCHANGED vars
    BY <2>3, OtherStepType, OtherStepInductive
  <2> QED
    BY <2>1, <2>2, <2>3 DEF Next
<1> QED
  BY <1>1, <1>2, PTL DEF Spec

\* Every variable keeps its type for ever.
THEOREM TypeCorrect == Spec => []TypeOK
BY InductiveInvariant, PTL

\* Approve: nothing is executed on its proposer's own approval.
THEOREM DutySeparated == Spec => []SeparationOfDuty
<1>1. TypeOK /\ Inductive => SeparationOfDuty
  BY DEF TypeOK, Inductive, Consistent, SeparationOfDuty
<1> QED
  BY <1>1, InductiveInvariant, PTL

\* Execute: at most one executor call per action, over every retry, key,
\* crash of the target and interleaving of the other methods.
THEOREM AtMostOnce == Spec => []ExecutedAtMostOnce
<1>1. Inductive => ExecutedAtMostOnce
  BY DEF Inductive, Consistent, ExecutedAtMostOnce
<1> QED
  BY <1>1, InductiveInvariant, PTL

\* Execute: no action is left in Executing once the call has returned, and the
\* call in flight runs under an approval that was live when it began.
THEOREM FlightSafe == Spec => [](ExecutingOnlyInFlight /\ InFlightWasAuthorised)
<1>1. Inductive => ExecutingOnlyInFlight /\ InFlightWasAuthorised
  BY DEF Inductive
<1> QED
  BY <1>1, InductiveInvariant, PTL

\* Execute: where a snapshotter is wired, every executor call was preceded by a
\* snapshot of its target.
THEOREM SnapshotFirst == Spec => []SnapshotBeforeMutation
<1>1. TypeOK /\ Inductive => SnapshotBeforeMutation
  BY DEF TypeOK, Inductive, Consistent, SnapshotBeforeMutation
<1> QED
  BY <1>1, InductiveInvariant, PTL

\* The execute endpoint's idempotency cache never answers for a call that was
\* not made.
THEOREM CacheHonest == Spec => []CachedExecuteHappened
<1>1. Inductive => CachedExecuteHappened
  BY DEF Inductive
<1> QED
  BY <1>1, InductiveInvariant, PTL

\* The last audit row of an action agrees with its state in every state that
\* authorises, records or undoes a mutation.
THEOREM AuditTrail == Spec => []AuditAgrees
<1>1. Inductive => AuditAgrees
  BY DEF Inductive, Consistent, AuditAgrees
<1> QED
  BY <1>1, InductiveInvariant, PTL

(***************************************************************************)
(* Refinement.                                                             *)
(***************************************************************************)
phases == [a \in ActionIDs |-> Phase(a)]
GateNext == Gate!Next \/ UNCHANGED phases

\* The phase of an action depends on its state and its call count alone.
LEMMA PhaseFrame ==
  ASSUME NEW b, actions'[b].state = actions[b].state, calls'[b] = calls[b]
  PROVE  Phase(b)' = Phase(b)
BY DEF Phase

\* A step of the guard on one action is a step of the gate.
LEMMA GateStep ==
  ASSUME NEW a \in ActionIDs,
         \A b \in ActionIDs : b # a => Phase(b)' = Phase(b),
         \/ Phase(a)' = Phase(a)
         \/ Phase(a) = "absent" /\ Phase(a)' = "pending"
         \/ Phase(a) = "pending" /\ Phase(a)' = "authorised"
         \/ Phase(a) = "authorised" /\ Phase(a)' = "attempted"
         \/ Phase(a) = "attempted" /\ Phase(a)' = "settled"
         \/ Phase(a) \in {"pending", "authorised"} /\ Phase(a)' = "closed"
  PROVE  GateNext
<1>1. CASE Phase(a)' = Phase(a)
  BY <1>1 DEF GateNext, phases
<1>2. phases' = [phases EXCEPT ![a] = Phase(a)']
  BY DEF phases
<1>3. phases[a] = Phase(a)
  BY DEF phases
<1>4. CASE Phase(a) = "absent" /\ Phase(a)' = "pending"
  <2>1. Gate!Request(a)
    BY <1>2, <1>3, <1>4 DEF Gate!Request, Gate!Advance, phases
  <2> QED
    BY <2>1 DEF GateNext, Gate!Next
<1>5. CASE Phase(a) = "pending" /\ Phase(a)' = "authorised"
  <2>1. Gate!Authorise(a)
    BY <1>2, <1>3, <1>5 DEF Gate!Authorise, Gate!Advance, phases
  <2> QED
    BY <2>1 DEF GateNext, Gate!Next
<1>6. CASE Phase(a) = "authorised" /\ Phase(a)' = "attempted"
  <2>1. Gate!Attempt(a)
    BY <1>2, <1>3, <1>6 DEF Gate!Attempt, Gate!Advance, phases
  <2> QED
    BY <2>1 DEF GateNext, Gate!Next
<1>7. CASE Phase(a) = "attempted" /\ Phase(a)' = "settled"
  <2>1. Gate!Settle(a)
    BY <1>2, <1>3, <1>7 DEF Gate!Settle, Gate!Advance, phases
  <2> QED
    BY <2>1 DEF GateNext, Gate!Next
<1>8. CASE Phase(a) \in {"pending", "authorised"} /\ Phase(a)' = "closed"
  <2>1. phases' = [b \in ActionIDs |-> IF b \in {a} THEN "closed" ELSE phases[b]]
    BY <1>2, <1>8 DEF phases
  <2>2. Gate!Close({a})
    BY <1>3, <1>8, <2>1 DEF Gate!Close, phases
  <2> QED
    BY <2>2 DEF GateNext, Gate!Next
<1> QED
  BY <1>1, <1>4, <1>5, <1>6, <1>7, <1>8

\* The API calls: each changes the state of one action and no call count.
LEMMA CallGate ==
  ASSUME TypeOK, Inductive, NEW a \in ActionIDs, Call(a)
  PROVE  GateNext
<1> USE DEF world, history
<1>1. calls' = calls
  BY DEF Call, Propose, ApproveLapsed, Approve, ApproveOverBudget, Reject, ExecuteLapsed,
         ExecuteBegin, Verify, Rollback
<1>2. \A b \in ActionIDs : b # a => actions'[b] = actions[b]
  BY DEF Call, Propose, ApproveLapsed, Approve, ApproveOverBudget, Reject, ExecuteLapsed,
         ExecuteBegin, Verify, Rollback, Move, TypeOK
<1>3. actions[a] \in ActionSet /\ Consistent(a)
  BY DEF TypeOK, Inductive
<1>4. LET s == actions[a].state  t == actions'[a].state IN
      \/ t = s
      \/ s = "Absent" /\ t = "Proposed"
      \/ s = "Proposed" /\ t \in {"Approved", "Rejected", "Expired"}
      \/ s = "Approved" /\ t \in {"Rejected", "Expired"}
      \/ s = "Verifying" /\ t \in {"Succeeded", "Failed", "RolledBack"}
      \/ s = "Failed" /\ t = "RolledBack"
  <2>1. ASSUME NEW s \in States, Move(a, [actions[a] EXCEPT !.state = s]) PROVE actions'[a].state = s
    BY <1>3, <2>1 DEF Move, TypeOK, ActionSet
  <2>2. ASSUME NEW r \in Requests, NEW p \in Principals, NEW k \in Keys, NEW u \in BOOLEAN,
             Propose(a, r, p, k, u)
        PROVE  actions[a].state = "Absent" /\ actions'[a].state = "Proposed"
    BY <2>2 DEF Propose, Proposal, Move, NoAction, TypeOK
  <2>3. ASSUME NEW p \in Principals, NEW o \in BOOLEAN, Approve(a, p, o)
        PROVE  actions[a].state = "Proposed" /\ actions'[a].state = "Approved"
    BY <1>3, <2>3 DEF Approve, Approvable, Approved, Move, TypeOK, ActionSet
  <2>4. ASSUME NEW k \in Keys, ExecuteLapsed(a, k) \/ ExecuteBegin(a, k)
        PROVE  actions[a].state = "Approved" /\ actions'[a].state \in {"Approved", "Expired"}
    BY <2>1, <2>4 DEF ExecuteLapsed, ExecuteBegin, Executable, States
  <2>5. ASSUME ApproveLapsed(a) \/ Reject(a) \/ (\E p \in Principals : ApproveOverBudget(a, p))
        PROVE  /\ actions[a].state \in {"Proposed", "Approved"}
               /\ actions'[a].state \in {"Rejected", "Expired"}
    BY <2>1, <2>5 DEF ApproveLapsed, Reject, ApproveOverBudget, Approvable, States
  <2>6. ASSUME NEW v \in BOOLEAN, Verify(a, v)
        PROVE  actions[a].state = "Verifying" /\ actions'[a].state \in {"Succeeded", "Failed"}
    BY <2>1, <2>6 DEF Verify, States
  <2>7. ASSUME NEW e \in BOOLEAN, Rollback(a, e)
        PROVE  /\ actions[a].state \in {"Verifying", "Failed"}
               /\ actions'[a].state \in {"Failed", "RolledBack"}
    BY <2>1, <2>7 DEF Rollback, States
  <2> QED
    BY <2>2, <2>3, <2>4, <2>5, <2>6, <2>7 DEF Call
<1>5. \A b \in ActionIDs : b # a => Phase(b)' = Phase(b)
  BY <1>1, <1>2, PhaseFrame
<1>6. \/ Phase(a)' = Phase(a)
      \/ Phase(a) = "absent" /\ Phase(a)' = "pending"
      \/ Phase(a) = "pending" /\ Phase(a)' = "authorised"
      \/ Phase(a) = "attempted" /\ Phase(a)' = "settled"
      \/ Phase(a) \in {"pending", "authorised"} /\ Phase(a)' = "closed"
  BY <1>1, <1>3, <1>4 DEF Phase, Consistent, TypeOK
<1> QED
  BY <1>5, <1>6, GateStep

\* The steps of the call in flight: the action stays authorised, is closed, or
\* is attempted by the executor call.
LEMMA ExecuteStepGate ==
  ASSUME TypeOK, TypeOK', Inductive, Inductive', ExecuteStep
  PROVE  GateNext
<1> USE DEF world, history
<1>1. PICK a \in ActionIDs : a = exec.id /\ exec # Idle
  BY StepInFlight DEF TypeOK
<1>2. actions[a].state \in {"Approved", "Executing"} /\ calls[a] = 0 /\ Consistent(a) /\ Consistent(a)'
  BY <1>1 DEF Inductive, Consistent
<1>3. \A b \in ActionIDs : b # a => actions'[b] = actions[b] /\ calls'[b] = calls[b]
  <2>1. actions' = actions \/ \E rec : Move(a, rec)
    BY <1>1 DEF ExecuteStep, ExecuteResolve, ExecutePolicy, ExecuteSnapshot, ExecuteDo, FailAudited
  <2>2. calls' = calls \/ calls' = [calls EXCEPT ![a] = @ + 1]
    BY <1>1 DEF ExecuteStep, ExecuteResolve, ExecutePolicy, ExecuteSnapshot, ExecuteDo
  <2> QED
    BY <2>1, <2>2 DEF Move, TypeOK
<1>4. \/ calls'[a] = 0 /\ actions'[a].state \in {"Approved", "Executing", "Failed"}
      \/ calls'[a] = 1 /\ actions'[a].state \in {"Failed", "Verifying"}
  <2> USE <1>1, <1>2
  <2>0. actions[a] \in ActionSet /\ \A rec : Move(a, rec) => actions'[a] = rec
    BY DEF TypeOK, Move
  <2>1. ASSUME NEW e \in BOOLEAN, NEW u \in BOOLEAN, ExecuteResolve(e, u) \/ ExecutePolicy(e)
        PROVE  calls' = calls /\ actions'[a].state \in {"Approved", "Executing", "Failed"}
    BY <2>0, <2>1 DEF ExecuteResolve, ExecutePolicy, FailAudited, ActionSet
  <2>2. ASSUME NEW e \in BOOLEAN, ExecuteSnapshot(e)
        PROVE  calls' = calls /\ actions'[a].state \in {"Approved", "Executing", "Failed"}
    BY <2>0, <2>2 DEF ExecuteSnapshot, Snapshotted, ActionSet
  <2>3. ASSUME NEW e \in BOOLEAN, NEW m \in BOOLEAN, ExecuteDo(e, m)
        PROVE  calls'[a] = 1 /\ actions'[a].state \in {"Failed", "Verifying"}
    <3> DEFINE s == IF e THEN "Failed" ELSE "Verifying"
    <3>1. Move(a, [actions[a] EXCEPT !.state = s, !.executedAt = now])
          /\ calls' = [calls EXCEPT ![a] = @ + 1]
      BY <2>3 DEF ExecuteDo
    <3>2. calls'[a] = 1
      BY <3>1 DEF TypeOK
    <3>3. actions'[a].state = s
      BY <2>0, <3>1 DEF ActionSet
    <3> QED
      BY <3>2, <3>3
  <2> QED
    BY <2>1, <2>2, <2>3 DEF ExecuteStep
<1>5. \A b \in ActionIDs : b # a => Phase(b)' = Phase(b)
  BY <1>3, PhaseFrame
<1>6. Phase(a) = "authorised" /\ Phase(a)' \in {"authorised", "closed", "attempted"}
  BY <1>2, <1>4 DEF Phase
<1> QED
  BY <1>5, <1>6, GateStep

\* The sweep closes every lapsed action at once.
LEMMA ExpireGate ==
  ASSUME TypeOK, Inductive, ExpireDue
  PROVE  GateNext
<1> DEFINE S == {a \in ActionIDs : Lapsed(a)}
<1>1. ASSUME NEW a \in ActionIDs
      PROVE  /\ a \in S => phases[a] \in {"pending", "authorised"} /\ phases'[a] = "closed"
             /\ a \notin S => phases'[a] = phases[a]
  <2>1. Consistent(a) /\ actions[a] \in ActionSet /\ calls' = calls
        /\ actions'[a] = IF Lapsed(a) THEN [actions[a] EXCEPT !.state = "Expired"] ELSE actions[a]
    BY DEF Inductive, TypeOK, ExpireDue, history
  <2>2. CASE a \in S
    <3>1. actions[a].state \in {"Proposed", "Approved"} /\ calls[a] = 0 /\ actions'[a].state = "Expired"
      BY <2>1, <2>2 DEF Lapsed, Consistent, ActionSet
    <3> QED
      <4>1. Phase(a) \in {"pending", "authorised"}
        BY <3>1 DEF Phase
      <4>2. Phase(a)' = "closed"
        BY <2>1, <3>1 DEF Phase
      <4>3. phases[a] = Phase(a) /\ phases'[a] = Phase(a)'
        BY DEF phases
      <4> QED
        BY <2>2, <4>1, <4>2, <4>3
  <2>3. CASE a \notin S
    BY <2>1, <2>3, PhaseFrame DEF phases
  <2> QED
    BY <2>2, <2>3
<1>2. phases' = [a \in ActionIDs |-> IF a \in S THEN "closed" ELSE phases[a]]
  BY <1>1 DEF phases
<1>3. Gate!Close(S)
  BY <1>1, <1>2 DEF Gate!Close, phases
<1>4. S \in SUBSET ActionIDs
  OBVIOUS
<1> QED
  BY <1>3, <1>4 DEF GateNext, Gate!Next

\* The guard implements the gate: an action is authorised before it is
\* attempted, attempted at most once, and never attempted after it was closed.
THEOREM GuardImplementsGate == Spec => ImplementsGate
<1>1. Init => Gate!Init
  BY DEF Init, NoAction, Gate!Init, Phase
<1>2. TypeOK /\ Inductive /\ TypeOK' /\ Inductive' /\ [Next]_vars => GateNext
  <2> SUFFICES ASSUME TypeOK, Inductive, TypeOK', Inductive', [Next]_vars PROVE GateNext
    OBVIOUS
  <2>1. CASE World \/ UNCHANGED vars
    BY <2>1, PhaseFrame DEF World, Tick, EditTarget, ReplaceTarget, DeleteTarget, SetPolicy,
       guardState, vars, GateNext, phases
  <2> QED
    BY <2>1, CallGate, ExecuteStepGate, ExpireGate DEF Next
<1>3. GateNext => [Gate!Next]_phases
  BY DEF GateNext
<1> QED
  BY <1>1, <1>2, <1>3, InductiveInvariant, PTL DEF Spec, ImplementsGate, Gate!Spec, phases

(***************************************************************************)
(* The per-incident bounds.                                                *)
(***************************************************************************)
Spent == {"Absent", "Rejected", "Expired"}

\* What every step but Propose and an overriding Approve keeps of an action: it
\* does not begin to count, is granted no override, and stays about one object.
Kept(b) == /\ actions'[b].incident = actions[b].incident
           /\ actions[b].state \in Spent => actions'[b].state \in Spent
           /\ actions'[b].override = actions[b].override

\* Writing the lifecycle fields of an action that still counts keeps it so.
LEMMA KeptByMove ==
  ASSUME TypeOK, NEW a \in ActionIDs, NEW b \in ActionIDs, NEW rec, Move(a, rec),
         actions[a].state \notin Spent, rec.incident = actions[a].incident,
         rec.override = actions[a].override
  PROVE  Kept(b)
BY DEF TypeOK, Move, Kept

\* Every other API call keeps every action.
LEMMA CallKept ==
  ASSUME TypeOK, NEW a \in ActionIDs, NEW b \in ActionIDs, Call(a),
         ~(\E r \in Requests, p \in Principals, k \in Keys, u \in BOOLEAN :
              Propose(a, r, p, k, u)),
         ~(\E p \in Principals : Approve(a, p, TRUE))
  PROVE  Kept(b)
<1>0. actions[a] \in ActionSet
  BY DEF TypeOK
<1>1. ASSUME NEW s \in States, Move(a, [actions[a] EXCEPT !.state = s]), actions[a].state \notin Spent
      PROVE  Kept(b)
  BY <1>0, <1>1, KeptByMove DEF ActionSet
<1>2. ASSUME NEW p \in Principals, Approve(a, p, FALSE) PROVE Kept(b)
  <2>1. /\ Approved(a, p, FALSE).incident = actions[a].incident
        /\ Approved(a, p, FALSE).override = actions[a].override
    BY <1>0 DEF Approved, ActionSet
  <2>2. Move(a, Approved(a, p, FALSE)) /\ actions[a].state \notin Spent
    BY <1>2 DEF Approve, Approvable, Spent
  <2> QED
    BY <2>1, <2>2, KeptByMove
<1>3. ASSUME NEW p \in Principals, ApproveOverBudget(a, p) PROVE Kept(b)
  BY <1>1, <1>3 DEF ApproveOverBudget, Approvable, Spent, States
<1>4. ASSUME ApproveLapsed(a) \/ Reject(a) PROVE Kept(b)
  BY <1>1, <1>4 DEF ApproveLapsed, Reject, Approvable, Spent, States
<1>5. ASSUME NEW k \in Keys, ExecuteLapsed(a, k) PROVE Kept(b)
  BY <1>1, <1>5 DEF ExecuteLapsed, Executable, Spent, States
<1>6. ASSUME NEW k \in Keys, ExecuteBegin(a, k) PROVE Kept(b)
  BY <1>6 DEF ExecuteBegin, Kept
<1>7. ASSUME NEW v \in BOOLEAN, Verify(a, v) PROVE Kept(b)
  BY <1>1, <1>7 DEF Verify, Spent, States
<1>8. ASSUME NEW e \in BOOLEAN, Rollback(a, e) PROVE Kept(b)
  BY <1>1, <1>8 DEF Rollback, Spent, States
<1> QED
  BY <1>2, <1>3, <1>4, <1>5, <1>6, <1>7, <1>8 DEF Call

\* And so does every step that is not an API call.
LEMMA OtherKept ==
  ASSUME TypeOK, Inductive, NEW b \in ActionIDs,
         ExecuteStep \/ ExpireDue \/ World \/ UNCHANGED vars
  PROVE  Kept(b)
<1>1. CASE ExecuteStep
  <2>1. PICK a \in ActionIDs : a = exec.id /\ exec # Idle
    BY <1>1, StepInFlight DEF TypeOK
  <2>2. actions[a].state \notin Spent /\ actions[a] \in ActionSet
    BY <2>1 DEF Inductive, TypeOK, Spent
  <2>3. ASSUME NEW e \in BOOLEAN, NEW u \in BOOLEAN, ExecuteResolve(e, u) \/ ExecutePolicy(e)
        PROVE  Kept(b)
    <3>1. CASE actions' = actions
      BY <3>1 DEF Kept
    <3>2. CASE Move(a, [actions[a] EXCEPT !.state = "Failed"])
      BY <2>2, <3>2, KeptByMove DEF ActionSet
    <3>3. CASE Move(a, [actions[a] EXCEPT !.uid = ResolvedUID(actions[a].target, u)])
      BY <2>2, <3>3, KeptByMove DEF ActionSet
    <3> QED
      BY <2>1, <2>3, <3>1, <3>2, <3>3 DEF ExecuteResolve, ExecutePolicy, FailAudited
  <2>4. ASSUME NEW e \in BOOLEAN, ExecuteSnapshot(e) PROVE Kept(b)
    <3>1. CASE actions' = actions
      BY <3>1 DEF Kept
    <3>2. ASSUME NEW s \in {"Failed", "Executing"}, Move(a, Snapshotted(a, s)) PROVE Kept(b)
      <4>1. /\ Snapshotted(a, s).incident = actions[a].incident
            /\ Snapshotted(a, s).override = actions[a].override
        BY <2>2 DEF Snapshotted, ActionSet
      <4> QED
        BY <2>2, <3>2, <4>1, KeptByMove
    <3> QED
      BY <2>1, <2>4, <3>1, <3>2 DEF ExecuteSnapshot
  <2>5. ASSUME NEW e \in BOOLEAN, NEW m \in BOOLEAN, ExecuteDo(e, m) PROVE Kept(b)
    <3> DEFINE rec == [actions[a] EXCEPT !.state = IF e THEN "Failed" ELSE "Verifying",
                                         !.executedAt = now]
    <3>1. Move(a, rec)
      BY <2>1, <2>5 DEF ExecuteDo
    <3>2. rec.incident = actions[a].incident /\ rec.override = actions[a].override
      BY <2>2 DEF ActionSet
    <3> QED
      BY <2>2, <3>1, <3>2, KeptByMove
  <2> QED
    BY <1>1, <2>3, <2>4, <2>5 DEF ExecuteStep
<1>2. CASE ExpireDue
  <2>1. /\ actions[b] \in ActionSet
        /\ actions'[b] = IF Lapsed(b) THEN [actions[b] EXCEPT !.state = "Expired"] ELSE actions[b]
    BY <1>2 DEF ExpireDue, TypeOK
  <2> QED
    BY <2>1 DEF Kept, Spent, ActionSet
<1>3. CASE World \/ UNCHANGED vars
  BY <1>3 DEF World, Tick, EditTarget, ReplaceTarget, DeleteTarget, SetPolicy, guardState, vars, Kept
<1> QED
  BY <1>1, <1>2, <1>3

\* The bounds as an inductive invariant: what counts against the budget is
\* bounded by the largest cap, and so is what was attempted.
WithinBounds ==
  /\ CapOf(pol) <= peakCap
  /\ \A i \in Incidents : BudgetUsed(i) <= peakCap
  /\ OverrideCeiling

\* A set that gains at most one element stays within a bound it was below.
LEMMA OneMore ==
  ASSUME NEW S \in SUBSET ActionIDs, NEW T, NEW a \in ActionIDs, T \subseteq S \cup {a},
         NEW n \in Nat, Cardinality(S) < n
  PROVE  Cardinality(T) <= n
<1>1. IsFiniteSet(S) /\ Cardinality(S) \in Nat
  BY GuardAssumption, FS_Subset, FS_CardinalityType
<1>2. IsFiniteSet(S \cup {a}) /\ Cardinality(S \cup {a}) <= Cardinality(S) + 1
      /\ Cardinality(S \cup {a}) \in Nat
  <2>1. IsFiniteSet(S \cup {a})
        /\ Cardinality(S \cup {a}) = IF a \in S THEN Cardinality(S) ELSE Cardinality(S) + 1
    BY <1>1, FS_AddElement
  <2> QED
    BY <1>1, <2>1
<1>3. Cardinality(T) <= Cardinality(S \cup {a}) /\ Cardinality(T) \in Nat
  BY <1>2, FS_Subset, FS_CardinalityType
<1> QED
  BY <1>1, <1>2, <1>3

\* A set of actions that does not grow stays within its bound.
LEMMA NoMore ==
  ASSUME NEW S \in SUBSET ActionIDs, NEW T \in SUBSET S, NEW n \in Nat, Cardinality(S) <= n
  PROVE  Cardinality(T) <= n
<1>1. IsFiniteSet(S) /\ Cardinality(S) \in Nat
  BY GuardAssumption, FS_Subset, FS_CardinalityType
<1>2. IsFiniteSet(T) /\ Cardinality(T) <= Cardinality(S) /\ Cardinality(T) \in Nat
  BY <1>1, FS_Subset, FS_CardinalityType
<1> QED
  BY <1>1, <1>2

\* A step that keeps every action keeps the bounds, if the peak does not drop.
LEMMA KeptWithin ==
  ASSUME TypeOK, TypeOK', WithinBounds, \A b \in ActionIDs : Kept(b),
         peakCap <= peakCap', CapOf(pol)' <= peakCap'
  PROVE  WithinBounds'
<1>1. ASSUME NEW i \in Incidents PROVE BudgetUsed(i)' <= peakCap'
  <2>1. Counted(i)' \in SUBSET Counted(i) /\ Counted(i) \in SUBSET ActionIDs
    BY DEF Counted, Kept, Spent
  <2>2. Cardinality(Counted(i)) <= peakCap /\ peakCap \in Nat /\ peakCap' \in Nat
    BY DEF WithinBounds, BudgetUsed, TypeOK
  <2>3. Cardinality(Counted(i)') <= peakCap
    BY <2>1, <2>2, NoMore
  <2>4. Cardinality(Counted(i)') \in Nat
    BY <2>1, GuardAssumption, FS_Subset, FS_CardinalityType
  <2> QED
    BY <2>2, <2>3, <2>4 DEF BudgetUsed
<1>2. ASSUME NEW i \in Incidents PROVE Cardinality(Overrides(i))' <= MaxBudgetOverrides
  <2>1. Overrides(i)' \in SUBSET Overrides(i) /\ Overrides(i) \in SUBSET ActionIDs
    BY DEF Overrides, Kept
  <2> QED
    BY <2>1, NoMore, GuardAssumption DEF WithinBounds, OverrideCeiling
<1> QED
  BY <1>1, <1>2 DEF WithinBounds, OverrideCeiling

\* Every step keeps the bounds: Propose and the overriding Approve check them.
LEMMA NextWithin ==
  ASSUME TypeOK, TypeOK', Inductive, WithinBounds, [Next]_vars
  PROVE  WithinBounds'
<1>1. ASSUME NEW a \in ActionIDs, NEW r \in Requests, NEW p \in Principals, NEW k \in Keys,
             NEW u \in BOOLEAN, Propose(a, r, p, k, u)
      PROVE  WithinBounds'
  <2>1. UNCHANGED <<pol, peakCap>> /\ \A b \in ActionIDs : b # a => actions'[b] = actions[b]
    BY <1>1 DEF Propose, Move, TypeOK, world
  <2>2. actions'[a].incident = r.incident /\ actions'[a].override = FALSE /\ r.incident \in Incidents
    BY <1>1 DEF Propose, Proposal, Move, TypeOK, NoAction, Requests
  <2>3. ASSUME NEW i \in Incidents PROVE BudgetUsed(i)' <= peakCap
    <3>0. /\ Counted(i) \in SUBSET ActionIDs /\ Cardinality(Counted(i)) <= peakCap /\ peakCap \in Nat
          /\ CapOf(pol) <= peakCap /\ CapOf(pol) \in Nat /\ Cardinality(Counted(i)) \in Nat
      BY CapType, GuardAssumption, FS_Subset, FS_CardinalityType
         DEF Counted, WithinBounds, BudgetUsed, TypeOK
    <3>1. CASE i = r.incident
      <4>1. Counted(i)' \subseteq Counted(i) \cup {a}
        BY <2>1 DEF Counted
      <4>2. Cardinality(Counted(i)) < CapOf(pol)
        BY <1>1, <3>1 DEF Propose, BudgetUsed
      <4>3. Cardinality(Counted(i)) < peakCap
        BY <3>0, <4>2
      <4> QED
        BY <3>0, <4>1, <4>3, OneMore DEF BudgetUsed
    <3>2. CASE i # r.incident
      <4>1. Counted(i)' \in SUBSET Counted(i)
        BY <2>1, <2>2, <3>2 DEF Counted
      <4> QED
        BY <3>0, <4>1, NoMore DEF BudgetUsed
    <3> QED
      BY <3>1, <3>2
  <2>4. ASSUME NEW i \in Incidents PROVE Cardinality(Overrides(i))' <= MaxBudgetOverrides
    <3>1. Overrides(i)' \in SUBSET Overrides(i) /\ Overrides(i) \in SUBSET ActionIDs
      BY <2>1, <2>2 DEF Overrides
    <3> QED
      BY <3>1, NoMore, GuardAssumption DEF WithinBounds, OverrideCeiling
  <2> QED
    BY <2>1, <2>3, <2>4 DEF WithinBounds, OverrideCeiling, CapOf
<1>2. ASSUME NEW a \in ActionIDs, NEW p \in Principals, Approve(a, p, TRUE) PROVE WithinBounds'
  <2>1. /\ UNCHANGED <<pol, peakCap>> /\ actions[a] \in ActionSet
        /\ \A b \in ActionIDs : b # a => actions'[b] = actions[b]
        /\ actions'[a] = Approved(a, p, TRUE) /\ actions[a].state = "Proposed"
        /\ Cardinality(Overrides(actions[a].incident)) < MaxBudgetOverrides
    BY <1>2 DEF Approve, Approvable, WithinBudget, Move, TypeOK, world
  <2>2. actions'[a].incident = actions[a].incident
    BY <2>1 DEF Approved, ActionSet
  <2>3. ASSUME NEW i \in Incidents PROVE BudgetUsed(i)' <= peakCap
    <3>1. Counted(i)' \in SUBSET Counted(i) /\ Counted(i) \in SUBSET ActionIDs
      BY <2>1, <2>2 DEF Counted
    <3> QED
      BY <3>1, NoMore DEF WithinBounds, BudgetUsed, TypeOK
  <2>4. ASSUME NEW i \in Incidents PROVE Cardinality(Overrides(i))' <= MaxBudgetOverrides
    <3>1. CASE i = actions[a].incident
      <4>1. Overrides(i)' \subseteq Overrides(i) \cup {a} /\ Overrides(i) \in SUBSET ActionIDs
        BY <2>1 DEF Overrides
      <4> QED
        BY <2>1, <3>1, <4>1, OneMore, GuardAssumption
    <3>2. CASE i # actions[a].incident
      <4>1. Overrides(i)' \in SUBSET Overrides(i) /\ Overrides(i) \in SUBSET ActionIDs
        BY <2>1, <2>2, <3>2 DEF Overrides
      <4> QED
        BY <4>1, NoMore, GuardAssumption DEF WithinBounds, OverrideCeiling
    <3> QED
      BY <3>1, <3>2
  <2> QED
    BY <2>1, <2>3, <2>4 DEF WithinBounds, OverrideCeiling, CapOf
<1>3. ASSUME NEW a \in ActionIDs, Call(a),
             ~(\E r \in Requests, p \in Principals, k \in Keys, u \in BOOLEAN :
              Propose(a, r, p, k, u)),
             ~(\E p \in Principals : Approve(a, p, TRUE))
      PROVE  WithinBounds'
  <2>1. UNCHANGED <<pol, peakCap>>
    BY <1>3 DEF Call, ApproveLapsed, Approve, ApproveOverBudget, Reject, ExecuteLapsed,
       ExecuteBegin, Verify, Rollback, world
  <2>2. \A b \in ActionIDs : Kept(b)
    BY <1>3, CallKept
  <2>3. peakCap <= peakCap' /\ CapOf(pol)' <= peakCap'
    BY <2>1 DEF WithinBounds, CapOf, TypeOK
  <2> QED
    BY <2>2, <2>3, KeptWithin
<1>4. CASE ExecuteStep \/ ExpireDue \/ World \/ UNCHANGED vars
  <2>1. peakCap <= peakCap' /\ CapOf(pol)' <= peakCap'
    <3>1. CASE UNCHANGED <<pol, peakCap>>
      BY <3>1 DEF WithinBounds, CapOf, TypeOK
    <3>2. ASSUME NEW p \in Policies, SetPolicy(p) PROVE peakCap <= peakCap' /\ CapOf(pol)' <= peakCap'
      <4>1. pol' = p /\ CapOf(pol)' = CapOf(p) /\ CapOf(p) \in Nat /\ peakCap \in Nat
        BY <3>2, CapType DEF SetPolicy, TypeOK, CapOf
      <4> QED
        BY <3>2, <4>1 DEF SetPolicy
    <3> QED
      BY <1>4, <3>1, <3>2 DEF ExecuteStep, ExecuteResolve, ExecutePolicy, ExecuteSnapshot, ExecuteDo,
         ExpireDue, World, Tick, EditTarget, ReplaceTarget, DeleteTarget, vars, world
  <2> QED
    BY <1>4, <2>1, OtherKept, KeptWithin
<1>5. ASSUME NEW a \in ActionIDs, Call(a) PROVE WithinBounds'
  <2>1. CASE \E r \in Requests, p \in Principals, k \in Keys, u \in BOOLEAN : Propose(a, r, p, k, u)
    BY <1>1, <2>1
  <2>2. CASE \E p \in Principals : Approve(a, p, TRUE)
    BY <1>2, <2>2
  <2> QED
    BY <1>3, <1>5, <2>1, <2>2
<1> QED
  BY <1>4, <1>5 DEF Next

\* Init: nothing counts and nothing is overridden.
LEMMA InitWithin == Init => WithinBounds
<1> SUFFICES ASSUME Init PROVE WithinBounds
  OBVIOUS
<1>1. \A i \in Incidents : Counted(i) = {} /\ Overrides(i) = {}
  BY DEF Init, NoAction, Counted, Overrides
<1>2. CapOf(pol) \in Nat /\ peakCap = CapOf(pol)
  BY CapType DEF Init
<1> QED
  BY <1>1, <1>2, FS_EmptySet, GuardAssumption DEF WithinBounds, BudgetUsed, OverrideCeiling

\* Propose and Approve: an incident never sees more attempted mutations than
\* the largest cap in force, nor more overrides than MaxBudgetOverrides.
THEOREM BudgetsHold == Spec => [](BudgetBound /\ OverrideCeiling)
<1>1. TypeOK /\ Inductive /\ WithinBounds => BudgetBound /\ OverrideCeiling
  <2> SUFFICES ASSUME TypeOK, Inductive, WithinBounds, NEW i \in Incidents
               PROVE  Cardinality(Attempted(i)) <= peakCap
    BY DEF BudgetBound, WithinBounds
  <2>1. Attempted(i) \in SUBSET Counted(i) /\ Counted(i) \in SUBSET ActionIDs
    BY DEF Attempted, Counted, Inductive, Consistent
  <2> QED
    BY <2>1, NoMore DEF WithinBounds, BudgetUsed, TypeOK
<1> QED
  BY <1>1, InitWithin, NextWithin, InductiveInvariant, PTL DEF Spec

\* Approve alone: an incident never gets more overrides than MaxBudgetOverrides.
THEOREM CeilingHolds == Spec => []OverrideCeiling
  BY BudgetsHold, PTL
=============================================================================
