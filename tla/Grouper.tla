------------------------------ MODULE Grouper ------------------------------
(***************************************************************************)
(* The anomaly grouper of one tenant (src/internal/anomaly/grouper.go):     *)
(* every event joins the incident its fingerprint points to, else an open   *)
(* incident of its neighbourhood, else one of its own.  All its maps are    *)
(* keyed by tenant, all its methods hold one mutex.                         *)
(*                                                                          *)
(* Scores are in hundredths; an incident's score is in twentieths of that,  *)
(* for it gains a twentieth for every further service.  Services are        *)
(* numbers in lexical order.                                                *)
(***************************************************************************)
EXTENDS Integers, Sequences, FiniteSets

CONSTANTS
  Events,     \* what detectors may report: service, fp, score, provisional
  Near,       \* service -> its neighbours within topology_hops
  Window,     \* grouping.window
  ReopenTTL,  \* grouping.dedupe_ttl
  MaxOpen,    \* grouping.max_open_incidents
  Nothing,    \* the unset SuppressedBy
  Reason,     \* an operator's reason
  MaxIncidents, MaxTime  \* bounds, for checking

ASSUME GrouperAssumption ==
  /\ MaxOpen \in Nat \ {0} /\ Window \in Nat /\ ReopenTTL \in Nat
  /\ DOMAIN Near \subseteq Int
  /\ \A e \in Events : /\ e.service \in DOMAIN Near /\ e.provisional \in BOOLEAN
                     /\ e.score \in Nat \ {0}  \* detectors.go:90, 167, 234, 292, 423, 428: a breach scores

VARIABLES
  now,
  incidents,      \* id -> record
  byService,      \* service -> the incidents indexed under it, oldest entry first
  byFingerprint,  \* fingerprint -> id
  closedAt        \* id -> time

grouperVars == <<now, incidents, byService, byFingerprint, closedAt>>

Statuses == {"Candidate", "Suppressed", "Expired"}
IsOpen(i) == incidents[i].status = "Candidate"
Open == {i \in DOMAIN incidents : IsOpen(i)}

GrouperInit ==
  /\ now = 0
  /\ incidents = <<>>
  /\ byService = [s \in DOMAIN Near |-> <<>>]
  /\ byFingerprint = [f \in {} |-> 0]
  /\ closedAt = [i \in {} |-> 0]

-----------------------------------------------------------------------------
(* attachEvent.                                                            *)

Best(scores) == CHOOSE s \in DOMAIN scores :
                  \A x \in DOMAIN scores : scores[x] < scores[s] \/ (scores[x] = scores[s] /\ s <= x)

Clamped(n) == IF n > 2000 THEN 2000 ELSE n
ProvisionalCap == 69 * 20
IncidentScore(scores, services, provisional) ==
  LET raw == Clamped(scores[Best(scores)] * (20 + Cardinality(services) - 1))
  IN  IF provisional /\ raw > ProvisionalCap THEN ProvisionalCap ELSE raw

severityFor(score, services) ==
  CASE score < 55 * 20 -> "Unknown"
    [] score \in 55 * 20..69 * 20 -> IF Cardinality(services) >= 2 THEN "Medium" ELSE "Low"
    [] score \in 69 * 20 + 1..84 * 20 -> "High"
    [] score > 84 * 20 -> "Critical"

Raised(scores, e) ==
  [s \in DOMAIN scores \cup {e.service} |->
     IF s # e.service THEN scores[s]
     ELSE IF s \in DOMAIN scores /\ scores[s] >= e.score THEN scores[s] ELSE e.score]

\* near is what the topology answers: nothing, when it is not wired or fails.
Attached(inc, e, near) ==
  LET services == inc.services \cup {e.service}
      scores == Raised(inc.scores, e)
      provisional == inc.provisional \/ e.provisional
      score == IncidentScore(scores, services, provisional)
  IN [inc EXCEPT !.services = services, !.scores = scores, !.provisional = provisional, !.score = score,
                 !.severity = severityFor(score, services), !.epicenter = Best(scores),
                 !.blast = services \cap ({Best(scores)} \cup near[Best(scores)]), !.updated = now]

\* registerServiceForIncident, on a service the incident did not have.
Indexed(id, services, e, near) ==
  [s \in DOMAIN byService |->
     IF e.service \notin services /\ s \in {e.service} \cup near[e.service] /\ \A n \in DOMAIN byService[s] : byService[s][n] # id
     THEN Append(byService[s], id) ELSE byService[s]]

-----------------------------------------------------------------------------
(* Add.                                                                    *)

\* Not the code: a repeated event joins its incident within the window only.
RepeatsWithinWindow(e) ==
  e.fp \in DOMAIN byFingerprint /\ IsOpen(byFingerprint[e.fp]) /\ now - incidents[byFingerprint[e.fp]].updated <= Window

\* The incident of the same fingerprint takes the event while it is open, and
\* for ReopenTTL after it closed.
Repeats(e) ==
  /\ e.fp \in DOMAIN byFingerprint
  /\ LET i == byFingerprint[e.fp] IN IsOpen(i) \/ (i \in DOMAIN closedAt /\ now - closedAt[i] <= ReopenTTL)

AddRepeated(e, near) ==
  LET i == byFingerprint[e.fp] IN
  /\ Repeats(e)
  /\ incidents' = [incidents EXCEPT ![i] = [Attached(@, e, near) EXCEPT !.suppressedBy = i]]
  /\ byService' = Indexed(i, incidents[i].services, e, near)
  /\ UNCHANGED <<byFingerprint, closedAt>>

Candidates(e) == {n \in DOMAIN byService[e.service] :
                    LET i == byService[e.service][n] IN IsOpen(i) /\ now - incidents[i].updated <= Window}
Target(e) == byService[e.service][CHOOSE n \in Candidates(e) : \A x \in Candidates(e) : n <= x]

Pointed(e, i) == [f \in DOMAIN byFingerprint \cup {e.fp} |-> IF f = e.fp THEN i ELSE byFingerprint[f]]

AddToNeighbour(e, near) ==
  /\ ~Repeats(e) /\ Candidates(e) # {}
  /\ incidents' = [incidents EXCEPT ![Target(e)] = Attached(@, e, near)]
  /\ byService' = Indexed(Target(e), incidents[Target(e)].services, e, near)
  /\ byFingerprint' = Pointed(e, Target(e))
  /\ UNCHANGED closedAt

Fresh(e) ==
  [status |-> "Candidate", services |-> {}, scores |-> [s \in {} |-> 0], provisional |-> FALSE, score |-> 0,
   severity |-> "Unknown", epicenter |-> 0, blast |-> {}, updated |-> now, fp |-> e.fp, suppressedBy |-> Nothing]

\* enforceMaxOpenIncidents: over the bound one incident of the lowest score
\* expires; ties fall to the order of a map iteration.
Enforced(all) ==
  LET open == {i \in DOMAIN all : all[i].status = "Candidate"}
      lowest == {i \in open : \A j \in open : all[i].score <= all[j].score}
  IN IF Cardinality(open) <= MaxOpen THEN incidents' = all /\ UNCHANGED closedAt
     ELSE \E i \in lowest :
            /\ incidents' = [all EXCEPT ![i].status = "Expired"]
            /\ closedAt' = [j \in DOMAIN closedAt \cup {i} |-> IF j = i THEN now ELSE closedAt[j]]

AddNew(e, near) ==
  LET id == Len(incidents) + 1 IN
  /\ ~Repeats(e) /\ Candidates(e) = {} /\ id <= MaxIncidents
  /\ byService' = Indexed(id, {}, e, near)
  /\ byFingerprint' = Pointed(e, id)
  /\ Enforced(Append(incidents, Attached(Fresh(e), e, near)))

Unreachable == [s \in DOMAIN Near |-> {}]

Add(e) ==
  \E near \in {Near, Unreachable} :
    /\ AddRepeated(e, near) \/ AddToNeighbour(e, near) \/ AddNew(e, near)
    /\ UNCHANGED now

-----------------------------------------------------------------------------
Suppress(i) ==
  /\ incidents' = [incidents EXCEPT ![i].status = "Suppressed", ![i].suppressedBy = Reason]
  /\ closedAt' = [j \in DOMAIN closedAt \cup {i} |-> IF j = i THEN now ELSE closedAt[j]]
  /\ UNCHANGED <<now, byService, byFingerprint>>

TimePasses ==
  /\ now < MaxTime
  /\ now' = now + 1
  /\ UNCHANGED <<incidents, byService, byFingerprint, closedAt>>

GrouperNext ==
  \/ \E e \in Events : Add(e)
  \/ \E i \in DOMAIN incidents : Suppress(i)
  \/ TimePasses

GrouperSpec == GrouperInit /\ [][GrouperNext]_grouperVars

-----------------------------------------------------------------------------
(* Properties.                                                             *)

\* No more than max_open_incidents incidents are open (enforceMaxOpenIncidents).
OpenBounded == Cardinality(Open) <= MaxOpen

\* The same failure is never open twice (Add's fingerprint index).
OneOpenPerFingerprint == \A i, j \in Open : incidents[i].fp = incidents[j].fp => i = j

\* An open incident is found under each of its services, so that the next event
\* there joins it (registerServiceForIncident).
Reachable == \A i \in Open : \A s \in incidents[i].services : \E n \in DOMAIN byService[s] : byService[s][n] = i

\* Provisional incidents stay at the lower severities whatever joins them; the
\* epicentre carries the highest score and is within its own blast radius.
Ranked == \A i \in DOMAIN incidents : LET inc == incidents[i] IN
  /\ inc.provisional => inc.score <= ProvisionalCap /\ inc.severity \notin {"High", "Critical"}
  /\ \A s \in DOMAIN inc.scores : inc.scores[s] <= inc.scores[inc.epicenter]
  /\ inc.epicenter \in inc.blast /\ inc.blast \subseteq inc.services

GroupingSound == OpenBounded /\ OneOpenPerFingerprint /\ Reachable /\ Ranked
=============================================================================
