--------------------------- MODULE Investigation ---------------------------
(***************************************************************************)
(* The RCA engine (src/internal/rca): every investigation is one call of   *)
(* Investigate, which loops over a reasoner until it concludes, runs out   *)
(* of a budget or is aborted, and then publishes its outcome in the        *)
(* journal, in the sampler's predicate set and in the engine's own map.    *)
(* Abort, Correct and Replay run concurrently with it.                     *)
(*                                                                         *)
(* Scores are abstracted to what the threshold of 0.75 tells apart: a      *)
(* supported hypothesis is "weak" below it and "strong" from it on.        *)
(***************************************************************************)
EXTENDS Integers, Sequences, FiniteSets

CONSTANTS
  Inv,           \* identifiers, of investigations and of their replays
  Catalog,       \* the rules, in the order the rules reasoner tries them
  WeakRules,     \* rules whose confirmation may score below the threshold
  ToolOf,        \* the tool each rule calls
  Backends,      \* the tools with a backend
  Guess,         \* a hypothesis only the model proposes
  Moves,         \* the hypotheses the model may move, and where to
  Charges,       \* what one answer of the model may cost
  MaxSteps, MaxToolCalls, MaxTokensIn, MaxCachedTokensIn, MaxTokensOut, MaxCost,
  MaxOutputTokens, \* what the model may put out in one answer
  Starts,        \* bounds which identifiers Investigate may draw, for checking
  MaxCorrections \* bounds Correct, for checking

Rules == {Catalog[k] : k \in DOMAIN Catalog}
Hyps  == Rules \cup {Guess}
Tools == {"trace_query", "log_query", "metric_query", "topology_query", "memory_query"}
Verdicts == {"open", "refuted", "weak", "strong"}

ASSUME InvestigationAssumption ==
  /\ Catalog \in Seq(Rules) /\ WeakRules \subseteq Rules /\ Guess \notin Rules
  /\ ToolOf \in [Rules -> Tools] /\ Backends \subseteq Tools
  /\ Moves \subseteq Hyps \X Verdicts
  /\ MaxOutputTokens \in Nat /\ Charges \subseteq [tokens : Nat, cached : Nat, out : 0..MaxOutputTokens, cost : Nat]
  /\ {MaxSteps, MaxToolCalls, MaxTokensIn, MaxCachedTokensIn, MaxTokensOut, MaxCost} \subseteq Nat \ {0}
  /\ MaxSteps * MaxOutputTokens <= MaxTokensOut  \* 24 answers of 1600 tokens against 64000
  /\ Starts \subseteq Inv /\ MaxCorrections \in Nat

Nobody == "nobody"
Budgets == {"steps", "tool_calls", "tokens", "cached_tokens", "cost", "wall_clock"}
Ended   == {"concluded", "inconclusive", "budget_exhausted", "aborted", "failed"}

VARIABLES
  setup,      \* the engine's reasoner, and whether a fallback is wired
  pc,         \* where each call of Investigate stands
  work,       \* its local investigation, reasoner and pending result
  cancelled,  \* investigations whose context is done
  cancels,    \* e.cancels: the ones Abort can still signal
  invs,       \* e.invs: the copies Get, Replay, Correct and Abort see
  journal,    \* the journal's status and number of steps
  predicates, \* the interest predicates in the sampler, per source
  aborter,    \* an Abort of an investigation that is not running
  replayer    \* a Replay between its reads and its writes

loop == <<setup, pc, work>>
vars == <<setup, pc, work, cancelled, cancels, invs, journal, predicates, aborter, replayer>>

NoInv == [status |-> "none"]

Created ==
  [status |-> "running", term |-> "none", trail |-> 0, steps |-> 0, calls |-> 0, tokens |-> 0, cached |-> 0, out |-> 0, cost |-> 0,
   hyps |-> [h \in Hyps |-> "none"], kind |-> setup.kind, swaps |-> 0,
   capped |-> FALSE, confidence |-> "none", pending |-> Nobody]

\* What storeInv publishes of it, as far as readers are modelled.
Stored(w) == [status |-> w.status, trail |-> w.trail, swaps |-> w.swaps, version |-> 0]

Init ==
  /\ setup \in [kind : {"rules", "llm"}, fallback : BOOLEAN]
  /\ setup.fallback => setup.kind = "llm"  \* it would never be used
  /\ pc = [i \in Inv |-> "absent"]
  /\ work = [i \in Inv |-> NoInv]
  /\ cancelled = {} /\ cancels = {}
  /\ invs = [i \in Inv |-> NoInv]
  /\ journal = [i \in Inv |-> [status |-> "none", steps |-> 0]]
  /\ predicates = {}
  /\ aborter = [at |-> "idle"]
  /\ replayer = [at |-> "idle"]

Goto(i, there) == pc' = [pc EXCEPT ![i] = there]
AppendStep(i) == journal' = [journal EXCEPT ![i].steps = @ + 1]

\* The journal refuses an investigation it was not told of.
SetStatus(i, status) ==
  journal' = IF journal[i].status = "none" THEN journal
             ELSE [journal EXCEPT ![i].status = status]

Outside == UNCHANGED <<setup, cancelled, aborter, replayer>>

-----------------------------------------------------------------------------
(* Investigate, up to its loop.  The identifier is new, so nobody sees the   *)
(* journal entry, the cancel function and the stored copy appear one by one. *)

Begin(i) ==
  /\ i \in Starts /\ pc[i] = "absent" /\ Goto(i, "contextualize")
  /\ work' = [work EXCEPT ![i] = Created]
  /\ invs' = [invs EXCEPT ![i] = Stored(Created)]
  /\ journal' = [journal EXCEPT ![i].status = "running"]
  /\ cancels' = cancels \cup {i}
  /\ UNCHANGED predicates /\ Outside

Contextualize(i) ==
  /\ pc[i] = "contextualize" /\ Goto(i, "push")
  /\ AppendStep(i)
  /\ work' = [work EXCEPT ![i].trail = 1, ![i].steps = 1]
  /\ UNCHANGED <<cancels, invs, predicates>> /\ Outside

\* The sink may refuse the predicate; the investigation goes on without one.
PushScope(i) ==
  /\ pc[i] = "push" /\ Goto(i, "head")
  /\ \/ predicates' = predicates \cup {[of |-> i, scope |-> "investigation"]}
     \/ UNCHANGED predicates
  /\ UNCHANGED <<work, cancels, invs, journal>> /\ Outside

-----------------------------------------------------------------------------
(* The loop.                                                               *)

\* Not the code: the step budget compared with > instead of >=.
ExhaustedOnePast(w) ==
  {b \in Budgets : CASE b = "steps"         -> w.steps > MaxSteps
                     [] b = "tool_calls"    -> w.calls >= MaxToolCalls
                     [] b = "tokens"        -> w.kind = "llm" /\ w.tokens >= MaxTokensIn
                     [] b = "cached_tokens" -> w.kind = "llm" /\ w.cached >= MaxCachedTokensIn
                     [] b = "cost"          -> w.cost >= MaxCost
                     [] OTHER               -> FALSE}

\* The budget checks at the head of the loop that hold, the clock's aside.  What
\* the model puts out is added up and compared with nothing.
Exhausted(w) ==
  {b \in Budgets : CASE b = "steps"         -> w.steps >= MaxSteps
                     [] b = "tool_calls"    -> w.calls >= MaxToolCalls
                     [] b = "tokens"        -> w.kind = "llm" /\ w.tokens >= MaxTokensIn
                     [] b = "cached_tokens" -> w.kind = "llm" /\ w.cached >= MaxCachedTokensIn
                     [] b = "cost"          -> w.cost >= MaxCost
                     [] OTHER               -> FALSE}

\* The first of them in the order the code looks.
FirstExhausted(w) ==
  CHOOSE r \in Exhausted(w) :
    \A q \in Exhausted(w) : \E k \in 1..5 :
      LET order == <<"steps", "tool_calls", "tokens", "cached_tokens", "cost">>
      IN order[k] = r /\ \A j \in 1..(k - 1) : order[j] # q

Break(i, why) == Goto(i, "conclude") /\ work' = [work EXCEPT ![i].term = why]

\* The wall clock may have run out at any iteration.
LoopHead(i) ==
  /\ pc[i] = "head"
  /\ IF i \in cancelled THEN Break(i, "aborted")
     ELSE \/ Break(i, "wall_clock")
          \/ IF Exhausted(work[i]) # {} THEN Break(i, FirstExhausted(work[i]))
             ELSE Goto(i, "ask") /\ UNCHANGED work
  /\ UNCHANGED <<cancels, invs, journal, predicates>> /\ Outside

\* A reasoning step: recorded, and counted against MaxSteps only.
Reasoned(w) == [w EXCEPT !.trail = @ + 1, !.steps = @ + 1]

\* A dispatched tool call; only a result without an error is kept for the
\* next question to the reasoner.
Called(w, hyp, ok) ==
  [Reasoned(w) EXCEPT !.calls = @ + 1, !.pending = IF ok THEN hyp ELSE Nobody]

\* Whether a call returns a result: a tool without a backend never does.
Dispatch(tool) == IF tool \in Backends THEN BOOLEAN ELSE {FALSE}

\* What the rules' Confirm can make of a result.
Confirm(r) == {"refuted", "strong"} \cup (IF r \in WeakRules THEN {"weak"} ELSE {})

\* rules.Reasoner on a pending result: confirm or refute the rule it tested.
RulesFold(i) ==
  LET w == [work[i] EXCEPT !.pending = Nobody]
      r == work[i].pending
  IN /\ pc[i] = "ask" /\ work[i].kind = "rules" /\ r \in Rules
     /\ \E verdict \in Confirm(r) :
          IF verdict = "strong"
          THEN /\ work' = [work EXCEPT ![i] = [w EXCEPT !.hyps[r] = verdict, !.term = "concluded"]]
               /\ Goto(i, "conclude") /\ UNCHANGED journal
          ELSE /\ work' = [work EXCEPT ![i] = Reasoned([w EXCEPT !.hyps[r] = verdict])]
               /\ Goto(i, "head") /\ AppendStep(i)
     /\ UNCHANGED <<cancels, invs, predicates>> /\ Outside

Untried(w) == {k \in DOMAIN Catalog : w.hyps[Catalog[k]] = "none"}

\* rules.Reasoner without one: the next rule of the catalog nobody has named.
RulesTest(i) ==
  LET w == work[i] IN
  /\ pc[i] = "ask" /\ w.kind = "rules" /\ w.pending \notin Rules
  /\ Untried(w) # {}
  /\ \E k \in Untried(w) : \E ok \in Dispatch(ToolOf[Catalog[k]]) :
       /\ \A j \in Untried(w) : k <= j
       /\ work' = [work EXCEPT ![i] = Called([w EXCEPT !.hyps[Catalog[k]] = "open"], Catalog[k], ok)]
  /\ AppendStep(i) /\ Goto(i, "head")
  /\ UNCHANGED <<cancels, invs, predicates>> /\ Outside

\* ErrNoMoreRules is an ordinary end.
RulesExhausted(i) ==
  /\ pc[i] = "ask" /\ work[i].kind = "rules" /\ work[i].pending \notin Rules
  /\ Untried(work[i]) = {}
  /\ Break(i, "concluded")
  /\ UNCHANGED <<cancels, invs, journal, predicates>> /\ Outside

\* Only the answer that is taken is charged, not the ones before it that failed
\* their checks.
Charged(w, c) ==
  [w EXCEPT !.tokens = @ + c.tokens, !.cached = @ + c.cached, !.out = @ + c.out, !.cost = @ + c.cost]

\* LLMReasoner refuses to call the model when a budget is already spent.
PreflightExceeded(w) ==
  w.tokens >= MaxTokensIn \/ w.cached >= MaxCachedTokensIn \/ w.cost >= MaxCost \/ w.calls >= MaxToolCalls

\* The model answers within its schema: it may move one hypothesis, whoever
\* named it, and then ends, reasons on or asks for a tool.
ModelProposes(i) ==
  /\ pc[i] = "ask" /\ work[i].kind = "llm" /\ ~PreflightExceeded(work[i])
  /\ \E c \in Charges, m \in Moves \cup {<<Nobody>>} :
       LET asked == Charged([work[i] EXCEPT !.pending = Nobody], c)
           w == IF m = <<Nobody>> THEN asked ELSE [asked EXCEPT !.hyps[m[1]] = m[2]]
       IN \/ /\ work' = [work EXCEPT ![i] = [w EXCEPT !.term = "concluded"]]
             /\ Goto(i, "conclude") /\ UNCHANGED journal
          \/ /\ work' = [work EXCEPT ![i] = Reasoned(w)]
             /\ Goto(i, "head") /\ AppendStep(i)
          \/ /\ \E tool \in Tools : \E ok \in Dispatch(tool) :
                  work' = [work EXCEPT ![i] = Called(w, m[1], ok)]
             /\ Goto(i, "head") /\ AppendStep(i)
  /\ UNCHANGED <<cancels, invs, predicates>> /\ Outside

\* Not the code: a failing model that is asked again instead of swapped.
ModelFailsUnswapped(i) ==
  /\ pc[i] = "ask" /\ work[i].kind = "llm"
  /\ Goto(i, "head")
  /\ work' = [work EXCEPT ![i] = [@ EXCEPT !.pending = Nobody, !.capped = TRUE]]
  /\ UNCHANGED <<cancels, invs, journal, predicates>> /\ Outside

\* Every failure of the model is a trigger (a failed call, a refusal, an
\* answer that fails its checks three times, the preflight): it swaps the reasoner for the
\* rules, for good, or ends the investigation if there is no fallback.  The
\* result the model was shown is not kept for the rules.
ModelFails(i) ==
  LET w == [work[i] EXCEPT !.pending = Nobody] IN
  /\ pc[i] = "ask" /\ work[i].kind = "llm"
  /\ IF setup.fallback
     THEN /\ Goto(i, "head")
          /\ work' = [work EXCEPT ![i] = [w EXCEPT !.kind = "rules", !.swaps = @ + 1, !.capped = TRUE]]
     ELSE /\ Goto(i, "conclude")
          /\ work' = [work EXCEPT ![i] = [w EXCEPT !.term = "failed"]]
  /\ UNCHANGED <<cancels, invs, journal, predicates>> /\ Outside

-----------------------------------------------------------------------------
(* After the loop.                                                         *)

Best(hyps) ==
  IF "strong" \in {hyps[h] : h \in Hyps} THEN "strong"
  ELSE IF "weak" \in {hyps[h] : h \in Hyps} THEN "weak" ELSE "none"

TerminalStatus(term, confidence) ==
  CASE term = "concluded" -> IF confidence = "strong" THEN "concluded" ELSE "inconclusive"
    [] term \in Budgets   -> "budget_exhausted"
    [] OTHER              -> term

\* Not the code: the confidence cap of a swapped reasoner forgotten.
ConcludeUncapped(i) ==
  LET conf == Best(work[i].hyps) IN
  /\ pc[i] = "conclude" /\ Goto(i, "journal")
  /\ work' = [work EXCEPT ![i].confidence = conf, ![i].status = TerminalStatus(work[i].term, conf)]
  /\ UNCHANGED <<cancels, invs, journal, predicates>> /\ Outside

Conclude(i) ==
  LET best == Best(work[i].hyps)
      conf == IF work[i].capped /\ best = "strong" THEN "weak" ELSE best
  IN /\ pc[i] = "conclude" /\ Goto(i, "journal")
     /\ work' = [work EXCEPT ![i].confidence = conf,
                             ![i].status = TerminalStatus(work[i].term, conf)]
     /\ UNCHANGED <<cancels, invs, journal, predicates>> /\ Outside

\* Not the code: the journal's final status written under the cancelled context.
JournalStatusUnlessCancelled(i) ==
  /\ pc[i] = "journal" /\ Goto(i, "remove")
  /\ journal' = IF i \in cancelled THEN journal ELSE [journal EXCEPT ![i].status = work[i].status]
  /\ UNCHANGED <<work, cancels, invs, predicates>> /\ Outside

JournalStatus(i) ==
  /\ pc[i] = "journal" /\ Goto(i, "remove")
  /\ SetStatus(i, work[i].status)
  /\ UNCHANGED <<work, cancels, invs, predicates>> /\ Outside

\* Not the code: the predicate removed under the cancelled context.
RemoveScopeUnlessCancelled(i) ==
  /\ pc[i] = "remove" /\ Goto(i, "recur")
  /\ predicates' = IF i \in cancelled THEN predicates ELSE predicates \ {[of |-> i, scope |-> "investigation"]}
  /\ UNCHANGED <<work, cancels, invs, journal>> /\ Outside

RemoveScope(i) ==
  /\ pc[i] = "remove" /\ Goto(i, "recur")
  /\ predicates' = predicates \ {[of |-> i, scope |-> "investigation"]}
  /\ UNCHANGED <<work, cancels, invs, journal>> /\ Outside

PushRecurrence(i) ==
  /\ pc[i] = "recur" /\ Goto(i, "store")
  /\ \/ /\ work[i].status = "concluded" /\ work[i].confidence = "strong"
        /\ predicates' = predicates \cup {[of |-> i, scope |-> "recurrence"]}
     \/ UNCHANGED predicates  \* not concluded, or the sink refuses
  /\ UNCHANGED <<work, cancels, invs, journal>> /\ Outside

\* storeInv replaces whatever copy is there, corrections included.
StoreFinal(i) ==
  /\ pc[i] = "store" /\ Goto(i, "unregister")
  /\ invs' = [invs EXCEPT ![i] = Stored(work[i])]
  /\ UNCHANGED <<work, cancels, journal, predicates>> /\ Outside

Unregister(i) ==
  /\ pc[i] = "unregister" /\ Goto(i, "done")
  /\ cancels' = cancels \ {i} /\ work' = [work EXCEPT ![i] = NoInv]
  /\ UNCHANGED <<invs, journal, predicates>> /\ Outside

-----------------------------------------------------------------------------
(* The other callers of the engine.                                        *)

Known(i) == invs[i] # NoInv

\* The context of the caller, or an Abort that finds a cancel function.
Cancel(i) ==
  /\ Known(i) /\ i \in cancels /\ cancelled' = cancelled \cup {i}
  /\ UNCHANGED <<loop, cancels, invs, journal, predicates, aborter, replayer>>

\* Not the code: Abort that rewrites the copy of a running investigation.
AbortReadRegardless(i) ==
  /\ aborter.at = "idle" /\ Known(i)
  /\ aborter' = [at |-> "journal", id |-> i, copy |-> [invs[i] EXCEPT !.status = "aborted"]]
  /\ UNCHANGED <<loop, cancelled, cancels, invs, journal, predicates, replayer>>

\* An Abort that finds none works on the copy it read.
AbortRead(i) ==
  /\ aborter.at = "idle" /\ Known(i) /\ i \notin cancels
  /\ aborter' = [at |-> "journal", id |-> i,
                 copy |-> [invs[i] EXCEPT !.status = "aborted"]]
  /\ UNCHANGED <<loop, cancelled, cancels, invs, journal, predicates, replayer>>

\* The journal does not know a live-diff replay; the error is ignored.
AbortJournal ==
  /\ aborter.at = "journal" /\ aborter' = [aborter EXCEPT !.at = "store"]
  /\ SetStatus(aborter.id, "aborted")
  /\ UNCHANGED <<loop, cancelled, cancels, invs, predicates, replayer>>

AbortStore ==
  /\ aborter.at = "store" /\ aborter' = [at |-> "idle"]
  /\ invs' = [invs EXCEPT ![aborter.id] = aborter.copy]
  /\ UNCHANGED <<loop, cancelled, cancels, journal, predicates, replayer>>

Correct(i) ==
  /\ Known(i) /\ \A j \in Inv : Known(j) => invs[j].version < MaxCorrections
  /\ invs' = [invs EXCEPT ![i].version = @ + 1]
  /\ UNCHANGED <<loop, cancelled, cancels, journal, predicates, aborter, replayer>>

\* Replay reads the stored copy, then the journal's steps.  Only an
\* investigation the journal knows can be replayed.
ReplayGet(i) ==
  /\ replayer.at = "idle" /\ Known(i)
  /\ \E j \in Inv : pc[j] = "absent"  \* genID never runs out; Inv does
  /\ replayer' = [at |-> "steps", id |-> i, copy |-> invs[i]]
  /\ UNCHANGED <<loop, cancelled, cancels, invs, journal, predicates, aborter>>

ReplaySteps ==
  /\ replayer.at = "steps"
  /\ replayer' = IF journal[replayer.id].status = "none" THEN [at |-> "idle"]
                 ELSE [at |-> "store", copy |-> replayer.copy, steps |-> journal[replayer.id].steps]
  /\ UNCHANGED <<loop, cancelled, cancels, invs, journal, predicates, aborter>>

\* ReplayRecorded re-creates the steps in the journal, under a new identifier.
ReplayRecorded(j) ==
  /\ replayer.at = "store" /\ pc[j] = "absent" /\ Goto(j, "replayed")
  /\ journal' = [journal EXCEPT ![j] = [status |-> replayer.copy.status, steps |-> replayer.steps]]
  /\ invs' = [invs EXCEPT ![j] = [replayer.copy EXCEPT !.trail = replayer.steps]]
  /\ replayer' = [at |-> "idle"]
  /\ UNCHANGED <<setup, work, cancelled, cancels, predicates, aborter>>

\* ReplayLiveDiff only stores a copy with another report.
ReplayLiveDiff(j) ==
  /\ replayer.at = "store" /\ pc[j] = "absent" /\ Goto(j, "replayed")
  /\ invs' = [invs EXCEPT ![j] = replayer.copy]
  /\ replayer' = [at |-> "idle"]
  /\ UNCHANGED <<setup, work, cancelled, cancels, journal, predicates, aborter>>

-----------------------------------------------------------------------------

Investigate(i) ==
  \/ Begin(i) \/ Contextualize(i) \/ PushScope(i) \/ LoopHead(i)
  \/ RulesFold(i) \/ RulesTest(i) \/ RulesExhausted(i)
  \/ ModelProposes(i) \/ ModelFails(i)
  \/ Conclude(i) \/ JournalStatus(i) \/ RemoveScope(i) \/ PushRecurrence(i)
  \/ StoreFinal(i) \/ Unregister(i)

Next ==
  \/ \E i \in Inv :
       \/ Investigate(i) \/ Cancel(i) \/ AbortRead(i) \/ Correct(i)
       \/ ReplayGet(i) \/ ReplayRecorded(i) \/ ReplayLiveDiff(i)
  \/ AbortJournal \/ AbortStore \/ ReplaySteps

\* A call that has begun runs on: a reasoner's question and a tool call
\* return under the per-step deadline.  Nothing obliges anyone to begin one.
Started(i) == pc[i] # "absent" /\ Investigate(i)

Spec == Init /\ [][Next]_vars /\ \A i \in Inv : WF_vars(Started(i))

-----------------------------------------------------------------------------

States == {"none", "open", "refuted", "weak", "strong"}
Investigations ==
  [status : Ended \cup {"running"}, term : {"none", "concluded", "aborted", "failed"} \cup Budgets,
   trail : Nat, steps : Nat, calls : Nat, tokens : Nat, cached : Nat, out : Nat, cost : Nat,
   hyps : [Hyps -> States], kind : {"rules", "llm"}, swaps : Nat, capped : BOOLEAN,
   confidence : {"none", "weak", "strong"}, pending : Hyps \cup {Nobody}]
Copies == [status : Ended \cup {"running"}, trail : Nat, swaps : Nat, version : Nat]

TypeOK ==
  /\ setup \in [kind : {"rules", "llm"}, fallback : BOOLEAN]
  /\ pc \in [Inv -> {"absent", "contextualize", "push", "head", "ask", "conclude", "journal",
                     "remove", "recur", "store", "unregister", "done", "replayed"}]
  /\ work \in [Inv -> Investigations \cup {NoInv}]
  /\ cancelled \subseteq Inv /\ cancels \subseteq Inv
  /\ invs \in [Inv -> Copies \cup {NoInv}]
  /\ journal \in [Inv -> [status : Ended \cup {"running", "none"}, steps : Nat]]
  /\ predicates \subseteq [of : Inv, scope : {"investigation", "recurrence"}]
  /\ aborter \in [at : {"idle"}]
       \cup [at : {"journal", "store"}, id : Inv, copy : Copies]
  /\ replayer \in [at : {"idle"}] \cup [at : {"steps"}, id : Inv, copy : Copies]
       \cup [at : {"store"}, copy : Copies, steps : Nat]

(* Steps and calls stay within their budgets, and uncached tokens, cached      *)
(* tokens and cost pass theirs by at most the answer that reached them.  The   *)
(* tokens put out stay within theirs although nothing compares the two: every  *)
(* answer but the last costs a step (engine.go's checks at the head of the     *)
(* loop against what one iteration adds).                                      *)
BudgetsHeld ==
  \A i \in Inv : work[i] # NoInv =>
    /\ work[i].steps <= MaxSteps /\ work[i].calls <= MaxToolCalls
    /\ work[i].calls < work[i].steps \/ work[i].steps = 0
    /\ work[i].tokens < MaxTokensIn \/ \E c \in Charges : work[i].tokens < MaxTokensIn + c.tokens
    /\ work[i].cached < MaxCachedTokensIn \/ \E c \in Charges : work[i].cached < MaxCachedTokensIn + c.cached
    /\ work[i].cost < MaxCost \/ \E c \in Charges : work[i].cost < MaxCost + c.cost
    /\ work[i].out <= MaxTokensOut

(* The journal and the engine tell the same story of an investigation that   *)
(* is over and that no Abort is rewriting: the same status, and as many steps *)
(* as the stored trail (journal.SetStatus and storeInv are separate writes).  *)
JournalAgrees ==
  \A i \in Inv :
    (pc[i] \in {"done", "replayed"} /\ journal[i].status # "none") =>
      /\ journal[i].steps = invs[i].trail
      /\ \/ journal[i].status = invs[i].status
         \/ aborter.at = "store" /\ aborter.id = i

(* An investigation that fell back from the model to the rules never appears *)
(* as concluded, to any reader or in any replay, and never asks the sampler   *)
(* to watch for a recurrence (DR-34 34.4 point 5, the confidence cap).        *)
SwappedNeverConcludes ==
  \A i \in Inv :
    /\ Known(i) /\ invs[i].swaps > 0 => invs[i].status # "concluded" /\ invs[i].swaps = 1
    /\ (Known(i) /\ [of |-> i, scope |-> "recurrence"] \in predicates) => invs[i].swaps = 0

(* Whoever reads that an investigation is over, aborted ones included, finds *)
(* its scope predicate gone from the sampler (DR-11's FR-F06-12a).            *)
ScopeEndsFirst ==
  \A i \in Inv :
    (Known(i) /\ invs[i].status \in Ended) => [of |-> i, scope |-> "investigation"] \notin predicates

(* A stored outcome is final: afterwards it can only become aborted, and only *)
(* once, so a reader never sees an investigation revive.                      *)
OutcomeFinal ==
  [][\A i \in Inv : (Known(i) /\ invs[i].status \in Ended) =>
        invs'[i].status \in {invs[i].status, "aborted"}]_vars

(* Whatever the reasoner answers and the tools return, an investigation that *)
(* was started ends, without the wall clock's help (Investigate's loop).      *)
EveryInvestigationEnds == \A i \in Starts : pc[i] = "contextualize" ~> pc[i] = "done"

=============================================================================
