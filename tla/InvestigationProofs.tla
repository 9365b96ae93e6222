------------------------ MODULE InvestigationProofs ------------------------
(***************************************************************************)
(* The safety properties of the RCA engine for any number of               *)
(* investigations, any catalog of rules and any budgets.                   *)
(*                                                                         *)
(* What is kept of one investigation relates its place in Investigate to   *)
(* its own record, the stored copy, the journal and the predicates: Sound. *)
(* An abort outside the loop works on a copy that only corrections can     *)
(* overtake, and a replay on one that was publishable when it was read.    *)
(***************************************************************************)
EXTENDS Investigation, TLAPS

Early   == {"contextualize", "push", "head", "ask", "conclude", "journal", "remove", "recur", "store"}
Running == Early \cup {"unregister"}
Over    == {"done", "replayed"}
Points  == {"absent"} \cup Running \cup Over
Entries == [status : Ended \cup {"running", "none"}, steps : Nat]

ScopeOf(i) == [of |-> i, scope |-> "investigation"]
RecurOf(i) == [of |-> i, scope |-> "recurrence"]

\* A copy that may be read, replayed or stored.
Publishable(v) == v.swaps > 0 => v.swaps = 1 /\ v.status # "concluded"

\* A record inside Investigate.
Spent(w) ==
  /\ w.tokens < MaxTokensIn \/ \E c \in Charges : w.tokens < MaxTokensIn + c.tokens
  /\ w.cached < MaxCachedTokensIn \/ \E c \in Charges : w.cached < MaxCachedTokensIn + c.cached
  /\ w.cost < MaxCost \/ \E c \in Charges : w.cost < MaxCost + c.cost
Within(w) == w.steps <= MaxSteps /\ w.calls <= MaxToolCalls /\ Spent(w)

\* Every answer but the last costs a step, so that the steps bound the output.
Answers(n) == n * MaxOutputTokens

\* The fallback happens once and leaves its mark.
SwapOK(w) == w.swaps = 0 \/ (w.swaps = 1 /\ w.capped /\ w.kind = "rules")

WorkOK(p, w) ==
  /\ w \in Investigations /\ Within(w) /\ w.out <= Answers(MaxSteps)
  /\ p \in {"contextualize", "push", "head", "ask"} => w.out <= Answers(w.steps)
  /\ p = "contextualize" => w.trail = 0 /\ w.steps = 0 /\ w.calls = 0
  /\ p # "contextualize" => w.calls < w.steps
  /\ p = "ask" => w.steps < MaxSteps /\ w.calls < MaxToolCalls
  /\ SwapOK(w)
  /\ p = "conclude" => w.term # "none"
  /\ p \in {"journal", "remove", "recur", "store"} =>
       w.status \in Ended /\ (w.swaps = 1 => w.status # "concluded")

CopyOK(p, w, v) ==
  /\ v \in Copies /\ Publishable(v)
  /\ p \in Early => v.status = "running" /\ v.swaps = 0

EntryOK(p, w, v, j, rewritten) ==
  /\ j \in Entries
  /\ p = "absent" => j.status = "none" /\ j.steps = 0
  /\ p \in Early => j.status # "none" /\ j.steps = w.trail
  /\ p \in {"remove", "recur", "store"} => j.status = w.status
  /\ p \notin Early \cup {"absent"} =>
       \/ j.status = "none"
       \/ j.steps = v.trail /\ (j.status = v.status \/ rewritten)

Sound(p, w, v, j, watched, scope, recur, rewritten) ==
  /\ p \in Points
  /\ IF p \in Running THEN WorkOK(p, w) /\ watched ELSE w = NoInv
  /\ IF p = "absent" THEN v = NoInv ELSE CopyOK(p, w, v)
  /\ EntryOK(p, w, v, j, rewritten)
  /\ scope => p \in {"head", "ask", "conclude", "journal", "remove"}
  /\ recur => p \in {"store", "unregister", "done"} /\ v.swaps = 0 /\ (p = "store" => w.swaps = 0)

Rewritten(i) == aborter.at = "store" /\ aborter.id = i

Local(i) == Sound(pc[i], work[i], invs[i], journal[i], i \in cancels,
                  ScopeOf(i) \in predicates, RecurOf(i) \in predicates, Rewritten(i))

AborterOK ==
  /\ aborter \in [at : {"idle"}] \cup [at : {"journal", "store"}, id : Inv, copy : Copies]
  /\ aborter.at # "idle" =>
       /\ pc[aborter.id] \in Over /\ aborter.copy.status = "aborted"
       /\ aborter.copy.trail = invs[aborter.id].trail
       /\ aborter.copy.swaps = invs[aborter.id].swaps
  /\ aborter.at = "store" => journal[aborter.id].status \in {"none", "aborted"}

ReplayerOK ==
  /\ replayer \in [at : {"idle"}] \cup [at : {"steps"}, id : Inv, copy : Copies]
                    \cup [at : {"store"}, copy : Copies, steps : Nat]
  /\ replayer.at # "idle" => Publishable(replayer.copy)

Functions ==
  /\ pc = [i \in Inv |-> pc[i]]
  /\ work = [i \in Inv |-> work[i]] /\ invs = [i \in Inv |-> invs[i]]
  /\ journal = [i \in Inv |-> journal[i]]

IInv == setup.kind \in {"rules", "llm"} /\ Functions /\ (\A i \in Inv : Local(i)) /\ AborterOK /\ ReplayerOK

-----------------------------------------------------------------------------
(* The invariant has the shape every step needs: a call touches one index. *)

\* A step of Investigate, of Replay's last write or of Correct: one index gets
\* new values and the aborts under way are about other ones, or unaffected.
LEMMA OneIndex ==
  ASSUME IInv, NEW i \in Inv, NEW p, NEW w, NEW v, NEW j,
         pc' = [pc EXCEPT ![i] = p], work' = [work EXCEPT ![i] = w],
         invs' = [invs EXCEPT ![i] = v], journal' = [journal EXCEPT ![i] = j],
         \A k \in Inv \ {i} : (k \in cancels' <=> k \in cancels)
                              /\ (ScopeOf(k) \in predicates' <=> ScopeOf(k) \in predicates)
                              /\ (RecurOf(k) \in predicates' <=> RecurOf(k) \in predicates),
         aborter' = aborter, setup' = setup, ReplayerOK',
         pc[i] \in Over => p = pc[i] /\ v.trail = invs[i].trail /\ v.swaps = invs[i].swaps /\ j = journal[i],
         Sound(p, w, v, j, i \in cancels', ScopeOf(i) \in predicates', RecurOf(i) \in predicates', Rewritten(i))
  PROVE  IInv'
<1>1. Functions'
  BY DEF IInv, Functions
<1>2. ASSUME NEW k \in Inv PROVE Local(k)'
  <2>1. CASE k = i
    <3>1. pc'[i] = p /\ work'[i] = w /\ invs'[i] = v /\ journal'[i] = j
      BY DEF IInv, Functions
    <3>2. Rewritten(i)' = Rewritten(i)
      BY DEF Rewritten
    <3> QED BY <2>1, <3>1, <3>2 DEF Local
  <2>2. CASE k # i
    <3>1. pc'[k] = pc[k] /\ work'[k] = work[k] /\ invs'[k] = invs[k] /\ journal'[k] = journal[k]
      BY <2>2 DEF IInv, Functions
    <3>2. Rewritten(k)' = Rewritten(k)
      BY DEF Rewritten
    <3>3. (k \in cancels)' = (k \in cancels) /\ (ScopeOf(k) \in predicates)' = (ScopeOf(k) \in predicates)
          /\ (RecurOf(k) \in predicates)' = (RecurOf(k) \in predicates)
      BY <2>2 DEF ScopeOf, RecurOf
    <3>4. Sound(pc'[k], work'[k], invs'[k], journal'[k], k \in cancels,
                ScopeOf(k) \in predicates, RecurOf(k) \in predicates, Rewritten(k))
      BY <3>1 DEF IInv, Local
    <3> QED BY <3>2, <3>3, <3>4 DEF Local
  <2> QED BY <2>1, <2>2
<1>3. AborterOK'
  <2>1. CASE aborter.at = "idle"
    BY <2>1 DEF IInv, AborterOK
  <2>2. CASE aborter.at # "idle"
    <3>1. aborter.id \in Inv
      BY <2>2 DEF IInv, AborterOK
    <3>2. /\ pc'[aborter.id] = pc[aborter.id]
          /\ invs'[aborter.id].trail = invs[aborter.id].trail
          /\ invs'[aborter.id].swaps = invs[aborter.id].swaps
          /\ journal'[aborter.id] = journal[aborter.id]
      BY <2>2, <3>1 DEF IInv, AborterOK, Functions
    <3> QED BY <2>2, <3>1, <3>2 DEF IInv, AborterOK
  <2> QED BY <2>1, <2>2
<1> QED BY <1>1, <1>2, <1>3 DEF IInv

-----------------------------------------------------------------------------
(* The loop.                                                               *)

Open == {"head", "ask", "conclude", "journal", "remove"}

\* A step within the loop, or out of it: it has a record to show and a journal
\* entry that agrees with it; copies and predicates stay as they are.
LEMMA LoopStep ==
  ASSUME IInv, NEW i \in Inv, pc[i] \in Open \ {"remove"}, NEW p \in Open, NEW w, NEW j,
         pc' = [pc EXCEPT ![i] = p], work' = [work EXCEPT ![i] = w], journal' = [journal EXCEPT ![i] = j],
         UNCHANGED <<cancels, invs, predicates>>, Outside,
         WorkOK(p, w), j \in Entries, j.status # "none", j.steps = w.trail,
         p = "remove" => j.status = w.status
  PROVE  IInv'
<1>1. Local(i) /\ pc[i] \in Early /\ p \in Early /\ pc[i] \notin Over /\ p \notin Over /\ p # "absent"
  BY DEF IInv, Open, Early, Over
<1>2. invs' = [invs EXCEPT ![i] = invs[i]] /\ ReplayerOK' /\ aborter' = aborter /\ setup' = setup
  BY DEF IInv, Functions, Outside, ReplayerOK
<1>3. CopyOK(p, w, invs[i]) /\ i \in cancels /\ RecurOf(i) \notin predicates
  BY <1>1 DEF Local, Sound, CopyOK, Running, Open
<1>4. EntryOK(p, w, invs[i], j, Rewritten(i))
  BY <1>1 DEF EntryOK, Open
<1>5. Sound(p, w, invs[i], j, i \in cancels, ScopeOf(i) \in predicates, RecurOf(i) \in predicates, Rewritten(i))
  BY <1>1, <1>3, <1>4 DEF Sound, Points, Running, Open
<1> QED BY <1>1, <1>2, <1>5, OneIndex

\* What is known of a record on its way through Investigate.
LEMMA At ==
  ASSUME IInv, NEW i \in Inv, pc[i] \in Early
  PROVE  /\ WorkOK(pc[i], work[i]) /\ journal[i] \in Entries /\ journal[i].status # "none"
         /\ journal[i].steps = work[i].trail /\ i \in cancels
         /\ invs[i] \in Copies /\ invs[i].status = "running" /\ invs[i].swaps = 0
  BY DEF IInv, Local, Sound, EntryOK, CopyOK, Early, Running

\* The numbers of a record and of the budgets.
LEMMA Numbers ==
  /\ MaxSteps \in Nat \ {0} /\ MaxToolCalls \in Nat \ {0} /\ MaxTokensIn \in Nat \ {0} /\ MaxCachedTokensIn \in Nat \ {0}
  /\ MaxTokensOut \in Nat \ {0} /\ MaxCost \in Nat \ {0} /\ MaxOutputTokens \in Nat
  /\ \A c \in Charges : c \in [tokens : Nat, cached : Nat, out : 0..MaxOutputTokens, cost : Nat]
  BY InvestigationAssumption

\* What a number of answers may put out at most.
LEMMA Outputs ==
  /\ \A n \in Nat : Answers(n) \in Nat /\ Answers(n + 1) = Answers(n) + MaxOutputTokens
  /\ \A m, n \in Nat : m <= n => Answers(m) <= Answers(n)
  /\ Answers(MaxSteps) <= MaxTokensOut /\ Answers(0) = 0
<1>1. \A n \in Nat : Answers(n) \in Nat /\ Answers(n + 1) = Answers(n) + MaxOutputTokens
  BY Numbers DEF Answers
<1>2. ASSUME NEW m \in Nat, NEW n \in Nat, m <= n PROVE Answers(m) <= Answers(n)
  <2>1. PICK d \in Nat : n = m + d
    BY <1>2
  <2>2. n * MaxOutputTokens = m * MaxOutputTokens + d * MaxOutputTokens /\ d * MaxOutputTokens \in Nat
        /\ m * MaxOutputTokens \in Nat
    BY <2>1, Numbers
  <2> QED BY <2>2 DEF Answers
<1> QED BY <1>1, <1>2, InvestigationAssumption DEF Answers

LEMMA OneExhausted ==
  ASSUME NEW w, Exhausted(w) # {}
  PROVE  FirstExhausted(w) \in Budgets
<1> DEFINE order == <<"steps", "tool_calls", "tokens", "cached_tokens", "cost">>
           P(r) == \A q \in Exhausted(w) : \E k \in 1..5 : order[k] = r /\ \A j \in 1..(k - 1) : order[j] # q
<1>1. Exhausted(w) \subseteq {"steps", "tool_calls", "tokens", "cached_tokens", "cost"}
  BY DEF Exhausted, Budgets
<1>2. ASSUME "steps" \in Exhausted(w)
      PROVE  \E r \in Exhausted(w) : P(r)
  <2>1. P("steps")
    <3>1. 1 \in 1..5 /\ order[1] = "steps"
      OBVIOUS
    <3>2. \A j \in 1..(1 - 1) : FALSE
      OBVIOUS
    <3> HIDE DEF order
    <3> QED BY <3>1, <3>2
  <2> QED BY <1>2, <2>1
<1>3. ASSUME "steps" \notin Exhausted(w) /\ "tool_calls" \in Exhausted(w)
      PROVE  \E r \in Exhausted(w) : P(r)
  <2>1. P("tool_calls")
    <3>1. 2 \in 1..5 /\ order[2] = "tool_calls" /\ order[1] = "steps"
      OBVIOUS
    <3>2. \A j \in 1..(2 - 1) : j = 1
      OBVIOUS
    <3>3. "steps" \notin Exhausted(w)
      BY <1>3
    <3> HIDE DEF order
    <3> QED BY <3>1, <3>2, <3>3
  <2> QED BY <1>3, <2>1
<1>4. ASSUME {"steps", "tool_calls"} \cap Exhausted(w) = {}, "tokens" \in Exhausted(w)
      PROVE  \E r \in Exhausted(w) : P(r)
  <2>1. P("tokens")
    <3>1. 3 \in 1..5 /\ order[3] = "tokens" /\ order[1] = "steps" /\ order[2] = "tool_calls"
      OBVIOUS
    <3>2. \A j \in 1..(3 - 1) : j = 1 \/ j = 2
      OBVIOUS
    <3>3. "steps" \notin Exhausted(w) /\ "tool_calls" \notin Exhausted(w)
      BY <1>4
    <3> HIDE DEF order
    <3> QED BY <3>1, <3>2, <3>3
  <2> QED BY <1>4, <2>1
<1>5. ASSUME {"steps", "tool_calls", "tokens"} \cap Exhausted(w) = {}, "cached_tokens" \in Exhausted(w)
      PROVE  \E r \in Exhausted(w) : P(r)
  <2>1. P("cached_tokens")
    <3>1. 4 \in 1..5 /\ order[4] = "cached_tokens" /\ order[1] = "steps" /\ order[2] = "tool_calls" /\ order[3] = "tokens"
      OBVIOUS
    <3>2. \A j \in 1..(4 - 1) : j = 1 \/ j = 2 \/ j = 3
      OBVIOUS
    <3>3. "steps" \notin Exhausted(w) /\ "tool_calls" \notin Exhausted(w) /\ "tokens" \notin Exhausted(w)
      BY <1>5
    <3> HIDE DEF order
    <3> QED BY <3>1, <3>2, <3>3
  <2> QED BY <1>5, <2>1
<1>6. ASSUME Exhausted(w) = {"cost"}
      PROVE  \E r \in Exhausted(w) : P(r)
  <2>1. P("cost")
    <3>1. 5 \in 1..5 /\ order[5] = "cost" /\ order[1] = "steps" /\ order[2] = "tool_calls" /\ order[3] = "tokens"
          /\ order[4] = "cached_tokens"
      OBVIOUS
    <3>2. \A j \in 1..(5 - 1) : j = 1 \/ j = 2 \/ j = 3 \/ j = 4
      OBVIOUS
    <3>3. "steps" \notin Exhausted(w) /\ "tool_calls" \notin Exhausted(w) /\ "tokens" \notin Exhausted(w)
          /\ "cached_tokens" \notin Exhausted(w)
      BY <1>6
    <3> HIDE DEF order
    <3> QED BY <3>1, <3>2, <3>3
  <2> QED BY <1>6, <2>1
<1>7. \E r \in Exhausted(w) : P(r)
  BY <1>1, <1>2, <1>3, <1>4, <1>5, <1>6
<1> QED BY <1>1, <1>7 DEF FirstExhausted, Budgets

LEMMA Headed ==
  ASSUME IInv, NEW i \in Inv, LoopHead(i)
  PROVE  IInv'
<1>1. pc[i] = "head" /\ pc[i] \in Early /\ pc[i] \in Open \ {"remove"} /\ "conclude" \in Open /\ "ask" \in Open
  BY DEF LoopHead, Early, Open
<1> DEFINE w == work[i]
<1>2. WorkOK("head", w) /\ w \in Investigations
  BY <1>1, At DEF WorkOK
<1>3. journal' = [journal EXCEPT ![i] = journal[i]] /\ UNCHANGED <<cancels, invs, predicates>> /\ Outside
  BY DEF LoopHead, IInv, Functions
<1>4. ASSUME NEW why \in {"aborted"} \cup Budgets, Break(i, why) PROVE IInv'
  <2> DEFINE u == [w EXCEPT !.term = why]
  <2>1. work' = [work EXCEPT ![i] = u] /\ pc' = [pc EXCEPT ![i] = "conclude"]
    BY <1>4 DEF Break, Goto, IInv, Functions
  <2>2. u \in Investigations /\ u.term # "none" /\ Within(u) /\ u.calls < u.steps /\ u.swaps = w.swaps
        /\ u.out <= Answers(MaxSteps)
        /\ u.capped = w.capped /\ u.kind = w.kind /\ u.trail = w.trail
    BY <1>2, <1>4 DEF WorkOK, Investigations, Within, Spent, Budgets
  <2> HIDE DEF u
  <2>3. WorkOK("conclude", u)
    BY <1>2, <2>2 DEF WorkOK, SwapOK
  <2> QED BY <1>1, <1>3, <2>1, <2>2, <2>3, At, LoopStep
<1>5. CASE Exhausted(w) = {} /\ Goto(i, "ask") /\ UNCHANGED work
  <2>1. w.steps < MaxSteps /\ w.calls < MaxToolCalls
    <3>1. "steps" \notin Exhausted(w) /\ "tool_calls" \notin Exhausted(w)
      BY <1>5
    <3>2. ~(w.steps >= MaxSteps) /\ ~(w.calls >= MaxToolCalls)
      BY <3>1 DEF Exhausted, Budgets
    <3> QED BY <1>2, <3>2, Numbers DEF Investigations
  <2>2. WorkOK("ask", w)
    BY <1>2, <2>1 DEF WorkOK
  <2>3. work' = [work EXCEPT ![i] = w] /\ pc' = [pc EXCEPT ![i] = "ask"]
    BY <1>5 DEF Goto, IInv, Functions
  <2> HIDE DEF w
  <2>4. journal[i].steps = w.trail /\ journal[i] \in Entries /\ journal[i].status # "none"
    BY <1>1, At DEF w
  <2> QED BY <1>1, <1>3, <2>2, <2>3, <2>4, LoopStep
<1>6. Exhausted(w) # {} => FirstExhausted(w) \in Budgets
  BY OneExhausted
<1> QED BY <1>4, <1>5, <1>6 DEF LoopHead, Budgets

\* One more step in the journal's entry.
LEMMA Appended ==
  ASSUME IInv, NEW i \in Inv, journal[i] \in Entries, AppendStep(i)
  PROVE  \E j \in Entries : /\ journal' = [journal EXCEPT ![i] = j]
                            /\ j.status = journal[i].status /\ j.steps = journal[i].steps + 1
<1> DEFINE j == [journal[i] EXCEPT !.steps = @ + 1]
<1>1. j \in Entries /\ j.status = journal[i].status /\ j.steps = journal[i].steps + 1
  BY DEF Entries
<1>2. journal' = [journal EXCEPT ![i] = j]
  BY DEF AppendStep, IInv, Functions
<1> QED BY <1>1, <1>2

\* One answer more, before the steps are used up.
LEMMA Climbing ==
  ASSUME NEW n \in Nat, n < MaxSteps
  PROVE  /\ Answers(n) \in Nat /\ Answers(n + 1) \in Nat /\ Answers(MaxSteps) \in Nat
         /\ Answers(n + 1) = Answers(n) + MaxOutputTokens /\ Answers(n + 1) <= Answers(MaxSteps)
<1>1. n + 1 \in Nat /\ MaxSteps \in Nat /\ n + 1 <= MaxSteps
  BY Numbers
<1> QED BY ONLY <1>1, n \in Nat, Outputs

\* A step that charges nothing puts nothing out.
LEMMA Uncharged ==
  ASSUME NEW w \in Investigations
  PROVE  w.out \in Nat /\ w.out <= w.out + MaxOutputTokens /\ w.steps + 1 # w.steps
  BY Numbers DEF Investigations

\* The answer of a reasoner, whatever it is: it may add a step, a call with it,
\* and what it cost.
LEMMA Answered ==
  ASSUME IInv, NEW i \in Inv, pc[i] = "ask", NEW p \in {"head", "conclude"}, NEW u \in Investigations,
         pc' = [pc EXCEPT ![i] = p], work' = [work EXCEPT ![i] = u],
         UNCHANGED <<cancels, invs, predicates>>, Outside,
         \/ u.steps = work[i].steps /\ u.trail = work[i].trail /\ u.calls = work[i].calls /\ UNCHANGED journal
         \/ /\ u.steps = work[i].steps + 1 /\ u.trail = work[i].trail + 1
            /\ u.calls \in {work[i].calls, work[i].calls + 1} /\ AppendStep(i),
         u.out <= work[i].out + MaxOutputTokens, p = "head" /\ u.steps = work[i].steps => u.out = work[i].out,
         Spent(u), SwapOK(u),
         p = "conclude" => u.term # "none"
  PROVE  IInv'
<1>1. pc[i] \in Early /\ pc[i] \in Open \ {"remove"} /\ p \in Open /\ p # "remove" /\ p # "contextualize" /\ p # "ask"
      /\ p \notin {"journal", "remove", "recur", "store"}
  BY DEF Early, Open
<1>2. WorkOK("ask", work[i]) /\ journal[i] \in Entries /\ journal[i].status # "none" /\ journal[i].steps = work[i].trail
  BY <1>1, At
<1>3. /\ work[i].steps \in Nat /\ work[i].calls \in Nat /\ u.steps \in Nat /\ u.calls \in Nat
      /\ work[i].steps < MaxSteps /\ work[i].calls < MaxToolCalls /\ work[i].calls < work[i].steps
  BY <1>2 DEF WorkOK, Investigations
<1>4. u.steps <= MaxSteps /\ u.calls <= MaxToolCalls /\ u.calls < u.steps
  BY <1>3, Numbers
<1>5. WorkOK(p, u)
  <2>1. work[i].out \in Nat /\ u.out \in Nat /\ work[i].out <= Answers(work[i].steps)
    BY <1>2 DEF WorkOK, Investigations
  <2>2. /\ Answers(work[i].steps) \in Nat /\ Answers(work[i].steps + 1) \in Nat /\ Answers(MaxSteps) \in Nat
        /\ Answers(work[i].steps + 1) = Answers(work[i].steps) + MaxOutputTokens
        /\ Answers(work[i].steps + 1) <= Answers(MaxSteps)
    BY <1>3, Climbing
  <2>3. Answers(work[i].steps + 1) <= Answers(MaxSteps)
    BY <2>2
  <2>4. u.out <= Answers(work[i].steps + 1)
    BY <2>1, <2>2, Numbers
  <2>5. u.out <= Answers(MaxSteps)
    BY <2>1, <2>2, <2>3, <2>4
  <2>6. p = "head" => u.out <= Answers(u.steps)
    BY <1>3, <2>1, <2>4
  <2> QED BY <1>1, <1>4, <2>5, <2>6 DEF WorkOK, Within
<1>6. CASE UNCHANGED journal /\ u.trail = work[i].trail
  <2>1. journal' = [journal EXCEPT ![i] = journal[i]]
    BY <1>6 DEF IInv, Functions
  <2>2. journal[i].steps = u.trail
    BY <1>2, <1>6
  <2> QED BY <1>1, <1>2, <1>5, <2>1, <2>2, LoopStep
<1>7. CASE AppendStep(i) /\ u.trail = work[i].trail + 1
  <2>1. PICK j \in Entries : /\ journal' = [journal EXCEPT ![i] = j]
                             /\ j.status = journal[i].status /\ j.steps = journal[i].steps + 1
    BY <1>2, <1>7, Appended
  <2> QED BY <1>1, <1>2, <1>5, <1>7, <2>1, LoopStep
<1> QED BY <1>6, <1>7

\* A record that answers to the invariant in place "ask".
LEMMA Asking ==
  ASSUME IInv, NEW i \in Inv, pc[i] = "ask"
  PROVE  WorkOK("ask", work[i]) /\ work[i] \in Investigations
  BY At DEF Early, WorkOK

Same(u, w) ==
  /\ u.steps = w.steps /\ u.trail = w.trail /\ u.calls = w.calls /\ u.tokens = w.tokens /\ u.cost = w.cost /\ u.cached = w.cached /\ u.out = w.out
  /\ u.swaps = w.swaps /\ u.capped = w.capped /\ u.kind = w.kind

LEMMA Edited ==
  ASSUME NEW w \in Investigations
  PROVE  /\ \A h \in Hyps \cup {Nobody} : [w EXCEPT !.pending = h] \in Investigations /\ Same([w EXCEPT !.pending = h], w)
         /\ \A h \in Hyps, x \in States :
              [w EXCEPT !.hyps[h] = x] \in Investigations /\ Same([w EXCEPT !.hyps[h] = x], w)
         /\ \A t \in {"concluded", "aborted", "failed"} \cup Budgets :
              [w EXCEPT !.term = t] \in Investigations /\ Same([w EXCEPT !.term = t], w) /\ [w EXCEPT !.term = t].term = t
<1>1. \A h \in Hyps \cup {Nobody} : [w EXCEPT !.pending = h] \in Investigations /\ Same([w EXCEPT !.pending = h], w)
  BY DEF Investigations, Same
<1>2. ASSUME NEW h \in Hyps, NEW x \in States
      PROVE  [w EXCEPT !.hyps[h] = x] \in Investigations /\ Same([w EXCEPT !.hyps[h] = x], w)
  <2> DEFINE hs == [w.hyps EXCEPT ![h] = x]
             u == [w EXCEPT !.hyps = hs]
  <2>1. w.hyps \in [Hyps -> States]
    BY DEF Investigations
  <2>2. hs \in [Hyps -> States]
    BY <2>1
  <2>3. [w EXCEPT !.hyps[h] = x] = u
    BY DEF Investigations
  <2> HIDE DEF hs
  <2>4. u \in Investigations /\ Same(u, w)
    BY <2>2 DEF Investigations, Same
  <2> QED BY <2>3, <2>4
<1>3. \A t \in {"concluded", "aborted", "failed"} \cup Budgets :
        [w EXCEPT !.term = t] \in Investigations /\ Same([w EXCEPT !.term = t], w) /\ [w EXCEPT !.term = t].term = t
  BY DEF Investigations, Same
<1> QED BY <1>1, <1>2, <1>3

LEMMA Counted ==
  ASSUME NEW w \in Investigations
  PROVE  /\ Reasoned(w) \in Investigations /\ Reasoned(w).steps = w.steps + 1 /\ Reasoned(w).trail = w.trail + 1
         /\ Reasoned(w).calls = w.calls /\ Reasoned(w).tokens = w.tokens /\ Reasoned(w).cost = w.cost /\ Reasoned(w).cached = w.cached /\ Reasoned(w).out = w.out
         /\ Reasoned(w).swaps = w.swaps /\ Reasoned(w).capped = w.capped /\ Reasoned(w).kind = w.kind
<1> DEFINE a == w.trail + 1
           b == w.steps + 1
           u == [w EXCEPT !.trail = a, !.steps = b]
<1>1. a \in Nat /\ b \in Nat
  BY DEF Investigations
<1>2. Reasoned(w) = u
  BY DEF Reasoned
<1>3. w.trail + 1 = a /\ w.steps + 1 = b
  OBVIOUS
<1> HIDE DEF a, b
<1>4. u \in Investigations /\ u.steps = b /\ u.trail = a /\ u.calls = w.calls /\ u.tokens = w.tokens
      /\ u.cost = w.cost /\ u.cached = w.cached /\ u.out = w.out /\ u.swaps = w.swaps /\ u.capped = w.capped /\ u.kind = w.kind
  BY <1>1 DEF Investigations
<1> QED BY <1>2, <1>3, <1>4

LEMMA CalledUp ==
  ASSUME NEW w \in Investigations, NEW h \in Hyps \cup {Nobody}, NEW ok \in BOOLEAN
  PROVE  LET u == Called(w, h, ok) IN
         /\ u \in Investigations /\ u.steps = w.steps + 1 /\ u.trail = w.trail + 1
         /\ u.calls = w.calls + 1 /\ u.tokens = w.tokens /\ u.cost = w.cost /\ u.cached = w.cached /\ u.out = w.out
         /\ u.swaps = w.swaps /\ u.capped = w.capped /\ u.kind = w.kind
<1> DEFINE v == Reasoned(w)
           g == IF ok THEN h ELSE Nobody
           n == v.calls + 1
           u == [v EXCEPT !.calls = n, !.pending = g]
<1>1. v \in Investigations /\ n \in Nat /\ g \in Hyps \cup {Nobody}
  BY Counted DEF Investigations
<1>2. Called(w, h, ok) = u
  BY DEF Called
<1> HIDE DEF v, g, n
<1>3. u \in Investigations /\ u.steps = v.steps /\ u.trail = v.trail /\ u.calls = n /\ u.tokens = v.tokens
      /\ u.cost = v.cost /\ u.cached = v.cached /\ u.out = v.out /\ u.swaps = v.swaps /\ u.capped = v.capped /\ u.kind = v.kind
  BY <1>1 DEF Investigations
<1> QED BY <1>2, <1>3, Counted DEF v, n

LEMMA Folded ==
  ASSUME IInv, NEW i \in Inv, RulesFold(i)
  PROVE  IInv'
<1> DEFINE w0 == work[i]
           r == w0.pending
           w1 == [w0 EXCEPT !.pending = Nobody]
<1>1. pc[i] = "ask" /\ r \in Hyps /\ UNCHANGED <<cancels, invs, predicates>> /\ Outside
  BY DEF RulesFold, Hyps
<1>2. WorkOK("ask", w0) /\ w0 \in Investigations
  BY <1>1, Asking
<1>3. PICK verdict \in Confirm(r) :
        IF verdict = "strong"
        THEN /\ work' = [work EXCEPT ![i] = [w1 EXCEPT !.hyps[r] = verdict, !.term = "concluded"]]
             /\ Goto(i, "conclude") /\ UNCHANGED journal
        ELSE /\ work' = [work EXCEPT ![i] = Reasoned([w1 EXCEPT !.hyps[r] = verdict])]
             /\ Goto(i, "head") /\ AppendStep(i)
  BY DEF RulesFold
<1> DEFINE w2 == [w1 EXCEPT !.hyps[r] = verdict]
<1>4. w1 \in Investigations /\ Same(w1, w0)
  BY <1>2, Edited
<1>5. w2 \in Investigations /\ Same(w2, w1)
  <2> HIDE DEF w1
  <2> QED BY <1>1, <1>3, <1>4, Edited DEF Confirm, States
<1>6. CASE verdict = "strong"
  <2> DEFINE u == [w2 EXCEPT !.term = "concluded"]
  <2>1. work' = [work EXCEPT ![i] = u] /\ pc' = [pc EXCEPT ![i] = "conclude"] /\ UNCHANGED journal
    BY <1>3, <1>6 DEF Goto
  <2> HIDE DEF w2
  <2>2. u \in Investigations /\ Same(u, w2) /\ u.term = "concluded"
    BY <1>5, Edited
  <2> HIDE DEF u, w1
  <2>3. u.steps = w0.steps /\ u.trail = w0.trail /\ u.calls = w0.calls /\ u.tokens = w0.tokens /\ u.cost = w0.cost /\ u.cached = w0.cached /\ u.out = w0.out
        /\ u.swaps = w0.swaps /\ u.capped = w0.capped /\ u.kind = w0.kind
    BY <1>4, <1>5, <2>2 DEF Same
  <2>4. Spent(u) /\ SwapOK(u)
    BY <1>2, <2>3 DEF WorkOK, Within, Spent, SwapOK
  <2> QED BY <1>1, <1>2, <2>1, <2>2, <2>3, <2>4, Uncharged, Answered
<1>7. CASE verdict # "strong"
  <2> DEFINE u == Reasoned(w2)
  <2>1. work' = [work EXCEPT ![i] = u] /\ pc' = [pc EXCEPT ![i] = "head"] /\ AppendStep(i)
    BY <1>3, <1>7 DEF Goto
  <2> HIDE DEF w2, w1
  <2>2. u \in Investigations /\ u.steps = w0.steps + 1 /\ u.trail = w0.trail + 1 /\ u.calls = w0.calls
        /\ u.tokens = w0.tokens /\ u.cost = w0.cost /\ u.cached = w0.cached /\ u.out = w0.out
        /\ u.swaps = w0.swaps /\ u.capped = w0.capped /\ u.kind = w0.kind
    BY <1>4, <1>5, Counted DEF Same
  <2> HIDE DEF u
  <2>3. Spent(u) /\ SwapOK(u)
    BY <1>2, <2>2 DEF WorkOK, Within, Spent, SwapOK
  <2> QED BY <1>1, <1>2, <2>1, <2>2, <2>3, Uncharged, Answered
<1> QED BY <1>6, <1>7

LEMMA Tested ==
  ASSUME IInv, NEW i \in Inv, RulesTest(i)
  PROVE  IInv'
<1> DEFINE w0 == work[i]
<1>1. pc[i] = "ask" /\ UNCHANGED <<cancels, invs, predicates>> /\ Outside /\ AppendStep(i) /\ pc' = [pc EXCEPT ![i] = "head"]
  BY DEF RulesTest, Goto
<1>2. WorkOK("ask", w0) /\ w0 \in Investigations
  BY <1>1, Asking
<1>3. PICK k \in DOMAIN Catalog, ok \in BOOLEAN :
        work' = [work EXCEPT ![i] = Called([w0 EXCEPT !.hyps[Catalog[k]] = "open"], Catalog[k], ok)]
  BY DEF RulesTest, Untried, Dispatch
<1> DEFINE w1 == [w0 EXCEPT !.hyps[Catalog[k]] = "open"]
           u == Called(w1, Catalog[k], ok)
<1>4. Catalog[k] \in Hyps
  BY DEF Hyps, Rules
<1>5. w1 \in Investigations /\ Same(w1, w0)
  BY <1>2, <1>4, Edited DEF States
<1> HIDE DEF w1
<1>6. u \in Investigations /\ u.steps = w0.steps + 1 /\ u.trail = w0.trail + 1 /\ u.calls = w0.calls + 1
      /\ u.tokens = w0.tokens /\ u.cost = w0.cost /\ u.cached = w0.cached /\ u.out = w0.out
      /\ u.swaps = w0.swaps /\ u.capped = w0.capped /\ u.kind = w0.kind
  BY <1>4, <1>5, CalledUp DEF Same
<1>7. work' = [work EXCEPT ![i] = u]
  BY <1>3 DEF w1
<1> HIDE DEF u
<1>8. Spent(u) /\ SwapOK(u)
  BY <1>2, <1>6 DEF WorkOK, Within, Spent, SwapOK
<1> QED BY <1>1, <1>2, <1>6, <1>7, <1>8, Uncharged, Answered

LEMMA RanOut ==
  ASSUME IInv, NEW i \in Inv, RulesExhausted(i)
  PROVE  IInv'
<1> DEFINE w0 == work[i]
           u == [w0 EXCEPT !.term = "concluded"]
<1>1. pc[i] = "ask" /\ UNCHANGED <<cancels, invs, journal, predicates>> /\ Outside /\ pc' = [pc EXCEPT ![i] = "conclude"]
  BY DEF RulesExhausted, Break, Goto
<1>2. WorkOK("ask", w0) /\ w0 \in Investigations
  BY <1>1, Asking
<1>3. work' = [work EXCEPT ![i] = u]
  BY DEF RulesExhausted, Break, IInv, Functions
<1>4. u \in Investigations /\ Same(u, w0) /\ u.term = "concluded"
  BY <1>2, Edited
<1> HIDE DEF u
<1>5. Spent(u) /\ SwapOK(u)
  BY <1>2, <1>4 DEF WorkOK, Within, Spent, SwapOK, Same
<1> QED BY <1>1, <1>2, <1>3, <1>4, <1>5, Uncharged, Answered DEF Same

\* The model is only asked while its budgets last.
LEMMA Proposed ==
  ASSUME IInv, NEW i \in Inv, ModelProposes(i)
  PROVE  IInv'
<1> DEFINE w0 == work[i]
           w1 == [w0 EXCEPT !.pending = Nobody]
<1>1. pc[i] = "ask" /\ UNCHANGED <<cancels, invs, predicates>> /\ Outside /\ w0.kind = "llm" /\ ~PreflightExceeded(w0)
  BY DEF ModelProposes
<1>2. WorkOK("ask", w0) /\ w0 \in Investigations
  BY <1>1, Asking
<1>3. w1 \in Investigations /\ Same(w1, w0)
  BY <1>2, Edited
<1>4. PICK c \in Charges, m \in Moves \cup {<<Nobody>>} :
       LET w == IF m = <<Nobody>> THEN Charged(w1, c) ELSE [Charged(w1, c) EXCEPT !.hyps[m[1]] = m[2]]
       IN \/ /\ work' = [work EXCEPT ![i] = [w EXCEPT !.term = "concluded"]]
             /\ Goto(i, "conclude") /\ UNCHANGED journal
          \/ /\ work' = [work EXCEPT ![i] = Reasoned(w)]
             /\ Goto(i, "head") /\ AppendStep(i)
          \/ /\ \E tool \in Tools : \E ok \in Dispatch(tool) :
                  work' = [work EXCEPT ![i] = Called(w, m[1], ok)]
             /\ Goto(i, "head") /\ AppendStep(i)
  BY DEF ModelProposes
<1> DEFINE w2 == Charged(w1, c)
           w == IF m = <<Nobody>> THEN w2 ELSE [w2 EXCEPT !.hyps[m[1]] = m[2]]
<1> HIDE DEF w1
<1>5. c.tokens \in Nat /\ c.cached \in Nat /\ c.out \in 0..MaxOutputTokens /\ c.out \in Nat /\ c.cost \in Nat
  BY Numbers
<1>6. /\ w2 \in Investigations /\ w2.tokens = w1.tokens + c.tokens /\ w2.cost = w1.cost + c.cost
      /\ w2.cached = w1.cached + c.cached /\ w2.out = w1.out + c.out
      /\ w2.steps = w1.steps /\ w2.trail = w1.trail /\ w2.calls = w1.calls
      /\ w2.swaps = w1.swaps /\ w2.capped = w1.capped /\ w2.kind = w1.kind
  <2> DEFINE a == w1.tokens + c.tokens
             b == w1.cost + c.cost
             e == w1.cached + c.cached
             o == w1.out + c.out
             v == [w1 EXCEPT !.tokens = a, !.cached = e, !.out = o, !.cost = b]
  <2>1. a \in Nat /\ b \in Nat /\ e \in Nat /\ o \in Nat
    BY <1>3, <1>5 DEF Investigations
  <2>2. w2 = v /\ w1.tokens + c.tokens = a /\ w1.cost + c.cost = b /\ w1.cached + c.cached = e /\ w1.out + c.out = o
    BY DEF Charged
  <2> HIDE DEF a, b, e, o, w2
  <2>3. v \in Investigations /\ v.tokens = a /\ v.cost = b /\ v.cached = e /\ v.out = o /\ v.steps = w1.steps /\ v.trail = w1.trail
        /\ v.calls = w1.calls /\ v.swaps = w1.swaps /\ v.capped = w1.capped /\ v.kind = w1.kind
    BY <1>3, <2>1 DEF Investigations
  <2> QED BY <2>2, <2>3
<1> HIDE DEF w2
<1>7. m[1] \in Hyps \cup {Nobody} /\ w \in Investigations /\ Same(w, w2)
  <2>1. CASE m = <<Nobody>>
    BY <1>6, <2>1 DEF Same
  <2>2. CASE m # <<Nobody>>
    <3>1. m[1] \in Hyps /\ m[2] \in States
      BY <2>2, InvestigationAssumption DEF Verdicts, States
    <3> QED BY <1>6, <2>2, <3>1, Edited
  <2> QED BY <2>1, <2>2
<1> HIDE DEF w
<1>8. /\ w.steps = w0.steps /\ w.trail = w0.trail /\ w.calls = w0.calls
      /\ w.tokens = w0.tokens + c.tokens /\ w.cost = w0.cost + c.cost /\ SwapOK(w)
      /\ w.cached = w0.cached + c.cached /\ w.out = w0.out + c.out
  BY <1>2, <1>3, <1>6, <1>7 DEF Same, WorkOK, SwapOK
<1>9. /\ w0.tokens < MaxTokensIn /\ w0.cached < MaxCachedTokensIn /\ w0.cost < MaxCost
      /\ w0.tokens \in Nat /\ w0.cached \in Nat /\ w0.out \in Nat /\ w0.cost \in Nat
  BY <1>1, <1>2, Numbers DEF PreflightExceeded, Investigations
<1>10. /\ w.tokens < MaxTokensIn + c.tokens /\ w.cached < MaxCachedTokensIn + c.cached /\ w.cost < MaxCost + c.cost
       /\ w.out <= w0.out + MaxOutputTokens
  BY <1>5, <1>8, <1>9, Numbers
<1>11. Spent(w)
  BY <1>10 DEF Spent
<1>12. CASE work' = [work EXCEPT ![i] = [w EXCEPT !.term = "concluded"]] /\ Goto(i, "conclude") /\ UNCHANGED journal
  <2> DEFINE u == [w EXCEPT !.term = "concluded"]
  <2>1. u \in Investigations /\ Same(u, w) /\ u.term = "concluded"
    BY <1>7, Edited
  <2>2. work' = [work EXCEPT ![i] = u] /\ pc' = [pc EXCEPT ![i] = "conclude"]
    BY <1>12 DEF Goto
  <2> HIDE DEF u
  <2>3. Spent(u) /\ SwapOK(u) /\ u.steps = w0.steps /\ u.trail = w0.trail /\ u.calls = w0.calls /\ u.out = w.out
    BY <1>8, <1>11, <2>1 DEF Spent, SwapOK, Same
  <2> QED BY <1>1, <1>2, <1>10, <1>12, <2>1, <2>2, <2>3, Uncharged, Answered
<1>13. CASE work' = [work EXCEPT ![i] = Reasoned(w)] /\ Goto(i, "head") /\ AppendStep(i)
  <2> DEFINE u == Reasoned(w)
  <2>1. /\ u \in Investigations /\ u.steps = w0.steps + 1 /\ u.trail = w0.trail + 1 /\ u.calls = w0.calls
        /\ u.out = w.out /\ Spent(u) /\ SwapOK(u)
    BY <1>7, <1>8, <1>11, Counted DEF Spent, SwapOK
  <2>2. work' = [work EXCEPT ![i] = u] /\ pc' = [pc EXCEPT ![i] = "head"]
    BY <1>13 DEF Goto
  <2> HIDE DEF u
  <2> QED BY <1>1, <1>2, <1>10, <1>13, <2>1, <2>2, Uncharged, Answered
<1>14. ASSUME NEW ok \in BOOLEAN, work' = [work EXCEPT ![i] = Called(w, m[1], ok)], Goto(i, "head"), AppendStep(i)
       PROVE  IInv'
  <2> DEFINE u == Called(w, m[1], ok)
  <2>1. /\ u \in Investigations /\ u.steps = w0.steps + 1 /\ u.trail = w0.trail + 1 /\ u.calls = w0.calls + 1
        /\ u.out = w.out /\ Spent(u) /\ SwapOK(u)
    <3>1. /\ u \in Investigations /\ u.steps = w.steps + 1 /\ u.trail = w.trail + 1 /\ u.calls = w.calls + 1
          /\ u.tokens = w.tokens /\ u.cached = w.cached /\ u.out = w.out /\ u.cost = w.cost
          /\ u.swaps = w.swaps /\ u.capped = w.capped /\ u.kind = w.kind
      BY <1>7, CalledUp
    <3> HIDE DEF u
    <3> QED BY <1>8, <1>11, <3>1 DEF Spent, SwapOK
  <2>2. work' = [work EXCEPT ![i] = u] /\ pc' = [pc EXCEPT ![i] = "head"]
    BY <1>14 DEF Goto
  <2> HIDE DEF u
  <2> QED BY <1>1, <1>2, <1>10, <1>14, <2>1, <2>2, Uncharged, Answered
<1> QED BY <1>4, <1>12, <1>13, <1>14 DEF w, w2, Dispatch

\* The reasoner is swapped at most once: the rules never fail.
LEMMA Failed ==
  ASSUME IInv, NEW i \in Inv, ModelFails(i)
  PROVE  IInv'
<1> DEFINE w0 == work[i]
           w1 == [w0 EXCEPT !.pending = Nobody]
<1>1. pc[i] = "ask" /\ UNCHANGED <<cancels, invs, journal, predicates>> /\ Outside /\ w0.kind = "llm"
  BY DEF ModelFails
<1>2. WorkOK("ask", w0) /\ w0 \in Investigations
  BY <1>1, Asking
<1>3. w1 \in Investigations /\ Same(w1, w0)
  BY <1>2, Edited
<1> HIDE DEF w1
<1>4. Spent(w1) /\ w1.swaps = 0
  BY <1>1, <1>2, <1>3 DEF WorkOK, Within, Spent, SwapOK, Same
<1>5. CASE setup.fallback
  <2> DEFINE n == w1.swaps + 1
             rules == "rules"
             yes == TRUE
             u == [w1 EXCEPT !.kind = rules, !.swaps = n, !.capped = yes]
  <2>1. n \in Nat /\ n = 1 /\ rules \in {"rules", "llm"} /\ rules = "rules" /\ yes \in BOOLEAN /\ yes
    BY <1>4
  <2>2. work' = [work EXCEPT ![i] = u] /\ pc' = [pc EXCEPT ![i] = "head"]
    BY <1>5 DEF ModelFails, Goto, w1
  <2> HIDE DEF n, rules, yes
  <2>3. /\ u \in Investigations /\ u.steps = w1.steps /\ u.trail = w1.trail /\ u.calls = w1.calls
        /\ u.tokens = w1.tokens /\ u.cost = w1.cost /\ u.cached = w1.cached /\ u.out = w1.out /\ u.swaps = n /\ u.capped = yes /\ u.kind = rules
    BY <1>3, <2>1 DEF Investigations
  <2> HIDE DEF u
  <2>4. Spent(u) /\ SwapOK(u)
    BY <1>4, <2>1, <2>3 DEF Spent, SwapOK
  <2> QED BY <1>1, <1>2, <1>3, <2>2, <2>3, <2>4, Uncharged, Answered DEF Same
<1>6. CASE ~setup.fallback
  <2> DEFINE u == [w1 EXCEPT !.term = "failed"]
  <2>1. work' = [work EXCEPT ![i] = u] /\ pc' = [pc EXCEPT ![i] = "conclude"]
    BY <1>6 DEF ModelFails, Goto, w1
  <2>2. u \in Investigations /\ Same(u, w1) /\ u.term = "failed"
    BY <1>3, Edited
  <2> HIDE DEF u
  <2>3. Spent(u) /\ SwapOK(u)
    BY <1>4, <2>2 DEF Spent, SwapOK, Same
  <2> QED BY <1>1, <1>2, <1>3, <2>1, <2>2, <2>3, Uncharged, Answered DEF Same
<1> QED BY <1>5, <1>6

-----------------------------------------------------------------------------
(* Before and after the loop.                                              *)

LEMMA Begun ==
  ASSUME IInv, NEW i \in Inv, Begin(i)
  PROVE  IInv'
<1> DEFINE w == Created
           v == Stored(Created)
           j == [journal[i] EXCEPT !.status = "running"]
           p == "contextualize"
<1>1. /\ pc[i] = "absent" /\ pc' = [pc EXCEPT ![i] = p] /\ work' = [work EXCEPT ![i] = w]
      /\ invs' = [invs EXCEPT ![i] = v] /\ journal' = [journal EXCEPT ![i] = j]
      /\ cancels' = cancels \cup {i} /\ predicates' = predicates /\ aborter' = aborter /\ setup' = setup /\ replayer' = replayer
  BY DEF Begin, Goto, Outside, IInv, Functions
<1>2. Local(i) /\ pc[i] \notin Over
  BY <1>1 DEF IInv, Over
<1>3. /\ journal[i] \in Entries /\ journal[i].status = "none" /\ journal[i].steps = 0
      /\ ScopeOf(i) \notin predicates /\ RecurOf(i) \notin predicates
  BY <1>1, <1>2 DEF Local, Sound, EntryOK
<1>4. /\ w \in Investigations /\ w.swaps = 0 /\ w.trail = 0 /\ w.steps = 0 /\ w.calls = 0 /\ w.tokens = 0 /\ w.cached = 0
      /\ w.out = 0 /\ w.cost = 0
      /\ w.status = "running"
  <2> DEFINE hs == [h \in Hyps |-> "none"]
             kind == setup.kind
             no == FALSE
             u == [status |-> "running", term |-> "none", trail |-> 0, steps |-> 0, calls |-> 0, tokens |-> 0,
                   cached |-> 0, out |-> 0, cost |-> 0, hyps |-> hs, kind |-> kind, swaps |-> 0, capped |-> no, confidence |-> "none",
                   pending |-> Nobody]
  <2>1. hs \in [Hyps -> States] /\ kind \in {"rules", "llm"} /\ no \in BOOLEAN
    BY DEF States, IInv
  <2>2. w = u
    BY DEF Created
  <2> HIDE DEF hs, kind, no
  <2>3. u \in Investigations
    BY <2>1 DEF Investigations
  <2> QED BY <2>2, <2>3
<1> HIDE DEF w
<1>5. v = [status |-> w.status, trail |-> w.trail, swaps |-> w.swaps, version |-> 0]
  BY DEF Stored, w
<1> HIDE DEF v
<1>6. v \in Copies /\ v.status = "running" /\ v.swaps = 0
  BY <1>4, <1>5 DEF Copies
<1>7. j \in Entries /\ j.status = "running" /\ j.steps = 0
  BY <1>3 DEF Entries
<1> HIDE DEF j
<1>8. WorkOK(p, w)
  <2>1. w.tokens < MaxTokensIn /\ w.cached < MaxCachedTokensIn /\ w.cost < MaxCost
    BY <1>4, Numbers
  <2>2. Spent(w)
    BY <2>1 DEF Spent
  <2>3. w.steps <= MaxSteps /\ w.calls <= MaxToolCalls
    BY <1>4, Numbers
  <2>4. w.out <= Answers(w.steps) /\ w.out <= Answers(MaxSteps)
    BY <1>4, Numbers, Outputs
  <2> QED BY <1>4, <2>2, <2>3, <2>4 DEF WorkOK, Within, SwapOK
<1>9. Sound(p, w, v, j, i \in cancels', ScopeOf(i) \in predicates', RecurOf(i) \in predicates', Rewritten(i))
  BY <1>1, <1>3, <1>4, <1>6, <1>7, <1>8 DEF Sound, CopyOK, EntryOK, Publishable, Points, Running, Early
<1>10. ReplayerOK'
  BY <1>1 DEF IInv, ReplayerOK
<1> QED BY <1>1, <1>2, <1>9, <1>10, OneIndex

LEMMA Contextualized ==
  ASSUME IInv, NEW i \in Inv, Contextualize(i)
  PROVE  IInv'
<1> DEFINE w0 == work[i]
           one == 1
           w == [w0 EXCEPT !.trail = one, !.steps = one]
<1>1. /\ pc[i] = "contextualize" /\ pc' = [pc EXCEPT ![i] = "push"] /\ AppendStep(i)
      /\ work' = [work EXCEPT ![i] = w]
      /\ UNCHANGED <<cancels, invs, predicates>> /\ Outside
  BY DEF Contextualize, Goto, IInv, Functions
<1>2. WorkOK("contextualize", w0) /\ w0 \in Investigations /\ journal[i] \in Entries /\ journal[i].status # "none"
      /\ journal[i].steps = 0 /\ i \in cancels /\ invs[i] \in Copies /\ invs[i].status = "running" /\ invs[i].swaps = 0
  BY <1>1, At DEF Early, WorkOK
<1>3. PICK j \in Entries : /\ journal' = [journal EXCEPT ![i] = j]
                           /\ j.status = journal[i].status /\ j.steps = journal[i].steps + 1
  BY <1>1, <1>2, Appended
<1>4. one \in Nat /\ one = 1
  OBVIOUS
<1> HIDE DEF one
<1>5. w \in Investigations /\ w.trail = one /\ w.steps = one /\ w.calls = w0.calls /\ w.tokens = w0.tokens
      /\ w.cost = w0.cost /\ w.cached = w0.cached /\ w.out = w0.out /\ w.swaps = w0.swaps /\ w.capped = w0.capped /\ w.kind = w0.kind
  BY <1>2, <1>4 DEF Investigations
<1> HIDE DEF w
<1>6. WorkOK("push", w)
  <2>1. w.out = w0.out /\ w0.out \in Nat /\ w0.out <= Answers(0) /\ w0.out <= Answers(MaxSteps)
    BY <1>2, <1>5 DEF WorkOK, Investigations
  <2>2. w.out <= Answers(1)
    <3>1. Answers(0) = 0 /\ Answers(1) \in Nat
      BY ONLY Outputs, 1 \in Nat
    <3> QED BY ONLY <2>1, <3>1
  <2> QED BY <1>2, <1>4, <1>5, <2>1, <2>2, Numbers DEF WorkOK, Within, Spent, SwapOK
<1>7. Local(i) /\ pc[i] \notin Over /\ ScopeOf(i) \notin predicates /\ RecurOf(i) \notin predicates
  BY <1>1 DEF IInv, Over, Local, Sound
<1>8. Sound("push", w, invs[i], j, i \in cancels, ScopeOf(i) \in predicates, RecurOf(i) \in predicates, Rewritten(i))
  BY <1>2, <1>3, <1>4, <1>5, <1>6, <1>7 DEF Sound, CopyOK, EntryOK, Publishable, Points, Running, Early
<1>9. ReplayerOK' /\ aborter' = aborter /\ setup' = setup /\ invs' = [invs EXCEPT ![i] = invs[i]]
  BY <1>1 DEF IInv, ReplayerOK, Outside, Functions
<1> QED BY <1>1, <1>3, <1>7, <1>8, <1>9, OneIndex

LEMMA Pushed ==
  ASSUME IInv, NEW i \in Inv, PushScope(i)
  PROVE  IInv'
<1> DEFINE w == work[i]
<1>1. /\ pc[i] = "push" /\ pc' = [pc EXCEPT ![i] = "head"] /\ UNCHANGED <<work, cancels, invs, journal>> /\ Outside
      /\ predicates' \in {predicates, predicates \cup {ScopeOf(i)}}
  BY DEF PushScope, Goto, ScopeOf
<1>2. /\ WorkOK("push", w) /\ i \in cancels /\ journal[i] \in Entries /\ journal[i].status # "none"
      /\ journal[i].steps = w.trail /\ CopyOK("push", w, invs[i])
  BY <1>1, At DEF Early, CopyOK, Publishable
<1>3. RecurOf(i) \notin predicates' /\ pc[i] \notin Over
  BY <1>1 DEF IInv, Local, Sound, RecurOf, ScopeOf, Over
<1>4. \A k \in Inv \ {i} : (ScopeOf(k) \in predicates' <=> ScopeOf(k) \in predicates)
                           /\ (RecurOf(k) \in predicates' <=> RecurOf(k) \in predicates)
  BY <1>1 DEF RecurOf, ScopeOf
<1>5. WorkOK("head", w)
  BY <1>2 DEF WorkOK
<1> HIDE DEF w
<1>6. Sound("head", w, invs[i], journal[i], i \in cancels', ScopeOf(i) \in predicates', RecurOf(i) \in predicates', Rewritten(i))
  BY <1>1, <1>2, <1>3, <1>5 DEF Sound, CopyOK, EntryOK, Points, Running, Early
<1>7. ReplayerOK' /\ aborter' = aborter /\ setup' = setup /\ work' = [work EXCEPT ![i] = w]
      /\ invs' = [invs EXCEPT ![i] = invs[i]] /\ journal' = [journal EXCEPT ![i] = journal[i]]
  BY <1>1 DEF IInv, ReplayerOK, Outside, Functions, w
<1> QED BY <1>1, <1>3, <1>4, <1>6, <1>7, OneIndex

LEMMA Ending ==
  ASSUME IInv, NEW i \in Inv, Conclude(i)
  PROVE  IInv'
<1> DEFINE w0 == work[i]
           best == Best(w0.hyps)
           conf == IF w0.capped /\ best = "strong" THEN "weak" ELSE best
           end == TerminalStatus(w0.term, conf)
           w == [w0 EXCEPT !.confidence = conf, !.status = end]
<1>1. /\ pc[i] = "conclude" /\ pc' = [pc EXCEPT ![i] = "journal"] /\ work' = [work EXCEPT ![i] = w]
      /\ UNCHANGED <<cancels, invs, journal, predicates>> /\ Outside
  BY DEF Conclude, Goto, IInv, Functions
<1>2. WorkOK("conclude", w0) /\ w0 \in Investigations /\ journal[i] \in Entries /\ journal[i].status # "none"
      /\ journal[i].steps = w0.trail
  BY <1>1, At DEF Early, WorkOK
<1>3. best \in {"none", "weak", "strong"} /\ conf \in {"none", "weak", "strong"}
  BY DEF Best
<1>4. w0.capped => conf # "strong"
  BY <1>3
<1>5. w0.term \in {"concluded", "aborted", "failed"} \cup Budgets
  BY <1>2 DEF WorkOK, Investigations
<1>6. end \in Ended /\ (conf # "strong" => end # "concluded")
  BY <1>5 DEF TerminalStatus, Ended, Budgets
<1> HIDE DEF conf, end, w0
<1>7. /\ w \in Investigations /\ w.status = end /\ w.steps = w0.steps /\ w.trail = w0.trail /\ w.calls = w0.calls
      /\ w.tokens = w0.tokens /\ w.cost = w0.cost /\ w.cached = w0.cached /\ w.out = w0.out /\ w.swaps = w0.swaps /\ w.capped = w0.capped /\ w.kind = w0.kind
  BY <1>2, <1>3, <1>6 DEF Investigations
<1> HIDE DEF w
<1>8. WorkOK("journal", w)
  BY <1>2, <1>4, <1>6, <1>7 DEF WorkOK, Within, Spent, SwapOK
<1>9. journal' = [journal EXCEPT ![i] = journal[i]]
  BY <1>1 DEF IInv, Functions
<1>10. pc[i] \in Open \ {"remove"} /\ "journal" \in Open /\ journal[i].steps = w.trail
  BY <1>1, <1>2, <1>7 DEF Open
<1> QED BY <1>1, <1>2, <1>8, <1>9, <1>10, LoopStep

LEMMA Journaled ==
  ASSUME IInv, NEW i \in Inv, JournalStatus(i)
  PROVE  IInv'
<1> DEFINE w == work[i]
           j == [journal[i] EXCEPT !.status = w.status]
<1>1. pc[i] = "journal" /\ pc' = [pc EXCEPT ![i] = "remove"] /\ UNCHANGED <<work, cancels, invs, predicates>> /\ Outside
  BY DEF JournalStatus, Goto
<1>2. WorkOK("journal", w) /\ journal[i] \in Entries /\ journal[i].status # "none" /\ journal[i].steps = w.trail
  BY <1>1, At DEF Early
<1>3. journal' = [journal EXCEPT ![i] = j] /\ work' = [work EXCEPT ![i] = w]
  BY <1>1, <1>2 DEF JournalStatus, SetStatus, IInv, Functions
<1>4. w.status \in Ended /\ WorkOK("remove", w)
  BY <1>2 DEF WorkOK
<1>5. j \in Entries /\ j.status = w.status /\ j.steps = journal[i].steps
  BY <1>2, <1>4 DEF Entries
<1>6. j.status # "none"
  BY <1>4, <1>5 DEF Ended
<1> HIDE DEF j, w
<1> QED BY <1>1, <1>2, <1>3, <1>4, <1>5, <1>6, LoopStep DEF Open

\* The remaining steps leave the record and the journal's entry alone.
LEMMA Removed ==
  ASSUME IInv, NEW i \in Inv, RemoveScope(i)
  PROVE  IInv'
<1> DEFINE w == work[i]
<1>1. /\ pc[i] = "remove" /\ pc' = [pc EXCEPT ![i] = "recur"] /\ UNCHANGED <<work, cancels, invs, journal>> /\ Outside
      /\ predicates' = predicates \ {ScopeOf(i)}
  BY DEF RemoveScope, Goto, ScopeOf
<1>2. /\ WorkOK("remove", w) /\ i \in cancels /\ journal[i] \in Entries /\ journal[i].status # "none"
      /\ journal[i].steps = w.trail /\ CopyOK("remove", w, invs[i])
  BY <1>1, At DEF Early, CopyOK, Publishable
<1>3. RecurOf(i) \notin predicates' /\ pc[i] \notin Over /\ journal[i].status = w.status /\ ScopeOf(i) \notin predicates'
  BY <1>1 DEF IInv, Local, Sound, EntryOK, Over
<1>4. \A k \in Inv \ {i} : (ScopeOf(k) \in predicates' <=> ScopeOf(k) \in predicates)
                           /\ (RecurOf(k) \in predicates' <=> RecurOf(k) \in predicates)
  BY <1>1 DEF RecurOf, ScopeOf
<1>5. WorkOK("recur", w)
  BY <1>2 DEF WorkOK
<1> HIDE DEF w
<1>6. Sound("recur", w, invs[i], journal[i], i \in cancels', ScopeOf(i) \in predicates', RecurOf(i) \in predicates', Rewritten(i))
  BY <1>1, <1>2, <1>3, <1>5 DEF Sound, CopyOK, EntryOK, Points, Running, Early
<1>7. ReplayerOK' /\ aborter' = aborter /\ setup' = setup /\ work' = [work EXCEPT ![i] = w]
      /\ invs' = [invs EXCEPT ![i] = invs[i]] /\ journal' = [journal EXCEPT ![i] = journal[i]]
  BY <1>1 DEF IInv, ReplayerOK, Outside, Functions, w
<1> QED BY <1>1, <1>3, <1>4, <1>6, <1>7, OneIndex

\* Only a conclusion asks for recurrences, and a swapped record has none.
LEMMA Recurring ==
  ASSUME IInv, NEW i \in Inv, PushRecurrence(i)
  PROVE  IInv'
<1> DEFINE w == work[i]
<1>1. /\ pc[i] = "recur" /\ pc' = [pc EXCEPT ![i] = "store"] /\ UNCHANGED <<work, cancels, invs, journal>> /\ Outside
      /\ predicates' = predicates \/ (w.status = "concluded" /\ predicates' = predicates \cup {RecurOf(i)})
  BY DEF PushRecurrence, Goto, RecurOf
<1>2. /\ WorkOK("recur", w) /\ i \in cancels /\ journal[i] \in Entries /\ journal[i].status # "none"
      /\ journal[i].steps = w.trail /\ CopyOK("recur", w, invs[i]) /\ invs[i].swaps = 0
  BY <1>1, At DEF Early, CopyOK, Publishable
<1>3. pc[i] \notin Over /\ journal[i].status = w.status /\ ScopeOf(i) \notin predicates' /\ RecurOf(i) \notin predicates
  BY <1>1 DEF IInv, Local, Sound, EntryOK, Over, ScopeOf, RecurOf
<1>4. \A k \in Inv \ {i} : (ScopeOf(k) \in predicates' <=> ScopeOf(k) \in predicates)
                           /\ (RecurOf(k) \in predicates' <=> RecurOf(k) \in predicates)
  BY <1>1 DEF RecurOf, ScopeOf
<1>5. WorkOK("store", w) /\ (w.status = "concluded" => w.swaps = 0)
  BY <1>2 DEF WorkOK, SwapOK
<1>6. RecurOf(i) \in predicates' => w.swaps = 0
  BY <1>1, <1>3, <1>5
<1> HIDE DEF w
<1>7. Sound("store", w, invs[i], journal[i], i \in cancels', ScopeOf(i) \in predicates', RecurOf(i) \in predicates', Rewritten(i))
  BY <1>1, <1>2, <1>3, <1>5, <1>6 DEF Sound, CopyOK, EntryOK, Points, Running, Early
<1>8. ReplayerOK' /\ aborter' = aborter /\ setup' = setup /\ work' = [work EXCEPT ![i] = w]
      /\ invs' = [invs EXCEPT ![i] = invs[i]] /\ journal' = [journal EXCEPT ![i] = journal[i]]
  BY <1>1 DEF IInv, ReplayerOK, Outside, Functions, w
<1> QED BY <1>1, <1>3, <1>4, <1>7, <1>8, OneIndex

LEMMA Published ==
  ASSUME IInv, NEW i \in Inv, StoreFinal(i)
  PROVE  IInv'
<1> DEFINE w == work[i]
           v == Stored(w)
<1>1. /\ pc[i] = "store" /\ pc' = [pc EXCEPT ![i] = "unregister"] /\ UNCHANGED <<work, cancels, journal, predicates>> /\ Outside
      /\ invs' = [invs EXCEPT ![i] = v]
  BY DEF StoreFinal, Goto
<1>2. /\ WorkOK("store", w) /\ i \in cancels /\ journal[i] \in Entries /\ journal[i].steps = w.trail
  BY <1>1, At DEF Early
<1>3. pc[i] \notin Over /\ journal[i].status = w.status /\ ScopeOf(i) \notin predicates
      /\ (RecurOf(i) \in predicates => w.swaps = 0)
  BY <1>1 DEF IInv, Local, Sound, EntryOK, Over, ScopeOf, RecurOf
<1>4. WorkOK("unregister", w)
  BY <1>2 DEF WorkOK
<1>5. w \in Investigations /\ w.trail \in Nat /\ w.swaps \in Nat /\ w.status \in Ended
  BY <1>2 DEF WorkOK, Investigations
<1>6. v \in Copies /\ v.status = w.status /\ v.swaps = w.swaps /\ v.trail = w.trail
  BY <1>5 DEF Stored, Copies
<1>7. Publishable(v)
  BY <1>2, <1>6 DEF Publishable, WorkOK, SwapOK
<1> HIDE DEF w, v
<1>8. Sound("unregister", w, v, journal[i], i \in cancels', ScopeOf(i) \in predicates', RecurOf(i) \in predicates', Rewritten(i))
  BY <1>1, <1>2, <1>3, <1>4, <1>6, <1>7 DEF Sound, CopyOK, EntryOK, Points, Running, Early
<1>9. ReplayerOK' /\ aborter' = aborter /\ setup' = setup /\ work' = [work EXCEPT ![i] = w]
      /\ journal' = [journal EXCEPT ![i] = journal[i]]
  BY <1>1 DEF IInv, ReplayerOK, Outside, Functions, w
<1> QED BY <1>1, <1>3, <1>8, <1>9, OneIndex

LEMMA Left ==
  ASSUME IInv, NEW i \in Inv, Unregister(i)
  PROVE  IInv'
<1>1. /\ pc[i] = "unregister" /\ pc' = [pc EXCEPT ![i] = "done"] /\ work' = [work EXCEPT ![i] = NoInv]
      /\ cancels' = cancels \ {i} /\ UNCHANGED <<invs, journal, predicates>> /\ Outside
  BY DEF Unregister, Goto
<1>2. Local(i) /\ pc[i] \notin Over
  BY <1>1 DEF IInv, Over
<1>3. Sound("done", NoInv, invs[i], journal[i], i \in cancels', ScopeOf(i) \in predicates', RecurOf(i) \in predicates', Rewritten(i))
  BY <1>1, <1>2 DEF Local, Sound, CopyOK, EntryOK, Points, Running, Early, Over
<1>4. ReplayerOK' /\ aborter' = aborter /\ setup' = setup /\ invs' = [invs EXCEPT ![i] = invs[i]]
      /\ journal' = [journal EXCEPT ![i] = journal[i]]
  BY <1>1 DEF IInv, ReplayerOK, Outside, Functions
<1> QED BY <1>1, <1>2, <1>3, <1>4, OneIndex

-----------------------------------------------------------------------------
(* The other callers.                                                      *)

\* An abort reads a copy that is over, replayed or finished: the ones under way
\* can be cancelled.
LEMMA Read ==
  ASSUME IInv, NEW i \in Inv, AbortRead(i)
  PROVE  IInv'
<1> DEFINE aborted == "aborted"
           v == [invs[i] EXCEPT !.status = aborted]
           a == [at |-> "journal", id |-> i, copy |-> v]
<1>1. /\ Known(i) /\ i \notin cancels /\ aborter' = a /\ aborter.at = "idle"
      /\ UNCHANGED <<loop, cancelled, cancels, invs, journal, predicates, replayer>>
  BY DEF AbortRead
<1>2. Local(i)
  BY DEF IInv
<1>3. pc[i] \in Over /\ invs[i] \in Copies
  BY <1>1, <1>2 DEF Local, Sound, Known, CopyOK, Points, Over
<1>4. v \in Copies /\ v.status = "aborted" /\ v.trail = invs[i].trail /\ v.swaps = invs[i].swaps
  <2>1. aborted \in Ended /\ aborted = "aborted"
    BY DEF Ended
  <2> HIDE DEF aborted
  <2> QED BY <1>3, <2>1 DEF Copies
<1> HIDE DEF v
<1>5. AborterOK'
  BY <1>1, <1>3, <1>4 DEF AborterOK, loop
<1>6. ASSUME NEW k \in Inv PROVE Local(k)'
  BY <1>1 DEF IInv, Local, Rewritten, loop, ScopeOf, RecurOf
<1> QED BY <1>1, <1>5, <1>6 DEF IInv, Functions, ReplayerOK, loop

LEMMA Rejournaled ==
  ASSUME IInv, AbortJournal
  PROVE  IInv'
<1> DEFINE i == aborter.id
           store == "store"
           a == [aborter EXCEPT !.at = store]
           aborted == "aborted"
           j == IF journal[i].status = "none" THEN journal[i] ELSE [journal[i] EXCEPT !.status = aborted]
<1>1. /\ aborter.at = "journal" /\ aborter' = a
      /\ UNCHANGED <<loop, cancelled, cancels, invs, predicates, replayer>>
  BY DEF AbortJournal
<1>2. /\ aborter \in [at : {"journal", "store"}, id : Inv, copy : Copies] /\ i \in Inv /\ pc[i] \in Over
      /\ aborter.copy.status = "aborted" /\ aborter.copy.trail = invs[i].trail /\ aborter.copy.swaps = invs[i].swaps
  BY <1>1 DEF IInv, AborterOK
<1>3. Local(i) /\ journal[i] \in Entries
  BY <1>2 DEF IInv, Local, Sound, EntryOK
<1>4. journal' = [journal EXCEPT ![i] = j]
  BY <1>2 DEF AbortJournal, SetStatus, IInv, Functions
<1>5. j \in Entries /\ j.steps = journal[i].steps /\ j.status \in {"none", "aborted"}
      /\ (j.status = "none" <=> journal[i].status = "none")
  <2>1. aborted \in Ended /\ aborted = "aborted"
    BY DEF Ended
  <2> HIDE DEF aborted
  <2> QED BY <1>3, <2>1 DEF Entries
<1>6. a \in [at : {"journal", "store"}, id : Inv, copy : Copies] /\ a.at = "store" /\ a.id = i /\ a.copy = aborter.copy
  <2>1. store \in {"journal", "store"} /\ store = "store"
    OBVIOUS
  <2> HIDE DEF store
  <2> QED BY <1>2, <2>1
<1> HIDE DEF j, a
<1>7. journal'[i] = j /\ \A k \in Inv \ {i} : journal'[k] = journal[k]
  BY <1>2, <1>4 DEF IInv, Functions
<1>8. AborterOK'
  BY <1>1, <1>2, <1>5, <1>6, <1>7 DEF AborterOK, loop
<1>9. ASSUME NEW k \in Inv PROVE Local(k)'
  <2>1. CASE k = i
    <3>1. Rewritten(k)'
      BY <1>1, <1>6, <2>1 DEF Rewritten
    <3> HIDE DEF i
    <3>2. EntryOK(pc[k], work[k], invs[k], j, TRUE)
      BY <1>2, <1>3, <1>5, <2>1 DEF Local, Sound, EntryOK, Over, Early
    <3>3. pc'[k] = pc[k] /\ work'[k] = work[k] /\ invs'[k] = invs[k] /\ journal'[k] = j
      BY <1>1, <1>7, <2>1 DEF loop
    <3>4. Sound(pc[k], work[k], invs[k], j, k \in cancels, ScopeOf(k) \in predicates, RecurOf(k) \in predicates, TRUE)
      BY <1>3, <2>1, <3>2 DEF Local, Sound
    <3> QED BY <1>1, <3>1, <3>3, <3>4 DEF Local, ScopeOf, RecurOf
  <2>2. CASE k # i
    <3>1. Local(k) /\ ~Rewritten(k) /\ ~Rewritten(k)'
      BY <1>1, <1>6, <2>2 DEF IInv, Rewritten
    <3>2. pc'[k] = pc[k] /\ work'[k] = work[k] /\ invs'[k] = invs[k] /\ journal'[k] = journal[k]
      BY <1>1, <1>7, <2>2 DEF loop
    <3>3. Sound(pc[k], work[k], invs[k], journal[k], k \in cancels, ScopeOf(k) \in predicates, RecurOf(k) \in predicates, Rewritten(k)')
      BY <3>1 DEF Local, Sound, EntryOK
    <3> QED BY <1>1, <3>2, <3>3 DEF Local, ScopeOf, RecurOf
  <2> QED BY <2>1, <2>2
<1>10. Functions'
  BY <1>1, <1>4 DEF IInv, Functions, loop
<1> QED BY <1>1, <1>8, <1>9, <1>10 DEF IInv, ReplayerOK, loop

LEMMA Restored ==
  ASSUME IInv, AbortStore
  PROVE  IInv'
<1> DEFINE i == aborter.id
           v == aborter.copy
<1>1. /\ aborter.at = "store" /\ aborter' = [at |-> "idle"] /\ invs' = [invs EXCEPT ![i] = v]
      /\ UNCHANGED <<loop, cancelled, cancels, journal, predicates, replayer>>
  BY DEF AbortStore
<1>2. /\ i \in Inv /\ pc[i] \in Over /\ v \in Copies /\ v.status = "aborted" /\ v.trail = invs[i].trail
      /\ v.swaps = invs[i].swaps /\ journal[i].status \in {"none", "aborted"}
  BY <1>1 DEF IInv, AborterOK
<1>3. Local(i)
  BY <1>2 DEF IInv
<1> HIDE DEF i, v
<1>4. invs'[i] = v /\ \A k \in Inv \ {i} : invs'[k] = invs[k]
  BY <1>1, <1>2 DEF IInv, Functions
<1>5. AborterOK'
  BY <1>1 DEF AborterOK
<1>6. ASSUME NEW k \in Inv PROVE Local(k)'
  <2>1. CASE k = i
    <3>1. CopyOK(pc[i], work[i], v)
      BY <1>2, <1>3 DEF Local, Sound, CopyOK, Publishable, Over, Early
    <3>2. EntryOK(pc[i], work[i], v, journal[i], Rewritten(i)')
      BY <1>2, <1>3 DEF Local, Sound, EntryOK, Over, Early
    <3>3. Sound(pc[i], work[i], v, journal[i], i \in cancels, ScopeOf(i) \in predicates, RecurOf(i) \in predicates, Rewritten(i)')
      BY <1>2, <1>3, <3>1, <3>2 DEF Local, Sound, Over
    <3>4. pc'[k] = pc[k] /\ work'[k] = work[k] /\ invs'[k] = v /\ journal'[k] = journal[k]
      BY <1>1, <1>4, <2>1 DEF loop
    <3>5. Rewritten(k)' = Rewritten(i)'
      BY <1>1, <2>1 DEF Rewritten
    <3> QED BY <1>1, <2>1, <3>3, <3>4, <3>5 DEF Local, ScopeOf, RecurOf
  <2>2. CASE k # i
    <3>1. Local(k) /\ ~Rewritten(k) /\ ~Rewritten(k)'
      BY <1>1, <2>2 DEF IInv, Rewritten, i
    <3>2. Sound(pc[k], work[k], invs[k], journal[k], k \in cancels, ScopeOf(k) \in predicates, RecurOf(k) \in predicates, Rewritten(k)')
      BY <3>1 DEF Local, Sound, EntryOK
    <3>3. pc'[k] = pc[k] /\ work'[k] = work[k] /\ invs'[k] = invs[k] /\ journal'[k] = journal[k]
      BY <1>1, <1>4, <2>2 DEF loop
    <3> QED BY <1>1, <3>2, <3>3 DEF Local, ScopeOf, RecurOf
  <2> QED BY <2>1, <2>2
<1>7. Functions'
  BY <1>1 DEF IInv, Functions, loop
<1> QED BY <1>1, <1>5, <1>6, <1>7 DEF IInv, ReplayerOK, loop

LEMMA Corrected ==
  ASSUME IInv, NEW i \in Inv, Correct(i)
  PROVE  IInv'
<1> DEFINE n == invs[i].version + 1
           v == [invs[i] EXCEPT !.version = n]
<1>1. /\ Known(i) /\ invs' = [invs EXCEPT ![i] = v]
      /\ UNCHANGED <<loop, cancelled, cancels, journal, predicates, aborter, replayer>>
  BY DEF Correct, IInv, Functions
<1>2. Local(i) /\ invs[i] \in Copies
  BY <1>1 DEF IInv, Local, Sound, CopyOK, Known
<1>3. n \in Nat
  BY <1>2 DEF Copies
<1> HIDE DEF n
<1>4. v \in Copies /\ v.status = invs[i].status /\ v.trail = invs[i].trail /\ v.swaps = invs[i].swaps
  BY <1>2, <1>3 DEF Copies
<1> HIDE DEF v
<1>5. pc[i] # "absent"
  BY <1>1, <1>2 DEF Local, Sound, Known
<1>6. Sound(pc[i], work[i], v, journal[i], i \in cancels', ScopeOf(i) \in predicates', RecurOf(i) \in predicates', Rewritten(i))
  BY <1>1, <1>2, <1>4, <1>5 DEF Local, Sound, CopyOK, EntryOK, Publishable
<1>7. ReplayerOK' /\ aborter' = aborter /\ setup' = setup /\ work' = [work EXCEPT ![i] = work[i]]
      /\ pc' = [pc EXCEPT ![i] = pc[i]] /\ journal' = [journal EXCEPT ![i] = journal[i]]
  BY <1>1 DEF IInv, ReplayerOK, Functions, loop
<1> QED BY <1>1, <1>4, <1>6, <1>7, OneIndex

\* A step that touches neither the calls nor what they wrote.
LEMMA Aside ==
  ASSUME IInv, UNCHANGED <<loop, cancels, invs, journal, predicates, aborter>>, ReplayerOK'
  PROVE  IInv'
<1>1. ASSUME NEW k \in Inv PROVE Local(k)'
  BY DEF IInv, Local, Rewritten, loop, ScopeOf, RecurOf
<1> QED BY <1>1 DEF IInv, Functions, AborterOK, loop

LEMMA Got ==
  ASSUME IInv, NEW i \in Inv, ReplayGet(i)
  PROVE  IInv'
<1>1. invs[i] \in Copies /\ Publishable(invs[i])
  BY DEF ReplayGet, IInv, Local, Sound, CopyOK, Known
<1>2. ReplayerOK'
  BY <1>1 DEF ReplayGet, ReplayerOK
<1> QED BY <1>2, Aside DEF ReplayGet

LEMMA Fetched ==
  ASSUME IInv, ReplaySteps
  PROVE  IInv'
<1>1. replayer.id \in Inv /\ replayer.copy \in Copies /\ Publishable(replayer.copy)
  BY DEF ReplaySteps, IInv, ReplayerOK
<1>2. journal[replayer.id].steps \in Nat
  BY <1>1 DEF IInv, Local, Sound, EntryOK, Entries
<1>3. ReplayerOK'
  BY <1>1, <1>2 DEF ReplaySteps, ReplayerOK
<1> QED BY <1>3, Aside DEF ReplaySteps

LEMMA Replayed ==
  ASSUME IInv, NEW i \in Inv, ReplayRecorded(i)
  PROVE  IInv'
<1> DEFINE n == replayer.steps
           c == replayer.copy
           v == [c EXCEPT !.trail = n]
           end == c.status
           j == [status |-> end, steps |-> n]
<1>1. /\ replayer.at = "store" /\ pc[i] = "absent" /\ pc' = [pc EXCEPT ![i] = "replayed"]
      /\ journal' = [journal EXCEPT ![i] = j] /\ invs' = [invs EXCEPT ![i] = v] /\ replayer' = [at |-> "idle"]
      /\ UNCHANGED <<setup, work, cancelled, cancels, predicates, aborter>>
  BY DEF ReplayRecorded, Goto
<1>2. n \in Nat /\ c \in Copies /\ Publishable(c)
  BY <1>1 DEF IInv, ReplayerOK
<1>3. Local(i) /\ pc[i] \notin Over /\ work[i] = NoInv
  BY <1>1 DEF IInv, Local, Sound, Over, Running, Early
<1>4. end \in Ended \cup {"running"}
  BY <1>2 DEF Copies
<1> HIDE DEF n
<1>5. v \in Copies /\ v.status = end /\ v.trail = n /\ v.swaps = c.swaps
  BY <1>2 DEF Copies
<1> HIDE DEF v, end, c
<1>6. j \in Entries /\ j.status = end /\ j.steps = n
  BY <1>2, <1>4 DEF Entries
<1> HIDE DEF j
<1>7. Publishable(v)
  BY <1>2, <1>5 DEF Publishable, end
<1>8. Sound("replayed", NoInv, v, j, i \in cancels', ScopeOf(i) \in predicates', RecurOf(i) \in predicates', Rewritten(i))
  BY <1>1, <1>3, <1>5, <1>6, <1>7 DEF Local, Sound, CopyOK, EntryOK, Points, Running, Early, Over
<1>9. ReplayerOK' /\ work' = [work EXCEPT ![i] = NoInv]
  BY <1>1, <1>3 DEF IInv, ReplayerOK, Functions
<1> QED BY <1>1, <1>3, <1>8, <1>9, OneIndex

LEMMA Diffed ==
  ASSUME IInv, NEW i \in Inv, ReplayLiveDiff(i)
  PROVE  IInv'
<1> DEFINE v == replayer.copy
<1>1. /\ replayer.at = "store" /\ pc[i] = "absent" /\ pc' = [pc EXCEPT ![i] = "replayed"]
      /\ invs' = [invs EXCEPT ![i] = v] /\ replayer' = [at |-> "idle"]
      /\ UNCHANGED <<setup, work, cancelled, cancels, journal, predicates, aborter>>
  BY DEF ReplayLiveDiff, Goto
<1>2. v \in Copies /\ Publishable(v)
  BY <1>1 DEF IInv, ReplayerOK
<1>3. Local(i) /\ pc[i] \notin Over /\ work[i] = NoInv
  BY <1>1 DEF IInv, Local, Sound, Over, Running, Early
<1> HIDE DEF v
<1>4. Sound("replayed", NoInv, v, journal[i], i \in cancels', ScopeOf(i) \in predicates', RecurOf(i) \in predicates', Rewritten(i))
  BY <1>1, <1>2, <1>3 DEF Local, Sound, CopyOK, EntryOK, Points, Running, Early, Over
<1>5. ReplayerOK' /\ work' = [work EXCEPT ![i] = NoInv] /\ journal' = [journal EXCEPT ![i] = journal[i]]
  BY <1>1, <1>3 DEF IInv, ReplayerOK, Functions
<1> QED BY <1>1, <1>3, <1>4, <1>5, OneIndex

-----------------------------------------------------------------------------

LEMMA InvestigationInv == Spec => []IInv
<1>1. Init => IInv
  <2> SUFFICES ASSUME Init PROVE IInv
    OBVIOUS
  <2>1. ASSUME NEW i \in Inv PROVE Local(i)
    <3>1. /\ pc[i] = "absent" /\ work[i] = NoInv /\ invs[i] = NoInv /\ journal[i] = [status |-> "none", steps |-> 0]
          /\ ScopeOf(i) \notin predicates /\ RecurOf(i) \notin predicates
      BY DEF Init
    <3>2. EntryOK("absent", NoInv, NoInv, journal[i], Rewritten(i))
      BY <3>1 DEF EntryOK, Entries, Early
    <3> QED BY <3>1, <3>2 DEF Local, Sound, Points, Running, Early
  <2>2. setup.kind \in {"rules", "llm"} /\ AborterOK /\ ReplayerOK
    BY DEF Init, AborterOK, ReplayerOK
  <2>3. Functions
    BY DEF Init, Functions
  <2> QED BY <2>1, <2>2, <2>3 DEF IInv
<1>2. IInv /\ [Next]_vars => IInv'
  <2> SUFFICES ASSUME IInv, [Next]_vars PROVE IInv'
    OBVIOUS
  <2>1. ASSUME NEW i \in Inv, Investigate(i) PROVE IInv'
    BY <2>1, Begun, Contextualized, Pushed, Headed, Folded, Tested, RanOut, Proposed, Failed, Ending,
       Journaled, Removed, Recurring, Published, Left DEF Investigate
  <2>2. ASSUME NEW i \in Inv, Cancel(i) PROVE IInv'
    BY <2>2, Aside DEF Cancel, IInv, ReplayerOK
  <2>3. ASSUME NEW i \in Inv, AbortRead(i) \/ Correct(i) \/ ReplayGet(i) \/ ReplayRecorded(i) \/ ReplayLiveDiff(i)
        PROVE  IInv'
    BY <2>3, Read, Corrected, Got, Replayed, Diffed
  <2>4. ASSUME AbortJournal \/ AbortStore \/ ReplaySteps PROVE IInv'
    BY <2>4, Rejournaled, Restored, Fetched
  <2>5. CASE UNCHANGED vars
    BY <2>5, Aside DEF vars, loop, IInv, ReplayerOK
  <2> QED BY <2>1, <2>2, <2>3, <2>4, <2>5 DEF Next
<1> QED BY <1>1, <1>2, PTL DEF Spec

-----------------------------------------------------------------------------
(* What the program relies on.                                             *)

\* The budgets hold whatever the reasoner answers (the checks at the head of
\* Investigate's loop).
THEOREM BudgetsAreHeld == Spec => []BudgetsHeld
<1>1. ASSUME IInv PROVE BudgetsHeld
  <2> SUFFICES ASSUME NEW i \in Inv, work[i] # NoInv
               PROVE  /\ work[i].steps <= MaxSteps /\ work[i].calls <= MaxToolCalls
                      /\ work[i].calls < work[i].steps \/ work[i].steps = 0
                      /\ Spent(work[i]) /\ work[i].out <= MaxTokensOut
    BY DEF BudgetsHeld, Spent
  <2>1. WorkOK(pc[i], work[i])
    BY <1>1 DEF IInv, Local, Sound
  <2>2. work[i].out \in Nat /\ Answers(MaxSteps) \in Nat /\ Answers(MaxSteps) <= MaxTokensOut
    BY <2>1, Numbers, Outputs DEF WorkOK, Investigations
  <2> QED BY <2>1, <2>2, Numbers DEF WorkOK, Within
<1> QED BY <1>1, InvestigationInv, PTL

\* The journal and the engine's copy of what is over agree, aborts and replays
\* included (JournalStatus before StoreFinal, Abort's two writes, Replay's).
THEOREM OneStory == Spec => []JournalAgrees
<1>1. ASSUME IInv PROVE JournalAgrees
  BY <1>1 DEF IInv, Local, Sound, EntryOK, Early, Rewritten, JournalAgrees
<1> QED BY <1>1, InvestigationInv, PTL

\* A swapped reasoner's outcome is never a conclusion (the confidence cap).
THEOREM CapHolds == Spec => []SwappedNeverConcludes
<1>1. ASSUME IInv PROVE SwappedNeverConcludes
  <2> SUFFICES ASSUME NEW i \in Inv, Known(i)
               PROVE  /\ invs[i].swaps > 0 => invs[i].status # "concluded" /\ invs[i].swaps = 1
                      /\ RecurOf(i) \in predicates => invs[i].swaps = 0
    BY DEF SwappedNeverConcludes, RecurOf
  <2> QED BY <1>1 DEF IInv, Local, Sound, CopyOK, Publishable, Known
<1> QED BY <1>1, InvestigationInv, PTL

\* An outcome is published after its scope predicate is gone (RemoveScope
\* before StoreFinal), and an abort never publishes one earlier.
THEOREM ScopeIsGone == Spec => []ScopeEndsFirst
<1>1. ASSUME IInv PROVE ScopeEndsFirst
  <2> SUFFICES ASSUME NEW i \in Inv, Known(i), invs[i].status \in Ended, ScopeOf(i) \in predicates PROVE FALSE
    BY DEF ScopeEndsFirst, ScopeOf
  <2>1. Local(i) /\ pc[i] \in Early
    BY <1>1 DEF IInv, Local, Sound, Early
  <2>2. invs[i].status = "running"
    BY <1>1, <2>1, At
  <2> QED BY <2>2 DEF Ended
<1> QED BY <1>1, InvestigationInv, PTL

\* A stored outcome never revives: it stays or becomes aborted (storeInv).
THEOREM OutcomesAreFinal == Spec => OutcomeFinal
<1> DEFINE Final == \A i \in Inv : (Known(i) /\ invs[i].status \in Ended) => invs'[i].status \in {invs[i].status, "aborted"}
<1>1. ASSUME IInv, Next PROVE Final
  <2> SUFFICES ASSUME NEW i \in Inv, Known(i), invs[i].status \in Ended
               PROVE  invs'[i].status \in {invs[i].status, "aborted"}
    OBVIOUS
  <2>1. pc[i] \notin Early /\ pc[i] # "absent" /\ invs[i] \in Copies
    <3>1. Local(i) /\ "running" \notin Ended
      BY <1>1 DEF IInv, Ended
    <3> QED BY <3>1 DEF Local, Sound, CopyOK, Known
  <2>2. ASSUME NEW k \in Inv, Begin(k) \/ StoreFinal(k) \/ ReplayRecorded(k) \/ ReplayLiveDiff(k), k # i
        PROVE  invs'[i] = invs[i]
    BY <1>1, <2>2 DEF Begin, StoreFinal, ReplayRecorded, ReplayLiveDiff, IInv, Functions
  <2>3. ~Begin(i) /\ ~StoreFinal(i) /\ ~ReplayRecorded(i) /\ ~ReplayLiveDiff(i)
    BY <2>1 DEF Begin, StoreFinal, ReplayRecorded, ReplayLiveDiff, Early
  <2>4. ASSUME NEW k \in Inv, Investigate(k), ~Begin(k), ~StoreFinal(k) PROVE invs' = invs
    BY <2>4 DEF Investigate, Contextualize, PushScope, LoopHead, RulesFold, RulesTest, RulesExhausted,
                ModelProposes, ModelFails, Conclude, JournalStatus, RemoveScope, PushRecurrence, Unregister
  <2>5. ASSUME NEW k \in Inv, Cancel(k) \/ AbortRead(k) \/ ReplayGet(k) PROVE invs' = invs
    BY <2>5 DEF Cancel, AbortRead, ReplayGet
  <2>6. ASSUME NEW k \in Inv, Correct(k) PROVE invs'[i].status = invs[i].status
    <3>1. CASE k # i
      BY <1>1, <2>6, <3>1 DEF Correct, IInv, Functions
    <3>2. CASE k = i
      <4>1. invs'[i] = [invs[i] EXCEPT !.version = @ + 1]
        BY <1>1, <2>6, <3>2 DEF Correct, IInv, Functions
      <4> QED BY <2>1, <4>1 DEF Copies
    <3> QED BY <3>1, <3>2
  <2>7. ASSUME AbortStore PROVE invs'[i].status \in {invs[i].status, "aborted"}
    <3>1. aborter.copy.status = "aborted" /\ invs' = [invs EXCEPT ![aborter.id] = aborter.copy]
      BY <1>1, <2>7 DEF AbortStore, IInv, AborterOK
    <3>2. invs'[i] = IF i = aborter.id THEN aborter.copy ELSE invs[i]
      BY <1>1, <3>1 DEF IInv, Functions
    <3> QED BY <3>1, <3>2
  <2>8. AbortJournal \/ ReplaySteps => invs' = invs
    BY DEF AbortJournal, ReplaySteps
  <2> QED BY <1>1, <2>2, <2>3, <2>4, <2>5, <2>6, <2>7, <2>8 DEF Next, Investigate
<1>2. IInv /\ [Next]_vars => [Final]_vars
  BY <1>1
<1> QED BY <1>2, InvestigationInv, PTL DEF Spec, OutcomeFinal
=============================================================================
