--------------------------- MODULE AssemblyProofs ---------------------------
(***************************************************************************)
(* The trace sampler's assembly loses and doubles nothing: for any spans,  *)
(* traces, shards, timeouts and channel capacities, every accepted span is *)
(* buffered, in a sweep's hands or decided, and once; the store bridge     *)
(* pairs each kept decision with its own trace; every accepted call is on  *)
(* its way to the baselines until a sample is dropped; and a shutdown that *)
(* returns leaves nothing behind.                                          *)
(*                                                                         *)
(* None of these is inductive alone. The strengthening is the conjunction  *)
(* IInv of what a sweep holds at each place (Shaped), who runs in each     *)
(* phase of the shutdown (Phased), what the readers and the flush have     *)
(* left (Ended, Cleared), whose spans a buffer holds (Owned), and the      *)
(* three accounts (Accounted, Aligned, Flow).                              *)
(***************************************************************************)
EXTENDS Assembly, SumLemmas

\* The types, of what the proofs need.
Pcs == {"idle", "take", "finalize", "decision", "trace", "send", "evict", "exited"}
Steps == [pc : Pcs, shard : Nat, due : SUBSET Items, cur : SUBSET Items, keep : BOOLEAN, sample : Nat]
Decisions == [item : Items, keep : BOOLEAN]

Typed ==
  /\ buf \in [Traces -> SUBSET Spans]
  /\ consumer \in [pc : {"idle", "red", "journal"}, span : Spans \cup {None}]
  /\ red \in Nat /\ redDropped \in Nat /\ redOut \in Seq(Nat)
  /\ sweep \in [Sweepers -> Steps]
  /\ decisions \in Seq(Decisions) /\ tracesCh \in Seq(Items)
  /\ bridge \in [pc : {"select", "pair", "exited"}, held : SUBSET Items]
  /\ feed \in {"select", "exited"}
  /\ phase \in {"running", "stopping", "flushing", "waiting", "done"}
  /\ accepted \in [Spans -> Nat] /\ decided \in [Spans -> Nat]
  /\ kept \in Nat /\ appended \in Nat /\ observed \in Nat

-----------------------------------------------------------------------------
(* How a step moves its sweep.                                             *)

\* Sweeper p goes to this place, with this in its hands; the other stays.
Moves(p, pc, shard, due, cur, keep, sample) ==
  /\ sweep' \in [Sweepers -> Steps]
  /\ sweep'[p].pc = pc /\ sweep'[p].shard = shard /\ sweep'[p].due = due
  /\ sweep'[p].cur = cur /\ sweep'[p].keep = keep /\ sweep'[p].sample = sample
  /\ \A q \in Sweepers : q # p => sweep'[q] = sweep[q]

\* The fields of a sweep's record.
LEMMA StepFields ==
  ASSUME NEW x \in Steps
  PROVE  /\ x.pc \in Pcs /\ x.shard \in Nat /\ x.due \subseteq Items /\ x.cur \subseteq Items
         /\ x.keep \in BOOLEAN /\ x.sample \in Nat
BY DEF Steps

\* Goto moves its sweeper.
LEMMA GotoMoves ==
  ASSUME sweep \in [Sweepers -> Steps], NEW p \in Sweepers, NEW x \in Steps, Goto(p, x)
  PROVE  Moves(p, x.pc, x.shard, x.due, x.cur, x.keep, x.sample)
BY DEF Goto, Moves

\* A sweep that begins, ends or exits holds nothing.
LEMMA RestingMoves ==
  ASSUME sweep \in [Sweepers -> Steps], NEW p \in Sweepers, NEW pc \in Pcs,
         Goto(p, [Resting EXCEPT !.pc = pc])
  PROVE  Moves(p, pc, 1, {}, {}, FALSE, 0)
<1> DEFINE x == [Resting EXCEPT !.pc = pc]
<1>1. x \in Steps BY DEF Resting, Steps, Pcs
<1>2. x.pc = pc /\ x.shard = 1 /\ x.due = {} /\ x.cur = {} /\ x.keep = FALSE /\ x.sample = 0
  BY DEF Resting
<1> HIDE DEF x
<1> QED BY <1>1, <1>2, GotoMoves DEF x

\* TakeDue: on to the next shard when nothing is due here, else to the
\* finalizing.
LEMMA TakeMoves ==
  ASSUME Typed, NEW p \in Sweepers, TakeDue(p)
  PROVE  LET S == sweep[p]
             taken == {t \in Open : ShardOf[t] = S.shard} \cap Due(p)
         IN  /\ taken = {} => Moves(p, "take", S.shard + 1, S.due, S.cur, S.keep, S.sample)
             /\ taken # {} => Moves(p, "finalize", S.shard, {Item(t) : t \in taken}, S.cur, S.keep, S.sample)
<1> DEFINE S == sweep[p]
           taken == {t \in Open : ShardOf[t] = S.shard} \cap Due(p)
           x == [S EXCEPT !.shard = @ + 1]
           d == {Item(t) : t \in taken}
           y == [S EXCEPT !.pc = "finalize", !.due = d]
<1>1. sweep \in [Sweepers -> Steps] /\ S \in Steps BY DEF Typed
<1>2. d \subseteq Items
  <2>1. taken \subseteq Traces BY DEF Open
  <2> HIDE DEF taken
  <2> QED BY <2>1 DEF Item, Items, Typed
<1>3. S.pc = "take" BY DEF TakeDue
<1>4. Goto(p, IF taken = {} THEN x ELSE y) BY DEF TakeDue
<1> HIDE DEF S, taken, d
<1>5. x \in Steps /\ y \in Steps
  <2>1. x \in Steps BY <1>1 DEF Steps
  <2>2. y \in Steps BY <1>1, <1>2 DEF Steps, Pcs
  <2> QED BY <2>1, <2>2
<1>6. /\ x.pc = "take" /\ x.shard = S.shard + 1 /\ x.due = S.due /\ x.cur = S.cur
      /\ x.keep = S.keep /\ x.sample = S.sample
  BY <1>1, <1>3 DEF Steps
<1>7. /\ y.pc = "finalize" /\ y.shard = S.shard /\ y.due = d /\ y.cur = S.cur
      /\ y.keep = S.keep /\ y.sample = S.sample
  BY <1>1 DEF Steps
<1> HIDE DEF x, y
<1>8. taken = {} => Moves(p, "take", S.shard + 1, S.due, S.cur, S.keep, S.sample)
  BY <1>1, <1>4, <1>5, <1>6, GotoMoves
<1>9. taken # {} => Moves(p, "finalize", S.shard, d, S.cur, S.keep, S.sample)
  BY <1>1, <1>4, <1>5, <1>7, GotoMoves
<1> QED BY <1>8, <1>9 DEF S, taken, d

\* Finalize moves one buffer from the due ones to the hand.
LEMMA FinalizeMoves ==
  ASSUME Typed, NEW p \in Sweepers, NEW item, NEW keep \in BOOLEAN, Finalize(p, item, keep)
  PROVE  LET S == sweep[p] IN Moves(p, "decision", S.shard, S.due \ {item}, {item}, keep, S.sample)
<1> DEFINE S == sweep[p]
           x == [S EXCEPT !.pc = "decision", !.due = @ \ {item}, !.cur = {item}, !.keep = keep]
<1>1. sweep \in [Sweepers -> Steps] /\ S \in Steps BY DEF Typed
<1>2. item \in S.due /\ Goto(p, x) BY DEF Finalize
<1> HIDE DEF S
<1>3. x \in Steps BY <1>1, <1>2 DEF Steps, Pcs
<1>4. /\ x.pc = "decision" /\ x.shard = S.shard /\ x.due = S.due \ {item} /\ x.cur = {item}
      /\ x.keep = keep /\ x.sample = S.sample
  BY <1>1 DEF Steps
<1> HIDE DEF x
<1>5. Moves(p, "decision", S.shard, S.due \ {item}, {item}, keep, S.sample) BY <1>1, <1>2, <1>3, <1>4, GotoMoves
<1> QED BY <1>5 DEF S

\* Finalized: the next buffer of the shard, or the next shard.
LEMMA FinalizedMoves ==
  ASSUME Typed, NEW p \in Sweepers, Finalized(p)
  PROVE  LET S == sweep[p]
         IN  /\ S.due # {} => Moves(p, "finalize", S.shard, S.due, {}, FALSE, S.sample)
             /\ S.due = {} => Moves(p, "take", S.shard + 1, S.due, {}, FALSE, S.sample)
<1> DEFINE S == sweep[p]
           x == [S EXCEPT !.pc = "finalize", !.cur = {}, !.keep = FALSE]
           y == [S EXCEPT !.pc = "take", !.cur = {}, !.keep = FALSE, !.shard = @ + 1]
<1>1. sweep \in [Sweepers -> Steps] /\ S \in Steps BY DEF Typed
<1>2. Goto(p, IF S.due # {} THEN x ELSE y) BY DEF Finalized
<1> HIDE DEF S
<1>3. x \in Steps /\ y \in Steps
  <2>1. x \in Steps BY <1>1 DEF Steps, Pcs
  <2>2. y \in Steps
    <3> DEFINE z == [S EXCEPT !.pc = "take", !.cur = {}, !.keep = FALSE]
    <3>1. z \in Steps /\ z.shard = S.shard BY <1>1 DEF Steps, Pcs
    <3>2. y = [z EXCEPT !.shard = S.shard + 1] BY <1>1 DEF Steps
    <3>3. S.shard + 1 \in Nat BY <1>1, StepFields
    <3> HIDE DEF y, z
    <3> QED BY <3>1, <3>2, <3>3 DEF Steps
  <2> QED BY <2>1, <2>2
<1>4. /\ x.pc = "finalize" /\ x.shard = S.shard /\ x.due = S.due /\ x.cur = {}
      /\ x.keep = FALSE /\ x.sample = S.sample
  BY <1>1 DEF Steps
<1>5. /\ y.pc = "take" /\ y.shard = S.shard + 1 /\ y.due = S.due /\ y.cur = {}
      /\ y.keep = FALSE /\ y.sample = S.sample
  BY <1>1 DEF Steps
<1> HIDE DEF x, y
<1>6. S.due # {} => Moves(p, "finalize", S.shard, S.due, {}, FALSE, S.sample) BY <1>1, <1>2, <1>3, <1>4, GotoMoves
<1>7. S.due = {} => Moves(p, "take", S.shard + 1, S.due, {}, FALSE, S.sample) BY <1>1, <1>2, <1>3, <1>5, GotoMoves
<1> QED BY <1>6, <1>7 DEF S

\* A step that changes only the place.
LEMMA PcMoves ==
  ASSUME Typed, NEW p \in Sweepers, NEW pc \in Pcs, Goto(p, [sweep[p] EXCEPT !.pc = pc])
  PROVE  LET S == sweep[p] IN Moves(p, pc, S.shard, S.due, S.cur, S.keep, S.sample)
<1> DEFINE S == sweep[p]
           x == [S EXCEPT !.pc = pc]
<1>1. sweep \in [Sweepers -> Steps] /\ S \in Steps /\ Goto(p, x) BY DEF Typed
<1> HIDE DEF S
<1>2. /\ x \in Steps
      /\ x.pc = pc /\ x.shard = S.shard /\ x.due = S.due /\ x.cur = S.cur
      /\ x.keep = S.keep /\ x.sample = S.sample
  BY <1>1 DEF Steps
<1> HIDE DEF x
<1>3. Moves(p, pc, S.shard, S.due, S.cur, S.keep, S.sample) BY <1>1, <1>2, GotoMoves
<1> QED BY <1>3 DEF S

\* Drained: the sweep is over.
LEMMA DrainedMoves ==
  ASSUME Typed, NEW p \in Sweepers, Drained(p)
  PROVE  Moves(p, "idle", 1, {}, {}, FALSE, 0)
<1>1. Resting = [Resting EXCEPT !.pc = "idle"] BY DEF Resting
<1>2. Goto(p, [Resting EXCEPT !.pc = "idle"]) BY <1>1 DEF Drained
<1> QED BY <1>2, RestingMoves DEF Typed, Pcs

\* Flush takes the accumulated calls, if any.
LEMMA FlushMoves ==
  ASSUME Typed, NEW p \in Sweepers, Flush(p)
  PROVE  LET S == sweep[p]
         IN  /\ red = 0 => Moves(p, "idle", 1, {}, {}, FALSE, 0)
             /\ red # 0 => Moves(p, "send", S.shard, S.due, S.cur, S.keep, red)
<1> DEFINE S == sweep[p]
           x == [S EXCEPT !.pc = "send", !.sample = red]
<1>1. sweep \in [Sweepers -> Steps] /\ S \in Steps /\ red \in Nat BY DEF Typed
<1>2. red = 0 => Drained(p) BY DEF Flush
<1>3. red # 0 => Goto(p, x) BY DEF Flush
<1> HIDE DEF S
<1>4. /\ x \in Steps
      /\ x.pc = "send" /\ x.shard = S.shard /\ x.due = S.due /\ x.cur = S.cur
      /\ x.keep = S.keep /\ x.sample = red
  BY <1>1 DEF Steps, Pcs
<1> HIDE DEF x
<1>5. red # 0 => Moves(p, "send", S.shard, S.due, S.cur, S.keep, red) BY <1>1, <1>3, <1>4, GotoMoves
<1> QED BY <1>2, <1>5, DrainedMoves DEF S

-----------------------------------------------------------------------------
(* Types.                                                                  *)

\* The initial state is typed.
LEMMA TypedInit == Init => Typed
<1> SUFFICES ASSUME Init PROVE Typed
  OBVIOUS
<1>1. Resting \in Steps BY DEF Resting, Steps, Pcs
<1>2. sweep \in [Sweepers -> Steps] BY <1>1 DEF Init
<1> QED BY <1>2, AssemblyAssumption DEF Init, Typed, NoConsume, Items, Decisions

\* Which of the typed variables a sweep's step leaves alone.
SweepAlone == UNCHANGED <<consumer, bridge, feed, accepted, appended, observed>>

\* A step of a sweep keeps the types, and leaves the consumer and the readers
\* alone.
LEMMA SweepStepTyped ==
  ASSUME Typed, NEW p \in Sweepers, SweepStep(p)
  PROVE  Typed' /\ SweepAlone
<1>1. CASE TakeDue(p)
  <2>1. sweep' \in [Sweepers -> Steps] BY <1>1, TakeMoves DEF Moves
  <2>2. buf' \in [Traces -> SUBSET Spans] BY <1>1 DEF TakeDue, Typed
  <2>3. UNCHANGED <<consumer, red, redDropped, redOut, decisions, tracesCh, bridge, feed, phase,
                    accepted, decided, kept, appended, observed>>
    BY <1>1 DEF TakeDue, redState, channels, readers, input
  <2> QED BY <2>1, <2>2, <2>3 DEF Typed, SweepAlone
<1>2. CASE SendDecision(p)
  <2>1. sweep' \in [Sweepers -> Steps]
    BY <1>2, FinalizedMoves, PcMoves DEF SendDecision, Moves, Pcs
  <2>2. PICK item \in sweep[p].cur :
          /\ decisions' = Append(decisions, [item |-> item, keep |-> sweep[p].keep])
          /\ decided' = [s \in Spans |-> IF s \in item.spans THEN decided[s] + 1 ELSE decided[s]]
          /\ kept' = IF sweep[p].keep THEN kept + 1 ELSE kept
    BY <1>2 DEF SendDecision
  <2>3. item \in Items /\ sweep[p].keep \in BOOLEAN BY <2>2, StepFields DEF Typed
  <2>4. [item |-> item, keep |-> sweep[p].keep] \in Decisions BY <2>3 DEF Decisions
  <2>5. decisions' \in Seq(Decisions) BY <2>2, <2>4 DEF Typed
  <2>6. decided' \in [Spans -> Nat] /\ kept' \in Nat BY <2>2 DEF Typed
  <2>7. UNCHANGED <<buf, consumer, red, redDropped, redOut, tracesCh, bridge, feed, phase,
                    accepted, appended, observed>>
    BY <1>2 DEF SendDecision, buffers, redState, readers, input
  <2> QED BY <2>1, <2>5, <2>6, <2>7 DEF Typed, SweepAlone
<1>3. CASE SendTrace(p)
  <2>1. sweep' \in [Sweepers -> Steps] BY <1>3, FinalizedMoves DEF SendTrace, Moves
  <2>2. tracesCh' \in Seq(Items) BY <1>3, StepFields DEF SendTrace, Typed
  <2>3. UNCHANGED <<buf, consumer, red, redDropped, redOut, decisions, bridge, feed, phase,
                    accepted, decided, kept, appended, observed>>
    BY <1>3 DEF SendTrace, buffers, redState, readers, input
  <2> QED BY <2>1, <2>2, <2>3 DEF Typed, SweepAlone
<1>4. ASSUME NEW item \in sweep[p].due, NEW keep \in BOOLEAN, Finalize(p, item, keep)
      PROVE  Typed' /\ SweepAlone
  <2>1. sweep' \in [Sweepers -> Steps] BY <1>4, FinalizeMoves DEF Moves
  <2>2. UNCHANGED <<buf, consumer, red, redDropped, redOut, decisions, tracesCh, bridge, feed, phase,
                    accepted, decided, kept, appended, observed>>
    BY <1>4 DEF Finalize, redState, channels, readers, input
  <2> QED BY <2>1, <2>2 DEF Typed, SweepAlone
<1>5. CASE Flush(p)
  <2>1. sweep' \in [Sweepers -> Steps] BY <1>5, FlushMoves DEF Moves
  <2>2. red' \in Nat /\ phase' \in {"running", "stopping", "flushing", "waiting", "done"}
    BY <1>5 DEF Flush, Drained, Typed
  <2>3. UNCHANGED <<buf, consumer, redDropped, redOut, decisions, tracesCh, bridge, feed,
                    accepted, decided, kept, appended, observed>>
    BY <1>5 DEF Flush, buffers, channels, readers, input
  <2> QED BY <2>1, <2>2, <2>3 DEF Typed, SweepAlone
<1>6. CASE SendSample(p)
  <2>1. sweep' \in [Sweepers -> Steps]
    BY <1>6, DrainedMoves, PcMoves DEF SendSample, Moves, Pcs
  <2>2. redOut' \in Seq(Nat) /\ phase' \in {"running", "stopping", "flushing", "waiting", "done"}
    <3>1. sweep[p].sample \in Nat BY StepFields DEF Typed
    <3>2. redOut' = Append(redOut, sweep[p].sample) \/ redOut' = redOut BY <1>6 DEF SendSample
    <3>3. redOut' \in Seq(Nat)
      <4>1. redOut \in Seq(Nat) BY DEF Typed
      <4> QED BY <3>1, <3>2, <4>1
    <3>4. phase' \in {phase, "waiting"} BY <1>6 DEF SendSample, Drained
    <3> QED BY <3>3, <3>4 DEF Typed
  <2>3. UNCHANGED <<buf, consumer, red, redDropped, decisions, tracesCh, bridge, feed,
                    accepted, decided, kept, appended, observed>>
    BY <1>6 DEF SendSample, buffers, channels, readers, input
  <2> QED BY <2>1, <2>2, <2>3 DEF Typed, SweepAlone
<1>7. CASE DropOldest(p)
  <2>1. sweep' \in [Sweepers -> Steps] BY <1>7, DrainedMoves DEF DropOldest, Moves
  <2>2. redOut' \in Seq(Nat)
    <3>1. sweep[p].sample \in Nat BY StepFields DEF Typed
    <3>2. CASE redOut = <<>>
      <4>1. redOut' = Append(<<>>, sweep[p].sample) BY <1>7, <3>2 DEF DropOldest
      <4> QED BY <3>1, <4>1
    <3>3. CASE redOut # <<>>
      <4>1. redOut' = Append(Tail(redOut), sweep[p].sample) BY <1>7, <3>3 DEF DropOldest
      <4> QED BY <3>1, <3>3, <4>1 DEF Typed
    <3> QED BY <3>2, <3>3
  <2>3. redDropped' \in Nat /\ phase' \in {"running", "stopping", "flushing", "waiting", "done"}
    BY <1>7 DEF DropOldest, Drained, Typed
  <2>4. UNCHANGED <<buf, consumer, red, decisions, tracesCh, bridge, feed,
                    accepted, decided, kept, appended, observed>>
    BY <1>7 DEF DropOldest, buffers, channels, readers, input
  <2> QED BY <2>1, <2>2, <2>3, <2>4 DEF Typed, SweepAlone
<1> QED BY <1>1, <1>2, <1>3, <1>4, <1>5, <1>6, <1>7 DEF SweepStep

\* Every step keeps the types.
LEMMA TypedStep == ASSUME Typed, [Next]_vars PROVE Typed'
<1>1. ASSUME NEW s \in Spans, Consume(s) PROVE Typed'
  <2>1. UNCHANGED <<red, redDropped, redOut, sweep, decisions, tracesCh, bridge, feed, phase,
                    decided, kept, appended, observed>>
    BY <1>1 DEF Consume, redState, channels, readers
  <2>2. buf' \in [Traces -> SUBSET Spans] /\ accepted' \in [Spans -> Nat]
    <3>1. /\ buf' = buf \/ buf' = [buf EXCEPT ![TraceOf[s]] = @ \cup {s}]
          /\ accepted' = accepted \/ accepted' = [accepted EXCEPT ![s] = @ + 1]
      BY <1>1 DEF Consume
    <3>2. buf \in [Traces -> SUBSET Spans] /\ accepted \in [Spans -> Nat] BY DEF Typed
    <3>3. buf' \in [Traces -> SUBSET Spans] BY <3>1, <3>2
    <3>4. accepted' \in [Spans -> Nat] BY <3>1, <3>2
    <3> QED BY <3>3, <3>4
  <2>3. consumer' \in [pc : {"idle", "red", "journal"}, span : Spans \cup {None}]
    BY <1>1 DEF Consume, Typed
  <2> QED BY <2>1, <2>2, <2>3 DEF Typed
<1>2. CASE Accumulate
  <2>1. consumer' \in [pc : {"idle", "red", "journal"}, span : Spans \cup {None}] BY <1>2 DEF Accumulate, Typed
  <2>2. red' \in Nat BY <1>2 DEF Accumulate, Typed
  <2> QED BY <1>2, <2>1, <2>2 DEF Accumulate, buffers, channels, readers, Typed
<1>3. CASE JournalSpan
  <2>1. consumer' \in [pc : {"idle", "red", "journal"}, span : Spans \cup {None}] BY <1>3 DEF JournalSpan, NoConsume
  <2> QED BY <1>3, <2>1 DEF JournalSpan, redState, channels, readers, Typed
<1>4. CASE TickBegin
  <2>1. Moves("ticker", "take", 1, {}, {}, FALSE, 0) BY <1>4, RestingMoves DEF TickBegin, Typed, Sweepers, Pcs
  <2> QED BY <1>4, <2>1 DEF TickBegin, buffers, redState, channels, readers, input, Moves, Typed
<1>5. ASSUME NEW p \in Sweepers, SweepStep(p) PROVE Typed'
  BY <1>5, SweepStepTyped
<1>6. CASE TickerExit
  <2>1. Moves("ticker", "exited", 1, {}, {}, FALSE, 0) BY <1>6, RestingMoves DEF TickerExit, Typed, Sweepers, Pcs
  <2> QED BY <1>6, <2>1 DEF TickerExit, buffers, redState, channels, readers, input, Moves, Typed
<1>7. CASE FlushBegin
  <2>1. Moves("shutdown", "take", 1, {}, {}, FALSE, 0) BY <1>7, RestingMoves DEF FlushBegin, Typed, Sweepers, Pcs
  <2> QED BY <1>7, <2>1 DEF FlushBegin, buffers, redState, channels, readers, input, Moves, Typed
<1>8. CASE StopIngest \/ Joined
  BY <1>8 DEF StopIngest, Joined, buffers, redState, channels, readers, input, Typed
<1>9. CASE BridgeTake
  <2>1. Head(decisions) \in Decisions /\ decisions' \in Seq(Decisions) BY <1>9 DEF BridgeTake, Typed
  <2>2. Head(decisions).item \in Items BY <2>1 DEF Decisions
  <2>3. bridge' \in [pc : {"select", "pair", "exited"}, held : SUBSET Items] BY <1>9, <2>2 DEF BridgeTake, Typed
  <2> QED BY <1>9, <2>1, <2>3 DEF BridgeTake, buffers, redState, input, Typed
<1>10. CASE BridgePair
  BY <1>10 DEF BridgePair, buffers, redState, input, Typed
<1>11. CASE BridgeExit
  BY <1>11 DEF BridgeExit, buffers, redState, channels, input, Typed
<1>12. CASE Observe
  BY <1>12 DEF Observe, buffers, channels, input, Typed
<1>13. CASE FeedExit \/ Elapse \/ UNCHANGED vars
  BY <1>13 DEF FeedExit, Elapse, vars, buffers, redState, channels, input, readers, Typed
<1> QED
  BY <1>1, <1>2, <1>3, <1>4, <1>5, <1>6, <1>7, <1>8, <1>9, <1>10, <1>11, <1>12, <1>13
  DEF Next, ConsumeStep, TickerStep, ShutdownStep, BridgeStep, FeedStep, Sweepers

-----------------------------------------------------------------------------
(* What a sweep holds at each place, and who runs in each phase.           *)

\* What a sweep holds at each place.
Shaped ==
  \A p \in Sweepers :
    /\ sweep[p].pc \notin {"finalize", "decision", "trace"} => sweep[p].due = {}
    /\ sweep[p].pc \in {"decision", "trace"} => \E item \in Items : sweep[p].cur = {item}
    /\ sweep[p].pc = "trace" => sweep[p].keep
    /\ p = "shutdown" => ~sweep[p].keep
    /\ sweep[p].pc \notin {"send", "evict"} => sweep[p].sample = 0
    /\ sweep[p].pc \in {"send", "evict"} => sweep[p].shard > NShards

\* Who runs in which phase: Shutdown joins the ticker before it flushes, and ends
\* its flush before it tells the readers to end.
Phased ==
  /\ phase \in {"running", "stopping"} => sweep["shutdown"].pc = "idle"
  /\ phase \notin {"running", "stopping"} => sweep["ticker"].pc = "exited"
  /\ phase \in {"waiting", "done"} => sweep["shutdown"].pc = "idle"
  /\ sweep["shutdown"].pc # "exited"
  /\ phase # "running" => consumer = NoConsume

\* A reader that has returned left its channel empty.
Ended ==
  /\ bridge.pc = "exited" => decisions = <<>> /\ Cancelled
  /\ feed = "exited" => redOut = <<>> /\ Cancelled
  /\ phase = "done" => bridge.pc = "exited" /\ feed = "exited"

\* The shards the flush has gone through are empty, and so is the accumulator
\* once the flush has taken it.
Emptied(t) ==
  \/ ShardOf[t] < sweep["shutdown"].shard
  \/ ShardOf[t] = sweep["shutdown"].shard /\ sweep["shutdown"].pc \in {"finalize", "decision", "trace"}
Cleared ==
  /\ phase = "flushing" => \A t \in Traces : Emptied(t) => buf[t] = {}
  /\ Cancelled => red = 0 /\ \A t \in Traces : buf[t] = {}
  /\ phase = "flushing" /\ sweep["shutdown"].pc \in {"send", "evict"} => red = 0

\* A buffer, open or taken, holds spans of its own trace; a sweep has one per
\* trace.
Owned ==
  /\ \A t \in Traces : \A s \in buf[t] : TraceOf[s] = t
  /\ \A p \in Sweepers : \A item \in sweep[p].due : \A s \in item.spans : TraceOf[s] = item.trace
  /\ \A p \in Sweepers : \A i, j \in sweep[p].due : i.trace = j.trace => i = j

\* Where a span is: buffered, taken and not finalized, or about to be decided.
One(b) == IF b THEN 1 ELSE 0
Buffered(s) == One(s \in buf[TraceOf[s]])
InDue(p, s) == One(\E item \in sweep[p].due : s \in item.spans)
InCur(p, s) == One(sweep[p].pc = "decision" /\ \E item \in sweep[p].cur : s \in item.spans)
InHands(p, s) == InDue(p, s) + InCur(p, s)
Accounted ==
  \A s \in Spans : accepted[s] = decided[s] + Buffered(s) + InHands("ticker", s) + InHands("shutdown", s)

\* The traces under way to the bridge: those in the channel, then the one whose
\* decision the ticker has sent and whose trace it has not.
Unsent == sweep["ticker"].pc = "trace"
Member(S) == CHOOSE x \in S : TRUE
Outgoing == [i \in Nat \ {0} |-> IF i <= Len(tracesCh) THEN tracesCh[i] ELSE Member(sweep["ticker"].cur)]
Sent == Len(tracesCh) + One(Unsent)
Holding == One(bridge.held # {})

\* g gives the place of each of the n kept decisions in the channel, in order;
\* the traces under way are theirs, behind that of the decision the bridge holds.
Pairing(n, g) ==
  /\ g \in [1 .. n -> 1 .. Len(decisions)]
  /\ \A i, j \in 1 .. n : i < j => g[i] < g[j]
  /\ \A i \in 1 .. n : decisions[g[i]].keep
  /\ \A k \in 1 .. Len(decisions) : decisions[k].keep => \E i \in 1 .. n : g[i] = k
  /\ Sent = n + Holding
  /\ \A i \in 1 .. n : Outgoing[i + Holding] = decisions[g[i]].item
Aligned ==
  /\ \E n \in Nat : \E g \in [1 .. n -> 1 .. Len(decisions)] : Pairing(n, g)
  /\ bridge.held # {} => bridge.held = {Outgoing[1]}
  /\ bridge.held # {} <=> bridge.pc = "pair"
  /\ kept = appended + Sent

\* Where a sweep may stand, and with what.
Fits(p, pc, shard, due, cur, keep, sample) ==
  /\ pc \notin {"finalize", "decision", "trace"} => due = {}
  /\ pc \in {"decision", "trace"} => \E item \in Items : cur = {item}
  /\ pc = "trace" => keep
  /\ p = "shutdown" => ~keep
  /\ pc \notin {"send", "evict"} => sample = 0
  /\ pc \in {"send", "evict"} => shard > NShards

\* A sweep that moves to where it may stand keeps Shaped.
LEMMA ShapedMoves ==
  ASSUME Shaped, NEW p \in Sweepers,
         NEW pc, NEW shard, NEW due, NEW cur, NEW keep, NEW sample,
         Moves(p, pc, shard, due, cur, keep, sample), Fits(p, pc, shard, due, cur, keep, sample)
  PROVE  Shaped'
BY DEF Shaped, Moves, Fits

\* So does one that rests or begins.
LEMMA IdleMoves ==
  ASSUME Shaped, NEW p \in Sweepers, NEW pc \in {"idle", "take", "exited"},
         Moves(p, pc, 1, {}, {}, FALSE, 0)
  PROVE  Shaped'
<1>1. Fits(p, pc, 1, {}, {}, FALSE, 0) BY DEF Fits
<1> QED BY <1>1, ShapedMoves

\* And one that is through with a buffer.
LEMMA FinalizedShaped ==
  ASSUME Typed, Shaped, NEW p \in Sweepers, sweep[p].pc \in {"decision", "trace"}, Finalized(p)
  PROVE  Shaped'
<1> DEFINE S == sweep[p]
<1>1. S.sample = 0 BY DEF Shaped
<1>2. CASE S.due # {}
  <2>1. Moves(p, "finalize", S.shard, S.due, {}, FALSE, S.sample) BY <1>2, FinalizedMoves
  <2>2. Fits(p, "finalize", S.shard, S.due, {}, FALSE, S.sample) BY <1>1 DEF Fits
  <2> QED BY <2>1, <2>2, ShapedMoves
<1>3. CASE S.due = {}
  <2>1. Moves(p, "take", S.shard + 1, S.due, {}, FALSE, S.sample) BY <1>3, FinalizedMoves
  <2>2. Fits(p, "take", S.shard + 1, S.due, {}, FALSE, S.sample) BY <1>1, <1>3 DEF Fits
  <2> QED BY <2>1, <2>2, ShapedMoves
<1> QED BY <1>2, <1>3

\* Every step keeps Shaped.
LEMMA ShapedStep == ASSUME Typed, Shaped, [Next]_vars PROVE Shaped'
<1>1. ASSUME NEW p \in Sweepers, SweepStep(p) PROVE Shaped'
  <2> DEFINE S == sweep[p]
  <2>0. S \in Steps BY DEF Typed
  <2>1. CASE TakeDue(p)
    <3> DEFINE taken == {t \in Open : ShardOf[t] = S.shard} \cap Due(p)
               d == {Item(t) : t \in taken}
    <3>1. S.pc = "take" BY <2>1 DEF TakeDue
    <3>2. S.due = {} /\ S.sample = 0 /\ (p = "shutdown" => ~S.keep) BY <3>1 DEF Shaped
    <3>3. CASE taken = {}
      <4>1. Moves(p, "take", S.shard + 1, S.due, S.cur, S.keep, S.sample) BY <2>1, <3>3, TakeMoves
      <4>2. Fits(p, "take", S.shard + 1, S.due, S.cur, S.keep, S.sample) BY <3>2 DEF Fits
      <4> QED BY <4>1, <4>2, ShapedMoves
    <3>4. CASE taken # {}
      <4>1. Moves(p, "finalize", S.shard, d, S.cur, S.keep, S.sample) BY <2>1, <3>4, TakeMoves
      <4> HIDE DEF d
      <4>2. Fits(p, "finalize", S.shard, d, S.cur, S.keep, S.sample) BY <3>2 DEF Fits
      <4> QED BY <4>1, <4>2, ShapedMoves
    <3> QED BY <3>3, <3>4
  <2>2. CASE SendDecision(p)
    <3>1. S.pc = "decision" BY <2>2 DEF SendDecision
    <3>2. CASE S.keep
      <4>1. Moves(p, "trace", S.shard, S.due, S.cur, S.keep, S.sample) BY <2>2, <3>2, PcMoves DEF SendDecision, Pcs
      <4>2. Fits(p, "trace", S.shard, S.due, S.cur, S.keep, S.sample) BY <3>1, <3>2 DEF Fits, Shaped
      <4> QED BY <4>1, <4>2, ShapedMoves
    <3>3. CASE ~S.keep
      <4>1. Finalized(p) BY <2>2, <3>3 DEF SendDecision
      <4> QED BY <3>1, <4>1, FinalizedShaped
    <3> QED BY <3>2, <3>3
  <2>3. CASE SendTrace(p)
    <3>1. S.pc = "trace" /\ Finalized(p) BY <2>3 DEF SendTrace
    <3> QED BY <3>1, FinalizedShaped
  <2>4. ASSUME NEW item \in S.due, NEW keep \in BOOLEAN, Finalize(p, item, keep) PROVE Shaped'
    <3>1. S.pc = "finalize" /\ (p = "shutdown" => ~keep) BY <2>4 DEF Finalize
    <3>2. item \in Items BY <2>0, StepFields
    <3>3. Moves(p, "decision", S.shard, S.due \ {item}, {item}, keep, S.sample) BY <2>4, FinalizeMoves
    <3>4. S.sample = 0 BY <3>1 DEF Shaped
    <3>5. Fits(p, "decision", S.shard, S.due \ {item}, {item}, keep, S.sample) BY <3>1, <3>2, <3>4 DEF Fits
    <3> QED BY <3>3, <3>5, ShapedMoves
  <2>5. CASE Flush(p)
    <3>1. S.pc = "take" /\ S.shard > NShards BY <2>5 DEF Flush
    <3>2. CASE red = 0
      <4>1. Moves(p, "idle", 1, {}, {}, FALSE, 0) BY <2>5, <3>2, FlushMoves
      <4> QED BY <4>1, IdleMoves
    <3>3. CASE red # 0
      <4>1. Moves(p, "send", S.shard, S.due, S.cur, S.keep, red) BY <2>5, <3>3, FlushMoves
      <4>2. Fits(p, "send", S.shard, S.due, S.cur, S.keep, red) BY <3>1 DEF Fits, Shaped
      <4> QED BY <4>1, <4>2, ShapedMoves
    <3> QED BY <3>2, <3>3
  <2>6. CASE SendSample(p)
    <3>1. S.pc = "send" BY <2>6 DEF SendSample
    <3>2. CASE Drained(p)
      <4>1. Moves(p, "idle", 1, {}, {}, FALSE, 0) BY <3>2, DrainedMoves
      <4> QED BY <4>1, IdleMoves
    <3>3. CASE ~Drained(p)
      <4>1. Moves(p, "evict", S.shard, S.due, S.cur, S.keep, S.sample) BY <2>6, <3>3, PcMoves DEF SendSample, Pcs
      <4>2. Fits(p, "evict", S.shard, S.due, S.cur, S.keep, S.sample) BY <3>1 DEF Fits, Shaped
      <4> QED BY <4>1, <4>2, ShapedMoves
    <3> QED BY <3>2, <3>3
  <2>7. CASE DropOldest(p)
    <3>1. Drained(p) BY <2>7 DEF DropOldest
    <3>2. Moves(p, "idle", 1, {}, {}, FALSE, 0) BY <3>1, DrainedMoves
    <3> QED BY <3>2, IdleMoves
  <2> QED BY <1>1, <2>1, <2>2, <2>3, <2>4, <2>5, <2>6, <2>7 DEF SweepStep
<1>2. CASE TickBegin
  <2>1. Moves("ticker", "take", 1, {}, {}, FALSE, 0) BY <1>2, RestingMoves DEF TickBegin, Typed, Sweepers, Pcs
  <2> QED BY <2>1, IdleMoves DEF Sweepers
<1>3. CASE TickerExit
  <2>1. Moves("ticker", "exited", 1, {}, {}, FALSE, 0) BY <1>3, RestingMoves DEF TickerExit, Typed, Sweepers, Pcs
  <2> QED BY <2>1, IdleMoves DEF Sweepers
<1>4. CASE FlushBegin
  <2>1. Moves("shutdown", "take", 1, {}, {}, FALSE, 0) BY <1>4, RestingMoves DEF FlushBegin, Typed, Sweepers, Pcs
  <2> QED BY <2>1, IdleMoves DEF Sweepers
<1>5. CASE UNCHANGED sweep
  BY <1>5 DEF Shaped
<1>6. SweepStep("ticker") \/ SweepStep("shutdown") \/ TickBegin \/ TickerExit \/ FlushBegin \/ UNCHANGED sweep
  BY DEF Next, ConsumeStep, TickerStep, ShutdownStep, BridgeStep, FeedStep, Consume, Accumulate, JournalSpan,
         StopIngest, Joined, BridgeTake, BridgePair, BridgeExit, Observe, FeedExit, Elapse, vars
<1> QED BY <1>1, <1>2, <1>3, <1>4, <1>5, <1>6 DEF Sweepers

\* Where a sweep's step takes it, and the phase.
LEMMA SweepStepMoves ==
  ASSUME Typed, NEW p \in Sweepers, SweepStep(p)
  PROVE  /\ sweep[p].pc \notin {"idle", "exited"} /\ sweep'[p].pc # "exited"
         /\ \A q \in Sweepers : q # p => sweep'[q] = sweep[q]
         /\ IF p = "shutdown" /\ sweep'[p].pc = "idle" THEN phase' = "waiting" ELSE phase' = phase
<1> DEFINE S == sweep[p]
           Goal == /\ S.pc \notin {"idle", "exited"} /\ sweep'[p].pc # "exited"
                   /\ \A q \in Sweepers : q # p => sweep'[q] = sweep[q]
                   /\ IF p = "shutdown" /\ sweep'[p].pc = "idle" THEN phase' = "waiting" ELSE phase' = phase
<1>1. CASE TakeDue(p)
  <2>1. S.pc = "take" /\ phase' = phase BY <1>1 DEF TakeDue
  <2> QED BY <1>1, <2>1, TakeMoves DEF Moves
<1>2. CASE SendDecision(p)
  <2>1. S.pc = "decision" /\ phase' = phase BY <1>2 DEF SendDecision
  <2>2. CASE S.keep
    <3>1. Moves(p, "trace", S.shard, S.due, S.cur, S.keep, S.sample) BY <1>2, <2>2, PcMoves DEF SendDecision, Pcs
    <3> QED BY <2>1, <3>1 DEF Moves
  <2>3. CASE ~S.keep
    <3>1. Finalized(p) BY <1>2, <2>3 DEF SendDecision
    <3> QED BY <2>1, <3>1, FinalizedMoves DEF Moves
  <2> QED BY <2>2, <2>3
<1>3. CASE SendTrace(p)
  <2>1. S.pc = "trace" /\ phase' = phase /\ Finalized(p) BY <1>3 DEF SendTrace
  <2> QED BY <2>1, FinalizedMoves DEF Moves
<1>4. ASSUME NEW item \in S.due, NEW keep \in BOOLEAN, Finalize(p, item, keep) PROVE Goal
  <2>1. S.pc = "finalize" /\ phase' = phase BY <1>4 DEF Finalize
  <2> QED BY <1>4, <2>1, FinalizeMoves DEF Moves
<1>5. CASE Flush(p)
  <2>1. S.pc = "take" BY <1>5 DEF Flush
  <2>2. CASE red = 0
    <3>1. Drained(p) BY <1>5, <2>2 DEF Flush
    <3> QED BY <2>1, <3>1, DrainedMoves DEF Moves, Drained
  <2>3. CASE red # 0
    <3>1. phase' = phase BY <1>5, <2>3 DEF Flush
    <3> QED BY <1>5, <2>1, <2>3, <3>1, FlushMoves DEF Moves
  <2> QED BY <2>2, <2>3
<1>6. CASE SendSample(p)
  <2>1. S.pc = "send" BY <1>6 DEF SendSample
  <2>2. CASE Drained(p)
    BY <2>1, <2>2, DrainedMoves DEF Moves, Drained
  <2>3. CASE ~Drained(p)
    <3>1. phase' = phase /\ Moves(p, "evict", S.shard, S.due, S.cur, S.keep, S.sample)
      BY <1>6, <2>3, PcMoves DEF SendSample, Pcs
    <3> QED BY <2>1, <3>1 DEF Moves
  <2> QED BY <2>2, <2>3
<1>7. CASE DropOldest(p)
  <2>1. S.pc = "evict" /\ Drained(p) BY <1>7 DEF DropOldest
  <2> QED BY <2>1, DrainedMoves DEF Moves, Drained
<1> QED BY <1>1, <1>2, <1>3, <1>4, <1>5, <1>6, <1>7 DEF SweepStep

\* Every step keeps Phased.
LEMMA PhasedStep == ASSUME Typed, Phased, [Next]_vars PROVE Phased'
<1>1. ASSUME NEW p \in Sweepers, SweepStep(p) PROVE Phased'
  <2>1. consumer' = consumer BY <1>1, SweepStepTyped DEF SweepAlone
  <2>2. p \in {"ticker", "shutdown"} BY DEF Sweepers
  <2> QED BY <1>1, <2>1, <2>2, SweepStepMoves DEF Phased, Sweepers, Typed
<1>2. CASE TickBegin
  <2>1. Moves("ticker", "take", 1, {}, {}, FALSE, 0) BY <1>2, RestingMoves DEF TickBegin, Typed, Sweepers, Pcs
  <2> QED BY <1>2, <2>1 DEF TickBegin, Moves, Phased, Sweepers, input
<1>3. CASE TickerExit
  <2>1. Moves("ticker", "exited", 1, {}, {}, FALSE, 0) BY <1>3, RestingMoves DEF TickerExit, Typed, Sweepers, Pcs
  <2> QED BY <1>3, <2>1 DEF TickerExit, Moves, Phased, Sweepers, input
<1>4. CASE FlushBegin
  <2>1. Moves("shutdown", "take", 1, {}, {}, FALSE, 0) BY <1>4, RestingMoves DEF FlushBegin, Typed, Sweepers, Pcs
  <2> QED BY <1>4, <2>1 DEF FlushBegin, Moves, Phased, Sweepers, input
<1>5. CASE StopIngest \/ Joined
  BY <1>5 DEF StopIngest, Joined, Phased, input
<1>6. CASE JournalSpan
  BY <1>6 DEF JournalSpan, Phased
<1>7. CASE Accumulate
  <2>1. phase = "running" BY <1>7 DEF Accumulate, Phased, NoConsume
  <2> QED BY <1>7, <2>1 DEF Accumulate, Phased
<1>8. ASSUME NEW s \in Spans, Consume(s) PROVE Phased'
  BY <1>8 DEF Consume, Phased
<1>9. CASE UNCHANGED <<sweep, phase, consumer>>
  BY <1>9 DEF Phased
<1>10. BridgeStep \/ FeedStep \/ Elapse \/ UNCHANGED vars => UNCHANGED <<sweep, phase, consumer>>
  BY DEF BridgeStep, FeedStep, BridgeTake, BridgePair, BridgeExit, Observe, FeedExit, Elapse, vars, input
<1> QED BY <1>1, <1>2, <1>3, <1>4, <1>5, <1>6, <1>7, <1>8, <1>9, <1>10
        DEF Next, ConsumeStep, TickerStep, ShutdownStep, Sweepers

\* Once the readers are told to end, nobody sends any more.
LEMMA Quiet ==
  ASSUME Typed, Phased, Cancelled
  PROVE  /\ \A p \in Sweepers : ~SweepStep(p)
         /\ ~TickBegin /\ ~TickerExit /\ ~FlushBegin /\ ~StopIngest /\ ~ConsumeStep /\ \A s \in Spans : ~Consume(s)
<1>1. \A p \in Sweepers : sweep[p].pc \in {"idle", "exited"} BY DEF Phased, Cancelled, Sweepers
<1>2. \A p \in Sweepers : ~SweepStep(p) BY <1>1, SweepStepMoves
<1>3. consumer = NoConsume /\ phase \notin {"running", "stopping"} /\ sweep["ticker"].pc = "exited"
  BY DEF Phased, Cancelled
<1> QED BY <1>2, <1>3 DEF TickBegin, TickerExit, FlushBegin, StopIngest, ConsumeStep, Accumulate, JournalSpan, Consume, NoConsume

\* Every step keeps Ended.
LEMMA EndedStep == ASSUME Typed, Phased, Ended, [Next]_vars PROVE Ended'
<1>1. CASE BridgeTake
  BY <1>1 DEF BridgeTake, Ended, Cancelled, redState
<1>2. CASE BridgePair
  BY <1>2 DEF BridgePair, Ended, Cancelled, redState
<1>3. CASE BridgeExit
  BY <1>3 DEF BridgeExit, Ended, Cancelled, redState, channels, Typed
<1>4. CASE Observe
  BY <1>4 DEF Observe, Ended, Cancelled, channels
<1>5. CASE FeedExit
  BY <1>5 DEF FeedExit, Ended, Cancelled, channels, redState
<1>6. CASE Joined
  BY <1>6 DEF Joined, Ended, Cancelled, channels, redState, readers
<1>7. CASE Elapse \/ UNCHANGED vars
  BY <1>7 DEF Elapse, vars, Ended, Cancelled, channels, redState, readers
<1>8. ASSUME ~Cancelled, UNCHANGED <<bridge, feed>>, phase' # "done" PROVE Ended'
  BY <1>8 DEF Ended
<1>9. CASE ~Cancelled /\ \E p \in Sweepers : SweepStep(p)
  BY <1>9, <1>8, SweepStepTyped, SweepStepMoves DEF SweepAlone, Cancelled
<1>10. CASE ~Cancelled /\ (TickBegin \/ TickerExit \/ FlushBegin \/ StopIngest \/ ConsumeStep \/ \E s \in Spans : Consume(s))
  <2>1. UNCHANGED <<bridge, feed>> /\ phase' # "done"
    BY <1>10 DEF TickBegin, TickerExit, FlushBegin, StopIngest, ConsumeStep, Accumulate, JournalSpan, Consume, readers, Cancelled
  <2> QED BY <1>8, <1>10, <2>1
<1> QED BY <1>1, <1>2, <1>3, <1>4, <1>5, <1>6, <1>7, <1>9, <1>10, Quiet
        DEF Next, TickerStep, ShutdownStep, BridgeStep, FeedStep, Sweepers

\* Shutdown's flush goes through the shards in order.
LEMMA FlushStepCleared ==
  ASSUME Typed, Shaped, Phased, Cleared, phase = "flushing", SweepStep("shutdown")
  PROVE  Cleared'
<1> DEFINE S == sweep["shutdown"]
<1>0. "shutdown" \in Sweepers /\ S \in Steps /\ S.shard \in Nat BY StepFields DEF Sweepers, Typed
<1>a. \A t \in Traces : ShardOf[t] \in Nat /\ ShardOf[t] <= NShards BY AssemblyAssumption
<1>b. \A t \in Traces : Emptied(t) => buf[t] = {} BY DEF Cleared
<1>c. S.pc \in {"send", "evict"} => red = 0 BY DEF Cleared
<1>1. CASE TakeDue("shutdown")
  <2> DEFINE taken == {t \in Open : ShardOf[t] = S.shard} \cap Due("shutdown")
  <2>1. S.pc = "take" /\ UNCHANGED <<phase, red>> /\ \A t \in Traces : buf'[t] = IF t \in taken THEN {} ELSE buf[t]
    BY <1>1 DEF TakeDue, redState
  <2>2. taken = {t \in Traces : buf[t] # {} /\ ShardOf[t] = S.shard} BY DEF Due, Open
  <2>3. \A t \in Traces : (ShardOf[t] < S.shard \/ ShardOf[t] = S.shard) => buf'[t] = {}
    BY <2>1, <2>2, <1>b DEF Emptied
  <2>4. \A t \in Traces : Emptied(t)' => ShardOf[t] < S.shard \/ ShardOf[t] = S.shard
    <3>1. CASE taken = {}
      <4>1. sweep'["shutdown"].pc = "take" /\ sweep'["shutdown"].shard = S.shard + 1
        BY <1>0, <1>1, <3>1, TakeMoves DEF Moves
      <4> QED BY <4>1, <1>0, <1>a DEF Emptied
    <3>2. CASE taken # {}
      <4>1. sweep'["shutdown"].shard = S.shard BY <1>0, <1>1, <3>2, TakeMoves DEF Moves
      <4> QED BY <4>1, <1>0, <1>a DEF Emptied
    <3> QED BY <3>1, <3>2
  <2>5. sweep'["shutdown"].pc \notin {"send", "evict"} BY <1>0, <1>1, TakeMoves DEF Moves
  <2> QED BY <2>1, <2>3, <2>4, <2>5 DEF Cleared, Cancelled
<1>2. ASSUME Finalized("shutdown"), S.pc \in {"decision", "trace"}, UNCHANGED <<buf, red, phase>> PROVE Cleared'
  <2>1. sweep'["shutdown"].pc \notin {"send", "evict"} BY <1>0, <1>2, FinalizedMoves DEF Moves
  <2>2. \A t \in Traces : Emptied(t)' => Emptied(t)
    <3>1. CASE S.due # {}
      <4>1. sweep'["shutdown"].shard = S.shard BY <1>0, <1>2, <3>1, FinalizedMoves DEF Moves
      <4> QED BY <4>1, <1>0, <1>2 DEF Emptied
    <3>2. CASE S.due = {}
      <4>1. sweep'["shutdown"].shard = S.shard + 1 /\ sweep'["shutdown"].pc = "take"
        BY <1>0, <1>2, <3>2, FinalizedMoves DEF Moves
      <4> QED BY <4>1, <1>0, <1>2, <1>a DEF Emptied
    <3> QED BY <3>1, <3>2
  <2> QED BY <1>2, <1>b, <2>1, <2>2 DEF Cleared, Cancelled
<1>3. CASE SendDecision("shutdown")
  <2>1. S.pc = "decision" /\ UNCHANGED <<buf, red, phase>> BY <1>3 DEF SendDecision, buffers, redState
  <2>2. ~S.keep BY <1>0 DEF Shaped
  <2>3. Finalized("shutdown") BY <1>3, <2>2 DEF SendDecision
  <2> QED BY <1>2, <2>1, <2>3
<1>4. CASE SendTrace("shutdown")
  <2>1. S.pc = "trace" /\ UNCHANGED <<buf, red, phase>> /\ Finalized("shutdown") BY <1>4 DEF SendTrace, buffers, redState
  <2> QED BY <1>2, <2>1
<1>5. ASSUME NEW item \in S.due, NEW keep \in BOOLEAN, Finalize("shutdown", item, keep) PROVE Cleared'
  <2>1. S.pc = "finalize" /\ UNCHANGED <<buf, red, phase>> BY <1>5 DEF Finalize, redState
  <2>2. sweep'["shutdown"].shard = S.shard /\ sweep'["shutdown"].pc = "decision" BY <1>0, <1>5, FinalizeMoves DEF Moves
  <2>3. \A t \in Traces : Emptied(t)' => Emptied(t) BY <2>1, <2>2 DEF Emptied
  <2> QED BY <1>b, <2>1, <2>2, <2>3 DEF Cleared, Cancelled
<1>d. S.shard > NShards => \A t \in Traces : buf[t] = {}
  <2>1. NShards \in Nat BY AssemblyAssumption
  <2>2. S.shard > NShards => \A t \in Traces : ShardOf[t] < S.shard BY <1>0, <1>a, <2>1
  <2> QED BY <2>2, <1>b DEF Emptied
<1>6. ASSUME S.shard > NShards, S.pc \in {"take", "send", "evict"}, Drained("shutdown"), UNCHANGED buf, red' = 0 PROVE Cleared'
  <2>1. phase' = "waiting" BY <1>6 DEF Drained
  <2>2. \A t \in Traces : buf[t] = {} BY <1>6, <1>d
  <2> QED BY <1>6, <2>1, <2>2 DEF Cleared
<1>7. ASSUME S.shard > NShards, UNCHANGED <<buf, phase, sweep["shutdown"].shard>>, red' = 0 PROVE Cleared'
  <2>1. \A t \in Traces : buf[t] = {} BY <1>7, <1>d
  <2> QED BY <1>7, <2>1 DEF Cleared, Cancelled
<1>8. CASE Flush("shutdown")
  <2>1. S.shard > NShards /\ S.pc = "take" /\ UNCHANGED buf /\ red' = 0 BY <1>8 DEF Flush, buffers
  <2>2. CASE red = 0
    <3>1. Drained("shutdown") BY <1>8, <2>2 DEF Flush
    <3> QED BY <1>6, <2>1, <3>1
  <2>3. CASE red # 0
    <3>1. phase' = phase BY <1>8, <2>3 DEF Flush
    <3>2. sweep'["shutdown"].shard = S.shard BY <1>0, <1>8, <2>3, FlushMoves DEF Moves
    <3> QED BY <1>7, <2>1, <3>1, <3>2
  <2> QED BY <2>2, <2>3
<1>9. CASE SendSample("shutdown")
  <2>1. S.pc = "send" /\ UNCHANGED <<buf, red>> BY <1>9 DEF SendSample, buffers
  <2>2. S.shard > NShards /\ red' = 0 BY <1>0, <1>c, <2>1 DEF Shaped
  <2>3. CASE Drained("shutdown") BY <1>6, <2>1, <2>2, <2>3
  <2>4. CASE ~Drained("shutdown")
    <3>1. phase' = phase /\ Goto("shutdown", [S EXCEPT !.pc = "evict"]) BY <1>9, <2>4 DEF SendSample
    <3>2. sweep'["shutdown"].shard = S.shard BY <1>0, <3>1, PcMoves DEF Moves, Pcs
    <3> QED BY <1>7, <2>1, <2>2, <3>1, <3>2
  <2> QED BY <2>3, <2>4
<1>10. CASE DropOldest("shutdown")
  <2>1. S.pc = "evict" /\ UNCHANGED <<buf, red>> /\ Drained("shutdown") BY <1>10 DEF DropOldest, buffers
  <2>2. S.shard > NShards /\ red' = 0 BY <1>0, <1>c, <2>1 DEF Shaped
  <2> QED BY <1>6, <2>1, <2>2
<1> QED BY <1>1, <1>3, <1>4, <1>5, <1>8, <1>9, <1>10 DEF SweepStep

\* Every step keeps Cleared.
LEMMA ClearedStep == ASSUME Typed, Shaped, Phased, Cleared, [Next]_vars PROVE Cleared'
<1>1. CASE UNCHANGED <<buf, red, sweep, phase>>
  BY <1>1 DEF Cleared, Emptied, Cancelled
<1>2. ASSUME phase' \in {"running", "stopping"} PROVE Cleared'
  BY <1>2 DEF Cleared, Cancelled
<1>3. CASE SweepStep("shutdown")
  <2>1. phase = "flushing" BY <1>3, SweepStepMoves DEF Phased, Sweepers, Typed
  <2> QED BY <1>3, <2>1, FlushStepCleared
<1>4. CASE SweepStep("ticker")
  <2>1. phase \in {"running", "stopping"} BY <1>4, SweepStepMoves DEF Phased, Sweepers, Typed
  <2>2. phase' = phase BY <1>4, SweepStepMoves DEF Sweepers
  <2> QED BY <1>2, <2>1, <2>2
<1>5. CASE TickBegin \/ TickerExit \/ StopIngest
  <2>1. phase \in {"running", "stopping"} BY <1>5 DEF TickBegin, TickerExit, StopIngest, Phased, Typed
  <2> QED BY <1>2, <1>5, <2>1 DEF TickBegin, TickerExit, StopIngest
<1>6. CASE FlushBegin
  <2>1. Moves("shutdown", "take", 1, {}, {}, FALSE, 0) BY <1>6, RestingMoves DEF FlushBegin, Typed, Sweepers, Pcs
  <2>2. phase' = "flushing" /\ sweep'["shutdown"].shard = 1 /\ sweep'["shutdown"].pc = "take"
    BY <1>6, <2>1 DEF FlushBegin, Moves
  <2>3. \A t \in Traces : ~Emptied(t)' BY <2>2, AssemblyAssumption DEF Emptied
  <2> QED BY <2>2, <2>3 DEF Cleared, Cancelled
<1>7. CASE Joined
  BY <1>7 DEF Joined, Cleared, Cancelled, buffers, redState, Emptied
<1>8. CASE ConsumeStep \/ \E s \in Spans : Consume(s)
  <2>1. phase = "running"
    <3>1. CASE ConsumeStep
      <4>1. consumer.pc # "idle" BY <3>1 DEF ConsumeStep, Accumulate, JournalSpan
      <4> QED BY <4>1 DEF Phased, NoConsume
    <3>2. ASSUME NEW s \in Spans, Consume(s) PROVE phase = "running" BY <3>2 DEF Consume
    <3> QED BY <1>8, <3>1, <3>2
  <2>2. phase' = "running" BY <1>8, <2>1 DEF ConsumeStep, Accumulate, JournalSpan, Consume
  <2> QED BY <1>2, <2>2
<1>9. BridgeStep \/ FeedStep \/ Elapse \/ UNCHANGED vars => UNCHANGED <<buf, red, sweep, phase>>
  BY DEF BridgeStep, FeedStep, BridgeTake, BridgePair, BridgeExit, Observe, FeedExit, Elapse, vars, buffers, redState
<1> QED BY <1>1, <1>3, <1>4, <1>5, <1>6, <1>7, <1>8, <1>9 DEF Next, TickerStep, ShutdownStep

-----------------------------------------------------------------------------
(* Every accepted span is in one place.                                    *)

\* Only TakeDue takes buffers; every other step of a sweep lets go of them.
LEMMA OtherSteps ==
  ASSUME Typed, Shaped, NEW p \in Sweepers, SweepStep(p), ~TakeDue(p)
  PROVE  UNCHANGED buf /\ sweep'[p].due \subseteq sweep[p].due
<1> DEFINE S == sweep[p]
           Goal == UNCHANGED buf /\ sweep'[p].due \subseteq sweep[p].due
<1>1. ASSUME Finalized(p) PROVE sweep'[p].due = S.due
  BY <1>1, FinalizedMoves DEF Moves
<1>2. ASSUME Drained(p) PROVE sweep'[p].due = {}
  BY <1>2, DrainedMoves DEF Moves
<1>3. CASE SendDecision(p)
  <2>1. CASE S.keep
    <3>1. Moves(p, "trace", S.shard, S.due, S.cur, S.keep, S.sample) BY <1>3, <2>1, PcMoves DEF SendDecision, Pcs
    <3> QED BY <1>3, <3>1 DEF SendDecision, buffers, Moves
  <2>2. CASE ~S.keep
    BY <1>1, <1>3, <2>2 DEF SendDecision, buffers
  <2> QED BY <2>1, <2>2
<1>4. CASE SendTrace(p)
  BY <1>1, <1>4 DEF SendTrace, buffers
<1>5. ASSUME NEW item \in S.due, NEW keep \in BOOLEAN, Finalize(p, item, keep) PROVE Goal
  BY <1>5, FinalizeMoves DEF Finalize, Moves
<1>6. CASE Flush(p)
  BY <1>6, FlushMoves DEF Flush, buffers, Moves
<1>7. CASE SendSample(p)
  <2>1. CASE Drained(p) BY <1>2, <1>7, <2>1 DEF SendSample, buffers
  <2>2. CASE ~Drained(p)
    <3>1. Moves(p, "evict", S.shard, S.due, S.cur, S.keep, S.sample) BY <1>7, <2>2, PcMoves DEF SendSample, Pcs
    <3> QED BY <1>7, <3>1 DEF SendSample, buffers, Moves
  <2> QED BY <2>1, <2>2
<1>8. CASE DropOldest(p)
  BY <1>2, <1>8 DEF DropOldest, buffers
<1> QED BY <1>3, <1>4, <1>5, <1>6, <1>7, <1>8 DEF SweepStep

\* Every step keeps Owned.
LEMMA OwnedStep == ASSUME Typed, Shaped, Owned, [Next]_vars PROVE Owned'
<1>1. ASSUME NEW p \in Sweepers, UNCHANGED buf, sweep'[p].due \subseteq sweep[p].due,
             \A q \in Sweepers : q # p => sweep'[q] = sweep[q]
      PROVE  Owned'
  <2>1. \A q \in Sweepers : sweep'[q].due \subseteq sweep[q].due BY <1>1
  <2> QED BY <1>1, <2>1 DEF Owned
<1>2. ASSUME NEW p \in Sweepers, TakeDue(p) PROVE Owned'
  <2> DEFINE S == sweep[p]
             taken == {t \in Open : ShardOf[t] = S.shard} \cap Due(p)
             d == {Item(t) : t \in taken}
  <2>1. taken \subseteq Traces BY DEF Open
  <2>2. sweep'[p].due = d \/ sweep'[p].due = S.due BY <1>2, TakeMoves DEF Moves
  <2>3. \A q \in Sweepers : q # p => sweep'[q] = sweep[q] BY <1>2, TakeMoves DEF Moves
  <2>4. \A t \in Traces : buf'[t] \subseteq buf[t] BY <1>2 DEF TakeDue
  <2> HIDE DEF taken
  <2>5. \A item \in d : \A s \in item.spans : TraceOf[s] = item.trace BY <2>1 DEF Item, Owned
  <2>6. \A i, j \in d : i.trace = j.trace => i = j BY <2>1 DEF Item
  <2> HIDE DEF d
  <2>7. \A q \in Sweepers : sweep'[q].due \in {d, sweep[q].due} BY <2>2, <2>3
  <2> QED BY <2>4, <2>5, <2>6, <2>7 DEF Owned
<1>3. ASSUME NEW p \in Sweepers, SweepStep(p) PROVE Owned'
  BY <1>1, <1>2, <1>3, OtherSteps, SweepStepMoves
<1>4. CASE TickBegin
  <2>1. Moves("ticker", "take", 1, {}, {}, FALSE, 0) BY <1>4, RestingMoves DEF TickBegin, Typed, Sweepers, Pcs
  <2> QED BY <1>1, <1>4, <2>1 DEF TickBegin, Moves, Sweepers, buffers
<1>5. CASE TickerExit
  <2>1. Moves("ticker", "exited", 1, {}, {}, FALSE, 0) BY <1>5, RestingMoves DEF TickerExit, Typed, Sweepers, Pcs
  <2> QED BY <1>1, <1>5, <2>1 DEF TickerExit, Moves, Sweepers, buffers
<1>6. CASE FlushBegin
  <2>1. Moves("shutdown", "take", 1, {}, {}, FALSE, 0) BY <1>6, RestingMoves DEF FlushBegin, Typed, Sweepers, Pcs
  <2> QED BY <1>1, <1>6, <2>1 DEF FlushBegin, Moves, Sweepers, buffers
<1>7. ASSUME NEW s \in Spans, Consume(s) PROVE Owned'
  <2>1. UNCHANGED sweep BY <1>7 DEF Consume
  <2>2. buf' = buf \/ buf' = [buf EXCEPT ![TraceOf[s]] = @ \cup {s}] BY <1>7 DEF Consume
  <2>3. \A t \in Traces : \A x \in buf'[t] : x \in buf[t] \/ (x = s /\ t = TraceOf[s])
    <3>1. buf \in [Traces -> SUBSET Spans] BY DEF Typed
    <3> QED BY <2>2, <3>1
  <2>4. \A t \in Traces : \A x \in buf'[t] : TraceOf[x] = t BY <2>3 DEF Owned
  <2> QED BY <2>1, <2>4 DEF Owned
<1>8. CASE UNCHANGED <<buf, sweep>>
  BY <1>8 DEF Owned
<1>9. ConsumeStep \/ StopIngest \/ Joined \/ BridgeStep \/ FeedStep \/ Elapse \/ UNCHANGED vars => UNCHANGED <<buf, sweep>>
  BY DEF ConsumeStep, Accumulate, JournalSpan, StopIngest, Joined, BridgeStep, FeedStep, BridgeTake, BridgePair,
         BridgeExit, Observe, FeedExit, Elapse, vars, buffers
<1> QED BY <1>3, <1>4, <1>5, <1>6, <1>7, <1>8, <1>9 DEF Next, TickerStep, ShutdownStep, Sweepers

\* A step of a sweep moves a span on, and neither loses nor doubles it.
Held(p, s) == decided[s] + Buffered(s) + InHands(p, s)

\* TakeDue moves spans from the buffers to the due ones.
LEMMA TakeHeld ==
  ASSUME Typed, Shaped, Owned, NEW p \in Sweepers, TakeDue(p), NEW s \in Spans
  PROVE  Held(p, s)' = Held(p, s)
<1> DEFINE S == sweep[p]
           taken == {t \in Open : ShardOf[t] = S.shard} \cap Due(p)
           d == {Item(t) : t \in taken}
<1>1. S.pc = "take" /\ S.due = {} BY DEF TakeDue, Shaped
<1>2. TraceOf[s] \in Traces BY AssemblyAssumption
<1>3. UNCHANGED decided /\ \A t \in Traces : buf'[t] = IF t \in taken THEN {} ELSE buf[t] BY DEF TakeDue
<1>4. taken \subseteq Traces BY DEF Open
<1>5. InCur(p, s) = 0 /\ InDue(p, s) = 0 BY <1>1 DEF InCur, InDue, One
<1>6. CASE taken = {}
  <2>1. Moves(p, "take", S.shard + 1, S.due, S.cur, S.keep, S.sample) BY <1>6, TakeMoves
  <2>2. InCur(p, s)' = 0 /\ InDue(p, s)' = 0 BY <1>1, <2>1 DEF InCur, InDue, One, Moves
  <2>3. Buffered(s)' = Buffered(s) BY <1>2, <1>3, <1>6 DEF Buffered, One
  <2> QED BY <1>3, <1>5, <2>2, <2>3 DEF Held, InHands
<1>7. CASE taken # {}
  <2>1. Moves(p, "finalize", S.shard, d, S.cur, S.keep, S.sample) BY <1>7, TakeMoves
  <2>2. InCur(p, s)' = 0 BY <2>1 DEF InCur, One, Moves
  <2>3. sweep'[p].due = d BY <2>1 DEF Moves
  <2>4. (\E item \in d : s \in item.spans) <=> TraceOf[s] \in taken /\ s \in buf[TraceOf[s]]
    <3> HIDE DEF taken
    <3>1. (\E item \in d : s \in item.spans) <=> \E t \in taken : s \in buf[t]
      <4>1. \A t : Item(t).spans = buf[t] BY DEF Item
      <4>2. \A item : item \in d <=> \E t \in taken : item = Item(t) OBVIOUS
      <4> HIDE DEF d
      <4> QED BY <4>1, <4>2
    <3> HIDE DEF d
    <3>2. \A t \in taken : s \in buf[t] => TraceOf[s] = t BY <1>4 DEF Owned
    <3> QED BY <3>1, <3>2
  <2> HIDE DEF taken, d
  <2>5. InDue(p, s)' = One(TraceOf[s] \in taken /\ s \in buf[TraceOf[s]]) BY <2>3, <2>4 DEF InDue
  <2>6. Buffered(s)' = One(TraceOf[s] \notin taken /\ s \in buf[TraceOf[s]]) BY <1>2, <1>3 DEF Buffered, One
  <2>7. Buffered(s)' + InDue(p, s)' = Buffered(s) BY <2>5, <2>6 DEF Buffered, One
  <2>8. decided[s] \in Nat /\ Buffered(s)' \in Nat /\ InDue(p, s)' \in Nat BY <2>5, <2>6 DEF One, Typed
  <2> QED BY <1>3, <1>5, <2>2, <2>7, <2>8 DEF Held, InHands
<1> QED BY <1>6, <1>7

\* Finalize moves them from the due ones to the hand.
LEMMA FinalizeHeld ==
  ASSUME Typed, Shaped, Owned, NEW p \in Sweepers, NEW item \in sweep[p].due, NEW keep \in BOOLEAN,
         Finalize(p, item, keep), NEW s \in Spans
  PROVE  Held(p, s)' = Held(p, s)
<1> DEFINE S == sweep[p]
<1>1. S.pc = "finalize" /\ UNCHANGED <<buf, decided>> BY DEF Finalize
<1>2. Moves(p, "decision", S.shard, S.due \ {item}, {item}, keep, S.sample) BY FinalizeMoves
<1>3. InCur(p, s) = 0 BY <1>1 DEF InCur, One
<1>4. InCur(p, s)' = One(s \in item.spans) BY <1>2 DEF InCur, Moves
<1>5. InDue(p, s)' = One(\E i \in S.due : i # item /\ s \in i.spans) BY <1>2 DEF InDue, Moves
<1>6. s \in item.spans => ~\E i \in S.due : i # item /\ s \in i.spans BY DEF Owned
<1>7. InDue(p, s)' + InCur(p, s)' = InDue(p, s) BY <1>4, <1>5, <1>6 DEF InDue, One
<1>8. InDue(p, s) \in Nat BY DEF InDue, One
<1>9. Buffered(s)' = Buffered(s) BY <1>1 DEF Buffered
<1> QED BY <1>1, <1>3, <1>7, <1>8, <1>9 DEF Held, InHands

\* SendDecision decides those in the hand.
LEMMA DecisionHeld ==
  ASSUME Typed, Shaped, NEW p \in Sweepers, SendDecision(p), NEW s \in Spans
  PROVE  Held(p, s)' = Held(p, s)
<1> DEFINE S == sweep[p]
<1>1. S.pc = "decision" /\ UNCHANGED buf BY DEF SendDecision, buffers
<1>2. PICK item \in Items : S.cur = {item} BY <1>1 DEF Shaped
<1>3. decided'[s] = IF s \in item.spans THEN decided[s] + 1 ELSE decided[s] BY <1>2 DEF SendDecision
<1>4. InCur(p, s) = One(s \in item.spans) BY <1>1, <1>2 DEF InCur
<1>5. sweep'[p].pc # "decision" /\ sweep'[p].due = S.due
  <2>1. CASE S.keep
    <3>1. Moves(p, "trace", S.shard, S.due, S.cur, S.keep, S.sample) BY <2>1, PcMoves DEF SendDecision, Pcs
    <3> QED BY <3>1 DEF Moves
  <2>2. CASE ~S.keep
    <3>1. Finalized(p) BY <2>2 DEF SendDecision
    <3> QED BY <3>1, FinalizedMoves DEF Moves
  <2> QED BY <2>1, <2>2
<1>6. InCur(p, s)' = 0 /\ InDue(p, s)' = InDue(p, s) /\ Buffered(s)' = Buffered(s)
  BY <1>1, <1>5 DEF InCur, InDue, Buffered, One
<1>7. InDue(p, s) \in Nat /\ Buffered(s) \in Nat /\ decided[s] \in Nat BY DEF InDue, Buffered, One, Typed
<1> QED BY <1>3, <1>4, <1>6, <1>7 DEF Held, InHands, One

\* Every step of a sweep leaves the number of places a span is at.
LEMMA SweepStepHeld ==
  ASSUME Typed, Shaped, Owned, NEW p \in Sweepers, SweepStep(p), NEW s \in Spans
  PROVE  Held(p, s)' = Held(p, s)
<1> DEFINE S == sweep[p]
<1>1. ASSUME S.pc # "decision", sweep'[p].pc # "decision", sweep'[p].due = S.due, UNCHANGED <<buf, decided>>
      PROVE  Held(p, s)' = Held(p, s)
  BY <1>1 DEF Held, InHands, InDue, InCur, Buffered, One
<1>2. CASE SendTrace(p)
  <2>1. S.pc = "trace" /\ UNCHANGED <<buf, decided>> /\ Finalized(p) BY <1>2 DEF SendTrace, buffers
  <2>2. sweep'[p].pc # "decision" /\ sweep'[p].due = S.due BY <2>1, FinalizedMoves DEF Moves
  <2> QED BY <1>1, <2>1, <2>2
<1>3. CASE Flush(p)
  <2>1. S.pc = "take" /\ UNCHANGED <<buf, decided>> BY <1>3 DEF Flush, buffers
  <2>2. sweep'[p].pc # "decision" /\ sweep'[p].due = S.due BY <1>3, <2>1, FlushMoves DEF Moves, Shaped
  <2> QED BY <1>1, <2>1, <2>2
<1>4. CASE SendSample(p)
  <2>1. S.pc = "send" /\ UNCHANGED <<buf, decided>> BY <1>4 DEF SendSample, buffers
  <2>2. S.due = {} BY <2>1 DEF Shaped
  <2>3. CASE Drained(p)
    <3>1. sweep'[p].pc # "decision" /\ sweep'[p].due = S.due BY <2>2, <2>3, DrainedMoves DEF Moves
    <3> QED BY <1>1, <2>1, <3>1
  <2>4. CASE ~Drained(p)
    <3>1. Moves(p, "evict", S.shard, S.due, S.cur, S.keep, S.sample) BY <1>4, <2>4, PcMoves DEF SendSample, Pcs
    <3>2. sweep'[p].pc # "decision" /\ sweep'[p].due = S.due BY <3>1 DEF Moves
    <3> QED BY <1>1, <2>1, <3>2
  <2> QED BY <2>3, <2>4
<1>5. CASE DropOldest(p)
  <2>1. S.pc = "evict" /\ UNCHANGED <<buf, decided>> /\ Drained(p) BY <1>5 DEF DropOldest, buffers
  <2>2. sweep'[p].pc # "decision" /\ sweep'[p].due = S.due BY <2>1, DrainedMoves DEF Moves, Shaped
  <2> QED BY <1>1, <2>1, <2>2
<1> QED BY <1>2, <1>3, <1>4, <1>5, TakeHeld, FinalizeHeld, DecisionHeld DEF SweepStep

\* Every step keeps Accounted: Consume adds the span it accepts, once.
LEMMA AccountedStep == ASSUME Typed, Shaped, Phased, Owned, Accounted, [Next]_vars PROVE Accounted'
<1>1. ASSUME UNCHANGED <<accepted, decided, buf>>, \A p \in Sweepers : \A s \in Spans : InHands(p, s)' = InHands(p, s)
      PROVE  Accounted'
  BY <1>1 DEF Accounted, Buffered, Sweepers
<1>2. ASSUME NEW p \in Sweepers, SweepStep(p) PROVE Accounted'
  <2> SUFFICES ASSUME NEW s \in Spans
               PROVE  accepted'[s] = decided'[s] + Buffered(s)' + InHands("ticker", s)' + InHands("shutdown", s)'
    BY DEF Accounted
  <2>1. Held(p, s)' = Held(p, s) BY <1>2, SweepStepHeld
  <2>2. accepted' = accepted BY <1>2, SweepStepTyped DEF SweepAlone
  <2>3. \A q \in Sweepers : q # p => InHands(q, s)' = InHands(q, s)
    BY <1>2, SweepStepMoves DEF InHands, InDue, InCur
  <2>4. \A q \in Sweepers : InHands(q, s) \in Nat /\ InHands(q, s)' \in Nat BY DEF InHands, InDue, InCur, One
  <2>5. Buffered(s) \in Nat /\ Buffered(s)' \in Nat BY DEF Buffered, One
  <2>6. decided[s] \in Nat /\ decided'[s] \in Nat BY <1>2, SweepStepTyped DEF Typed
  <2>7. accepted[s] = decided[s] + Buffered(s) + InHands("ticker", s) + InHands("shutdown", s) BY DEF Accounted
  <2>8. CASE p = "ticker"
    <3>1. InHands("shutdown", s)' = InHands("shutdown", s) BY <2>3, <2>8 DEF Sweepers
    <3> QED BY <2>1, <2>2, <2>4, <2>5, <2>6, <2>7, <2>8, <3>1 DEF Held, Sweepers
  <2>9. CASE p = "shutdown"
    <3>1. InHands("ticker", s)' = InHands("ticker", s) BY <2>3, <2>9 DEF Sweepers
    <3> QED BY <2>1, <2>2, <2>4, <2>5, <2>6, <2>7, <2>9, <3>1 DEF Held, Sweepers
  <2> QED BY <2>8, <2>9 DEF Sweepers
<1>3. ASSUME NEW p \in Sweepers, NEW pc \in {"take", "exited"}, sweep[p].pc = "idle",
             Moves(p, pc, 1, {}, {}, FALSE, 0), UNCHANGED <<accepted, decided, buf>>
      PROVE  Accounted'
  <2>1. sweep[p].due = {} BY <1>3 DEF Shaped
  <2>2. \A q \in Sweepers : \A s \in Spans : InHands(q, s)' = InHands(q, s)
    BY <1>3, <2>1 DEF InHands, InDue, InCur, One, Moves
  <2> QED BY <1>1, <1>3, <2>2
<1>4. CASE TickBegin
  <2>1. Moves("ticker", "take", 1, {}, {}, FALSE, 0) BY <1>4, RestingMoves DEF TickBegin, Typed, Sweepers, Pcs
  <2> QED BY <1>3, <1>4, <2>1 DEF TickBegin, Sweepers, buffers, input
<1>5. CASE TickerExit
  <2>1. Moves("ticker", "exited", 1, {}, {}, FALSE, 0) BY <1>5, RestingMoves DEF TickerExit, Typed, Sweepers, Pcs
  <2> QED BY <1>3, <1>5, <2>1 DEF TickerExit, Sweepers, buffers, input
<1>6. CASE FlushBegin
  <2>1. Moves("shutdown", "take", 1, {}, {}, FALSE, 0) BY <1>6, RestingMoves DEF FlushBegin, Typed, Sweepers, Pcs
  <2>2. sweep["shutdown"].pc = "idle" BY <1>6 DEF FlushBegin, Phased
  <2> QED BY <1>3, <1>6, <2>1, <2>2 DEF FlushBegin, Sweepers, buffers, input
<1>7. ASSUME NEW x \in Spans, Consume(x) PROVE Accounted'
  <2>1. UNCHANGED <<sweep, decided>> BY <1>7 DEF Consume
  <2>2. \A p \in Sweepers : \A s \in Spans : InHands(p, s)' = InHands(p, s) BY <2>1 DEF InHands, InDue, InCur
  <2>3. CASE UNCHANGED <<buf, accepted>> BY <1>1, <2>1, <2>2, <2>3
  <2>4. CASE ~UNCHANGED <<buf, accepted>>
    <3>1. /\ x \notin buf[TraceOf[x]] /\ buf' = [buf EXCEPT ![TraceOf[x]] = @ \cup {x}]
          /\ accepted' = [accepted EXCEPT ![x] = @ + 1]
      BY <1>7, <2>4 DEF Consume, DropAsDuplicate
    <3>2. TraceOf[x] \in Traces BY AssemblyAssumption
    <3> SUFFICES ASSUME NEW s \in Spans
                 PROVE  accepted'[s] = decided'[s] + Buffered(s)' + InHands("ticker", s)' + InHands("shutdown", s)'
      BY DEF Accounted
    <3>3. accepted[s] = decided[s] + Buffered(s) + InHands("ticker", s) + InHands("shutdown", s) BY DEF Accounted
    <3>4. InHands("ticker", s)' = InHands("ticker", s) /\ InHands("shutdown", s)' = InHands("shutdown", s)
      BY <2>2 DEF Sweepers
    <3>5. /\ InHands("ticker", s) \in Nat /\ InHands("shutdown", s) \in Nat /\ decided[s] \in Nat
          /\ Buffered(s) \in Nat /\ Buffered(s)' \in Nat
      BY DEF InHands, InDue, InCur, Buffered, One, Typed
    <3>6. CASE s = x
      <4>1. Buffered(s) = 0 /\ Buffered(s)' = 1 BY <3>1, <3>2, <3>6 DEF Buffered, One, Typed
      <4>2. accepted'[s] = accepted[s] + 1 BY <3>1, <3>6 DEF Typed
      <4> QED BY <2>1, <3>3, <3>4, <3>5, <4>1, <4>2
    <3>7. CASE s # x
      <4>1. Buffered(s)' = Buffered(s)
        <5>1. s \in buf'[TraceOf[s]] <=> s \in buf[TraceOf[s]] BY <3>1, <3>2, <3>7, AssemblyAssumption DEF Typed
        <5> QED BY <5>1 DEF Buffered, One
      <4>2. accepted'[s] = accepted[s] BY <3>1, <3>7 DEF Typed
      <4> QED BY <2>1, <3>3, <3>4, <4>1, <4>2
    <3> QED BY <3>6, <3>7
  <2> QED BY <2>3, <2>4
<1>8. CASE UNCHANGED <<buf, sweep, accepted, decided>>
  BY <1>8 DEF Accounted, Buffered, InHands, InDue, InCur
<1>9. ConsumeStep \/ StopIngest \/ Joined \/ BridgeStep \/ FeedStep \/ Elapse \/ UNCHANGED vars
      => UNCHANGED <<buf, sweep, accepted, decided>>
  BY DEF ConsumeStep, Accumulate, JournalSpan, StopIngest, Joined, BridgeStep, FeedStep, BridgeTake, BridgePair,
         BridgeExit, Observe, FeedExit, Elapse, vars, buffers, input
<1> QED BY <1>2, <1>4, <1>5, <1>6, <1>7, <1>8, <1>9 DEF Next, TickerStep, ShutdownStep, Sweepers

\* The places a span is at, as EachSpanDecidedOnce counts them.
LEMMA AwaitingOnce ==
  ASSUME Owned, NEW p \in Sweepers, NEW s \in Spans
  PROVE  Awaiting(p, s) = InHands(p, s)
<1> DEFINE d == {item \in sweep[p].due : s \in item.spans}
<1>1. \A i, j \in d : i = j BY DEF Owned
<1>2. Cardinality(d) = InDue(p, s)
  <2>1. CASE d = {}
    <3>1. Cardinality(d) = 0 BY <2>1, FS_EmptySet
    <3> QED BY <2>1, <3>1 DEF InDue, One
  <2>2. CASE d # {}
    <3>1. PICK i : i \in d BY <2>2
    <3>2. InDue(p, s) = 1 BY <3>1 DEF InDue, One
    <3> HIDE DEF d
    <3>3. d = {i} BY <1>1, <3>1
    <3>4. Cardinality({i}) = 1 BY FS_Singleton
    <3> QED BY <3>2, <3>3, <3>4
  <2> QED BY <2>1, <2>2
<1> QED BY <1>2 DEF Awaiting, InHands, InCur, One

-----------------------------------------------------------------------------
(* The traces under way are those of the kept decisions, in order.         *)

\* The counts of Aligned are numbers.
LEMMA CountTypes ==
  ASSUME Typed
  PROVE  /\ Sent \in Nat /\ Holding \in {0, 1} /\ Len(tracesCh) \in Nat /\ Len(decisions) \in Nat
         /\ (Holding = 1 <=> bridge.held # {})
         /\ \A k \in 1 .. Len(decisions) : decisions[k] \in Decisions
<1>1. tracesCh \in Seq(Items) /\ decisions \in Seq(Decisions) BY DEF Typed
<1>2. Len(tracesCh) \in Nat /\ Len(decisions) \in Nat BY <1>1
<1>3. One(Unsent) \in {0, 1} /\ Holding \in {0, 1} /\ (Holding = 1 <=> bridge.held # {}) BY DEF One, Holding
<1>4. \A k \in 1 .. Len(decisions) : decisions[k] \in Decisions BY <1>1
<1> QED BY <1>2, <1>3, <1>4 DEF Sent

\* Nothing is decided, paired or counted, and what is under way stays so.
LEMMA AlignedSame ==
  ASSUME Typed, Aligned, UNCHANGED <<decisions, bridge, kept, appended>>, Sent' = Sent,
         \A i \in 1 .. Sent : Outgoing'[i] = Outgoing[i]
  PROVE  Aligned'
<1>1. PICK n \in Nat : \E g \in [1 .. n -> 1 .. Len(decisions)] : Pairing(n, g) BY DEF Aligned
<1>2. PICK g \in [1 .. n -> 1 .. Len(decisions)] : Pairing(n, g) BY <1>1
<1>3. Holding' = Holding BY DEF Holding
<1>4. Sent = n + Holding BY <1>2 DEF Pairing
<1>5. \A i \in 1 .. n : i + Holding \in 1 .. Sent BY <1>4, CountTypes
<1>6. Pairing(n, g)'
  <2>1. \A i \in 1 .. n : Outgoing'[i + Holding'] = decisions[g[i]].item BY <1>2, <1>3, <1>5 DEF Pairing
  <2> QED BY <1>2, <1>3, <2>1 DEF Pairing
<1>7. bridge.held # {} => 1 \in 1 .. Sent BY <1>4, CountTypes
<1>8. bridge'.held # {} => bridge'.held = {Outgoing'[1]} BY <1>7 DEF Aligned
<1> QED BY <1>1, <1>2, <1>6, <1>8 DEF Aligned

\* What the channel holds after a decision is sent.
LEMMA AppendDecision ==
  ASSUME Typed, NEW d \in Decisions, decisions' = Append(decisions, d)
  PROVE  /\ Len(decisions)' = Len(decisions) + 1
         /\ \A k \in 1 .. Len(decisions) : decisions'[k] = decisions[k]
         /\ decisions'[Len(decisions) + 1] = d
BY DEF Typed

\* A decision to drop is skipped by the pairing.
LEMMA DropAligned ==
  ASSUME Typed, Aligned, NEW d \in Decisions, ~d.keep, decisions' = Append(decisions, d),
         UNCHANGED <<tracesCh, bridge, kept, appended>>, Unsent' = Unsent, Unsent => UNCHANGED sweep["ticker"].cur
  PROVE  Aligned'
<1>1. PICK n \in Nat : \E g \in [1 .. n -> 1 .. Len(decisions)] : Pairing(n, g) BY DEF Aligned
<1>2. PICK g \in [1 .. n -> 1 .. Len(decisions)] : Pairing(n, g) BY <1>1
<1> DEFINE L == Len(decisions)
<1>3. L \in Nat BY CountTypes
<1>4. Len(decisions)' = L + 1 /\ (\A k \in 1 .. L : decisions'[k] = decisions[k]) /\ decisions'[L + 1] = d
  BY AppendDecision
<1>5. Holding' = Holding /\ Sent' = Sent BY DEF Holding, Sent, One
<1>6. Sent = n + Holding BY <1>2 DEF Pairing
<1>7. \A i \in 1 .. Sent : Outgoing'[i] = Outgoing[i]
  <2> SUFFICES ASSUME NEW i \in 1 .. Sent PROVE Outgoing'[i] = Outgoing[i]
    OBVIOUS
  <2>1. CASE i <= Len(tracesCh) BY <2>1 DEF Outgoing
  <2>2. CASE ~(i <= Len(tracesCh))
    <3>1. Unsent BY <2>2, CountTypes DEF Sent, One
    <3>2. sweep'["ticker"].cur = sweep["ticker"].cur BY <3>1
    <3> QED BY <3>2, <2>2, CountTypes DEF Outgoing
  <2> QED BY <2>1, <2>2
<1>8. \A i \in 1 .. n : i + Holding \in 1 .. Sent /\ i \in 1 .. n BY <1>6, CountTypes
<1>9. g \in [1 .. n -> 1 .. L + 1] BY <1>2, <1>3
<1>10. \A i \in 1 .. n : g[i] \in 1 .. L BY <1>2
<1> HIDE DEF L
<1>11. Pairing(n, g)'
  <2>1. g \in [1 .. n -> 1 .. Len(decisions)'] BY <1>4, <1>9
  <2>2. \A i \in 1 .. n : decisions'[g[i]].keep BY <1>2, <1>4, <1>10 DEF Pairing
  <2>3. \A k \in 1 .. L + 1 : decisions'[k].keep => k \in 1 .. L BY <1>3, <1>4
  <2>4. \A k \in 1 .. Len(decisions)' : decisions'[k].keep => \E i \in 1 .. n : g[i] = k
    BY <1>2, <1>4, <2>3 DEF Pairing, L
  <2>5. \A i \in 1 .. n : Outgoing'[i + Holding'] = decisions'[g[i]].item
    BY <1>2, <1>4, <1>5, <1>7, <1>8, <1>10 DEF Pairing
  <2>6. Sent' = n + Holding' BY <1>5, <1>6
  <2> QED BY <1>2, <2>1, <2>2, <2>4, <2>5, <2>6 DEF Pairing
<1>12. n \in Nat /\ g \in [1 .. n -> 1 .. Len(decisions)'] BY <1>4, <1>9
<1>13. bridge'.held # {} => bridge'.held = {Outgoing'[1]}
  <2>1. bridge.held # {} => 1 \in 1 .. Sent BY <1>6, CountTypes
  <2> QED BY <2>1, <1>7 DEF Aligned
<1> QED BY <1>5, <1>11, <1>12, <1>13 DEF Aligned

\* A decision to keep goes to the end of the pairing, its trace to the end of the
\* traces under way.
LEMMA KeepAligned ==
  ASSUME Typed, Aligned, NEW item \in Items, decisions' = Append(decisions, [item |-> item, keep |-> TRUE]),
         UNCHANGED <<tracesCh, bridge, appended>>, kept' = kept + 1,
         ~Unsent, Unsent', sweep'["ticker"].cur = {item}
  PROVE  Aligned'
<1>1. PICK n \in Nat : \E g \in [1 .. n -> 1 .. Len(decisions)] : Pairing(n, g) BY DEF Aligned
<1>2. PICK g \in [1 .. n -> 1 .. Len(decisions)] : Pairing(n, g) BY <1>1
<1> DEFINE L == Len(decisions)
           d == [item |-> item, keep |-> TRUE]
<1>3. L \in Nat /\ d \in Decisions /\ d.keep /\ d.item = item BY CountTypes DEF Decisions
<1> HIDE DEF d
<1>4. Len(decisions)' = L + 1 /\ (\A k \in 1 .. L : decisions'[k] = decisions[k]) /\ decisions'[L + 1] = d
  <2>1. decisions' = Append(decisions, d) BY DEF d
  <2> QED BY <1>3, <2>1, AppendDecision
<1>5. Holding' = Holding /\ Sent' = Sent + 1 /\ Sent = Len(tracesCh)
  BY CountTypes DEF Holding, Sent, One
<1>6. Sent = n + Holding BY <1>2 DEF Pairing
<1>7. (\A i \in 1 .. Sent : Outgoing'[i] = Outgoing[i]) /\ Outgoing'[Sent + 1] = item
  <2>1. \A i \in 1 .. Sent : Outgoing'[i] = Outgoing[i] BY <1>5, CountTypes DEF Outgoing
  <2>2. ~(Sent + 1 <= Len(tracesCh)) BY <1>5, CountTypes
  <2>3. Sent + 1 \in Nat \ {0} BY CountTypes
  <2>4. Outgoing'[Sent + 1] = Member({item}) BY <1>5, <2>2, <2>3 DEF Outgoing
  <2>5. Member({item}) = item BY DEF Member
  <2> QED BY <2>1, <2>4, <2>5
<1>8. \A i \in 1 .. n : i + Holding \in 1 .. Sent BY <1>6, CountTypes
<1>9. \A i \in 1 .. n : g[i] \in 1 .. L BY <1>2
<1> HIDE DEF L
<1>10. PICK h \in [1 .. n + 1 -> 1 .. L + 1] : h[n + 1] = L + 1 /\ \A i \in 1 .. n : h[i] = g[i]
  <2> DEFINE f == [i \in 1 .. n + 1 |-> IF i = n + 1 THEN L + 1 ELSE g[i]]
  <2>1. f \in [1 .. n + 1 -> 1 .. L + 1] /\ f[n + 1] = L + 1 /\ \A i \in 1 .. n : f[i] = g[i] BY <1>3, <1>9
  <2> QED BY <2>1
<1>a. \A i \in 1 .. n + 1 : i \in 1 .. n \/ i = n + 1 OBVIOUS
<1>b. \A k \in 1 .. L + 1 : k \in 1 .. L \/ k = L + 1 BY <1>3
<1>c. n + 1 \in 1 .. n + 1 /\ \A i \in 1 .. n : i \in 1 .. n + 1 /\ i < n + 1 OBVIOUS
<1>11. Pairing(n + 1, h)'
  <2>1. h \in [1 .. n + 1 -> 1 .. Len(decisions)'] BY <1>4, <1>10
  <2>2. \A i, j \in 1 .. n + 1 : i < j => h[i] < h[j]
    <3> SUFFICES ASSUME NEW i \in 1 .. n + 1, NEW j \in 1 .. n + 1, i < j PROVE h[i] < h[j]
      OBVIOUS
    <3>1. i \in 1 .. n OBVIOUS
    <3>2. CASE j \in 1 .. n BY <1>2, <1>10, <3>1, <3>2 DEF Pairing
    <3>3. CASE j = n + 1 BY <1>3, <1>9, <1>10, <3>1, <3>3
    <3> QED BY <1>a, <3>2, <3>3
  <2>3. \A i \in 1 .. n + 1 : decisions'[h[i]].keep
    <3>1. \A i \in 1 .. n : decisions'[h[i]].keep BY <1>2, <1>4, <1>9, <1>10 DEF Pairing
    <3>2. decisions'[h[n + 1]].keep BY <1>3, <1>4, <1>10
    <3> QED BY <1>a, <3>1, <3>2
  <2>4. \A k \in 1 .. L + 1 : decisions'[k].keep => \E i \in 1 .. n + 1 : h[i] = k
    <3> SUFFICES ASSUME NEW k \in 1 .. L + 1, decisions'[k].keep PROVE \E i \in 1 .. n + 1 : h[i] = k
      OBVIOUS
    <3>1. CASE k \in 1 .. L
      <4>1. decisions[k].keep BY <1>4, <3>1
      <4>2. PICK i \in 1 .. n : g[i] = k BY <1>2, <3>1, <4>1 DEF Pairing, L
      <4> QED BY <1>10, <1>c, <4>2
    <3>2. CASE k = L + 1 BY <1>10, <1>c, <3>2
    <3> QED BY <1>b, <3>1, <3>2
  <2>5. \A i \in 1 .. n + 1 : Outgoing'[i + Holding'] = decisions'[h[i]].item
    <3> SUFFICES ASSUME NEW i \in 1 .. n + 1 PROVE Outgoing'[i + Holding'] = decisions'[h[i]].item
      OBVIOUS
    <3>1. CASE i \in 1 .. n
      <4>1. Outgoing'[i + Holding'] = Outgoing[i + Holding] BY <1>5, <1>7, <1>8, <3>1
      <4>2. decisions'[h[i]] = decisions[g[i]] BY <1>4, <1>9, <1>10, <3>1
      <4> QED BY <1>2, <3>1, <4>1, <4>2 DEF Pairing
    <3>2. CASE i = n + 1
      <4>1. i + Holding = Sent + 1 BY <1>6, <3>2, CountTypes
      <4> QED BY <1>3, <1>4, <1>5, <1>7, <1>10, <3>2, <4>1
    <3> QED BY <1>a, <3>1, <3>2
  <2>6. Sent' = n + 1 + Holding' BY <1>5, <1>6, CountTypes
  <2>7. \A k \in 1 .. Len(decisions)' : decisions'[k].keep => \E i \in 1 .. n + 1 : h[i] = k BY <1>4, <2>4
  <2> QED BY <2>1, <2>2, <2>3, <2>5, <2>6, <2>7 DEF Pairing
<1>12. n + 1 \in Nat /\ h \in [1 .. n + 1 -> 1 .. Len(decisions)'] BY <1>4, <1>10
<1>13. bridge'.held # {} => bridge'.held = {Outgoing'[1]}
  <2>1. bridge.held # {} => 1 \in 1 .. Sent BY <1>6, CountTypes
  <2> QED BY <2>1, <1>7 DEF Aligned
<1>14. kept' = appended' + Sent'
  <2>1. kept = appended + Sent /\ appended \in Nat /\ Sent \in Nat BY CountTypes DEF Aligned, Typed
  <2> QED BY <1>5, <2>1
<1> QED BY <1>11, <1>12, <1>13, <1>14 DEF Aligned

\* The bridge receives the trace of the decision it holds.
LEMMA PairAligned ==
  ASSUME Typed, Aligned, BridgePair
  PROVE  Aligned'
<1>1. PICK n \in Nat : \E g \in [1 .. n -> 1 .. Len(decisions)] : Pairing(n, g) BY DEF Aligned
<1>2. PICK g \in [1 .. n -> 1 .. Len(decisions)] : Pairing(n, g) BY <1>1
<1>3. UNCHANGED <<decisions, sweep, kept>> /\ appended' = appended + 1 BY DEF BridgePair
<1>4. bridge.held # {} /\ bridge' = [pc |-> "select", held |-> {}] BY DEF BridgePair, Aligned
<1>5. Holding = 1 /\ Holding' = 0 BY <1>4 DEF Holding, One
<1> DEFINE L == Len(tracesCh)
<1>6. L \in Nat \ {0} /\ Len(tracesCh)' = L - 1 /\ \A i \in 1 .. L - 1 : tracesCh'[i] = tracesCh[i + 1]
  BY DEF BridgePair, Typed
<1>7. Sent' = Sent - 1 BY <1>3, <1>6 DEF Sent, Unsent, One
<1>8. \A i \in Nat \ {0} : Outgoing'[i] = Outgoing[i + 1]
  <2> SUFFICES ASSUME NEW i \in Nat \ {0} PROVE Outgoing'[i] = Outgoing[i + 1]
    OBVIOUS
  <2>1. CASE i <= L - 1
    <3>1. Outgoing'[i] = tracesCh'[i] BY <1>6, <2>1 DEF Outgoing
    <3>2. Outgoing[i + 1] = tracesCh[i + 1] BY <1>6, <2>1 DEF Outgoing
    <3> QED BY <1>6, <2>1, <3>1, <3>2
  <2>2. CASE ~(i <= L - 1) BY <1>3, <1>6, <2>2 DEF Outgoing
  <2> QED BY <2>1, <2>2
<1>9. Pairing(n, g)'
  <2>1. \A i \in 1 .. n : Outgoing'[i + Holding'] = decisions[g[i]].item
    <3>1. \A i \in 1 .. n : Outgoing[i + 1] = decisions[g[i]].item BY <1>2, <1>5 DEF Pairing
    <3>2. \A i \in 1 .. n : i + 0 = i /\ i \in Nat \ {0} OBVIOUS
    <3> QED BY <1>5, <1>8, <3>1, <3>2
  <2>2. Sent' = n + Holding' BY <1>2, <1>5, <1>7, CountTypes DEF Pairing
  <2> QED BY <1>2, <1>3, <1>5, <2>1, <2>2 DEF Pairing
<1>10. kept' = appended' + Sent'
  <2>1. kept = appended + Sent /\ appended \in Nat /\ Sent \in Nat BY CountTypes DEF Aligned, Typed
  <2> QED BY <1>3, <1>7, <2>1
<1> QED BY <1>1, <1>2, <1>3, <1>4, <1>9, <1>10 DEF Aligned

\* The head of the decisions goes: what follows moves up by one.
LEMMA TakeAligned ==
  ASSUME Typed, Aligned, BridgeTake
  PROVE  Aligned'
<1>1. PICK n \in Nat : \E g \in [1 .. n -> 1 .. Len(decisions)] : Pairing(n, g) BY DEF Aligned
<1>2. PICK g \in [1 .. n -> 1 .. Len(decisions)] : Pairing(n, g) BY <1>1
<1>3. UNCHANGED <<tracesCh, sweep, kept, appended>> BY DEF BridgeTake
<1>4. bridge.pc = "select" /\ bridge.held = {} BY DEF BridgeTake, Aligned
<1>5. Holding = 0 BY <1>4 DEF Holding, One
<1> DEFINE L == Len(decisions)
<1>6. L \in Nat \ {0} /\ Len(decisions)' = L - 1 /\ \A k \in 1 .. L - 1 : decisions'[k] = decisions[k + 1]
  BY DEF BridgeTake, Typed
<1>7. Sent' = Sent /\ Sent = n BY <1>2, <1>3, <1>5 DEF Sent, Unsent, One, Pairing
<1>8. \A i \in Nat : Outgoing'[i] = Outgoing[i] BY <1>3 DEF Outgoing
<1>9. /\ \A i \in 1 .. n : g[i] \in 1 .. L /\ decisions[g[i]].keep /\ Outgoing[i] = decisions[g[i]].item
      /\ \A i, j \in 1 .. n : i < j => g[i] < g[j]
      /\ \A k \in 1 .. L : decisions[k].keep => \E i \in 1 .. n : g[i] = k
  <2>1. \A i \in 1 .. n : i + 0 = i OBVIOUS
  <2>2. \A i \in 1 .. n : Outgoing[i] = decisions[g[i]].item BY <1>2, <1>5, <2>1 DEF Pairing
  <2> QED BY <1>2, <2>2 DEF Pairing
<1>10. Head(decisions) = decisions[1] /\ 1 \in 1 .. L BY <1>6 DEF Typed
<1> HIDE DEF L
<1>11. kept' = appended' + Sent' BY <1>3, <1>7 DEF Aligned
<1>12. CASE decisions[1].keep
  <2>1. PICK o \in 1 .. n : g[o] = 1 BY <1>9, <1>10, <1>12
  <2>2. g[1] = 1 /\ 1 \in 1 .. n
    <3>1. 1 \in 1 .. n /\ (o = 1 \/ 1 < o) OBVIOUS
    <3>2. ~(g[1] < 1) BY <1>9, <3>1
    <3> QED BY <1>9, <2>1, <3>1, <3>2
  <2> DEFINE h == [i \in 1 .. n - 1 |-> g[i + 1] - 1]
  <2>3. \A i \in 1 .. n - 1 : i + 1 \in 1 .. n /\ 1 < i + 1 OBVIOUS
  <2>4. \A i \in 1 .. n - 1 : g[i + 1] \in 1 .. L /\ 1 < g[i + 1] BY <1>9, <2>2, <2>3
  <2>5. h \in [1 .. n - 1 -> 1 .. L - 1] /\ \A i \in 1 .. n - 1 : h[i] = g[i + 1] - 1 /\ h[i] + 1 = g[i + 1]
    <3>1. \A i \in 1 .. n - 1 : g[i + 1] - 1 \in 1 .. L - 1 /\ (g[i + 1] - 1) + 1 = g[i + 1] BY <1>6, <2>4
    <3> QED BY <3>1
  <2> HIDE DEF h
  <2>6. Head(decisions).keep /\ bridge' = [pc |-> "pair", held |-> {Head(decisions).item}]
    BY <1>10, <1>12 DEF BridgeTake
  <2>7. Holding' = 1 BY <2>6 DEF Holding, One
  <2>8. bridge'.held = {Outgoing'[1]} /\ bridge'.pc = "pair" BY <1>8, <1>9, <1>10, <2>2, <2>6
  <2>9. n - 1 \in Nat BY <2>2
  <2>10. Pairing(n - 1, h)'
    <3>1. h \in [1 .. n - 1 -> 1 .. Len(decisions)'] BY <1>6, <2>5
    <3>2. \A i, j \in 1 .. n - 1 : i < j => h[i] < h[j]
      <4> SUFFICES ASSUME NEW i \in 1 .. n - 1, NEW j \in 1 .. n - 1, i < j PROVE h[i] < h[j]
        OBVIOUS
      <4>1. g[i + 1] < g[j + 1] BY <1>9, <2>3
      <4> QED BY <2>4, <2>5, <4>1
    <3>3. \A i \in 1 .. n - 1 : decisions'[h[i]] = decisions[g[i + 1]] BY <1>6, <2>5
    <3>4. \A i \in 1 .. n - 1 : decisions'[h[i]].keep BY <1>9, <2>3, <3>3
    <3>5. \A i \in 1 .. n - 1 : Outgoing'[i + Holding'] = decisions'[h[i]].item BY <1>8, <1>9, <2>3, <2>7, <3>3
    <3>6. \A k \in 1 .. L - 1 : decisions'[k].keep => \E i \in 1 .. n - 1 : h[i] = k
      <4> SUFFICES ASSUME NEW k \in 1 .. L - 1, decisions'[k].keep PROVE \E i \in 1 .. n - 1 : h[i] = k
        OBVIOUS
      <4>1. k + 1 \in 1 .. L /\ decisions[k + 1].keep BY <1>6
      <4>2. PICK i \in 1 .. n : g[i] = k + 1 BY <1>9, <4>1
      <4>3. i # 1 BY <2>2, <4>2
      <4>4. i - 1 \in 1 .. n - 1 /\ (i - 1) + 1 = i BY <4>3
      <4>5. h[i - 1] = k BY <2>5, <4>2, <4>4
      <4> QED BY <4>4, <4>5
    <3>7. Sent' = (n - 1) + Holding' BY <1>7, <2>7
    <3>8. \A k \in 1 .. Len(decisions)' : decisions'[k].keep => \E i \in 1 .. n - 1 : h[i] = k BY <1>6, <3>6
    <3> QED BY <3>1, <3>2, <3>4, <3>5, <3>7, <3>8 DEF Pairing
  <2>11. h \in [1 .. n - 1 -> 1 .. Len(decisions)'] BY <1>6, <2>5
  <2> QED BY <1>11, <2>8, <2>9, <2>10, <2>11 DEF Aligned
<1>13. CASE ~decisions[1].keep
  <2> DEFINE h == [i \in 1 .. n |-> g[i] - 1]
  <2>1. \A i \in 1 .. n : 1 < g[i] BY <1>9, <1>13
  <2>2. h \in [1 .. n -> 1 .. L - 1] /\ \A i \in 1 .. n : h[i] = g[i] - 1 /\ h[i] + 1 = g[i]
    <3>1. \A i \in 1 .. n : g[i] - 1 \in 1 .. L - 1 /\ (g[i] - 1) + 1 = g[i] BY <1>6, <1>9, <2>1
    <3> QED BY <3>1
  <2> HIDE DEF h
  <2>3. bridge' = bridge BY <1>10, <1>13 DEF BridgeTake
  <2>4. Holding' = 0 BY <1>5, <2>3 DEF Holding
  <2>5. Pairing(n, h)'
    <3>1. h \in [1 .. n -> 1 .. Len(decisions)'] BY <1>6, <2>2
    <3>2. \A i, j \in 1 .. n : i < j => h[i] < h[j] BY <1>9, <2>2
    <3>3. \A i \in 1 .. n : decisions'[h[i]] = decisions[g[i]] BY <1>6, <2>2
    <3>4. \A i \in 1 .. n : decisions'[h[i]].keep BY <1>9, <3>3
    <3>5. \A i \in 1 .. n : Outgoing'[i + Holding'] = decisions'[h[i]].item BY <1>8, <1>9, <2>4, <3>3
    <3>6. \A k \in 1 .. L - 1 : decisions'[k].keep => \E i \in 1 .. n : h[i] = k
      <4> SUFFICES ASSUME NEW k \in 1 .. L - 1, decisions'[k].keep PROVE \E i \in 1 .. n : h[i] = k
        OBVIOUS
      <4>1. k + 1 \in 1 .. L /\ decisions[k + 1].keep BY <1>6
      <4>2. PICK i \in 1 .. n : g[i] = k + 1 BY <1>9, <4>1
      <4> QED BY <2>2, <4>2
    <3>7. Sent' = n + Holding' BY <1>7, <2>4
    <3>8. \A k \in 1 .. Len(decisions)' : decisions'[k].keep => \E i \in 1 .. n : h[i] = k BY <1>6, <3>6
    <3> QED BY <3>1, <3>2, <3>4, <3>5, <3>7, <3>8 DEF Pairing
  <2>6. h \in [1 .. n -> 1 .. Len(decisions)'] BY <1>6, <2>2
  <2> QED BY <1>4, <1>11, <2>3, <2>5, <2>6 DEF Aligned
<1> QED BY <1>12, <1>13

\* A step that touches neither channel nor the trace the ticker is about to send.
LEMMA AlignedQuiet ==
  ASSUME Typed, Aligned, UNCHANGED <<decisions, tracesCh, bridge, kept, appended>>,
         Unsent' = Unsent, Unsent => sweep'["ticker"].cur = sweep["ticker"].cur
  PROVE  Aligned'
<1>1. Sent' = Sent BY DEF Sent, One
<1>2. \A i \in 1 .. Sent : Outgoing'[i] = Outgoing[i]
  <2> SUFFICES ASSUME NEW i \in 1 .. Sent PROVE Outgoing'[i] = Outgoing[i]
    OBVIOUS
  <2>1. CASE i <= Len(tracesCh) BY <2>1 DEF Outgoing
  <2>2. CASE ~(i <= Len(tracesCh))
    <3>1. Unsent BY <2>2, CountTypes DEF Sent, One
    <3> QED BY <3>1, <2>2, CountTypes DEF Outgoing
  <2> QED BY <2>1, <2>2
<1> QED BY <1>1, <1>2, AlignedSame

\* The trace the ticker sends was the last one under way, and still is.
LEMMA SendAligned ==
  ASSUME Typed, Shaped, Aligned, NEW p \in Sweepers, SendTrace(p)
  PROVE  Aligned'
<1> DEFINE S == sweep[p]  L == Len(tracesCh)
<1>1. S.pc = "trace" /\ Finalized(p) /\ UNCHANGED <<decisions, bridge, kept, appended>> BY DEF SendTrace, readers
<1>2. p = "ticker" BY <1>1 DEF Shaped, Sweepers
<1>3. PICK item \in Items : S.cur = {item} BY <1>1 DEF Shaped
<1>4. tracesCh' = Append(tracesCh, item) BY <1>3 DEF SendTrace
<1>5. L \in Nat /\ Len(tracesCh)' = L + 1 /\ tracesCh'[L + 1] = item /\ \A i \in 1 .. L : tracesCh'[i] = tracesCh[i]
  BY <1>4 DEF Typed
<1>6. Unsent BY <1>1, <1>2 DEF Unsent
<1>7. ~Unsent' BY <1>1, <1>2, FinalizedMoves DEF Moves, Unsent
<1>8. Sent = L + 1 /\ Sent' = Sent BY <1>5, <1>6, <1>7 DEF Sent, One
<1>9. \A i \in 1 .. Sent : Outgoing'[i] = Outgoing[i]
  <2> SUFFICES ASSUME NEW i \in 1 .. Sent PROVE Outgoing'[i] = Outgoing[i]
    OBVIOUS
  <2>1. i \in Nat \ {0} /\ (i \in 1 .. L \/ i = L + 1) /\ i <= L + 1 BY <1>5, <1>8
  <2>2. Outgoing'[i] = tracesCh'[i] BY <1>5, <2>1 DEF Outgoing
  <2>3. CASE i \in 1 .. L
    <3>1. Outgoing[i] = tracesCh[i] BY <2>1, <2>3 DEF Outgoing
    <3> QED BY <1>5, <2>2, <2>3, <3>1
  <2>4. CASE i = L + 1
    <3>1. ~(i <= L) BY <1>5, <2>4
    <3>2. Outgoing[i] = Member({item}) BY <1>2, <1>3, <2>1, <3>1 DEF Outgoing
    <3>3. Member({item}) = item BY DEF Member
    <3> QED BY <1>5, <2>2, <2>4, <3>2, <3>3
  <2> QED BY <2>1, <2>3, <2>4
<1> QED BY <1>1, <1>8, <1>9, AlignedSame

\* SendDecision keeps Aligned, kept or dropped.
LEMMA DecideAligned ==
  ASSUME Typed, Shaped, Aligned, NEW p \in Sweepers, SendDecision(p)
  PROVE  Aligned'
<1> DEFINE S == sweep[p]
<1>1. S.pc = "decision" /\ UNCHANGED <<tracesCh, bridge, appended>> BY DEF SendDecision, readers
<1>2. PICK item \in Items : S.cur = {item} BY <1>1 DEF Shaped
<1>3. /\ decisions' = Append(decisions, [item |-> item, keep |-> S.keep])
      /\ kept' = IF S.keep THEN kept + 1 ELSE kept
  BY <1>2 DEF SendDecision
<1>4. CASE S.keep
  <2>1. p = "ticker" BY <1>4 DEF Shaped, Sweepers
  <2>2. Moves(p, "trace", S.shard, S.due, S.cur, S.keep, S.sample) BY <1>4, PcMoves DEF SendDecision, Pcs
  <2>3. ~Unsent /\ Unsent' /\ sweep'["ticker"].cur = {item} BY <1>1, <1>2, <2>1, <2>2 DEF Unsent, Moves
  <2>4. S.keep = TRUE BY <1>4, StepFields DEF Typed
  <2>5. decisions' = Append(decisions, [item |-> item, keep |-> TRUE]) /\ kept' = kept + 1 BY <1>3, <2>4
  <2> QED BY <1>1, <2>3, <2>5, KeepAligned
<1>5. CASE ~S.keep
  <2> DEFINE d == [item |-> item, keep |-> FALSE]
  <2>1. S.keep = FALSE BY <1>5, StepFields DEF Typed
  <2>2. d \in Decisions /\ ~d.keep BY DEF Decisions
  <2>3. decisions' = Append(decisions, d) /\ kept' = kept BY <1>3, <2>1
  <2>4. Finalized(p) BY <1>5 DEF SendDecision
  <2>5. Unsent' = Unsent /\ (Unsent => sweep'["ticker"].cur = sweep["ticker"].cur)
    <3>1. CASE p = "ticker" BY <1>1, <2>4, <3>1, FinalizedMoves DEF Moves, Unsent
    <3>2. CASE p # "ticker"
      <4>1. sweep'["ticker"] = sweep["ticker"] BY <2>4, <3>2, FinalizedMoves DEF Moves, Sweepers
      <4> QED BY <4>1 DEF Unsent
    <3> QED BY <3>1, <3>2
  <2> HIDE DEF d
  <2> QED BY <1>1, <2>2, <2>3, <2>5, DropAligned
<1> QED BY <1>4, <1>5

\* Every step keeps Aligned.
LEMMA AlignedStep == ASSUME Typed, Shaped, Aligned, [Next]_vars PROVE Aligned'
<1>1. ASSUME NEW p \in Sweepers, sweep[p].pc # "trace", sweep'[p].pc # "trace",
             \A q \in Sweepers : q # p => sweep'[q] = sweep[q],
             UNCHANGED <<decisions, tracesCh, bridge, kept, appended>>
      PROVE  Aligned'
  <2>1. CASE p = "ticker"
    <3>1. ~Unsent /\ Unsent' = Unsent BY <1>1, <2>1 DEF Unsent
    <3> QED BY <1>1, <3>1, AlignedQuiet
  <2>2. CASE p # "ticker"
    <3>1. sweep'["ticker"] = sweep["ticker"] BY <1>1, <2>2 DEF Sweepers
    <3>2. Unsent' = Unsent BY <3>1 DEF Unsent
    <3> QED BY <1>1, <3>1, <3>2, AlignedQuiet
  <2> QED BY <2>1, <2>2
<1>2. ASSUME NEW p \in Sweepers, SweepStep(p) PROVE Aligned'
  <2> DEFINE S == sweep[p]
  <2>0. \A q \in Sweepers : q # p => sweep'[q] = sweep[q] BY <1>2, SweepStepMoves
  <2>1. CASE TakeDue(p)
    <3>1. S.pc # "trace" /\ UNCHANGED <<decisions, tracesCh, bridge, kept, appended>> BY <2>1 DEF TakeDue, channels, readers
    <3>2. sweep'[p].pc # "trace" BY <2>1, TakeMoves DEF Moves
    <3> QED BY <1>1, <2>0, <3>1, <3>2
  <2>2. ASSUME NEW item \in S.due, NEW keep \in BOOLEAN, Finalize(p, item, keep) PROVE Aligned'
    <3>1. S.pc # "trace" /\ UNCHANGED <<decisions, tracesCh, bridge, kept, appended>> BY <2>2 DEF Finalize, channels, readers
    <3>2. sweep'[p].pc # "trace" BY <2>2, FinalizeMoves DEF Moves
    <3> QED BY <1>1, <2>0, <3>1, <3>2
  <2>3. CASE Flush(p)
    <3>1. S.pc # "trace" /\ UNCHANGED <<decisions, tracesCh, bridge, kept, appended>> BY <2>3 DEF Flush, channels, readers
    <3>2. sweep'[p].pc # "trace" BY <2>3, FlushMoves DEF Moves
    <3> QED BY <1>1, <2>0, <3>1, <3>2
  <2>4. CASE SendSample(p)
    <3>1. S.pc # "trace" /\ UNCHANGED <<decisions, tracesCh, bridge, kept, appended>> BY <2>4 DEF SendSample, channels, readers
    <3>2. sweep'[p].pc # "trace"
      <4>1. CASE Drained(p) BY <4>1, DrainedMoves DEF Moves
      <4>2. CASE ~Drained(p)
        <5>1. Moves(p, "evict", S.shard, S.due, S.cur, S.keep, S.sample) BY <2>4, <4>2, PcMoves DEF SendSample, Pcs
        <5> QED BY <5>1 DEF Moves
      <4> QED BY <4>1, <4>2
    <3> QED BY <1>1, <2>0, <3>1, <3>2
  <2>5. CASE DropOldest(p)
    <3>1. S.pc # "trace" /\ UNCHANGED <<decisions, tracesCh, bridge, kept, appended>> /\ Drained(p)
      BY <2>5 DEF DropOldest, channels, readers
    <3>2. sweep'[p].pc # "trace" BY <3>1, DrainedMoves DEF Moves
    <3> QED BY <1>1, <2>0, <3>1, <3>2
  <2> QED BY <1>2, <2>1, <2>2, <2>3, <2>4, <2>5, SendAligned, DecideAligned DEF SweepStep
<1>3. CASE TickBegin
  <2>1. Moves("ticker", "take", 1, {}, {}, FALSE, 0) BY <1>3, RestingMoves DEF TickBegin, Typed, Sweepers, Pcs
  <2> QED BY <1>1, <1>3, <2>1 DEF TickBegin, Moves, Sweepers, channels, readers
<1>4. CASE TickerExit
  <2>1. Moves("ticker", "exited", 1, {}, {}, FALSE, 0) BY <1>4, RestingMoves DEF TickerExit, Typed, Sweepers, Pcs
  <2> QED BY <1>1, <1>4, <2>1 DEF TickerExit, Moves, Sweepers, channels, readers
<1>5. CASE FlushBegin
  <2>1. Moves("shutdown", "take", 1, {}, {}, FALSE, 0) BY <1>5, RestingMoves DEF FlushBegin, Typed, Sweepers, Pcs
  <2>2. sweep'["ticker"] = sweep["ticker"] BY <2>1 DEF Moves, Sweepers
  <2>3. Unsent' = Unsent BY <2>2 DEF Unsent
  <2> QED BY <1>5, <2>2, <2>3, AlignedQuiet DEF FlushBegin, channels, readers
<1>6. CASE BridgeExit
  <2>1. UNCHANGED <<decisions, tracesCh, sweep, kept, appended>> /\ bridge'.held = bridge.held
        /\ bridge.pc = "select" /\ bridge'.pc = "exited"
    BY <1>6 DEF BridgeExit, channels, Typed
  <2>2. Outgoing' = Outgoing /\ Holding' = Holding /\ Sent' = Sent BY <2>1 DEF Outgoing, Holding, Sent, Unsent
  <2>3. PICK n \in Nat : \E g \in [1 .. n -> 1 .. Len(decisions)] : Pairing(n, g) BY DEF Aligned
  <2>4. PICK g \in [1 .. n -> 1 .. Len(decisions)] : Pairing(n, g) BY <2>3
  <2>5. Pairing(n, g)' /\ g \in [1 .. n -> 1 .. Len(decisions)'] BY <2>1, <2>2, <2>4 DEF Pairing
  <2>6. bridge.held = {} /\ bridge'.held = {} BY <2>1 DEF Aligned
  <2>7. kept' = appended' + Sent' BY <2>1, <2>2 DEF Aligned
  <2>8. bridge'.held # {} <=> bridge'.pc = "pair" BY <2>1, <2>6
  <2>9. \E m \in Nat : \E h \in [1 .. m -> 1 .. Len(decisions)'] : Pairing(m, h)' BY <2>3, <2>5
  <2> QED BY <2>6, <2>7, <2>8, <2>9 DEF Aligned
<1>7. CASE UNCHANGED <<decisions, tracesCh, bridge, kept, appended, sweep>>
  <2>1. Unsent' = Unsent BY <1>7 DEF Unsent
  <2> QED BY <1>7, <2>1, AlignedQuiet
<1>8. ConsumeStep \/ StopIngest \/ Joined \/ FeedStep \/ Elapse \/ (\E s \in Spans : Consume(s)) \/ UNCHANGED vars
      => UNCHANGED <<decisions, tracesCh, bridge, kept, appended, sweep>>
  BY DEF ConsumeStep, Accumulate, JournalSpan, StopIngest, Joined, FeedStep, Observe, FeedExit, Elapse, Consume, vars,
         channels, readers
<1> QED BY <1>2, <1>3, <1>4, <1>5, <1>6, <1>7, <1>8, PairAligned, TakeAligned
        DEF Next, TickerStep, ShutdownStep, BridgeStep, Sweepers

-----------------------------------------------------------------------------
(* The calls that are counted, between the accumulator and the baselines.  *)

\* REDAccounted, which is inductive with what a sweep's sample is at each place.
Flow == redDropped = 0 => SumFunction(accepted) = Uncounted + red + InHand + SumFunction(redOut) + observed

\* The counts of Flow are numbers.
LEMMA FlowTypes ==
  ASSUME Typed
  PROVE  /\ SumFunction(accepted) \in Int /\ SumFunction(redOut) \in Int
         /\ Uncounted \in Nat /\ red \in Nat /\ InHand \in Nat /\ observed \in Nat
<1>1. SumFunction(accepted) \in Int
  <2>1. DOMAIN accepted = Spans /\ \A s \in Spans : accepted[s] \in Int BY DEF Typed
  <2>2. IsFiniteSet(Spans) BY AssemblyAssumption
  <2> QED BY <2>1, <2>2, SumType DEF SumFunction
<1>2. redOut \in Seq(Nat) BY DEF Typed
<1>3. redOut \in Seq(Int) BY <1>2
<1>4. sweep["ticker"].sample \in Nat /\ sweep["shutdown"].sample \in Nat BY StepFields DEF Typed, Sweepers
<1>5. SumFunction(redOut) \in Int BY <1>3, SeqSumType
<1>6. Uncounted \in Nat /\ InHand \in Nat BY <1>4 DEF Uncounted, InHand
<1> QED BY <1>1, <1>5, <1>6 DEF Typed

\* One more call is accepted.
LEMMA AcceptedSum ==
  ASSUME Typed, NEW s \in Spans, accepted' = [accepted EXCEPT ![s] = @ + 1]
  PROVE  SumFunction(accepted)' = SumFunction(accepted) + 1
<1>1. DOMAIN accepted = Spans /\ DOMAIN accepted' = Spans BY DEF Typed
<1>2. \A x \in Spans : accepted[x] \in Int /\ accepted'[x] \in Int BY DEF Typed
<1>3. accepted'[s] = accepted[s] + 1 /\ \A x \in Spans \ {s} : accepted[x] = accepted'[x] BY DEF Typed
<1>4. IsFiniteSet(Spans) BY AssemblyAssumption
<1>5. SumFunctionOnSet(accepted', Spans) = SumFunctionOnSet(accepted, Spans) + (accepted'[s] - accepted[s])
  <2> DEFINE f == accepted  g == accepted'
  <2>1. \A x \in Spans : f[x] \in Int /\ g[x] \in Int BY <1>2
  <2>2. \A x \in Spans \ {s} : f[x] = g[x] BY <1>3
  <2> HIDE DEF f, g
  <2>3. SumFunctionOnSet(g, Spans) = SumFunctionOnSet(f, Spans) + (g[s] - f[s]) BY <1>4, <2>1, <2>2, SumChange
  <2> QED BY <2>3 DEF f, g
<1>6. accepted'[s] - accepted[s] = 1 BY <1>2, <1>3
<1> QED BY <1>1, <1>5, <1>6 DEF SumFunction

\* What a sweep holds of the calls, with what is before and behind it.
LEMMA SweepStepCalls ==
  ASSUME Typed, Shaped, NEW p \in Sweepers, SweepStep(p), redDropped' = 0
  PROVE  /\ redDropped = 0
         /\ red' + sweep'[p].sample + SumFunction(redOut') = red + sweep[p].sample + SumFunction(redOut)
<1> DEFINE S == sweep[p]
           Goal == /\ redDropped = 0
                   /\ red' + sweep'[p].sample + SumFunction(redOut') = red + sweep[p].sample + SumFunction(redOut)
<1>1. ASSUME UNCHANGED <<red, redOut, redDropped>>, sweep'[p].sample = S.sample PROVE Goal
  BY <1>1
<1>2. CASE TakeDue(p)
  <2>1. sweep'[p].sample = S.sample BY <1>2, TakeMoves DEF Moves
  <2> QED BY <1>1, <1>2, <2>1 DEF TakeDue, redState
<1>3. CASE SendDecision(p)
  <2>1. sweep'[p].sample = S.sample
    <3>1. CASE S.keep
      <4>1. Moves(p, "trace", S.shard, S.due, S.cur, S.keep, S.sample) BY <1>3, <3>1, PcMoves DEF SendDecision, Pcs
      <4> QED BY <4>1 DEF Moves
    <3>2. CASE ~S.keep
      <4>1. Finalized(p) BY <1>3, <3>2 DEF SendDecision
      <4> QED BY <4>1, FinalizedMoves DEF Moves
    <3> QED BY <3>1, <3>2
  <2> QED BY <1>1, <1>3, <2>1 DEF SendDecision, redState
<1>4. CASE SendTrace(p)
  <2>1. Finalized(p) BY <1>4 DEF SendTrace
  <2>2. sweep'[p].sample = S.sample BY <2>1, FinalizedMoves DEF Moves
  <2> QED BY <1>1, <1>4, <2>2 DEF SendTrace, redState
<1>5. ASSUME NEW item \in S.due, NEW keep \in BOOLEAN, Finalize(p, item, keep) PROVE Goal
  <2>1. sweep'[p].sample = S.sample BY <1>5, FinalizeMoves DEF Moves
  <2> QED BY <1>1, <1>5, <2>1 DEF Finalize, redState
<1>6. CASE Flush(p)
  <2>1. S.pc = "take" /\ red' = 0 /\ UNCHANGED <<redOut, redDropped>> BY <1>6 DEF Flush
  <2>2. S.sample = 0 BY <2>1 DEF Shaped
  <2>3. sweep'[p].sample = red BY <1>6, FlushMoves DEF Moves
  <2>4. red \in Nat /\ SumFunction(redOut) \in Int BY FlowTypes
  <2> QED BY <2>1, <2>2, <2>3, <2>4
<1>7. CASE SendSample(p)
  <2>1. UNCHANGED <<red, redDropped>> BY <1>7 DEF SendSample
  <2>2. CASE Len(redOut) < REDCap
    <3>1. redOut' = Append(redOut, S.sample) /\ Drained(p) BY <1>7, <2>2 DEF SendSample
    <3>2. sweep'[p].sample = 0 BY <3>1, DrainedMoves DEF Moves
    <3>3. redOut \in Seq(Int)
      <4>1. redOut \in Seq(Nat) BY DEF Typed
      <4> QED BY <4>1
    <3>4. S.sample \in Int /\ red \in Int /\ SumFunction(redOut) \in Int BY FlowTypes, StepFields DEF Typed
    <3>5. SumFunction(redOut') = SumFunction(redOut) + S.sample
      <4> DEFINE n == S.sample
      <4>1. n \in Int /\ redOut' = Append(redOut, n) BY <3>1, <3>4
      <4> HIDE DEF n
      <4>2. SumFunction(redOut') = SumFunction(redOut) + n BY <3>3, <4>1, SeqSumAppend
      <4> QED BY <4>2 DEF n
    <3> QED BY <2>1, <3>2, <3>4, <3>5
  <2>3. CASE ~(Len(redOut) < REDCap)
    <3>1. UNCHANGED redOut /\ Moves(p, "evict", S.shard, S.due, S.cur, S.keep, S.sample)
      BY <1>7, <2>3, PcMoves DEF SendSample, Pcs
    <3> QED BY <1>1, <2>1, <3>1 DEF Moves
  <2> QED BY <2>2, <2>3
<1>8. ~DropOldest(p) BY DEF DropOldest, Typed
<1> QED BY <1>2, <1>3, <1>4, <1>5, <1>6, <1>7, <1>8 DEF SweepStep

\* Every step keeps Flow.
LEMMA FlowStep == ASSUME Typed, Shaped, Phased, Flow, [Next]_vars PROVE Flow'
<1>1. ASSUME NEW p \in Sweepers, SweepStep(p) PROVE Flow'
  <2> SUFFICES ASSUME redDropped' = 0
               PROVE  SumFunction(accepted)' = Uncounted' + red' + InHand' + SumFunction(redOut)' + observed'
    BY DEF Flow
  <2>1. redDropped = 0 /\ red' + sweep'[p].sample + SumFunction(redOut') = red + sweep[p].sample + SumFunction(redOut)
    BY <1>1, SweepStepCalls
  <2>2. UNCHANGED <<accepted, consumer, observed>> BY <1>1, SweepStepTyped DEF SweepAlone
  <2>3. \A q \in Sweepers : q # p => sweep'[q].sample = sweep[q].sample BY <1>1, SweepStepMoves
  <2>4. SumFunction(accepted) = Uncounted + red + InHand + SumFunction(redOut) + observed BY <2>1 DEF Flow
  <2>5. Uncounted' = Uncounted BY <2>2 DEF Uncounted
  <2>6. Typed' BY <1>1, SweepStepTyped
  <2>7. \A q \in Sweepers : sweep[q].sample \in Nat /\ sweep'[q].sample \in Nat BY <2>6, StepFields DEF Typed
  <2>8. SumFunction(redOut') \in Int
    <3>1. redOut' \in Seq(Nat) BY <2>6 DEF Typed
    <3>2. redOut' \in Seq(Int) BY <3>1
    <3> QED BY <3>2, SeqSumType
  <2>9. red' \in Nat BY <2>6 DEF Typed
  <2>10. red' + InHand' + SumFunction(redOut') = red + InHand + SumFunction(redOut)
    <3> DEFINE a == sweep["ticker"].sample  b == sweep["shutdown"].sample
               c == sweep'["ticker"].sample  d == sweep'["shutdown"].sample
               x == SumFunction(redOut)  y == SumFunction(redOut')  r == red  t == red'
    <3>1. a \in Nat /\ b \in Nat /\ c \in Nat /\ d \in Nat /\ x \in Int /\ y \in Int /\ r \in Nat /\ t \in Nat
      BY <2>7, <2>8, <2>9, FlowTypes DEF Sweepers
    <3>2. \/ t + c + y = r + a + x /\ d = b
          \/ t + d + y = r + b + x /\ c = a
      BY <2>1, <2>3 DEF Sweepers
    <3>3. InHand = a + b /\ InHand' = c + d BY DEF InHand
    <3> HIDE DEF a, b, c, d, x, y, r, t
    <3>4. t + (c + d) + y = r + (a + b) + x BY <3>1, <3>2
    <3> QED BY <3>3, <3>4 DEF x, y, r, t
  <2> DEFINE x == SumFunction(redOut)  y == SumFunction(redOut')  e == InHand  f == InHand'
             u == Uncounted  r == red  t == red'  o == observed
  <2>11. /\ x \in Int /\ y \in Int /\ e \in Nat /\ f \in Nat /\ u \in Nat /\ r \in Nat /\ t \in Nat /\ o \in Nat
         /\ t + f + y = r + e + x
    BY <2>7, <2>8, <2>9, <2>10, FlowTypes DEF InHand, Sweepers
  <2> HIDE DEF x, y, e, f, u, r, t, o
  <2>12. u + t + f + y + o = u + r + e + x + o BY <2>11
  <2> QED BY <2>2, <2>4, <2>5, <2>12 DEF x, y, e, f, u, r, t, o
<1>2. ASSUME UNCHANGED <<accepted, consumer, red, redOut, redDropped, observed>>,
             \A p \in Sweepers : sweep'[p].sample = sweep[p].sample
      PROVE  Flow'
  BY <1>2 DEF Flow, Uncounted, InHand, Sweepers
<1>3. ASSUME NEW p \in Sweepers, NEW pc \in {"take", "exited"}, sweep[p].pc = "idle",
             Moves(p, pc, 1, {}, {}, FALSE, 0), UNCHANGED <<accepted, consumer, red, redOut, redDropped, observed>>
      PROVE  Flow'
  <2>1. sweep[p].sample = 0 BY <1>3 DEF Shaped
  <2> QED BY <1>2, <1>3, <2>1 DEF Moves
<1>4. CASE TickBegin
  <2>1. Moves("ticker", "take", 1, {}, {}, FALSE, 0) BY <1>4, RestingMoves DEF TickBegin, Typed, Sweepers, Pcs
  <2> QED BY <1>3, <1>4, <2>1 DEF TickBegin, Sweepers, redState, readers, input
<1>5. CASE TickerExit
  <2>1. Moves("ticker", "exited", 1, {}, {}, FALSE, 0) BY <1>5, RestingMoves DEF TickerExit, Typed, Sweepers, Pcs
  <2> QED BY <1>3, <1>5, <2>1 DEF TickerExit, Sweepers, redState, readers, input
<1>6. CASE FlushBegin
  <2>1. Moves("shutdown", "take", 1, {}, {}, FALSE, 0) BY <1>6, RestingMoves DEF FlushBegin, Typed, Sweepers, Pcs
  <2>2. sweep["shutdown"].pc = "idle" BY <1>6 DEF FlushBegin, Phased
  <2> QED BY <1>3, <1>6, <2>1, <2>2 DEF FlushBegin, Sweepers, redState, readers, input
<1>7. ASSUME NEW s \in Spans, Consume(s) PROVE Flow'
  <2>1. UNCHANGED <<sweep, red, redOut, redDropped, observed>> /\ consumer = NoConsume
    BY <1>7 DEF Consume, redState, readers
  <2>2. CASE UNCHANGED <<accepted, consumer>>
    BY <1>2, <2>1, <2>2
  <2>3. CASE ~UNCHANGED <<accepted, consumer>>
    <3>1. accepted' = [accepted EXCEPT ![s] = @ + 1] /\ consumer' = [pc |-> "red", span |-> s]
      BY <1>7, <2>3 DEF Consume
    <3>2. SumFunction(accepted)' = SumFunction(accepted) + 1 BY <3>1, AcceptedSum
    <3>3. Uncounted = 0 /\ Uncounted' = 1 BY <2>1, <3>1 DEF Uncounted, NoConsume
    <3>4. InHand' = InHand BY <2>1 DEF InHand
    <3> DEFINE x == SumFunction(redOut)  e == InHand  a == SumFunction(accepted)  b == SumFunction(accepted)'
    <3>5. x \in Int /\ e \in Nat /\ a \in Int /\ red \in Nat /\ observed \in Nat /\ b = a + 1 BY <3>2, FlowTypes
    <3>6. redDropped = 0 => a = 0 + red + e + x + observed BY <3>3 DEF Flow
    <3> HIDE DEF x, e, a, b
    <3>7. redDropped = 0 => b = 1 + red + e + x + observed BY <3>5, <3>6
    <3> QED BY <2>1, <3>3, <3>4, <3>7 DEF Flow, x, e, b
  <2> QED BY <2>2, <2>3
<1>8. CASE Accumulate
  <2>1. UNCHANGED <<sweep, accepted, redOut, redDropped, observed>> /\ red' = red + 1
    BY <1>8 DEF Accumulate, readers
  <2>2. Uncounted = 1 /\ Uncounted' = 0 BY <1>8 DEF Accumulate, Uncounted, Typed
  <2>3. InHand' = InHand BY <2>1 DEF InHand
  <2> DEFINE x == SumFunction(redOut)  e == InHand  a == SumFunction(accepted)
  <2>4. x \in Int /\ e \in Nat /\ a \in Int /\ red \in Nat /\ observed \in Nat BY FlowTypes
  <2>5. redDropped = 0 => a = 1 + red + e + x + observed BY <2>2 DEF Flow
  <2> HIDE DEF x, e, a
  <2>6. redDropped = 0 => a = 0 + (red + 1) + e + x + observed BY <2>4, <2>5
  <2> QED BY <2>1, <2>2, <2>3, <2>6 DEF Flow, x, e, a
<1>9. CASE JournalSpan
  <2>1. UNCHANGED <<sweep, accepted, red, redOut, redDropped, observed>>
    BY <1>9 DEF JournalSpan, redState, readers
  <2>2. Uncounted' = Uncounted BY <1>9 DEF JournalSpan, Uncounted, NoConsume
  <2> QED BY <2>1, <2>2 DEF Flow, InHand
<1>10. CASE Observe
  <2>1. UNCHANGED <<sweep, accepted, consumer, red, redDropped>> /\ redOut # <<>> /\ redOut' = Tail(redOut)
        /\ observed' = observed + Head(redOut)
    BY <1>10 DEF Observe, input
  <2>2. redOut \in Seq(Int) /\ Head(redOut) \in Int
    <3>1. redOut \in Seq(Nat) BY DEF Typed
    <3> QED BY <2>1, <3>1
  <2>3. SumFunction(redOut') = SumFunction(redOut) - Head(redOut) BY <2>1, <2>2, SeqSumTail
  <2>4. Uncounted' = Uncounted /\ InHand' = InHand BY <2>1 DEF Uncounted, InHand
  <2> DEFINE x == SumFunction(redOut)  e == InHand  a == SumFunction(accepted)  u == Uncounted  h == Head(redOut)
             y == SumFunction(redOut')
  <2>5. x \in Int /\ e \in Nat /\ a \in Int /\ red \in Nat /\ observed \in Nat /\ u \in Nat /\ h \in Int /\ y = x - h
    BY <2>2, <2>3, FlowTypes
  <2>6. redDropped = 0 => a = u + red + e + x + observed BY DEF Flow
  <2> HIDE DEF x, e, a, u, h, y
  <2>7. redDropped = 0 => a = u + red + e + y + (observed + h) BY <2>5, <2>6
  <2> QED BY <2>1, <2>4, <2>7 DEF Flow, x, e, a, u, h, y
<1>11. CASE UNCHANGED <<accepted, consumer, red, redOut, redDropped, observed, sweep>>
  BY <1>2, <1>11
<1>12. StopIngest \/ Joined \/ BridgeStep \/ FeedExit \/ Elapse \/ UNCHANGED vars
       => UNCHANGED <<accepted, consumer, red, redOut, redDropped, observed, sweep>>
  BY DEF StopIngest, Joined, BridgeStep, BridgeTake, BridgePair, BridgeExit, FeedExit, Elapse, vars, redState, readers, input
<1> QED BY <1>1, <1>4, <1>5, <1>6, <1>7, <1>8, <1>9, <1>10, <1>11, <1>12
        DEF Next, ConsumeStep, TickerStep, ShutdownStep, FeedStep, Sweepers

-----------------------------------------------------------------------------
(* The theorems.                                                           *)

\* The inductive invariant.
IInv == Typed /\ Shaped /\ Phased /\ Ended /\ Cleared /\ Owned /\ Accounted /\ Aligned /\ Flow

\* The invariant holds initially.
LEMMA IInvInit == Init => IInv
<1> SUFFICES ASSUME Init PROVE IInv
  OBVIOUS
<1>1. Typed BY TypedInit
<1>2. \A p \in Sweepers : sweep[p] = Resting BY DEF Init
<1>3. Shaped BY <1>2 DEF Shaped, Resting
<1>4. Phased BY <1>2 DEF Phased, Resting, Init, Sweepers
<1>5. Ended /\ Cleared BY DEF Ended, Cleared, Init, Cancelled
<1>6. Owned BY <1>2 DEF Owned, Resting, Init
<1>7. Accounted
  <2>1. \A s \in Spans : TraceOf[s] \in Traces BY AssemblyAssumption
  <2> QED BY <1>2, <2>1 DEF Accounted, Buffered, InHands, InDue, InCur, One, Resting, Init, Sweepers
<1>8. Aligned
  <2>1. Len(decisions) = 0 /\ Len(tracesCh) = 0 /\ bridge.held = {} /\ bridge.pc = "select" /\ kept = 0 /\ appended = 0
    BY DEF Init
  <2>2. ~Unsent BY <1>2 DEF Unsent, Resting, Sweepers
  <2>3. Sent = 0 /\ Holding = 0 BY <2>1, <2>2 DEF Sent, Holding, One
  <2> DEFINE g == [i \in 1 .. 0 |-> 1]
  <2>4. g \in [1 .. 0 -> 1 .. 0] /\ 1 .. 0 = {} OBVIOUS
  <2>5. Pairing(0, g) BY <2>1, <2>3, <2>4 DEF Pairing
  <2> HIDE DEF g
  <2>6. \E n \in Nat : \E f \in [1 .. n -> 1 .. Len(decisions)] : Pairing(n, f) BY <2>1, <2>4, <2>5
  <2> QED BY <2>1, <2>3, <2>6 DEF Aligned
<1>9. Flow
  <2>1. SumFunction(accepted) = 0
    <3>1. DOMAIN accepted = Spans /\ \A s \in Spans : accepted[s] = 0 BY DEF Init
    <3> QED BY <3>1, SumZero, AssemblyAssumption DEF SumFunction
  <2>2. SumFunction(redOut) = 0 BY SeqSumEmpty DEF Init
  <2>3. Uncounted = 0 /\ InHand = 0 BY <1>2 DEF Uncounted, InHand, NoConsume, Resting, Init, Sweepers
  <2> QED BY <2>1, <2>2, <2>3 DEF Flow, Init
<1> QED BY <1>1, <1>3, <1>4, <1>5, <1>6, <1>7, <1>8, <1>9 DEF IInv

\* Every step keeps the invariant.
LEMMA IInvStep == IInv /\ [Next]_vars => IInv'
BY TypedStep, ShapedStep, PhasedStep, EndedStep, ClearedStep, OwnedStep, AccountedStep, AlignedStep, FlowStep DEF IInv

\* The inductive invariant of the assembly holds for any shards and capacities.
THEOREM IInvHolds == Spec => []IInv
BY IInvInit, IInvStep, PTL DEF Spec

\* Every span that Consume accepts is buffered, in a sweep's hands or decided, in
\* one place and once (takeDue, finalize, FlushAll).
THEOREM SpansDecidedOnce == Spec => []EachSpanDecidedOnce
<1>1. IInv => EachSpanDecidedOnce
  <2> SUFFICES ASSUME IInv, NEW s \in Spans
               PROVE  accepted[s] = decided[s] + (IF s \in buf[TraceOf[s]] THEN 1 ELSE 0)
                                    + Awaiting("ticker", s) + Awaiting("shutdown", s)
    BY DEF EachSpanDecidedOnce
  <2>1. Awaiting("ticker", s) = InHands("ticker", s) /\ Awaiting("shutdown", s) = InHands("shutdown", s)
    BY AwaitingOnce DEF IInv, Sweepers
  <2>2. Buffered(s) = IF s \in buf[TraceOf[s]] THEN 1 ELSE 0 BY DEF Buffered, One
  <2> QED BY <2>1, <2>2 DEF IInv, Accounted
<1> QED BY <1>1, IInvHolds, PTL

\* The next trace runStoreBridge receives for a kept decision is that decision's.
THEOREM TracesPaired == Spec => []Paired
<1>1. IInv => Paired
  <2> SUFFICES ASSUME IInv, bridge.held # {}, tracesCh # <<>> PROVE Head(tracesCh) \in bridge.held
    BY DEF Paired
  <2>1. tracesCh \in Seq(Items) BY DEF IInv, Typed
  <2>2. Head(tracesCh) = tracesCh[1] /\ 1 <= Len(tracesCh) BY <2>1
  <2>3. Outgoing[1] = tracesCh[1] BY <2>2 DEF Outgoing
  <2> QED BY <2>2, <2>3 DEF IInv, Aligned
<1> QED BY <1>1, IInvHolds, PTL

\* Until a sample is dropped, every accepted call is in the accumulator, in a
\* sweep's hands, in the channel or observed (DrainRED, runBaselineFeed).
THEOREM CallsAccounted == Spec => []REDAccounted
<1>1. IInv => REDAccounted BY DEF IInv, Flow, REDAccounted
<1> QED BY <1>1, IInvHolds, PTL

\* When Shutdown has joined the bridges, every accepted span is decided, every
\* kept trace appended, and every call observed unless a sample was dropped.
THEOREM ShutdownLosesNothing == Spec => []NothingLeftBehind
<1>1. IInv => NothingLeftBehind
  <2> SUFFICES ASSUME IInv, phase = "done"
               PROVE  /\ decided = accepted /\ appended = kept
                      /\ redDropped = 0 => observed = SumFunction(accepted)
    BY DEF NothingLeftBehind
  <2>1. Typed /\ Shaped /\ Phased /\ Ended /\ Cleared /\ Accounted /\ Aligned /\ Flow BY DEF IInv
  <2>2. sweep["ticker"].pc = "exited" /\ sweep["shutdown"].pc = "idle" /\ consumer = NoConsume
    BY <2>1 DEF Phased
  <2>3. Cancelled /\ bridge.pc = "exited" /\ feed = "exited" /\ decisions = <<>> /\ redOut = <<>>
    BY <2>1 DEF Ended, Cancelled
  <2>4. red = 0 /\ \A t \in Traces : buf[t] = {} BY <2>1, <2>3 DEF Cleared
  <2>5. \A p \in Sweepers : sweep[p].due = {} /\ sweep[p].sample = 0 /\ sweep[p].pc # "decision"
    BY <2>1, <2>2 DEF Shaped, Sweepers
  <2>6. decided = accepted
    <3>1. \A s \in Spans : accepted[s] = decided[s]
      <4> SUFFICES ASSUME NEW s \in Spans PROVE accepted[s] = decided[s]
        OBVIOUS
      <4>1. InHands("ticker", s) = 0 /\ InHands("shutdown", s) = 0
        BY <2>5 DEF InHands, InDue, InCur, One, Sweepers
      <4>2. Buffered(s) = 0 BY <2>4, AssemblyAssumption DEF Buffered, One
      <4>3. decided[s] \in Nat BY <2>1 DEF Typed
      <4> QED BY <2>1, <4>1, <4>2, <4>3 DEF Accounted
    <3> QED BY <2>1, <3>1 DEF Typed
  <2>7. appended = kept
    <3>1. PICK n \in Nat : \E g \in [1 .. n -> 1 .. Len(decisions)] : Pairing(n, g) BY <2>1 DEF Aligned
    <3>2. PICK g \in [1 .. n -> 1 .. Len(decisions)] : Pairing(n, g) BY <3>1
    <3>3. Len(decisions) = 0 BY <2>3
    <3>4. n = 0
      <4>1. CASE n # 0
        <5>1. 1 \in 1 .. n BY <4>1
        <5>2. g[1] \in 1 .. 0 BY <3>2, <3>3, <5>1
        <5> QED BY <5>2
      <4> QED BY <4>1
    <3>5. bridge.held = {} BY <2>1, <2>3 DEF Aligned
    <3>6. Sent = 0 BY <3>2, <3>4, <3>5 DEF Pairing, Holding, One
    <3>7. kept = appended + 0 /\ appended \in Nat BY <2>1, <3>6 DEF Aligned, Typed
    <3> QED BY <3>7
  <2>8. redDropped = 0 => observed = SumFunction(accepted)
    <3>1. SumFunction(redOut) = 0 BY <2>3, SeqSumEmpty
    <3>2. Uncounted = 0 /\ InHand = 0 BY <2>2, <2>5 DEF Uncounted, InHand, NoConsume, Sweepers
    <3>3. observed \in Nat BY <2>1 DEF Typed
    <3> QED BY <2>1, <2>4, <3>1, <3>2, <3>3 DEF Flow
  <2> QED BY <2>6, <2>7, <2>8
<1> QED BY <1>1, IInvHolds, PTL
=============================================================================
