------------------------------- MODULE Assembly -------------------------------
(***************************************************************************)
(* The tail sampler's assembly (internal/sampler: Manager, MemWAL, the RED *)
(* accumulator) with the goroutines of cmd/traceiq that drive it: the one  *)
(* that delivers spans (ingest's queue for this sink), the finalize        *)
(* ticker, the store bridge, the baseline feed, and Shutdown.              *)
(*                                                                         *)
(* Between two mutexes or channel operations anything may run.  A trace is *)
(* its (tenant, trace id) key.  Clocks are ages: how long a buffer has     *)
(* been idle and open, up to the two timeouts.  All spans fall into one    *)
(* RED bucket, so that a flush is one sample; a sample is its call count.  *)
(* Which traces the policy keeps is left open.                             *)
(***************************************************************************)
EXTENDS Naturals, Sequences, FiniteSets, Functions

CONSTANTS
  Spans, Traces,
  TraceOf,        \* the trace a span belongs to
  NShards, ShardOf,
  IdleTimeout, HardTimeout,
  ChanCap,        \* capacity of the decision and trace channels
  REDCap,         \* capacity of the RED channel
  MaxDeliveries,  \* bound on the spans delivered
  None

ASSUME AssemblyAssumption ==
  /\ IsFiniteSet(Spans)
  /\ TraceOf \in [Spans -> Traces]
  /\ NShards \in Nat \ {0} /\ ShardOf \in [Traces -> 1 .. NShards]
  /\ IdleTimeout \in Nat \ {0} /\ HardTimeout \in Nat \ {0}
  /\ ChanCap \in Nat \ {0} /\ REDCap \in Nat \ {0}
  /\ MaxDeliveries \in Nat
  /\ None \notin Spans

VARIABLES
  buf,         \* shardBuf.traces: the spans of each open buffer, {} if there is none
  age,         \* how long each buffer has been idle, and open
  journal,     \* MemWAL
  consumer,    \* the Consume under way: the span, and what is left to do for it
  red,         \* redAccumulator: calls not flushed yet
  sweep,       \* Tick (the ticker's) and FlushAll (Shutdown's)
  overdue,     \* what Tick's reading of the clock makes due
  decisions, tracesCh, redOut, redDropped,
  bridge,      \* runStoreBridge: the kept decision it holds, if any
  feed,        \* runBaselineFeed
  phase,       \* how far Shutdown is
  delivered, accepted, decided, kept, appended, observed   \* history

vars == <<buf, age, journal, consumer, red, sweep, overdue, decisions, tracesCh, redOut,
          redDropped, bridge, feed, phase, delivered, accepted, decided, kept, appended,
          observed>>
buffers == <<buf, age, journal>>
channels == <<decisions, tracesCh>>
redState == <<red, redOut, redDropped>>
readers == <<bridge, feed, appended, observed>>
input == <<consumer, delivered, accepted>>

Sweepers == {"ticker", "shutdown"}
Open == {t \in Traces : buf[t] # {}}
Item(t) == [trace |-> t, spans |-> buf[t]]

NoConsume == [pc |-> "idle", span |-> None]
NoAge == [idle |-> 0, life |-> 0]
NothingDue == [idle |-> {}, hard |-> {}]
Resting == [pc |-> "idle", shard |-> 1, due |-> {}, cur |-> {}, keep |-> FALSE, sample |-> 0]

(***************************************************************************)
(* Time.                                                                   *)
(***************************************************************************)
Older(n, limit) == IF n < limit THEN n + 1 ELSE n
Elapse ==
  /\ \E t \in Open : age[t].idle < IdleTimeout \/ age[t].life < HardTimeout
  /\ age' = [t \in Traces |-> IF t \in Open
                              THEN [idle |-> Older(age[t].idle, IdleTimeout),
                                    life |-> Older(age[t].life, HardTimeout)]
                              ELSE age[t]]
  /\ UNCHANGED <<buf, journal, redState, sweep, overdue, channels, readers, phase, input,
                 decided, kept>>

(***************************************************************************)
(* Consume: buffer the span, count it, journal it; three mutexes.          *)
(***************************************************************************)
DropAsDuplicate(s) == s \in buf[TraceOf[s]]

Consume(s) ==
  LET t == TraceOf[s] IN
  /\ phase = "running" /\ consumer = NoConsume
  /\ delivered < MaxDeliveries
  /\ delivered' = delivered + 1
  /\ \/ /\ DropAsDuplicate(s)
        /\ UNCHANGED <<buf, age, overdue, consumer, accepted>>
     \/ /\ ~DropAsDuplicate(s)
        /\ buf' = [buf EXCEPT ![t] = @ \cup {s}]
        /\ age' = [age EXCEPT ![t] = IF t \in Open THEN [@ EXCEPT !.idle = 0] ELSE NoAge]
        /\ overdue' = [overdue EXCEPT !.idle = @ \ {t}]
        /\ accepted' = [accepted EXCEPT ![s] = @ + 1]
        /\ consumer' = [pc |-> "red", span |-> s]
  /\ UNCHANGED <<journal, redState, sweep, channels, readers, phase, decided, kept>>

Accumulate ==
  /\ consumer.pc = "red"
  /\ red' = red + 1
  /\ consumer' = [consumer EXCEPT !.pc = "journal"]
  /\ UNCHANGED <<buffers, redOut, redDropped, sweep, overdue, channels, readers, phase,
                 delivered, accepted, decided, kept>>

JournalSpan ==
  /\ consumer.pc = "journal"
  /\ journal' = [journal EXCEPT ![TraceOf[consumer.span]] = @ \cup {consumer.span}]
  /\ consumer' = NoConsume
  /\ UNCHANGED <<buf, age, redState, sweep, overdue, channels, readers, phase,
                 delivered, accepted, decided, kept>>

(***************************************************************************)
(* Tick and FlushAll: shard by shard, take buffers out under the lock and  *)
(* finalize them after releasing it; then DrainRED.                        *)
(***************************************************************************)
Goto(p, step) == sweep' = [sweep EXCEPT ![p] = step]

TickBegin ==
  /\ sweep["ticker"].pc = "idle"
  /\ overdue' = [idle |-> {t \in Open : age[t].idle >= IdleTimeout},
                 hard |-> {t \in Open : age[t].life >= HardTimeout}]
  /\ Goto("ticker", [Resting EXCEPT !.pc = "take"])
  /\ UNCHANGED <<buffers, redState, channels, readers, phase, input, decided, kept>>

Due(p) == IF p = "ticker" THEN overdue.idle \cup overdue.hard ELSE Traces

\* Not the code: a sweep that clears the buffers that are not due, too.
TakeOpen(p) ==
  LET here == {t \in Open : ShardOf[t] = sweep[p].shard}
      taken == here \cap Due(p)
  IN
  /\ sweep[p].pc = "take" /\ sweep[p].shard <= NShards
  /\ buf' = [t \in Traces |-> IF t \in here THEN {} ELSE buf[t]]
  /\ age' = [t \in Traces |-> IF t \in here THEN NoAge ELSE age[t]]
  /\ Goto(p, IF taken = {} THEN [sweep[p] EXCEPT !.shard = @ + 1]
             ELSE [sweep[p] EXCEPT !.pc = "finalize", !.due = {Item(t) : t \in taken}])
  /\ UNCHANGED <<journal, redState, overdue, channels, readers, phase, input, decided, kept>>

\* Not the code: a sweep that takes every due buffer and finalizes one.
TakeOne(p) ==
  LET taken == {t \in Open : ShardOf[t] = sweep[p].shard} \cap Due(p) IN
  /\ sweep[p].pc = "take" /\ sweep[p].shard <= NShards
  /\ buf' = [t \in Traces |-> IF t \in taken THEN {} ELSE buf[t]]
  /\ age' = [t \in Traces |-> IF t \in taken THEN NoAge ELSE age[t]]
  /\ IF taken = {} THEN Goto(p, [sweep[p] EXCEPT !.shard = @ + 1])
     ELSE \E t \in taken : Goto(p, [sweep[p] EXCEPT !.pc = "finalize", !.due = {Item(t)}])
  /\ UNCHANGED <<journal, redState, overdue, channels, readers, phase, input, decided, kept>>

TakeDue(p) ==
  LET taken == {t \in Open : ShardOf[t] = sweep[p].shard} \cap Due(p) IN
  /\ sweep[p].pc = "take" /\ sweep[p].shard <= NShards
  /\ buf' = [t \in Traces |-> IF t \in taken THEN {} ELSE buf[t]]
  /\ age' = [t \in Traces |-> IF t \in taken THEN NoAge ELSE age[t]]
  /\ Goto(p, IF taken = {} THEN [sweep[p] EXCEPT !.shard = @ + 1]
             ELSE [sweep[p] EXCEPT !.pc = "finalize", !.due = {Item(t) : t \in taken}])
  /\ UNCHANGED <<journal, redState, overdue, channels, readers, phase, input, decided, kept>>

\* Evaluate the policy (FlushAll sheds instead), then truncate the journal
\* under the trace's key.
Finalize(p, item, keep) ==
  /\ sweep[p].pc = "finalize" /\ item \in sweep[p].due
  /\ p = "shutdown" => ~keep
  /\ journal' = [journal EXCEPT ![item.trace] = {}]
  /\ Goto(p, [sweep[p] EXCEPT !.pc = "decision", !.due = @ \ {item},
                              !.cur = {item}, !.keep = keep])
  /\ UNCHANGED <<buf, age, redState, overdue, channels, readers, phase, input, decided, kept>>

\* On to the next buffer of this shard, or to the next shard.
Finalized(p) ==
  Goto(p, IF sweep[p].due # {} THEN [sweep[p] EXCEPT !.pc = "finalize", !.cur = {}, !.keep = FALSE]
          ELSE [sweep[p] EXCEPT !.pc = "take", !.cur = {}, !.keep = FALSE, !.shard = @ + 1])

\* Not the code: a trace sent for a decision to drop as well.
SendDecisionAndTrace(p) ==
  /\ sweep[p].pc = "decision" /\ Len(decisions) < ChanCap
  /\ \E item \in sweep[p].cur :
       /\ decisions' = Append(decisions, [item |-> item, keep |-> sweep[p].keep])
       /\ decided' = [s \in Spans |-> IF s \in item.spans THEN decided[s] + 1 ELSE decided[s]]
       /\ kept' = IF sweep[p].keep THEN kept + 1 ELSE kept
  /\ Goto(p, [sweep[p] EXCEPT !.pc = "trace"])
  /\ UNCHANGED <<buffers, redState, overdue, tracesCh, readers, phase, input>>

\* decisions <- decision, which blocks while the channel is full.
SendDecision(p) ==
  /\ sweep[p].pc = "decision" /\ Len(decisions) < ChanCap
  /\ \E item \in sweep[p].cur :
       /\ decisions' = Append(decisions, [item |-> item, keep |-> sweep[p].keep])
       /\ decided' = [s \in Spans |-> IF s \in item.spans THEN decided[s] + 1 ELSE decided[s]]
       /\ kept' = IF sweep[p].keep THEN kept + 1 ELSE kept
  /\ IF sweep[p].keep THEN Goto(p, [sweep[p] EXCEPT !.pc = "trace"]) ELSE Finalized(p)
  /\ UNCHANGED <<buffers, redState, overdue, tracesCh, readers, phase, input>>

SendTrace(p) ==
  /\ sweep[p].pc = "trace" /\ Len(tracesCh) < ChanCap
  /\ \E item \in sweep[p].cur : tracesCh' = Append(tracesCh, item)
  /\ Finalized(p)
  /\ UNCHANGED <<buffers, redState, overdue, decisions, readers, phase, input, decided, kept>>

(***************************************************************************)
(* DrainRED: flush the accumulator; drop the oldest sample of a full       *)
(* channel, and count that.                                                *)
(***************************************************************************)
\* After the last shard.  Shutdown cancels the bridges when this is done.
Drained(p) == Goto(p, Resting) /\ phase' = IF p = "shutdown" THEN "waiting" ELSE phase

Flush(p) ==
  /\ sweep[p].pc = "take" /\ sweep[p].shard > NShards
  /\ red' = 0
  /\ IF red = 0 THEN Drained(p)
     ELSE Goto(p, [sweep[p] EXCEPT !.pc = "send", !.sample = red]) /\ UNCHANGED phase
  /\ UNCHANGED <<buffers, redOut, redDropped, overdue, channels, readers, input, decided, kept>>

SendSample(p) ==
  /\ sweep[p].pc = "send"
  /\ IF Len(redOut) < REDCap
     THEN redOut' = Append(redOut, sweep[p].sample) /\ Drained(p)
     ELSE Goto(p, [sweep[p] EXCEPT !.pc = "evict"]) /\ UNCHANGED <<redOut, phase>>
  /\ UNCHANGED <<buffers, red, redDropped, overdue, channels, readers, input, decided, kept>>

\* Not the code: a sample dropped without counting it.
DropOldestUncounted(p) ==
  /\ sweep[p].pc = "evict"
  /\ redOut' = Append(IF redOut = <<>> THEN <<>> ELSE Tail(redOut), sweep[p].sample)
  /\ Drained(p)
  /\ UNCHANGED <<buffers, red, redDropped, overdue, channels, readers, input, decided, kept>>

\* By now the feed may have emptied the channel; the count goes up regardless.
DropOldest(p) ==
  /\ sweep[p].pc = "evict"
  /\ redOut' = Append(IF redOut = <<>> THEN <<>> ELSE Tail(redOut), sweep[p].sample)
  /\ redDropped' = redDropped + 1
  /\ Drained(p)
  /\ UNCHANGED <<buffers, red, overdue, channels, readers, input, decided, kept>>

(***************************************************************************)
(* The readers: each returns once its context is cancelled and the channel *)
(* is empty.                                                               *)
(***************************************************************************)
\* Not the code: readers cancelled before the flush has ended.
CancelledEarly == phase \in {"flushing", "waiting", "done"}

Cancelled == phase \in {"waiting", "done"}

BridgeTake ==
  /\ bridge.pc = "select" /\ decisions # <<>>
  /\ decisions' = Tail(decisions)
  /\ bridge' = IF Head(decisions).keep THEN [pc |-> "pair", held |-> {Head(decisions).item}]
               ELSE bridge
  /\ UNCHANGED <<buffers, redState, sweep, overdue, tracesCh, feed, appended, observed,
                 phase, input, decided, kept>>

\* A plain receive: the trace of a kept decision is the next one to come.
BridgePair ==
  /\ bridge.pc = "pair" /\ tracesCh # <<>>
  /\ tracesCh' = Tail(tracesCh)
  /\ appended' = appended + 1
  /\ bridge' = [pc |-> "select", held |-> {}]
  /\ UNCHANGED <<buffers, redState, sweep, overdue, decisions, feed, observed,
                 phase, input, decided, kept>>

BridgeExit ==
  /\ Cancelled /\ bridge.pc = "select" /\ decisions = <<>>
  /\ bridge' = [bridge EXCEPT !.pc = "exited"]
  /\ UNCHANGED <<buffers, redState, sweep, overdue, channels, feed, appended, observed,
                 phase, input, decided, kept>>

Observe ==
  /\ feed = "select" /\ redOut # <<>>
  /\ redOut' = Tail(redOut)
  /\ observed' = observed + Head(redOut)
  /\ UNCHANGED <<buffers, red, redDropped, sweep, overdue, channels, bridge, feed, appended,
                 phase, input, decided, kept>>

FeedExit ==
  /\ Cancelled /\ feed = "select" /\ redOut = <<>>
  /\ feed' = "exited"
  /\ UNCHANGED <<buffers, redState, sweep, overdue, channels, bridge, appended, observed,
                 phase, input, decided, kept>>

(***************************************************************************)
(* Shutdown: stop ingest, stop and join the ticker, flush, cancel the      *)
(* bridges, wait for them.                                                 *)
(***************************************************************************)
\* ing.Stop has joined the goroutine that calls Consume; cancel the ticker.
StopIngest ==
  /\ phase = "running" /\ consumer = NoConsume
  /\ phase' = "stopping"
  /\ UNCHANGED <<buffers, redState, sweep, overdue, channels, readers, input, decided, kept>>

\* The ticker may serve one more tick before it notices.
TickerExit ==
  /\ phase # "running" /\ sweep["ticker"].pc = "idle"
  /\ Goto("ticker", [Resting EXCEPT !.pc = "exited"])
  /\ UNCHANGED <<buffers, redState, overdue, channels, readers, phase, input, decided, kept>>

\* Not the code: a flush that does not wait for the ticker to return.
FlushBeginUnjoined ==
  /\ phase = "stopping"
  /\ phase' = "flushing"
  /\ Goto("shutdown", [Resting EXCEPT !.pc = "take"])
  /\ UNCHANGED <<buffers, redState, overdue, channels, readers, input, decided, kept>>

FlushBegin ==
  /\ phase = "stopping" /\ sweep["ticker"].pc = "exited"
  /\ phase' = "flushing"
  /\ Goto("shutdown", [Resting EXCEPT !.pc = "take"])
  /\ UNCHANGED <<buffers, redState, overdue, channels, readers, input, decided, kept>>

\* bg.Wait
Joined ==
  /\ phase = "waiting" /\ bridge.pc = "exited" /\ feed = "exited"
  /\ phase' = "done"
  /\ UNCHANGED <<buffers, redState, sweep, overdue, channels, readers, input, decided, kept>>

Init ==
  /\ buf = [t \in Traces |-> {}] /\ age = [t \in Traces |-> NoAge]
  /\ journal = [t \in Traces |-> {}]
  /\ consumer = NoConsume
  /\ red = 0 /\ redOut = <<>> /\ redDropped = 0
  /\ sweep = [p \in Sweepers |-> Resting] /\ overdue = NothingDue
  /\ decisions = <<>> /\ tracesCh = <<>>
  /\ bridge = [pc |-> "select", held |-> {}] /\ feed = "select"
  /\ phase = "running"
  /\ delivered = 0 /\ kept = 0 /\ appended = 0 /\ observed = 0
  /\ accepted = [s \in Spans |-> 0] /\ decided = [s \in Spans |-> 0]

ConsumeStep == Accumulate \/ JournalSpan
SweepStep(p) ==
  \/ TakeDue(p) \/ SendDecision(p) \/ SendTrace(p)
  \/ \E item \in sweep[p].due, keep \in BOOLEAN : Finalize(p, item, keep)
  \/ Flush(p) \/ SendSample(p) \/ DropOldest(p)
TickerStep == TickBegin \/ SweepStep("ticker")
ShutdownStep == FlushBegin \/ SweepStep("shutdown") \/ Joined
BridgeStep == BridgeTake \/ BridgePair \/ BridgeExit
FeedStep == Observe \/ FeedExit

Next == \/ \E s \in Spans : Consume(s)
        \/ ConsumeStep \/ TickerStep \/ TickerExit \/ StopIngest \/ ShutdownStep
        \/ BridgeStep \/ FeedStep \/ Elapse

Spec == Init /\ [][Next]_vars

\* Goroutines run, time passes, and a select that can always return because
\* its context is cancelled eventually does.  Spans need not arrive, and
\* nobody need ask for a shutdown.
Fairness ==
  /\ WF_vars(ConsumeStep) /\ WF_vars(TickerStep) /\ SF_vars(TickerExit)
  /\ WF_vars(ShutdownStep) /\ WF_vars(BridgeStep) /\ WF_vars(FeedStep) /\ WF_vars(Elapse)
FairSpec == Spec /\ Fairness

-----------------------------------------------------------------------------
(***************************************************************************)
(* Properties.                                                             *)
(***************************************************************************)
Items == [trace : Traces, spans : SUBSET Spans]

\* Every variable holds a value of its type.
TypeOK ==
  /\ buf \in [Traces -> SUBSET Spans] /\ journal \in [Traces -> SUBSET Spans]
  /\ age \in [Traces -> [idle : 0 .. IdleTimeout, life : 0 .. HardTimeout]]
  /\ \/ consumer = NoConsume
     \/ consumer \in [pc : {"red", "journal"}, span : Spans]
  /\ red \in Nat /\ redDropped \in Nat /\ redOut \in Seq(Nat) /\ Len(redOut) <= REDCap
  /\ \A p \in Sweepers :
       /\ sweep[p].pc \in {"idle", "take", "finalize", "decision", "trace", "send", "evict", "exited"}
       /\ sweep[p].shard \in 1 .. NShards + 1 /\ sweep[p].sample \in Nat
       /\ sweep[p].due \subseteq Items /\ sweep[p].cur \subseteq Items
       /\ sweep[p].keep \in BOOLEAN
  /\ overdue \in [idle : SUBSET Traces, hard : SUBSET Traces]
  /\ decisions \in Seq([item : Items, keep : BOOLEAN]) /\ Len(decisions) <= ChanCap
  /\ tracesCh \in Seq(Items) /\ Len(tracesCh) <= ChanCap
  /\ bridge.pc \in {"select", "pair", "exited"} /\ bridge.held \subseteq Items
  /\ feed \in {"select", "exited"}
  /\ phase \in {"running", "stopping", "flushing", "waiting", "done"}
  /\ delivered \in 0 .. MaxDeliveries
  /\ accepted \in [Spans -> Nat] /\ decided \in [Spans -> Nat]
  /\ kept \in Nat /\ appended \in Nat /\ observed \in Nat

\* A span the sampler accepted is buffered, being finalized or decided: once,
\* and in one place, whatever Consume does while the sweep is at work.
Awaiting(p, s) == Cardinality({item \in sweep[p].due : s \in item.spans})
                  + (IF sweep[p].pc = "decision" /\ \E item \in sweep[p].cur : s \in item.spans
                     THEN 1 ELSE 0)
EachSpanDecidedOnce ==
  \A s \in Spans :
    accepted[s] = decided[s] + (IF s \in buf[TraceOf[s]] THEN 1 ELSE 0)
                  + Awaiting("ticker", s) + Awaiting("shutdown", s)

\* runStoreBridge: the trace it receives for a kept decision is that
\* decision's trace.
Paired == bridge.held # {} /\ tracesCh # <<>> => Head(tracesCh) \in bridge.held

\* DR-9's RED accuracy: as long as no sample is counted as dropped, every
\* accepted span is in the accumulator, on its way to the baselines, or there.
InHand == sweep["ticker"].sample + sweep["shutdown"].sample
Uncounted == IF consumer.pc = "red" THEN 1 ELSE 0
REDAccounted ==
  redDropped = 0 =>
    SumFunction(accepted) = Uncounted + red + InHand + SumFunction(redOut) + observed

\* Shutdown (X2 to X6) loses nothing: when it has joined the bridges, every
\* accepted span is decided, every kept trace has gone to the store and every
\* RED sample that was not dropped to the baselines.
NothingLeftBehind ==
  phase = "done" =>
    /\ decided = accepted
    /\ appended = kept
    /\ redDropped = 0 => observed = SumFunction(accepted)

\* Every accepted span is decided in the end, with or without a shutdown.
EveryTraceDecided ==
  \A s \in Spans : s \in buf[TraceOf[s]] ~> decided[s] = accepted[s]

\* A shutdown that has begun returns: nobody waits for a reader that has gone.
ShutdownReturns == phase = "stopping" ~> phase = "done"

\* What the documents say and the code does not do ----------------------------

\* FR-F02-9: a span that is not decided yet is in the journal, except while
\* Consume is about to write it.
UndecidedJournaled ==
  \A s \in Spans : s \in buf[TraceOf[s]] /\ consumer.span # s => s \in journal[TraceOf[s]]

\* A span that ingest delivers again, after a client's retry, is dropped before
\* assembly and RED (F01's "duplicates are harmless downstream").  The set it is
\* looked up in goes with the buffer, when the trace is extracted.
DuplicatesHarmless == \A s \in Spans : accepted[s] <= 1
=============================================================================
