------------------------------ MODULE Pipeline ------------------------------
(***************************************************************************)
(* The ingest server (src/internal/ingest): every Export handler runs the  *)
(* shared pipeline (normalise, limits, tenant) and pushes the batch onto   *)
(* the bounded queue of each sink in turn; one goroutine per queue drains  *)
(* it; Stop joins the receivers, then the drains.                          *)
(*                                                                         *)
(* The queues are those of src/cmd/traceiq/system.go: the sampler's, then  *)
(* the topology graph's.  Neither sink's Consume fails.                    *)
(***************************************************************************)
EXTENDS Integers, Sequences, FiniteSets, Functions, FiniteSetsExt

CONSTANTS
  Exporters,     \* concurrent Export calls
  Batches,       \* what the clients have to send
  Request,       \* a batch's request: wellformed, size, spans, attrs
  Deployments,   \* configurations: what the tenant resolver looks at,
                 \* whether a full queue blocks up to the timeout, and
                 \* whether an oversize attribute rejects the batch
  Queues,        \* 1..n, in the order of the sinks
  Capacity,      \* ingest.queue.capacity
  MaxBytes,      \* ingest.queue.max_bytes
  MaxRequestBytes, MaxSpans, MaxAttrs \* ingest.limits; 0 is no limit

\* Any number of calls and batches.  The attributes of a span are a Go map, so
\* no two have the same key.
ASSUME PipelineAssumption ==
  /\ IsFiniteSet(Queues) /\ Queues = 1..Cardinality(Queues) /\ Queues # {}
  /\ Capacity \in Nat \ {0} /\ {MaxBytes, MaxRequestBytes, MaxSpans, MaxAttrs} \subseteq Nat
  /\ IsFiniteSet(Exporters) /\ Exporters # {} /\ IsFiniteSet(Batches) /\ Batches # {}
  /\ \A b \in Batches :
       /\ Request[b].size \in Nat /\ IsFiniteSet(Request[b].attrs)
       /\ \A a \in Request[b].attrs : a \in [key : Int, bigKey : BOOLEAN, bigValue : BOOLEAN]
       /\ \A a, c \in Request[b].attrs : a.key = c.key => a = c

VARIABLES
  deployment, \* the configuration in force
  handler,    \* where each Export call stands, and its batch
  queue,      \* the channels
  bytes,      \* the atomic byte counters
  drainer,    \* the drain goroutines, and the batch each holds
  consumed,  \* the batches each sink consumed, with their attributes
  acked,      \* batches whose client was answered OK
  late,       \* those of them answered after the signal
  signalled,  \* the context given to Start is done
  stop        \* how far Stop has come

pipelineVars == <<deployment, handler, queue, bytes, drainer, consumed, acked, late, signalled, stop>>

Idle == [at |-> "idle"]
Running == [at |-> "running"]

PipelineInit ==
  /\ deployment \in Deployments
  /\ handler = [e \in Exporters |-> Idle]
  /\ queue = [q \in Queues |-> <<>>]
  /\ bytes = [q \in Queues |-> 0]
  /\ drainer = [q \in Queues |-> Running]
  /\ consumed = [q \in Queues |-> {}]
  /\ acked = {} /\ late = {} /\ signalled = FALSE /\ stop = "no"

-----------------------------------------------------------------------------
(* The front of the pipeline.  An attribute is known by its key, in sorted *)
(* order, and by whether its key or its value is oversize.                 *)

Exceeds(n, limit) == limit > 0 /\ n > limit

Within(as, n) == {a \in as : n = 0 \/ Cardinality({b \in as : b.key < a.key}) < n}

\* applySpanLimits: the count first, then oversize keys go and oversize values
\* are cut to size.
Limited(as) == {[a EXCEPT !.bigValue = FALSE] : a \in {b \in Within(as, MaxAttrs) : ~b.bigKey}}

Big(as) == {a \in Within(as, MaxAttrs) : a.bigKey \/ a.bigValue}

Span(as) == [attrs |-> Limited(as), dropped |-> Cardinality(as) - Cardinality(Limited(as)),
             truncated |-> Exceeds(Cardinality(as), MaxAttrs) \/ Big(as) # {}]

\* FromSubject refuses the empty subject the receiver passes for every mode but
\* "none"; FromDevDefault serves a loopback dev profile without auth.
ResolvesTenant == /\ deployment.ingestAuth = "none"
                  /\ deployment.profile = "dev" /\ deployment.auth = "none"
                  /\ deployment.loopback /\ deployment.defaultTenant # ""

Refused(b) ==
  \/ ~Request[b].wellformed
  \/ Exceeds(Request[b].size, MaxRequestBytes) \/ Exceeds(Request[b].spans, MaxSpans)
  \/ deployment.rejectsBig /\ Big(Request[b].attrs) # {}
  \/ ~ResolvesTenant

BeingHandled == {handler[e].batch : e \in {x \in Exporters : handler[x] # Idle}}

\* A client sends what has not been acknowledged: a batch that was refused may
\* come again.
Export(e, b) ==
  /\ stop = "no" /\ handler[e] = Idle /\ b \notin acked \cup BeingHandled
  /\ ~Refused(b)
  /\ handler' = [handler EXCEPT ![e] =
       [at |-> "check", batch |-> b, span |-> Span(Request[b].attrs), q |-> 1, waited |-> FALSE]]
  /\ UNCHANGED <<deployment, queue, bytes, drainer, consumed, acked, late, signalled, stop>>

-----------------------------------------------------------------------------
(* push: the byte bound is read, then the channel tried, then the bytes    *)
(* added; the three are not one step.                                      *)

Size(b) == Request[b].size
At(e, place) == handler[e].at = place
GoTo(e, place) == handler' = [handler EXCEPT ![e].at = place]

\* Not the code: an endpoint that waits and never looks at the stop.
OverflowBlocks(e) ==
  IF deployment.blocks THEN GoTo(e, "wait") ELSE handler' = [handler EXCEPT ![e] = Idle]

Overflow(e) ==
  IF deployment.blocks /\ ~handler[e].waited THEN GoTo(e, "wait") ELSE handler' = [handler EXCEPT ![e] = Idle]

CheckBytes(e) ==
  /\ At(e, "check")
  /\ IF MaxBytes > 0 /\ bytes[handler[e].q] + Size(handler[e].batch) > MaxBytes
       THEN Overflow(e) ELSE GoTo(e, "send")
  /\ UNCHANGED <<deployment, queue, bytes, drainer, consumed, acked, late, signalled, stop>>

Send(e) ==
  LET q == handler[e].q IN
  /\ At(e, "send")
  /\ IF Len(queue[q]) < Capacity
       THEN /\ queue' = [queue EXCEPT ![q] = Append(@, [batch |-> handler[e].batch, span |-> handler[e].span])]
            /\ GoTo(e, "add")
       ELSE Overflow(e) /\ UNCHANGED queue
  /\ UNCHANGED <<deployment, bytes, drainer, consumed, acked, late, signalled, stop>>

AddBytes(e) ==
  LET q == handler[e].q IN
  /\ At(e, "add")
  /\ bytes' = [bytes EXCEPT ![q] = @ + Size(handler[e].batch)]
  /\ IF q + 1 \in Queues
       THEN /\ handler' = [handler EXCEPT ![e].at = "check", ![e].q = q + 1, ![e].waited = FALSE]
            /\ UNCHANGED <<acked, late>>
       ELSE /\ handler' = [handler EXCEPT ![e] = Idle]
            /\ acked' = acked \cup {handler[e].batch}
            /\ late' = IF signalled THEN late \cup {handler[e].batch} ELSE late
  /\ UNCHANGED <<deployment, queue, drainer, consumed, signalled, stop>>

TimerFires(e) ==
  /\ At(e, "wait")
  /\ handler' = [handler EXCEPT ![e].at = "check", ![e].waited = TRUE]
  /\ UNCHANGED <<deployment, queue, bytes, drainer, consumed, acked, late, signalled, stop>>

ClientGone(e) ==
  /\ At(e, "wait")
  /\ handler' = [handler EXCEPT ![e] = Idle]
  /\ UNCHANGED <<deployment, queue, bytes, drainer, consumed, acked, late, signalled, stop>>

HandlerStep(e) == CheckBytes(e) \/ Send(e) \/ AddBytes(e) \/ TimerFires(e)

-----------------------------------------------------------------------------
(* drain, drainRemaining and consume.                                      *)

DrainCancelled == signalled \/ stop \in {"draining", "stopped"}

Take(q) ==
  /\ drainer[q] \in {Running, [at |-> "flushing"]} /\ queue[q] # <<>>
  /\ drainer' = [drainer EXCEPT ![q] = [at |-> "holding", from |-> @, item |-> Head(queue[q])]]
  /\ queue' = [queue EXCEPT ![q] = Tail(@)]
  /\ UNCHANGED <<deployment, handler, bytes, consumed, acked, late, signalled, stop>>

\* Not the code: a drain that forgets to give the bytes back.
ConsumeUncounted(q) ==
  /\ drainer[q].at = "holding"
  /\ consumed' = [consumed EXCEPT ![q] = @ \cup {drainer[q].item}]
  /\ drainer' = [drainer EXCEPT ![q] = drainer[q].from]
  /\ UNCHANGED <<deployment, handler, queue, bytes, acked, late, signalled, stop>>

SinkConsume(q) ==
  /\ drainer[q].at = "holding"
  /\ bytes' = [bytes EXCEPT ![q] = @ - Size(drainer[q].item.batch)]
  /\ consumed' = [consumed EXCEPT ![q] = @ \cup {drainer[q].item}]
  /\ drainer' = [drainer EXCEPT ![q] = drainer[q].from]
  /\ UNCHANGED <<deployment, handler, queue, acked, late, signalled, stop>>

SeesCancel(q) ==
  /\ drainer[q] = Running /\ DrainCancelled
  /\ drainer' = [drainer EXCEPT ![q] = [at |-> "flushing"]]
  /\ UNCHANGED <<deployment, handler, queue, bytes, consumed, acked, late, signalled, stop>>

Flushed(q) ==
  /\ drainer[q] = [at |-> "flushing"] /\ queue[q] = <<>>
  /\ drainer' = [drainer EXCEPT ![q] = [at |-> "done"]]
  /\ UNCHANGED <<deployment, handler, queue, bytes, consumed, acked, late, signalled, stop>>

DrainStep(q) == Take(q) \/ SinkConsume(q) \/ SeesCancel(q) \/ Flushed(q)

-----------------------------------------------------------------------------
(* The signal ends the context main gave to Start, from which the drains'  *)
(* context derives; Stop follows, and joins receivers before drains.       *)

Signal ==
  /\ ~signalled /\ signalled' = TRUE
  /\ UNCHANGED <<deployment, handler, queue, bytes, drainer, consumed, acked, late, stop>>

StopCalled ==
  /\ stop = "no" /\ stop' = "receivers"
  /\ UNCHANGED <<deployment, handler, queue, bytes, drainer, consumed, acked, late, signalled>>

ReceiversStopped ==
  /\ stop = "receivers" /\ \A e \in Exporters : handler[e] = Idle
  /\ stop' = "draining"
  /\ UNCHANGED <<deployment, handler, queue, bytes, drainer, consumed, acked, late, signalled>>

StopReturns ==
  /\ stop = "draining" /\ \A q \in Queues : drainer[q].at = "done"
  /\ stop' = "stopped"
  /\ UNCHANGED <<deployment, handler, queue, bytes, drainer, consumed, acked, late, signalled>>

PipelineNext ==
  \/ \E e \in Exporters, b \in Batches : Export(e, b)
  \/ \E e \in Exporters : HandlerStep(e) \/ ClientGone(e)
  \/ \E q \in Queues : DrainStep(q)
  \/ Signal \/ StopCalled \/ ReceiversStopped \/ StopReturns

\* The scheduler runs every goroutine that can run, timers fire, and Stop goes
\* on; nothing obliges a client to call or to wait.
PipelineFairness ==
  /\ \A e \in Exporters : WF_pipelineVars(HandlerStep(e))
  /\ \A q \in Queues : WF_pipelineVars(DrainStep(q))
  /\ WF_pipelineVars(ReceiversStopped \/ StopReturns)

PipelineSpec == PipelineInit /\ [][PipelineNext]_pipelineVars /\ PipelineFairness

-----------------------------------------------------------------------------
(* Properties.                                                             *)

QueuedBytes(q) == SumFunction([i \in DOMAIN queue[q] |-> Size(queue[q][i].batch)])
UncountedAt(q)   == {e \in Exporters : At(e, "add") /\ handler[e].q = q}
HeldBytes(q)   == IF drainer[q].at = "holding" THEN Size(drainer[q].item.batch) ELSE 0
UncountedBytes(q) == SumFunctionOnSet([e \in Exporters |-> IF handler[e] = Idle THEN 0 ELSE Size(handler[e].batch)], UncountedAt(q))

\* The counter is the bytes in the channel, but for the batch the drain has
\* taken and not subtracted and those sent and not yet added (tryEnqueue,
\* consume): it never drifts.
BytesAccounted == \A q \in Queues : bytes[q] = QueuedBytes(q) + HeldBytes(q) - UncountedBytes(q)

\* Producers that passed the check together overshoot the bound, each but one
\* by its own batch, and never by more (tryEnqueue checks, then adds).
OvershootBounded ==
  MaxBytes > 0 => \A q \in Queues : QueuedBytes(q) <= MaxBytes + (Cardinality(Exporters) - 1) * Max({Size(b) : b \in Batches})

\* What a sink receives is within the limits, and a span that lost something
\* says so (applySpanLimits: flagged, never silent).
WithinLimits ==
  \A q \in Queues : \A d \in consumed[q] :
     /\ ~Exceeds(Cardinality(d.span.attrs), MaxAttrs) /\ \A a \in d.span.attrs : ~a.bigKey /\ ~a.bigValue
     /\ d.span.attrs # Request[d.batch].attrs => d.span.truncated
     /\ d.span.dropped = Cardinality(Request[d.batch].attrs) - Cardinality(d.span.attrs)

Reached(b) == \A q \in Queues : \E d \in consumed[q] : d.batch = b

\* When Stop has returned, every batch acknowledged before the signal has
\* reached every sink (Stop joins receivers, then the drains' last flush).
FlushedAtStop == stop = "stopped" => \A b \in acked \ late : Reached(b)

\* The byte counters, the overshoot, what the sinks receive and the last flush,
\* together.
PipelineSound == BytesAccounted /\ OvershootBounded /\ WithinLimits /\ FlushedAtStop

\* ingest.go:165-172: once Stop has returned no batch that was accepted is still
\* undelivered.
AcceptedDelivered == stop = "stopped" => \A b \in acked : Reached(b)

\* Every Export call is answered, and Stop returns once called: a full queue,
\* a cancelled drain or a waiting handler never hold either up.
PipelineProgress ==
  /\ \A e \in Exporters : handler[e] # Idle ~> handler[e] = Idle
  /\ stop = "receivers" ~> stop = "stopped"
=============================================================================
