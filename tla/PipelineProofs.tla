--------------------------- MODULE PipelineProofs ---------------------------
(***************************************************************************)
(* The ingest queues, for any number of Export calls, batches and queues:  *)
(* the byte counters never drift, producers overshoot the bound by at most *)
(* one batch each, what the sinks receive is within the limits or flagged, *)
(* and what was acknowledged before the signal has reached every sink when *)
(* Stop returns.                                                           *)
(*                                                                         *)
(* None of these is inductive alone. The strengthening PInv holds the      *)
(* types, the account of the bytes over every call and drain (Counted),    *)
(* the bound with what was checked and not sent (Bounded), no batch        *)
(* handled twice at a time (Alone), how far each batch has been carried    *)
(* (Carried), and who has ended (Closing).                                 *)
(***************************************************************************)
EXTENDS Pipeline, SumLemmas

\* The records of the model, as functions of what they hold.
Flushing == [at |-> "flushing"]
Done == [at |-> "done"]
ItemOf(b) == [batch |-> b, span |-> Span(Request[b].attrs)]
QueueItems == {ItemOf(b) : b \in Batches}
Holding(f, i) == [at |-> "holding", from |-> f, item |-> i]
Drainers == {Running, Flushing, Done} \cup {Holding(f, i) : f \in {Running, Flushing}, i \in QueueItems}
Places == {"check", "send", "add", "wait"}
Call(p, b, q, w) == [at |-> p, batch |-> b, span |-> Span(Request[b].attrs), q |-> q, waited |-> w]
Calls == {Call(p, b, q, w) : p \in Places, b \in Batches, q \in Queues, w \in BOOLEAN}
Hands == Calls \cup {Idle}

\* The types, of what the proofs need.
PTyped ==
  /\ handler \in [Exporters -> Hands]
  /\ queue \in [Queues -> Seq(QueueItems)]
  /\ bytes \in [Queues -> Int]
  /\ drainer \in [Queues -> Drainers]
  /\ consumed \in [Queues -> SUBSET QueueItems]
  /\ acked \in SUBSET Batches /\ late \in SUBSET acked
  /\ signalled \in BOOLEAN
  /\ stop \in {"no", "receivers", "draining", "stopped"}

\* The bytes queued, held by a drain, and on the way in the calls at a place.
Queued(s) == SumFunction([i \in DOMAIN s |-> Size(s[i].batch)])
Held(d) == IF d.at = "holding" THEN Size(d.item.batch) ELSE 0
Weight(h, p, q) == IF h # Idle /\ h.at = p /\ h.q = q THEN Size(h.batch) ELSE 0
Load(H, p, q) == SumFunctionOnSet([e \in Exporters |-> Weight(H[e], p, q)], Exporters)
\* How far the calls but one may overshoot.
Largest == Max({Size(b) : b \in Batches})
Slack == (Cardinality(Exporters) - 1) * Largest

\* The counter is the bytes queued and held, but for those sent and not yet
\* added.
Counted == \A q \in Queues : bytes[q] = Queued(queue[q]) + Held(drainer[q]) - Load(handler, "add", q)
\* The bound covers what was checked and not yet sent.
Bounded ==
  MaxBytes > 0 => \A q \in Queues : Queued(queue[q]) + Held(drainer[q]) + Load(handler, "send", q) <= MaxBytes + Slack

\* Which batches have come to a queue, whatever became of them.
Names(s) == {s[i].batch : i \in DOMAIN s}
HeldBatch(d) == IF d.at = "holding" THEN {d.item.batch} ELSE {}
Arrived ==
  [q \in Queues |-> Names(queue[q]) \cup {d.batch : d \in consumed[q]} \cup HeldBatch(drainer[q])]

\* A batch under way was not acknowledged, and has one call.
Alone ==
  /\ \A e \in Exporters : handler[e] # Idle => handler[e].batch \notin acked
  /\ \A e, f \in Exporters : e # f /\ handler[e] # Idle /\ handler[f] # Idle => handler[e].batch # handler[f].batch

\* A call's batch has come to the queues before its own, and to its own once
\* sent; an acknowledged one to all.
Carried ==
  /\ \A e \in Exporters : handler[e] # Idle =>
       \A q \in Queues : q < handler[e].q \/ (q = handler[e].q /\ handler[e].at = "add") => handler[e].batch \in Arrived[q]
  /\ \A b \in acked : \A q \in Queues : b \in Arrived[q]

\* A drain that has seen the cancellation; what is left when one is done; who has
\* ended by each phase of Stop.
Leaving(d) == d # Running /\ (d.at = "holding" => d.from # Running)
Closing ==
  /\ \A q \in Queues :
       /\ Leaving(drainer[q]) => DrainCancelled
       /\ drainer[q] = Done => Names(queue[q]) \cap (acked \ late) = {}
  /\ stop \in {"draining", "stopped"} => \A e \in Exporters : handler[e] = Idle
  /\ stop = "stopped" => \A q \in Queues : drainer[q] = Done

PInv == PTyped /\ Counted /\ Bounded /\ Alone /\ Carried /\ Closing

-----------------------------------------------------------------------------

\* The fields of a call that is under way.
LEMMA CallFields ==
  ASSUME NEW p \in Places, NEW b \in Batches, NEW q \in Queues, NEW w \in BOOLEAN
  PROVE  /\ Call(p, b, q, w).at = p /\ Call(p, b, q, w).batch = b
         /\ Call(p, b, q, w).q = q /\ Call(p, b, q, w).waited = w
         /\ Call(p, b, q, w) # Idle /\ Call(p, b, q, w) \in Calls
<1>1. p # "idle" BY DEF Places
<1>2. Call(p, b, q, w).at # Idle.at BY <1>1 DEF Call, Idle
<1> QED BY <1>2 DEF Call, Calls

\* The records of calls.
CallRecords ==
  [at : Places, batch : Batches, span : {Span(Request[b].attrs) : b \in Batches}, q : Queues, waited : BOOLEAN]

\* A record of the kind of a call is the call with its fields.
LEMMA CallRecord ==
  ASSUME NEW r \in CallRecords, r.span = Span(Request[r.batch].attrs)
  PROVE  r = Call(r.at, r.batch, r.q, r.waited)
<1>1. r = [at |-> r.at, batch |-> r.batch, span |-> r.span, q |-> r.q, waited |-> r.waited]
  BY DEF CallRecords
<1> QED BY <1>1 DEF Call

\* Calls are such records.
LEMMA CallInRecords ==
  ASSUME NEW p \in Places, NEW b \in Batches, NEW q \in Queues, NEW w \in BOOLEAN
  PROVE  Call(p, b, q, w) \in CallRecords /\ Call(p, b, q, w).span = Span(Request[b].attrs)
BY DEF Call, CallRecords

\* A handler that is not idle is a call.
LEMMA CallOf ==
  ASSUME PTyped, NEW e \in Exporters, handler[e] # Idle
  PROVE  \E p \in Places, b \in Batches, q \in Queues, w \in BOOLEAN : handler[e] = Call(p, b, q, w)
BY DEF PTyped, Hands, Calls

\* The fields of a drain.
LEMMA DrainerFields ==
  /\ Running.at = "running" /\ Flushing.at = "flushing" /\ Done.at = "done"
  /\ \A f, i : Holding(f, i).at = "holding" /\ Holding(f, i).from = f /\ Holding(f, i).item = i
BY DEF Running, Flushing, Done, Holding

\* A drain is known by where it stands.
LEMMA DrainerKinds ==
  ASSUME NEW d \in Drainers
  PROVE  /\ d.at = "holding" => \E f \in {Running, Flushing}, i \in QueueItems : d = Holding(f, i)
         /\ d.at = "done" => d = Done
<1>1. CASE \E f \in {Running, Flushing}, i \in QueueItems : d = Holding(f, i)
  <2>1. d.at = "holding" BY <1>1, DrainerFields
  <2> QED BY <1>1, <2>1
<1>2. CASE d \in {Running, Flushing, Done} BY <1>2, DrainerFields
<1> QED BY <1>1, <1>2 DEF Drainers

\* Its places are different.
LEMMA DrainersApart ==
  /\ Running # Flushing /\ Running # Done /\ Flushing # Done
  /\ \A f, i : Holding(f, i) # Running /\ Holding(f, i) # Flushing /\ Holding(f, i) # Done
BY DrainerFields

\* The fields of what is queued.
LEMMA ItemFields ==
  ASSUME NEW b PROVE ItemOf(b).batch = b /\ ItemOf(b).span = Span(Request[b].attrs)
BY DEF ItemOf

\* What is queued is the limited form of its batch.
LEMMA ItemsBatches == ASSUME NEW i \in QueueItems PROVE i.batch \in Batches /\ i = ItemOf(i.batch)
BY ItemFields DEF QueueItems

\* Sizes are natural numbers.
LEMMA SizeType == ASSUME NEW b \in Batches PROVE Size(b) \in Nat
BY PipelineAssumption DEF Size

-----------------------------------------------------------------------------
(* What a step does to a call. *)

\* One call changes.
Becomes(e, h) == handler' = [handler EXCEPT ![e] = h]

\* GoTo moves a call, and Overflow sends it to the wait or ends it.
LEMMA CallSteps ==
  ASSUME NEW p \in Places, NEW b \in Batches, NEW q \in Queues, NEW w \in BOOLEAN,
         NEW e \in Exporters, PTyped, handler[e] = Call(p, b, q, w)
  PROVE  /\ \A x \in Places : GoTo(e, x) => Becomes(e, Call(x, b, q, w))
         /\ Overflow(e) => Becomes(e, Call("wait", b, q, w)) \/ Becomes(e, Idle)
<1>1. \A x : [handler[e] EXCEPT !.at = x] = Call(x, b, q, w) BY DEF Call
<1>2. \A x : GoTo(e, x) => Becomes(e, Call(x, b, q, w)) BY <1>1 DEF GoTo, Becomes
<1> QED BY <1>2 DEF Overflow, Becomes

\* What the check of the bytes does to a call.
LEMMA CheckSteps ==
  ASSUME NEW p \in Places, NEW b \in Batches, NEW q \in Queues, NEW w \in BOOLEAN,
         NEW e \in Exporters, PTyped, handler[e] = Call(p, b, q, w), CheckBytes(e)
  PROVE  /\ p = "check"
         /\ \/ Becomes(e, Call("wait", b, q, w)) \/ Becomes(e, Idle)
            \/ Becomes(e, Call("send", b, q, w)) /\ (MaxBytes > 0 => bytes[q] + Size(b) <= MaxBytes)
<1>1. p = "check" BY CallFields DEF CheckBytes, At
<1>2. "send" \in Places BY DEF Places
<1>3. handler[e].q = q /\ handler[e].batch = b BY CallFields
<1>4. GoTo(e, "send") => Becomes(e, Call("send", b, q, w)) BY <1>2, CallSteps
<1>5. Overflow(e) => Becomes(e, Call("wait", b, q, w)) \/ Becomes(e, Idle) BY CallSteps
<1>6. bytes[q] \in Int /\ Size(b) \in Int /\ MaxBytes \in Int
  BY SizeType, PipelineAssumption DEF PTyped
<1> QED BY <1>1, <1>3, <1>4, <1>5, <1>6 DEF CheckBytes

\* What the attempt on the channel does to a call and to the queue.
LEMMA SendSteps ==
  ASSUME NEW p \in Places, NEW b \in Batches, NEW q \in Queues, NEW w \in BOOLEAN,
         NEW e \in Exporters, PTyped, handler[e] = Call(p, b, q, w), Send(e)
  PROVE  /\ p = "send"
         /\ \/ (Becomes(e, Call("wait", b, q, w)) \/ Becomes(e, Idle)) /\ queue' = queue
            \/ /\ Becomes(e, Call("add", b, q, w))
               /\ queue' = [queue EXCEPT ![q] = Append(queue[q], ItemOf(b))]
<1>1. p = "send" BY CallFields DEF Send, At
<1>2. "add" \in Places BY DEF Places
<1>3. handler[e].q = q /\ handler[e].batch = b /\ handler[e].span = Span(Request[b].attrs)
  BY CallFields DEF Call
<1>4. GoTo(e, "add") => Becomes(e, Call("add", b, q, w)) BY <1>2, CallSteps
<1>5. Overflow(e) => Becomes(e, Call("wait", b, q, w)) \/ Becomes(e, Idle) BY CallSteps
<1> QED BY <1>1, <1>3, <1>4, <1>5 DEF Send, ItemOf

\* What the addition of the bytes does: on to the next queue, or the answer.
LEMMA AddSteps ==
  ASSUME NEW p \in Places, NEW b \in Batches, NEW q \in Queues, NEW w \in BOOLEAN,
         NEW e \in Exporters, PTyped, handler[e] = Call(p, b, q, w), AddBytes(e)
  PROVE  /\ p = "add"
         /\ bytes' = [bytes EXCEPT ![q] = bytes[q] + Size(b)]
         /\ \/ q + 1 \in Queues /\ Becomes(e, Call("check", b, q + 1, FALSE)) /\ acked' = acked /\ late' = late
            \/ /\ q + 1 \notin Queues /\ Becomes(e, Idle) /\ acked' = acked \cup {b}
               /\ late' = IF signalled THEN late \cup {b} ELSE late
<1>1. p = "add" BY CallFields DEF AddBytes, At
<1>3. handler[e].q = q /\ handler[e].batch = b BY CallFields
<1>4. q + 1 \in Queues =>
       [handler[e] EXCEPT !.at = "check", !.q = q + 1, !.waited = FALSE] = Call("check", b, q + 1, FALSE)
  <2> SUFFICES ASSUME q + 1 \in Queues
               PROVE  [handler[e] EXCEPT !.at = "check", !.q = q + 1, !.waited = FALSE] = Call("check", b, q + 1, FALSE)
    OBVIOUS
  <2> DEFINE c == handler[e]
             r == [c EXCEPT !.at = "check", !.q = q + 1, !.waited = FALSE]
  <2>1. c \in CallRecords /\ c.batch = b /\ c.span = Span(Request[b].attrs)
    BY CallFields, CallInRecords
  <2>2. "check" \in Places BY DEF Places
  <2> HIDE DEF c
  <2>3. r \in CallRecords /\ r.at = "check" /\ r.batch = b /\ r.q = q + 1 /\ r.waited = FALSE /\ r.span = c.span
    BY <2>1, <2>2 DEF CallRecords
  <2> HIDE DEF r
  <2>4. r = Call("check", b, q + 1, FALSE) BY <2>1, <2>3, CallRecord
  <2> QED BY <2>4 DEF r, c
<1> QED BY <1>1, <1>3, <1>4 DEF AddBytes, Becomes

\* What the timer does to a call that waits.
LEMMA TimerSteps ==
  ASSUME NEW p \in Places, NEW b \in Batches, NEW q \in Queues, NEW w \in BOOLEAN,
         NEW e \in Exporters, PTyped, handler[e] = Call(p, b, q, w), TimerFires(e)
  PROVE  p = "wait" /\ Becomes(e, Call("check", b, q, TRUE))
<1>1. p = "wait" BY CallFields DEF TimerFires, At
<1>4. [handler[e] EXCEPT !.at = "check", !.waited = TRUE] = Call("check", b, q, TRUE)
  <2> DEFINE c == handler[e]
             r == [c EXCEPT !.at = "check", !.waited = TRUE]
  <2>1. c \in CallRecords /\ c.batch = b /\ c.q = q /\ c.span = Span(Request[b].attrs)
    BY CallFields, CallInRecords
  <2>2. "check" \in Places BY DEF Places
  <2> HIDE DEF c
  <2>3. r \in CallRecords /\ r.at = "check" /\ r.batch = b /\ r.q = q /\ r.waited = TRUE /\ r.span = c.span
    BY <2>1, <2>2 DEF CallRecords
  <2> HIDE DEF r
  <2>4. r = Call("check", b, q, TRUE) BY <2>1, <2>3, CallRecord
  <2> QED BY <2>4 DEF r, c
<1> QED BY <1>1, <1>4 DEF TimerFires, Becomes

-----------------------------------------------------------------------------
(* The steps, as what they do to a call and to a drain. *)

\* What a handler leaves alone.
Rest == <<drainer, consumed, signalled, stop>>

\* An Export begins; a call waits, tries again or gives up; passes the check;
\* sends; adds; a drain takes, consumes, goes on to its flush or ends; the signal
\* and Stop.
Enters(e, b) ==
  /\ handler[e] = Idle /\ b \notin acked \cup BeingHandled /\ stop = "no"
  /\ \E v \in BOOLEAN : Becomes(e, Call("check", b, 1, v))
  /\ UNCHANGED <<queue, bytes, acked, late, Rest>>

Waits(e, p, b, q, w) ==
  /\ handler[e] = Call(p, b, q, w) /\ p # "add"
  /\ \/ Becomes(e, Idle)
     \/ \E x \in {"wait", "check"}, v \in BOOLEAN : Becomes(e, Call(x, b, q, v))
  /\ UNCHANGED <<queue, bytes, acked, late, Rest>>

Passes(e, b, q, w) ==
  /\ handler[e] = Call("check", b, q, w) /\ (MaxBytes > 0 => bytes[q] + Size(b) <= MaxBytes)
  /\ Becomes(e, Call("send", b, q, w)) /\ UNCHANGED <<queue, bytes, acked, late, Rest>>

Sends(e, b, q, w) ==
  /\ handler[e] = Call("send", b, q, w)
  /\ Becomes(e, Call("add", b, q, w)) /\ queue' = [queue EXCEPT ![q] = Append(queue[q], ItemOf(b))]
  /\ UNCHANGED <<bytes, acked, late, Rest>>

Adds(e, b, q, w) ==
  /\ handler[e] = Call("add", b, q, w)
  /\ bytes' = [bytes EXCEPT ![q] = bytes[q] + Size(b)]
  /\ \/ /\ q + 1 \in Queues /\ (\E v \in BOOLEAN : Becomes(e, Call("check", b, q + 1, v)))
        /\ acked' = acked /\ late' = late
     \/ /\ q + 1 \notin Queues /\ Becomes(e, Idle) /\ acked' = acked \cup {b}
        /\ late' = IF signalled THEN late \cup {b} ELSE late
  /\ UNCHANGED <<queue, Rest>>

Takes(q) ==
  /\ drainer[q] \in {Running, Flushing} /\ queue[q] # <<>>
  /\ drainer' = [drainer EXCEPT ![q] = Holding(drainer[q], Head(queue[q]))]
  /\ queue' = [queue EXCEPT ![q] = Tail(queue[q])]
  /\ UNCHANGED <<handler, bytes, consumed, acked, late, signalled, stop>>

Consumes(q, f, i) ==
  /\ drainer[q] = Holding(f, i)
  /\ bytes' = [bytes EXCEPT ![q] = bytes[q] - Size(i.batch)]
  /\ consumed' = [consumed EXCEPT ![q] = consumed[q] \cup {i}]
  /\ drainer' = [drainer EXCEPT ![q] = f]
  /\ UNCHANGED <<handler, queue, acked, late, signalled, stop>>

Closes(q) ==
  /\ \/ drainer[q] = Running /\ DrainCancelled /\ drainer' = [drainer EXCEPT ![q] = Flushing]
     \/ drainer[q] = Flushing /\ queue[q] = <<>> /\ drainer' = [drainer EXCEPT ![q] = Done]
  /\ UNCHANGED <<handler, queue, bytes, consumed, acked, late, signalled, stop>>

Controls ==
  /\ \/ signalled' = TRUE /\ stop' = stop
     \/ stop = "no" /\ stop' = "receivers" /\ signalled' = signalled
     \/ stop = "receivers" /\ (\A e \in Exporters : handler[e] = Idle) /\ stop' = "draining" /\ signalled' = signalled
     \/ stop = "draining" /\ (\A q \in Queues : drainer[q] = Done) /\ stop' = "stopped" /\ signalled' = signalled
     \/ UNCHANGED <<signalled, stop>>
  /\ UNCHANGED <<handler, queue, bytes, drainer, consumed, acked, late>>

PStep ==
  \/ \E e \in Exporters, b \in Batches : Enters(e, b)
  \/ \E e \in Exporters, p \in Places, b \in Batches, q \in Queues, w \in BOOLEAN :
       Waits(e, p, b, q, w) \/ Passes(e, b, q, w) \/ Sends(e, b, q, w) \/ Adds(e, b, q, w)
  \/ \E q \in Queues : Takes(q) \/ Closes(q)
  \/ \E q \in Queues, f \in {Running, Flushing}, i \in QueueItems : Consumes(q, f, i)
  \/ Controls

\* A step of a handler is a wait, a pass, a send or an addition.
LEMMA HandlerSteps ==
  ASSUME PTyped, NEW e \in Exporters, HandlerStep(e) \/ ClientGone(e)
  PROVE  \E p \in Places, b \in Batches, q \in Queues, w \in BOOLEAN :
           Waits(e, p, b, q, w) \/ Passes(e, b, q, w) \/ Sends(e, b, q, w) \/ Adds(e, b, q, w)
<1>1. handler[e] # Idle
  BY DEF HandlerStep, CheckBytes, Send, AddBytes, TimerFires, ClientGone, At, Idle
<1>2. PICK p \in Places, b \in Batches, q \in Queues, w \in BOOLEAN : handler[e] = Call(p, b, q, w)
  BY <1>1, CallOf
<1>3. CASE CheckBytes(e)
  <2>1. UNCHANGED <<queue, bytes, acked, late, Rest>> BY <1>3 DEF CheckBytes, Rest
  <2>2. /\ p = "check"
        /\ \/ Becomes(e, Call("wait", b, q, w)) \/ Becomes(e, Idle)
           \/ Becomes(e, Call("send", b, q, w)) /\ (MaxBytes > 0 => bytes[q] + Size(b) <= MaxBytes)
    BY <1>2, <1>3, CheckSteps
  <2>3. Waits(e, p, b, q, w) \/ Passes(e, b, q, w) BY <1>2, <2>1, <2>2 DEF Waits, Passes
  <2> QED BY <2>3
<1>4. CASE Send(e)
  <2>1. UNCHANGED <<bytes, acked, late, Rest>> BY <1>4 DEF Send, Rest
  <2>2. /\ p = "send"
        /\ \/ (Becomes(e, Call("wait", b, q, w)) \/ Becomes(e, Idle)) /\ queue' = queue
           \/ /\ Becomes(e, Call("add", b, q, w))
              /\ queue' = [queue EXCEPT ![q] = Append(queue[q], ItemOf(b))]
    BY <1>2, <1>4, SendSteps
  <2>3. Waits(e, p, b, q, w) \/ Sends(e, b, q, w) BY <1>2, <2>1, <2>2 DEF Waits, Sends
  <2> QED BY <2>3
<1>5. CASE AddBytes(e)
  <2>1. UNCHANGED <<queue, Rest>> BY <1>5 DEF AddBytes, Rest
  <2>2. Adds(e, b, q, w) BY <1>2, <1>5, <2>1, AddSteps DEF Adds
  <2> QED BY <2>2
<1>6. CASE TimerFires(e)
  <2>1. UNCHANGED <<queue, bytes, acked, late, Rest>> BY <1>6 DEF TimerFires, Rest
  <2>2. p = "wait" /\ Becomes(e, Call("check", b, q, TRUE)) BY <1>2, <1>6, TimerSteps
  <2>3. Waits(e, p, b, q, w) BY <1>2, <2>1, <2>2 DEF Waits
  <2> QED BY <2>3
<1>7. CASE ClientGone(e)
  <2>1. UNCHANGED <<queue, bytes, acked, late, Rest>> BY <1>7 DEF ClientGone, Rest
  <2>2. p = "wait" /\ Becomes(e, Idle) BY <1>2, <1>7, CallFields DEF ClientGone, At, Becomes
  <2>3. Waits(e, p, b, q, w) BY <1>2, <2>1, <2>2 DEF Waits
  <2> QED BY <2>3
<1> QED BY <1>3, <1>4, <1>5, <1>6, <1>7 DEF HandlerStep

\* A step of a drain takes, consumes or closes.
LEMMA DrainSteps ==
  ASSUME PTyped, NEW q \in Queues, DrainStep(q)
  PROVE  Takes(q) \/ Closes(q) \/ \E f \in {Running, Flushing}, i \in QueueItems : Consumes(q, f, i)
<1>1. CASE Take(q) BY <1>1 DEF Take, Takes, Flushing, Holding
<1>2. CASE SinkConsume(q)
  <2>1. drainer[q].at = "holding" BY <1>2 DEF SinkConsume
  <2>2. PICK f \in {Running, Flushing}, i \in QueueItems : drainer[q] = Holding(f, i)
    BY <2>1, DrainerKinds DEF PTyped
  <2>3. drainer[q].from = f /\ drainer[q].item = i BY <2>2, DrainerFields
  <2>4. Consumes(q, f, i) BY <1>2, <2>2, <2>3 DEF SinkConsume, Consumes
  <2> QED BY <2>4
<1>3. CASE SeesCancel(q) BY <1>3 DEF SeesCancel, Closes, Flushing
<1>4. CASE Flushed(q) BY <1>4 DEF Flushed, Closes, Flushing, Done
<1> QED BY <1>1, <1>2, <1>3, <1>4 DEF DrainStep

\* Every step of the module is one of those of this section.
LEMMA StepCases ==
  ASSUME PTyped, [PipelineNext]_pipelineVars
  PROVE  PStep
<1>1. ASSUME NEW e \in Exporters, NEW b \in Batches, Export(e, b) PROVE Enters(e, b)
  <2>1. UNCHANGED <<queue, bytes, acked, late, Rest>> BY <1>1 DEF Export, Rest
  <2> QED BY <1>1, <2>1 DEF Export, Enters, Becomes, Call
<1>2. ASSUME Signal \/ StopCalled \/ ReceiversStopped \/ StopReturns \/ UNCHANGED pipelineVars PROVE Controls
  <2>1. (\A q \in Queues : drainer[q].at = "done") => \A q \in Queues : drainer[q] = Done
    BY DrainerKinds DEF PTyped
  <2> QED BY <1>2, <2>1 DEF Signal, StopCalled, ReceiversStopped, StopReturns, pipelineVars, Controls
<1> QED BY <1>1, <1>2, HandlerSteps, DrainSteps DEF PipelineNext, PStep

-----------------------------------------------------------------------------
(* Types. *)

\* What a handler may be.
LEMMA HandsType ==
  /\ Idle \in Hands
  /\ \A p \in Places, b \in Batches, q \in Queues, w \in BOOLEAN : Call(p, b, q, w) \in Hands
BY DEF Hands, Calls

\* There is a first queue.
LEMMA FirstQueue == 1 \in Queues
<1>1. Cardinality(Queues) \in Nat /\ Cardinality(Queues) # 0
  BY PipelineAssumption, FS_CardinalityType, FS_EmptySet
<1> QED BY <1>1, PipelineAssumption

\* A call that changes leaves the others alone.
LEMMA BecomesType ==
  ASSUME PTyped, NEW e \in Exporters, NEW h \in Hands, Becomes(e, h)
  PROVE  /\ handler' \in [Exporters -> Hands] /\ handler'[e] = h
         /\ \A x \in Exporters : x # e => handler'[x] = handler[x]
BY DEF PTyped, Becomes

\* The initial state is typed.
LEMMA TypedInit == PipelineInit => PTyped
<1> SUFFICES ASSUME PipelineInit PROVE PTyped
  OBVIOUS
<1>1. handler \in [Exporters -> Hands] BY HandsType DEF PipelineInit
<1>2. queue \in [Queues -> Seq(QueueItems)] BY DEF PipelineInit
<1>3. bytes \in [Queues -> Int] BY DEF PipelineInit
<1>4. Running \in Drainers BY DEF Drainers
<1>5. drainer \in [Queues -> Drainers] BY <1>4 DEF PipelineInit
<1>6. consumed \in [Queues -> SUBSET QueueItems] BY DEF PipelineInit
<1> QED BY <1>1, <1>2, <1>3, <1>5, <1>6 DEF PipelineInit, PTyped

\* Every step keeps the types.
LEMMA TypedStep ==
  ASSUME PTyped, PStep
  PROVE  PTyped'
<1> USE DEF PTyped
<1>p. "check" \in Places /\ "send" \in Places /\ "add" \in Places /\ "wait" \in Places BY DEF Places
<1>1. ASSUME NEW e \in Exporters, NEW b \in Batches, Enters(e, b) PROVE PTyped'
  <2>1. handler' \in [Exporters -> Hands] BY <1>1, <1>p, FirstQueue, HandsType, BecomesType DEF Enters
  <2> QED BY <1>1, <2>1 DEF Enters, Rest
<1>2. ASSUME NEW e \in Exporters, NEW p \in Places, NEW b \in Batches, NEW q \in Queues, NEW w \in BOOLEAN,
             Waits(e, p, b, q, w)
      PROVE  PTyped'
  <2>1. handler' \in [Exporters -> Hands] BY <1>2, <1>p, HandsType, BecomesType DEF Waits
  <2> QED BY <1>2, <2>1 DEF Waits, Rest
<1>3. ASSUME NEW e \in Exporters, NEW b \in Batches, NEW q \in Queues, NEW w \in BOOLEAN, Passes(e, b, q, w)
      PROVE  PTyped'
  <2>1. handler' \in [Exporters -> Hands] BY <1>3, <1>p, HandsType, BecomesType DEF Passes
  <2> QED BY <1>3, <2>1 DEF Passes, Rest
<1>4. ASSUME NEW e \in Exporters, NEW b \in Batches, NEW q \in Queues, NEW w \in BOOLEAN, Sends(e, b, q, w)
      PROVE  PTyped'
  <2>1. handler' \in [Exporters -> Hands] BY <1>4, <1>p, HandsType, BecomesType DEF Sends
  <2>2. ItemOf(b) \in QueueItems BY DEF QueueItems
  <2>3. queue' \in [Queues -> Seq(QueueItems)] BY <1>4, <2>2 DEF Sends
  <2> QED BY <1>4, <2>1, <2>3 DEF Sends, Rest
<1>5. ASSUME NEW e \in Exporters, NEW b \in Batches, NEW q \in Queues, NEW w \in BOOLEAN, Adds(e, b, q, w)
      PROVE  PTyped'
  <2>1. handler' \in [Exporters -> Hands] BY <1>5, <1>p, HandsType, BecomesType DEF Adds
  <2>2. Size(b) \in Nat BY SizeType
  <2>3. bytes' \in [Queues -> Int] BY <1>5, <2>2 DEF Adds
  <2>4. acked' \in SUBSET Batches /\ late' \in SUBSET acked' BY <1>5 DEF Adds
  <2> QED BY <1>5, <2>1, <2>3, <2>4 DEF Adds, Rest
<1>6. ASSUME NEW q \in Queues, Takes(q) PROVE PTyped'
  <2>1. Head(queue[q]) \in QueueItems /\ Tail(queue[q]) \in Seq(QueueItems) BY <1>6 DEF Takes
  <2>2. Holding(drainer[q], Head(queue[q])) \in Drainers BY <1>6, <2>1 DEF Takes, Drainers
  <2>3. drainer' \in [Queues -> Drainers] /\ queue' \in [Queues -> Seq(QueueItems)] BY <1>6, <2>1, <2>2 DEF Takes
  <2> QED BY <1>6, <2>3 DEF Takes
<1>7. ASSUME NEW q \in Queues, Closes(q) PROVE PTyped'
  <2>1. Flushing \in Drainers /\ Done \in Drainers BY DEF Drainers
  <2>2. drainer' \in [Queues -> Drainers] BY <1>7, <2>1 DEF Closes
  <2> QED BY <1>7, <2>2 DEF Closes
<1>8. ASSUME NEW q \in Queues, NEW f \in {Running, Flushing}, NEW i \in QueueItems, Consumes(q, f, i)
      PROVE  PTyped'
  <2>1. f \in Drainers BY DEF Drainers
  <2>2. drainer' \in [Queues -> Drainers] BY <1>8, <2>1 DEF Consumes
  <2>3. Size(i.batch) \in Nat BY SizeType, ItemsBatches
  <2>4. bytes' \in [Queues -> Int] BY <1>8, <2>3 DEF Consumes
  <2>5. consumed' \in [Queues -> SUBSET QueueItems] BY <1>8 DEF Consumes
  <2> QED BY <1>8, <2>2, <2>4, <2>5 DEF Consumes
<1>9. CASE Controls BY <1>9 DEF Controls
<1> QED BY <1>1, <1>2, <1>3, <1>4, <1>5, <1>6, <1>7, <1>8, <1>9 DEF PStep

-----------------------------------------------------------------------------
(* The bytes of a queue, and of the calls at a place. *)

\* The sizes of what is queued.
Sizes(s) == [i \in DOMAIN s |-> Size(s[i].batch)]

\* The sizes of a queue are integers.
LEMMA SizesType == ASSUME NEW s \in Seq(QueueItems) PROVE Sizes(s) \in Seq(Int)
<1>1. \A i \in DOMAIN s : Size(s[i].batch) \in Int BY SizeType, ItemsBatches
<1> QED BY <1>1 DEF Sizes

\* So is their sum.
LEMMA QueuedType == ASSUME NEW s \in Seq(QueueItems) PROVE Queued(s) \in Int
<1>1. Queued(s) = SumFunction(Sizes(s)) BY DEF Queued, Sizes
<1> QED BY <1>1, SizesType, SeqSumType

\* An empty queue holds no bytes.
LEMMA QueuedEmpty == Queued(<<>>) = 0
<1>1. Sizes(<<>>) = <<>> BY DEF Sizes
<1>2. Queued(<<>>) = SumFunction(Sizes(<<>>)) BY DEF Queued, Sizes
<1> QED BY <1>1, <1>2, SeqSumEmpty

\* A send adds the size of what it sends.
LEMMA QueuedAppend ==
  ASSUME NEW s \in Seq(QueueItems), NEW i \in QueueItems
  PROVE  Queued(Append(s, i)) = Queued(s) + Size(i.batch)
<1> DEFINE n == Size(i.batch)  t == Append(s, i)
<1>1. Sizes(s) \in Seq(Int) /\ n \in Int BY SizesType, SizeType, ItemsBatches
<1>2. t \in Seq(QueueItems) OBVIOUS
<1>3. Sizes(t) \in Seq(Int) BY <1>2, SizesType
<1>4. Len(Sizes(t)) = Len(s) + 1 /\ Len(Sizes(s)) = Len(s) BY DEF Sizes
<1>5. \A k \in 1 .. Len(s) + 1 : Sizes(t)[k] = Append(Sizes(s), n)[k] BY <1>1, <1>4 DEF Sizes
<1>6. Sizes(t) = Append(Sizes(s), n)
  <2> DEFINE a == Sizes(t)  c == Append(Sizes(s), n)
  <2>1. a \in Seq(Int) /\ c \in Seq(Int) /\ Len(a) = Len(s) + 1 /\ Len(c) = Len(s) + 1 BY <1>1, <1>3, <1>4
  <2>2. \A k \in 1 .. Len(s) + 1 : a[k] = c[k] BY <1>5
  <2> HIDE DEF a, c
  <2>3. a = c BY <2>1, <2>2
  <2> QED BY <2>3 DEF a, c
<1>7. Queued(t) = SumFunction(Sizes(t)) /\ Queued(s) = SumFunction(Sizes(s)) BY DEF Queued, Sizes
<1> HIDE DEF n, t
<1>8. SumFunction(Append(Sizes(s), n)) = SumFunction(Sizes(s)) + n BY <1>1, SeqSumAppend
<1> QED BY <1>6, <1>7, <1>8 DEF n, t

\* A take removes the size of the head.
LEMMA QueuedTail ==
  ASSUME NEW s \in Seq(QueueItems), s # <<>>
  PROVE  Queued(Tail(s)) = Queued(s) - Size(Head(s).batch)
<1> DEFINE t == Tail(s)
<1>1. Sizes(s) \in Seq(Int) BY SizesType
<1>2. t \in Seq(QueueItems) OBVIOUS
<1>3. Sizes(t) \in Seq(Int) BY <1>2, SizesType
<1>4. Len(Sizes(t)) = Len(s) - 1 /\ Len(Sizes(s)) = Len(s) BY DEF Sizes
<1>5. Sizes(s) # <<>> /\ Head(Sizes(s)) = Size(Head(s).batch) BY <1>1, <1>4 DEF Sizes
<1>6. Sizes(t) = Tail(Sizes(s))
  <2>1. \A k \in 1 .. Len(s) - 1 : Sizes(t)[k] = Tail(Sizes(s))[k] BY <1>1, <1>4, <1>5 DEF Sizes
  <2> DEFINE a == Sizes(t)  c == Tail(Sizes(s))
  <2>2. a \in Seq(Int) /\ c \in Seq(Int) /\ Len(a) = Len(s) - 1 /\ Len(c) = Len(s) - 1 BY <1>1, <1>3, <1>4, <1>5
  <2>3. \A k \in 1 .. Len(a) : a[k] = c[k] BY <2>1, <2>2
  <2> HIDE DEF a, c
  <2>4. Len(a) = Len(c) BY <2>2
  <2>5. a = [k \in 1 .. Len(a) |-> a[k]] /\ c = [k \in 1 .. Len(c) |-> c[k]] BY <2>2
  <2>6. [k \in 1 .. Len(a) |-> a[k]] = [k \in 1 .. Len(c) |-> c[k]] BY <2>3, <2>4
  <2> QED BY <2>5, <2>6 DEF a, c
<1>7. Queued(t) = SumFunction(Sizes(t)) /\ Queued(s) = SumFunction(Sizes(s)) BY DEF Queued, Sizes
<1> HIDE DEF t
<1>8. SumFunction(Tail(Sizes(s))) = SumFunction(Sizes(s)) - Head(Sizes(s)) BY <1>1, <1>5, SeqSumTail
<1> QED BY <1>5, <1>6, <1>7, <1>8 DEF t

\* Load.
LEMMA WeightType ==
  ASSUME NEW h \in Hands, NEW p, NEW q
  PROVE  Weight(h, p, q) \in Nat
<1>1. ASSUME h # Idle PROVE h.batch \in Batches
  <2>1. PICK r \in Places, b \in Batches, n \in Queues, w \in BOOLEAN : h = Call(r, b, n, w)
    BY <1>1 DEF Hands, Calls
  <2> QED BY <2>1, CallFields
<1> QED BY <1>1, SizeType DEF Weight

\* So is what the calls weigh together.
LEMMA LoadType ==
  ASSUME NEW H \in [Exporters -> Hands], NEW p, NEW q
  PROVE  Load(H, p, q) \in Nat
<1> DEFINE f == [e \in Exporters |-> Weight(H[e], p, q)]
<1>1. \A e \in Exporters : f[e] \in Nat BY WeightType
<1> HIDE DEF f
<1>2. SumFunctionOnSet(f, Exporters) \in Nat BY <1>1, SumNatural, PipelineAssumption
<1> QED BY <1>2 DEF f, Load

\* When one call changes, the load changes by the difference of its weight.
LEMMA LoadUpdate ==
  ASSUME NEW e \in Exporters, NEW H \in [Exporters -> Hands], NEW G \in [Exporters -> Hands],
         \A x \in Exporters : x # e => G[x] = H[x], NEW p, NEW q
  PROVE  Load(G, p, q) = Load(H, p, q) + (Weight(G[e], p, q) - Weight(H[e], p, q))
<1> DEFINE f == [x \in Exporters |-> Weight(H[x], p, q)]
           g == [x \in Exporters |-> Weight(G[x], p, q)]
<1>1. \A x \in Exporters : f[x] \in Int /\ g[x] \in Int BY WeightType
<1>2. \A x \in Exporters \ {e} : f[x] = g[x] OBVIOUS
<1>3. f[e] = Weight(H[e], p, q) /\ g[e] = Weight(G[e], p, q) OBVIOUS
<1>4. IsFiniteSet(Exporters) BY PipelineAssumption
<1> HIDE DEF f, g
<1>5. SumFunctionOnSet(g, Exporters) = SumFunctionOnSet(f, Exporters) + (g[e] - f[e])
  BY <1>1, <1>2, <1>4, SumChange
<1> QED BY <1>3, <1>5 DEF f, g, Load

\* The same, of a step.
LEMMA LoadChange ==
  ASSUME PTyped, NEW e \in Exporters, NEW h \in Hands, Becomes(e, h), NEW p, NEW q
  PROVE  Load(handler', p, q) = Load(handler, p, q) + (Weight(h, p, q) - Weight(handler[e], p, q))
<1>1. handler' \in [Exporters -> Hands] /\ handler'[e] = h /\ \A x \in Exporters : x # e => handler'[x] = handler[x]
  BY BecomesType
<1>2. handler \in [Exporters -> Hands] BY DEF PTyped
<1> QED BY <1>1, <1>2, LoadUpdate

\* A call weighs its batch at its own place, and nothing elsewhere.
LEMMA Weights ==
  ASSUME NEW p \in Places, NEW b \in Batches, NEW q \in Queues, NEW w \in BOOLEAN, NEW r \in Places, NEW n
  PROVE  Weight(Call(p, b, q, w), r, n) = IF r = p /\ n = q THEN Size(b) ELSE 0
BY CallFields DEF Weight

\* An idle handler weighs nothing.
LEMMA IdleWeight == \A r, n : Weight(Idle, r, n) = 0
BY DEF Weight

\* What a drain holds is a natural number of bytes.
LEMMA HeldType == ASSUME NEW d \in Drainers PROVE Held(d) \in Nat
<1>1. CASE d.at = "holding"
  <2>1. PICK f \in {Running, Flushing}, i \in QueueItems : d = Holding(f, i) BY <1>1, DrainerKinds
  <2>2. Held(d) = Size(i.batch) BY <1>1, <2>1, DrainerFields DEF Held
  <2> QED BY <2>2, ItemsBatches, SizeType
<1> QED BY <1>1 DEF Held

\* What it holds at each place.
LEMMA HeldValues ==
  /\ Held(Running) = 0 /\ Held(Flushing) = 0 /\ Held(Done) = 0
  /\ \A f, i : Held(Holding(f, i)) = Size(i.batch)
BY DrainerFields DEF Held

\* The terms of the account are numbers.
LEMMA AccountTypes ==
  ASSUME PTyped, NEW n \in Queues
  PROVE  /\ bytes[n] \in Int /\ Queued(queue[n]) \in Int /\ Held(drainer[n]) \in Nat
         /\ \A p : Load(handler, p, n) \in Nat
BY QueuedType, HeldType, LoadType DEF PTyped

\* Every step keeps the account of the bytes: each moves the same size between
\* two of its terms.
LEMMA CountedStep ==
  ASSUME PTyped, Counted, PStep
  PROVE  Counted'
<1> SUFFICES ASSUME NEW n \in Queues
             PROVE  bytes'[n] = Queued(queue'[n]) + Held(drainer'[n]) - Load(handler', "add", n)
  BY DEF Counted
<1> DEFINE x == Load(handler, "add", n)  k == Queued(queue[n])  d == Held(drainer[n])
<1>0. bytes[n] = k + d - x BY DEF Counted
<1>t. bytes[n] \in Int /\ k \in Int /\ d \in Nat /\ x \in Nat BY AccountTypes
<1>p. "check" \in Places /\ "send" \in Places /\ "add" \in Places /\ "wait" \in Places BY DEF Places
<1>u. PTyped => bytes \in [Queues -> Int] /\ queue \in [Queues -> Seq(QueueItems)] /\ drainer \in [Queues -> Drainers] BY DEF PTyped
<1>1. ASSUME NEW e \in Exporters, NEW b \in Batches, Enters(e, b)
      PROVE  bytes'[n] = Queued(queue'[n]) + Held(drainer'[n]) - Load(handler', "add", n)
  <2>0. PICK v \in BOOLEAN : Becomes(e, Call("check", b, 1, v)) BY <1>1 DEF Enters
  <2>1. Load(handler', "add", n) = x + (Weight(Call("check", b, 1, v), "add", n) - Weight(Idle, "add", n))
    BY <1>1, <2>0, <1>p, FirstQueue, HandsType, LoadChange DEF Enters
  <2>2. Weight(Call("check", b, 1, v), "add", n) = 0 /\ Weight(Idle, "add", n) = 0
    BY <1>p, FirstQueue, Weights, IdleWeight
  <2>3. Load(handler', "add", n) = x BY <2>1, <2>2, <1>t
  <2> QED BY <1>1, <2>3, <1>0 DEF Enters, Rest
<1>2. ASSUME NEW e \in Exporters, NEW p \in Places, NEW b \in Batches, NEW q \in Queues, NEW w \in BOOLEAN,
             Waits(e, p, b, q, w)
      PROVE  bytes'[n] = Queued(queue'[n]) + Held(drainer'[n]) - Load(handler', "add", n)
  <2>1. PICK h \in {Idle} \cup {Call(r, b, q, v) : r \in {"wait", "check"}, v \in BOOLEAN} : Becomes(e, h)
    BY <1>2 DEF Waits
  <2>2. h \in Hands /\ Weight(h, "add", n) = 0
    <3>1. CASE h = Idle BY <3>1, HandsType, IdleWeight
    <3>2. ASSUME NEW r \in {"wait", "check"}, NEW v \in BOOLEAN, h = Call(r, b, q, v)
          PROVE  h \in Hands /\ Weight(h, "add", n) = 0
      BY <3>2, <1>p, HandsType, Weights
    <3> QED BY <2>1, <3>1, <3>2
  <2>3. Weight(handler[e], "add", n) = 0 BY <1>2, <1>p, Weights DEF Waits
  <2>4. Load(handler', "add", n) = x + (Weight(h, "add", n) - Weight(handler[e], "add", n)) BY <2>1, <2>2, LoadChange
  <2>5. Load(handler', "add", n) = x BY <2>2, <2>3, <2>4, <1>t
  <2> QED BY <1>2, <2>5, <1>0 DEF Waits, Rest
<1>3. ASSUME NEW e \in Exporters, NEW b \in Batches, NEW q \in Queues, NEW w \in BOOLEAN, Passes(e, b, q, w)
      PROVE  bytes'[n] = Queued(queue'[n]) + Held(drainer'[n]) - Load(handler', "add", n)
  <2>1. Load(handler', "add", n) = x + (Weight(Call("send", b, q, w), "add", n) - Weight(Call("check", b, q, w), "add", n))
    BY <1>3, <1>p, HandsType, LoadChange DEF Passes
  <2>2. Weight(Call("send", b, q, w), "add", n) = 0 /\ Weight(Call("check", b, q, w), "add", n) = 0 BY <1>p, Weights
  <2>3. Load(handler', "add", n) = x BY <2>1, <2>2, <1>t
  <2> QED BY <1>3, <2>3, <1>0 DEF Passes, Rest
<1>4. ASSUME NEW e \in Exporters, NEW b \in Batches, NEW q \in Queues, NEW w \in BOOLEAN, Sends(e, b, q, w)
      PROVE  bytes'[n] = Queued(queue'[n]) + Held(drainer'[n]) - Load(handler', "add", n)
  <2> DEFINE v == IF n = q THEN Size(b) ELSE 0
  <2>1. Load(handler', "add", n) = x + (Weight(Call("add", b, q, w), "add", n) - Weight(Call("send", b, q, w), "add", n))
    BY <1>4, <1>p, HandsType, LoadChange DEF Sends
  <2>2. Weight(Call("add", b, q, w), "add", n) = v /\ Weight(Call("send", b, q, w), "add", n) = 0 BY <1>p, Weights
  <2>3. v \in Nat BY SizeType
  <2>4. Load(handler', "add", n) = x + v BY <2>1, <2>2, <2>3, <1>t
  <2>5. Queued(queue'[n]) = k + v
    <3>1. CASE n # q
      <4>1. queue'[n] = queue[n] BY <1>4, <3>1, <1>u DEF Sends
      <4> QED BY <4>1, <3>1, <1>t
    <3>2. CASE n = q
      <4>1. queue'[n] = Append(queue[n], ItemOf(b)) BY <1>4, <3>2, <1>u DEF Sends
      <4>2. ItemOf(b) \in QueueItems /\ ItemOf(b).batch = b BY ItemFields DEF QueueItems
      <4>3. Queued(queue'[n]) = k + Size(b) BY <4>1, <4>2, <1>u, QueuedAppend
      <4> QED BY <4>3, <3>2
    <3> QED BY <3>1, <3>2
  <2>6. bytes'[n] = bytes[n] /\ Held(drainer'[n]) = d BY <1>4 DEF Sends, Rest
  <2> HIDE DEF v, x, k, d
  <2> QED BY <2>3, <2>4, <2>5, <2>6, <1>0, <1>t
<1>5. ASSUME NEW e \in Exporters, NEW b \in Batches, NEW q \in Queues, NEW w \in BOOLEAN, Adds(e, b, q, w)
      PROVE  bytes'[n] = Queued(queue'[n]) + Held(drainer'[n]) - Load(handler', "add", n)
  <2> DEFINE v == IF n = q THEN Size(b) ELSE 0
  <2>1. \E h : Becomes(e, h) /\ h \in Hands /\ Weight(h, "add", n) = 0
    <3>1. ASSUME q + 1 \in Queues, NEW u \in BOOLEAN, Becomes(e, Call("check", b, q + 1, u))
          PROVE  \E h : Becomes(e, h) /\ h \in Hands /\ Weight(h, "add", n) = 0
      <4> DEFINE m == q + 1
      <4>1. m \in Queues BY <3>1
      <4> HIDE DEF m
      <4>2. Call("check", b, m, u) \in Hands /\ Weight(Call("check", b, m, u), "add", n) = 0
        BY <4>1, <1>p, HandsType, Weights
      <4> QED BY <3>1, <4>2 DEF m
    <3>2. CASE Becomes(e, Idle) BY <3>2, HandsType, IdleWeight
    <3> QED BY <1>5, <3>1, <3>2 DEF Adds
  <2>a. PICK h : Becomes(e, h) /\ h \in Hands /\ Weight(h, "add", n) = 0 BY <2>1
  <2>2. Load(handler', "add", n) = x + (Weight(h, "add", n) - Weight(Call("add", b, q, w), "add", n))
    BY <1>5, <2>a, LoadChange DEF Adds
  <2>3. Weight(Call("add", b, q, w), "add", n) = v /\ v \in Nat BY <1>p, Weights, SizeType
  <2>4. Load(handler', "add", n) = x - v BY <2>a, <2>2, <2>3, <1>t
  <2>5. bytes'[n] = bytes[n] + v BY <1>5, <1>u, <1>t, SizeType DEF Adds
  <2>6. Queued(queue'[n]) = k /\ Held(drainer'[n]) = d BY <1>5 DEF Adds, Rest
  <2> HIDE DEF v, x, k, d
  <2> QED BY <2>3, <2>4, <2>5, <2>6, <1>0, <1>t
<1>6. ASSUME NEW q \in Queues, Takes(q)
      PROVE  bytes'[n] = Queued(queue'[n]) + Held(drainer'[n]) - Load(handler', "add", n)
  <2>1. bytes'[n] = bytes[n] /\ Load(handler', "add", n) = x BY <1>6 DEF Takes
  <2>2. CASE n # q
    <3>1. queue'[n] = queue[n] /\ drainer'[n] = drainer[n] BY <1>6, <2>2, <1>u DEF Takes
    <3> QED BY <2>1, <3>1, <1>0
  <2>3. CASE n = q
    <3> DEFINE v == Size(Head(queue[n]).batch)
    <3>1. queue'[n] = Tail(queue[n]) /\ drainer'[n] = Holding(drainer[n], Head(queue[n])) /\ queue[n] # <<>>
      BY <1>6, <2>3, <1>u DEF Takes
    <3>2. Queued(queue'[n]) = k - v BY <3>1, <1>u, QueuedTail
    <3>3. Held(drainer'[n]) = v BY <3>1, HeldValues
    <3>4. d = 0 BY <1>6, <2>3, HeldValues DEF Takes
    <3>5. v \in Nat BY <3>1, <1>u, ItemsBatches, SizeType
    <3> HIDE DEF v, x, k, d
    <3> QED BY <2>1, <3>2, <3>3, <3>4, <3>5, <1>0, <1>t
  <2> QED BY <2>2, <2>3
<1>7. ASSUME NEW q \in Queues, Closes(q)
      PROVE  bytes'[n] = Queued(queue'[n]) + Held(drainer'[n]) - Load(handler', "add", n)
  <2>1. bytes'[n] = bytes[n] /\ Load(handler', "add", n) = x /\ Queued(queue'[n]) = k BY <1>7 DEF Closes
  <2>2. Held(drainer'[n]) = d
    <3>1. CASE n # q BY <1>7, <3>1, <1>u DEF Closes
    <3>2. CASE n = q
      <4>1. drainer[n] \in {Running, Flushing} /\ drainer'[n] \in {Flushing, Done} BY <1>7, <3>2, <1>u DEF Closes
      <4> QED BY <4>1, HeldValues
    <3> QED BY <3>1, <3>2
  <2> QED BY <2>1, <2>2, <1>0
<1>8. ASSUME NEW q \in Queues, NEW f \in {Running, Flushing}, NEW i \in QueueItems, Consumes(q, f, i)
      PROVE  bytes'[n] = Queued(queue'[n]) + Held(drainer'[n]) - Load(handler', "add", n)
  <2>1. Load(handler', "add", n) = x /\ Queued(queue'[n]) = k BY <1>8 DEF Consumes
  <2>2. CASE n # q
    <3>1. bytes'[n] = bytes[n] /\ drainer'[n] = drainer[n] BY <1>8, <2>2, <1>u DEF Consumes
    <3> QED BY <2>1, <3>1, <1>0
  <2>3. CASE n = q
    <3> DEFINE v == Size(i.batch)
    <3>1. bytes'[n] = bytes[n] - v /\ drainer'[n] = f /\ drainer[n] = Holding(f, i)
      BY <1>8, <2>3, <1>u DEF Consumes
    <3>2. d = v /\ Held(drainer'[n]) = 0 BY <3>1, HeldValues
    <3>3. v \in Nat BY ItemsBatches, SizeType
    <3> HIDE DEF v, x, k, d
    <3> QED BY <2>1, <3>1, <3>2, <3>3, <1>0, <1>t
  <2> QED BY <2>2, <2>3
<1>9. CASE Controls
  BY <1>9, <1>0 DEF Controls
<1> QED BY <1>1, <1>2, <1>3, <1>4, <1>5, <1>6, <1>7, <1>8, <1>9 DEF PStep

-----------------------------------------------------------------------------
(* The overshoot. *)

\* There is a largest batch, which bounds the others.
LEMMA LargestBounds == Largest \in Nat /\ \A b \in Batches : Size(b) <= Largest
<1> DEFINE f == [b \in Batches |-> Size(b)]  S == {Size(b) : b \in Batches}
<1>1. S \subseteq Nat /\ S # {} BY SizeType, PipelineAssumption
<1>2. \E m \in Nat : \A s \in S : s <= m
  <2>1. IsFiniteSet(Batches) BY PipelineAssumption
  <2>2. \A b \in Batches : f[b] \in Nat /\ f[b] = Size(b) BY SizeType
  <2> DEFINE m == SumFunctionOnSet(f, Batches)
  <2>3. m \in Nat
    <3> HIDE DEF f
    <3> QED BY <2>1, <2>2, SumNatural
  <2>4. \A b \in Batches : Size(b) <= m
    <3> TAKE b \in Batches
    <3> HIDE DEF f
    <3>1. m = f[b] + SumFunctionOnSet(f, Batches \ {b}) BY <2>1, <2>2, SumRemove
    <3>2. SumFunctionOnSet(f, Batches \ {b}) \in Nat
      <4>1. IsFiniteSet(Batches \ {b}) BY <2>1, FS_Subset
      <4> QED BY <4>1, <2>2, SumNatural
    <3>3. f[b] \in Nat /\ f[b] = Size(b) BY <2>2
    <3> HIDE DEF m
    <3> QED BY <3>1, <3>2, <3>3
  <2> HIDE DEF m
  <2> QED BY <2>3, <2>4
<1>3. \E m \in S : \A s \in S : s <= m
  <2> DEFINE B == {m \in Nat : \A s \in S : s <= m}
  <2>1. B \subseteq Nat /\ B # {} BY <1>2
  <2>2. PICK m \in B : \A k \in B : ~(k < m)
    <3> DEFINE R == {ss \in Nat \X Nat : ss[1] < ss[2]}
    <3>1. IsWellFoundedOn(R, Nat) BY LessWellFounded
    <3> HIDE DEF B, R
    <3>2. PICK m \in B : \A k \in B : <<k, m>> \notin R BY <3>1, <2>1, WFMin
    <3>3. \A k \in B : ~(k < m) BY <3>2, <2>1 DEF R
    <3> QED BY <3>3
  <2>3. m \in Nat /\ \A s \in S : s <= m BY <2>2
  <2>4. m \in S
    <3> SUFFICES ASSUME m \notin S PROVE FALSE
      OBVIOUS
    <3> HIDE DEF S
    <3>1. \A s \in S : s <= m - 1 /\ s >= 0 BY <1>1, <2>3
    <3>2. m - 1 \in Nat
      <4>1. PICK s \in S : TRUE BY <1>1
      <4>2. s \in Nat /\ m \in Nat /\ s <= m - 1 BY <4>1, <1>1, <2>3, <3>1
      <4> QED BY <4>2
    <3>3. m - 1 \in B BY <3>1, <3>2
    <3> QED BY <2>2, <2>3, <3>3
  <2> QED BY <2>3, <2>4
<1>4. Largest \in S /\ \A s \in S : Largest >= s
  <2> HIDE DEF S
  <2>1. \E m \in S : \A s \in S : m >= s BY <1>1, <1>3
  <2>2. Max(S) \in S /\ \A s \in S : Max(S) >= s BY <2>1 DEF Max
  <2> QED BY <2>2 DEF Largest, S
<1> QED BY <1>1, <1>4

\* The overshoot is a natural number.
LEMMA SlackType == Slack \in Nat
<1>1. Cardinality(Exporters) \in Nat /\ Cardinality(Exporters) # 0
  BY PipelineAssumption, FS_CardinalityType, FS_EmptySet
<1> DEFINE c == Cardinality(Exporters) - 1
<1>2. c \in Nat BY <1>1
<1> HIDE DEF c
<1>3. c * Largest \in Nat BY <1>2, LargestBounds
<1> QED BY <1>3 DEF Slack, c

\* The calls but one overshoot, each by its own batch.
LEMMA Overshoot ==
  ASSUME PTyped, NEW e \in Exporters, NEW n \in Queues,
         Weight(handler[e], "send", n) = 0, Weight(handler[e], "add", n) = 0
  PROVE  Load(handler, "send", n) + Load(handler, "add", n) <= Slack
<1> DEFINE f == [x \in Exporters |-> Weight(handler[x], "send", n)]
           g == [x \in Exporters |-> Weight(handler[x], "add", n)]
           h == [x \in Exporters |-> f[x] + g[x]]
           O == Exporters \ {e}
<1>1. \A x \in Exporters : f[x] \in Nat /\ g[x] \in Nat BY WeightType DEF PTyped
<1>2. \A x \in Exporters : f[x] + g[x] <= Largest
  <2> TAKE x \in Exporters
  <2>1. CASE handler[x] = Idle BY <2>1, IdleWeight, LargestBounds
  <2>2. CASE handler[x] # Idle
    <3>1. PICK p \in Places, b \in Batches, q \in Queues, w \in BOOLEAN : handler[x] = Call(p, b, q, w)
      BY <2>2, CallOf
    <3>2. "send" \in Places /\ "add" \in Places BY DEF Places
    <3>3. /\ f[x] = IF "send" = p /\ n = q THEN Size(b) ELSE 0
          /\ g[x] = IF "add" = p /\ n = q THEN Size(b) ELSE 0
      BY <3>1, <3>2, Weights
    <3>4. Size(b) \in Nat /\ Size(b) <= Largest /\ Largest \in Nat BY LargestBounds, SizeType
    <3> HIDE DEF f, g
    <3> QED BY <3>3, <3>4
  <2> QED BY <2>1, <2>2
<1>3. \A x \in Exporters : h[x] = f[x] + g[x] OBVIOUS
<1>4. f[e] = 0 /\ g[e] = 0 OBVIOUS
<1>5. Load(handler, "send", n) = SumFunctionOnSet(f, Exporters) /\ Load(handler, "add", n) = SumFunctionOnSet(g, Exporters)
  BY DEF Load
<1> HIDE DEF f, g, h
<1>6. IsFiniteSet(Exporters) BY PipelineAssumption
<1>7. \A x \in Exporters : f[x] \in Int /\ g[x] \in Int /\ h[x] \in Int BY <1>1, <1>3
<1>8. SumFunctionOnSet(h, Exporters) = SumFunctionOnSet(f, Exporters) + SumFunctionOnSet(g, Exporters)
  BY <1>3, <1>6, <1>7, SumPlus
<1>9. SumFunctionOnSet(h, Exporters) = SumFunctionOnSet(h, O)
  <2>1. \A x \in Exporters \ O : h[x] = 0 BY <1>3, <1>4
  <2>2. O \in SUBSET Exporters OBVIOUS
  <2> HIDE DEF O
  <2> QED BY <2>1, <2>2, <1>6, <1>7, SumWithin
<1>10. SumFunctionOnSet(h, O) <= Cardinality(O) * Largest
  <2>1. IsFiniteSet(O) BY <1>6, FS_Subset
  <2>2. \A x \in O : h[x] \in Int /\ h[x] <= Largest BY <1>2, <1>3, <1>7
  <2>3. Largest \in Int BY LargestBounds
  <2> HIDE DEF O
  <2> QED BY <2>1, <2>2, <2>3, SumBound
<1>11. Cardinality(O) = Cardinality(Exporters) - 1 BY <1>6, FS_RemoveElement
<1> QED BY <1>5, <1>8, <1>9, <1>10, <1>11 DEF Slack

\* Every step keeps the bound: a call that passes the check sees a counter that
\* lacks at most what the others are about to add.
LEMMA BoundedStep ==
  ASSUME PTyped, Counted, Bounded, PStep
  PROVE  Bounded'
<1> DEFINE K == MaxBytes + Slack
<1> SUFFICES ASSUME MaxBytes > 0, NEW n \in Queues
             PROVE  Queued(queue'[n]) + Held(drainer'[n]) + Load(handler', "send", n) <= K
  BY DEF Bounded
<1> DEFINE x == Load(handler, "send", n)  k == Queued(queue[n])  d == Held(drainer[n])
<1>0. k + d + x <= K BY DEF Bounded
<1>t. bytes[n] \in Int /\ k \in Int /\ d \in Nat /\ x \in Nat /\ K \in Int
  BY AccountTypes, SlackType, PipelineAssumption
<1>p. "check" \in Places /\ "send" \in Places /\ "add" \in Places /\ "wait" \in Places BY DEF Places
<1>u. bytes \in [Queues -> Int] /\ queue \in [Queues -> Seq(QueueItems)] /\ drainer \in [Queues -> Drainers] BY DEF PTyped
<1> HIDE DEF K
\* A call that goes anywhere but to the channel takes none of the room.
<1>a. ASSUME NEW e \in Exporters, NEW h \in Hands, Becomes(e, h), Weight(h, "send", n) = 0
      PROVE  Load(handler', "send", n) \in Nat /\ Load(handler', "send", n) <= x
  <2>1. Load(handler', "send", n) = x + (Weight(h, "send", n) - Weight(handler[e], "send", n)) BY <1>a, LoadChange
  <2>2. Weight(handler[e], "send", n) \in Nat BY WeightType DEF PTyped
  <2>3. handler' \in [Exporters -> Hands] BY <1>a, BecomesType
  <2>4. Load(handler', "send", n) \in Nat BY <2>3, LoadType
  <2> HIDE DEF x
  <2> QED BY <2>1, <2>2, <2>4, <1>a, <1>t
<1>1. ASSUME NEW e \in Exporters, NEW b \in Batches, Enters(e, b)
      PROVE  Queued(queue'[n]) + Held(drainer'[n]) + Load(handler', "send", n) <= K
  <2>0. PICK v \in BOOLEAN : Becomes(e, Call("check", b, 1, v)) BY <1>1 DEF Enters
  <2>1. Call("check", b, 1, v) \in Hands /\ Weight(Call("check", b, 1, v), "send", n) = 0
    BY <1>p, FirstQueue, Weights, HandsType
  <2>2. Load(handler', "send", n) \in Nat /\ Load(handler', "send", n) <= x BY <2>0, <2>1, <1>a
  <2>3. Queued(queue'[n]) = k /\ Held(drainer'[n]) = d BY <1>1 DEF Enters, Rest
  <2> HIDE DEF x, k, d
  <2> QED BY <2>2, <2>3, <1>0, <1>t
<1>2. ASSUME NEW e \in Exporters, NEW p \in Places, NEW b \in Batches, NEW q \in Queues, NEW w \in BOOLEAN,
             Waits(e, p, b, q, w)
      PROVE  Queued(queue'[n]) + Held(drainer'[n]) + Load(handler', "send", n) <= K
  <2>1. PICK h \in {Idle} \cup {Call(r, b, q, v) : r \in {"wait", "check"}, v \in BOOLEAN} : Becomes(e, h)
    BY <1>2 DEF Waits
  <2>2. h \in Hands /\ Weight(h, "send", n) = 0
    <3>1. CASE h = Idle BY <3>1, HandsType, IdleWeight
    <3>2. ASSUME NEW r \in {"wait", "check"}, NEW v \in BOOLEAN, h = Call(r, b, q, v)
          PROVE  h \in Hands /\ Weight(h, "send", n) = 0
      BY <3>2, <1>p, HandsType, Weights
    <3> QED BY <2>1, <3>1, <3>2
  <2>3. Load(handler', "send", n) \in Nat /\ Load(handler', "send", n) <= x BY <2>1, <2>2, <1>a
  <2>4. Queued(queue'[n]) = k /\ Held(drainer'[n]) = d BY <1>2 DEF Waits, Rest
  <2> HIDE DEF x, k, d
  <2> QED BY <2>3, <2>4, <1>0, <1>t
<1>3. ASSUME NEW e \in Exporters, NEW b \in Batches, NEW q \in Queues, NEW w \in BOOLEAN, Passes(e, b, q, w)
      PROVE  Queued(queue'[n]) + Held(drainer'[n]) + Load(handler', "send", n) <= K
  <2> DEFINE v == IF n = q THEN Size(b) ELSE 0  y == Load(handler, "add", n)
  <2>1. Load(handler', "send", n) = x + (Weight(Call("send", b, q, w), "send", n) - Weight(Call("check", b, q, w), "send", n))
    BY <1>3, <1>p, HandsType, LoadChange DEF Passes
  <2>2. Weight(Call("send", b, q, w), "send", n) = v /\ Weight(Call("check", b, q, w), "send", n) = 0 BY <1>p, Weights
  <2>3. v \in Nat /\ y \in Nat BY SizeType, AccountTypes
  <2>4. Load(handler', "send", n) = x + v BY <2>1, <2>2, <2>3, <1>t
  <2>5. Queued(queue'[n]) = k /\ Held(drainer'[n]) = d BY <1>3 DEF Passes, Rest
  <2>6. CASE n # q
    <3>1. v = 0 BY <2>6
    <3> HIDE DEF v, x, k, d
    <3> QED BY <3>1, <2>4, <2>5, <1>0, <1>t
  <2>7. CASE n = q
    <3>1. bytes[n] + v <= MaxBytes BY <1>3, <2>7 DEF Passes
    <3>2. bytes[n] = k + d - y BY DEF Counted
    <3>3. x + y <= Slack
      <4>1. Weight(handler[e], "send", n) = 0 /\ Weight(handler[e], "add", n) = 0 BY <1>3, <1>p, Weights DEF Passes
      <4> QED BY <4>1, Overshoot
    <3>4. Slack \in Int /\ MaxBytes \in Int BY SlackType, PipelineAssumption
    <3> HIDE DEF v, x, k, d, y
    <3> QED BY <3>1, <3>2, <3>3, <3>4, <2>3, <2>4, <2>5, <1>t DEF K
  <2> QED BY <2>6, <2>7
<1>4. ASSUME NEW e \in Exporters, NEW b \in Batches, NEW q \in Queues, NEW w \in BOOLEAN, Sends(e, b, q, w)
      PROVE  Queued(queue'[n]) + Held(drainer'[n]) + Load(handler', "send", n) <= K
  <2> DEFINE v == IF n = q THEN Size(b) ELSE 0
  <2>1. Load(handler', "send", n) = x + (Weight(Call("add", b, q, w), "send", n) - Weight(Call("send", b, q, w), "send", n))
    BY <1>4, <1>p, HandsType, LoadChange DEF Sends
  <2>2. Weight(Call("add", b, q, w), "send", n) = 0 /\ Weight(Call("send", b, q, w), "send", n) = v BY <1>p, Weights
  <2>3. v \in Nat BY SizeType
  <2>4. Load(handler', "send", n) = x - v BY <2>1, <2>2, <2>3, <1>t
  <2>5. Queued(queue'[n]) = k + v
    <3>1. CASE n # q
      <4>1. queue'[n] = queue[n] BY <1>4, <3>1, <1>u DEF Sends
      <4> QED BY <4>1, <3>1, <1>t
    <3>2. CASE n = q
      <4>1. queue'[n] = Append(queue[n], ItemOf(b)) BY <1>4, <3>2, <1>u DEF Sends
      <4>2. ItemOf(b) \in QueueItems /\ ItemOf(b).batch = b BY ItemFields DEF QueueItems
      <4>3. Queued(queue'[n]) = k + Size(b) BY <4>1, <4>2, <1>u, QueuedAppend
      <4> QED BY <4>3, <3>2
    <3> QED BY <3>1, <3>2
  <2>6. Held(drainer'[n]) = d BY <1>4 DEF Sends, Rest
  <2> HIDE DEF v, x, k, d
  <2> QED BY <2>3, <2>4, <2>5, <2>6, <1>0, <1>t
<1>5. ASSUME NEW e \in Exporters, NEW b \in Batches, NEW q \in Queues, NEW w \in BOOLEAN, Adds(e, b, q, w)
      PROVE  Queued(queue'[n]) + Held(drainer'[n]) + Load(handler', "send", n) <= K
  <2>1. \E h : Becomes(e, h) /\ h \in Hands /\ Weight(h, "send", n) = 0
    <3>1. ASSUME q + 1 \in Queues, NEW v \in BOOLEAN, Becomes(e, Call("check", b, q + 1, v))
          PROVE  \E h : Becomes(e, h) /\ h \in Hands /\ Weight(h, "send", n) = 0
      <4> DEFINE m == q + 1
      <4>1. m \in Queues BY <3>1
      <4> HIDE DEF m
      <4>2. Call("check", b, m, v) \in Hands /\ Weight(Call("check", b, m, v), "send", n) = 0
        BY <4>1, <1>p, HandsType, Weights
      <4> QED BY <3>1, <4>2 DEF m
    <3>2. CASE Becomes(e, Idle) BY <3>2, HandsType, IdleWeight
    <3> QED BY <1>5, <3>1, <3>2 DEF Adds
  <2>2. Load(handler', "send", n) \in Nat /\ Load(handler', "send", n) <= x BY <2>1, <1>a
  <2>3. Queued(queue'[n]) = k /\ Held(drainer'[n]) = d BY <1>5 DEF Adds, Rest
  <2> HIDE DEF x, k, d
  <2> QED BY <2>2, <2>3, <1>0, <1>t
<1>6. ASSUME NEW q \in Queues, Takes(q)
      PROVE  Queued(queue'[n]) + Held(drainer'[n]) + Load(handler', "send", n) <= K
  <2>1. Load(handler', "send", n) = x BY <1>6 DEF Takes
  <2>2. CASE n # q
    <3>1. queue'[n] = queue[n] /\ drainer'[n] = drainer[n] BY <1>6, <2>2, <1>u DEF Takes
    <3> QED BY <2>1, <3>1, <1>0
  <2>3. CASE n = q
    <3> DEFINE v == Size(Head(queue[n]).batch)
    <3>1. queue'[n] = Tail(queue[n]) /\ drainer'[n] = Holding(drainer[n], Head(queue[n])) /\ queue[n] # <<>>
      BY <1>6, <2>3, <1>u DEF Takes
    <3>2. Queued(queue'[n]) = k - v BY <3>1, <1>u, QueuedTail
    <3>3. Held(drainer'[n]) = v BY <3>1, HeldValues
    <3>4. d = 0 BY <1>6, <2>3, HeldValues DEF Takes
    <3>5. v \in Nat BY <3>1, <1>u, ItemsBatches, SizeType
    <3> HIDE DEF v, x, k, d
    <3> QED BY <2>1, <3>2, <3>3, <3>4, <3>5, <1>0, <1>t
  <2> QED BY <2>2, <2>3
<1>7. ASSUME NEW q \in Queues, Closes(q)
      PROVE  Queued(queue'[n]) + Held(drainer'[n]) + Load(handler', "send", n) <= K
  <2>1. Load(handler', "send", n) = x /\ Queued(queue'[n]) = k BY <1>7 DEF Closes
  <2>2. Held(drainer'[n]) = d
    <3>1. CASE n # q BY <1>7, <3>1, <1>u DEF Closes
    <3>2. CASE n = q
      <4>1. drainer[n] \in {Running, Flushing} /\ drainer'[n] \in {Flushing, Done} BY <1>7, <3>2, <1>u DEF Closes
      <4> QED BY <4>1, HeldValues
    <3> QED BY <3>1, <3>2
  <2> QED BY <2>1, <2>2, <1>0
<1>8. ASSUME NEW q \in Queues, NEW f \in {Running, Flushing}, NEW i \in QueueItems, Consumes(q, f, i)
      PROVE  Queued(queue'[n]) + Held(drainer'[n]) + Load(handler', "send", n) <= K
  <2>1. Load(handler', "send", n) = x /\ Queued(queue'[n]) = k BY <1>8 DEF Consumes
  <2>2. CASE n # q
    <3>1. drainer'[n] = drainer[n] BY <1>8, <2>2, <1>u DEF Consumes
    <3> QED BY <2>1, <3>1, <1>0
  <2>3. CASE n = q
    <3>1. drainer'[n] = f BY <1>8, <2>3, <1>u DEF Consumes
    <3>2. Held(drainer'[n]) = 0 BY <3>1, HeldValues
    <3> HIDE DEF x, k, d
    <3> QED BY <2>1, <3>2, <1>0, <1>t
  <2> QED BY <2>2, <2>3
<1>9. CASE Controls
  BY <1>9, <1>0 DEF Controls
<1> QED BY <1>1, <1>2, <1>3, <1>4, <1>5, <1>6, <1>7, <1>8, <1>9 DEF PStep

-----------------------------------------------------------------------------
(* No batch is handled twice at a time, nor once it is acknowledged. *)

\* A call that goes on or ends keeps Alone.
LEMMA SameBatchAlone ==
  ASSUME PTyped, Alone, NEW e \in Exporters, NEW h \in Hands, Becomes(e, h), handler[e] # Idle,
         h = Idle \/ h.batch = handler[e].batch,
         acked' = acked \/ (h = Idle /\ acked' = acked \cup {handler[e].batch})
  PROVE  Alone'
<1>1. handler'[e] = h /\ \A x \in Exporters : x # e => handler'[x] = handler[x] BY BecomesType
<1>2. ASSUME NEW x \in Exporters, handler'[x] # Idle PROVE handler'[x].batch \notin acked'
  <2>1. CASE x = e BY <2>1, <1>1, <1>2 DEF Alone
  <2>2. CASE x # e BY <2>2, <1>1, <1>2 DEF Alone
  <2> QED BY <2>1, <2>2
<1>3. ASSUME NEW x \in Exporters, NEW y \in Exporters, x # y, handler'[x] # Idle, handler'[y] # Idle
      PROVE  handler'[x].batch # handler'[y].batch
  <2>1. CASE x = e BY <2>1, <1>1, <1>3 DEF Alone
  <2>2. CASE y = e BY <2>2, <1>1, <1>3 DEF Alone
  <2>3. CASE x # e /\ y # e BY <2>3, <1>1, <1>3 DEF Alone
  <2> QED BY <2>1, <2>2, <2>3
<1> QED BY <1>2, <1>3 DEF Alone

\* A call that is not finished keeps its batch.
Keeps(e, b) ==
  \E h \in Hands :
     /\ Becomes(e, h)
     /\ h = Idle \/ h.batch = b
     /\ acked' = acked \/ (h = Idle /\ acked' = acked \cup {b})

\* A step of a call goes on with its batch, or ends.
LEMMA CallBecomes ==
  ASSUME PTyped, NEW e \in Exporters, NEW p \in Places, NEW b \in Batches, NEW q \in Queues, NEW w \in BOOLEAN,
         Waits(e, p, b, q, w) \/ Passes(e, b, q, w) \/ Sends(e, b, q, w) \/ Adds(e, b, q, w)
  PROVE  /\ handler[e] # Idle /\ handler[e].batch = b
         /\ Keeps(e, b)
<1>p. "check" \in Places /\ "send" \in Places /\ "add" \in Places /\ "wait" \in Places BY DEF Places
<1>1. CASE Waits(e, p, b, q, w)
  <2>1. handler[e] # Idle /\ handler[e].batch = b BY <1>1, CallFields DEF Waits
  <2>2. acked' = acked BY <1>1 DEF Waits
  <2>3. CASE Becomes(e, Idle) BY <2>1, <2>2, <2>3, HandsType DEF Keeps
  <2>4. ASSUME NEW x \in {"wait", "check"}, NEW v \in BOOLEAN, Becomes(e, Call(x, b, q, v))
        PROVE  Keeps(e, b)
    <3>1. Call(x, b, q, v) \in Hands /\ Call(x, b, q, v).batch = b BY <1>p, HandsType, CallFields
    <3> QED BY <3>1, <2>4, <2>2 DEF Keeps
  <2> QED BY <1>1, <2>1, <2>3, <2>4 DEF Waits
<1>2. CASE Passes(e, b, q, w)
  <2>1. Call("send", b, q, w) \in Hands /\ Call("send", b, q, w).batch = b BY <1>p, HandsType, CallFields
  <2>2. handler[e] # Idle /\ handler[e].batch = b BY <1>2, <1>p, CallFields DEF Passes
  <2> QED BY <1>2, <2>1, <2>2 DEF Passes, Keeps
<1>3. CASE Sends(e, b, q, w)
  <2>1. Call("add", b, q, w) \in Hands /\ Call("add", b, q, w).batch = b BY <1>p, HandsType, CallFields
  <2>2. handler[e] # Idle /\ handler[e].batch = b BY <1>3, <1>p, CallFields DEF Sends
  <2> QED BY <1>3, <2>1, <2>2 DEF Sends, Keeps
<1>4. CASE Adds(e, b, q, w)
  <2>1. handler[e] # Idle /\ handler[e].batch = b BY <1>4, <1>p, CallFields DEF Adds
  <2>2. ASSUME Becomes(e, Idle), acked' = acked \cup {b}
        PROVE  Keeps(e, b)
    <3>1. Idle \in Hands BY HandsType
    <3> DEFINE h == Idle
    <3>2. h \in Hands /\ Becomes(e, h) /\ h = Idle BY <3>1, <2>2
    <3> QED BY <3>2, <2>2 DEF Keeps
  <2>3. ASSUME q + 1 \in Queues, NEW v \in BOOLEAN, Becomes(e, Call("check", b, q + 1, v)), acked' = acked
        PROVE  Keeps(e, b)
    <3> DEFINE m == q + 1
    <3>1. m \in Queues BY <2>3
    <3> HIDE DEF m
    <3>2. Call("check", b, m, v) \in Hands /\ Call("check", b, m, v).batch = b BY <3>1, <1>p, HandsType, CallFields
    <3> QED BY <3>2, <2>3 DEF m, Keeps
  <2> QED BY <1>4, <2>1, <2>2, <2>3 DEF Adds
<1> QED BY <1>1, <1>2, <1>3, <1>4

\* Every step keeps Alone: Export takes a batch that no call has.
LEMMA AloneStep ==
  ASSUME PTyped, Alone, PStep
  PROVE  Alone'
<1>1. ASSUME NEW e \in Exporters, NEW b \in Batches, Enters(e, b) PROVE Alone'
  <2>0. PICK v \in BOOLEAN : Becomes(e, Call("check", b, 1, v)) BY <1>1 DEF Enters
  <2>1. "check" \in Places BY DEF Places
  <2>2. Call("check", b, 1, v) \in Hands /\ Call("check", b, 1, v).batch = b
    BY <2>1, FirstQueue, HandsType, CallFields
  <2>3. /\ handler'[e].batch = b /\ \A x \in Exporters : x # e => handler'[x] = handler[x]
    BY <2>0, <2>2, BecomesType
  <2>4. acked' = acked /\ b \notin acked /\ \A x \in Exporters : handler[x] # Idle => handler[x].batch # b
    BY <1>1 DEF Enters, BeingHandled
  <2>5. ASSUME NEW x \in Exporters, handler'[x] # Idle PROVE handler'[x].batch \notin acked'
    <3>1. CASE x = e BY <3>1, <2>3, <2>4
    <3>2. CASE x # e BY <3>2, <2>3, <2>4, <2>5 DEF Alone
    <3> QED BY <3>1, <3>2
  <2>6. ASSUME NEW x \in Exporters, NEW y \in Exporters, x # y, handler'[x] # Idle, handler'[y] # Idle
        PROVE  handler'[x].batch # handler'[y].batch
    <3>1. CASE x = e BY <3>1, <2>3, <2>4, <2>6
    <3>2. CASE y = e BY <3>2, <2>3, <2>4, <2>6
    <3>3. CASE x # e /\ y # e BY <3>3, <2>3, <2>6 DEF Alone
    <3> QED BY <3>1, <3>2, <3>3
  <2> QED BY <2>5, <2>6 DEF Alone
<1>2. ASSUME NEW e \in Exporters, NEW p \in Places, NEW b \in Batches, NEW q \in Queues, NEW w \in BOOLEAN,
             Waits(e, p, b, q, w) \/ Passes(e, b, q, w) \/ Sends(e, b, q, w) \/ Adds(e, b, q, w)
      PROVE  Alone'
  <2>1. handler[e] # Idle /\ handler[e].batch = b /\ Keeps(e, b) BY <1>2, CallBecomes
  <2>2. PICK h \in Hands : /\ Becomes(e, h) /\ (h = Idle \/ h.batch = b)
                           /\ acked' = acked \/ (h = Idle /\ acked' = acked \cup {b})
    BY <2>1 DEF Keeps
  <2>3. h = Idle \/ h.batch = handler[e].batch BY <2>1, <2>2
  <2>4. acked' = acked \/ (h = Idle /\ acked' = acked \cup {handler[e].batch}) BY <2>1, <2>2
  <2>5. Becomes(e, h) /\ handler[e] # Idle BY <2>1, <2>2
  <2> QED BY <2>3, <2>4, <2>5, SameBatchAlone
<1>3. ASSUME UNCHANGED <<handler, acked>> PROVE Alone' BY <1>3 DEF Alone
<1>4. ASSUME NEW q \in Queues, Takes(q) \/ Closes(q) PROVE UNCHANGED <<handler, acked>> BY <1>4 DEF Takes, Closes
<1>5. ASSUME NEW q \in Queues, NEW f, NEW i, Consumes(q, f, i) PROVE UNCHANGED <<handler, acked>> BY <1>5 DEF Consumes
<1>6. CASE Controls BY <1>6, <1>3 DEF Controls
<1> QED BY <1>1, <1>2, <1>3, <1>4, <1>5, <1>6 DEF PStep

-----------------------------------------------------------------------------
(* What has reached a queue stays there or goes to its sink. *)

\* A send adds its batch to the names of the queue.
LEMMA NamesAppend == ASSUME NEW s \in Seq(QueueItems), NEW i PROVE Names(Append(s, i)) = Names(s) \cup {i.batch}
<1> DEFINE t == Append(s, i)
<1>1. /\ DOMAIN s = 1 .. Len(s) /\ DOMAIN t = 1 .. Len(s) + 1 /\ Len(s) \in Nat
      /\ \A k \in 1 .. Len(s) : t[k] = s[k]
      /\ t[Len(s) + 1] = i
  OBVIOUS
<1> HIDE DEF t
<1>2. \A k \in 1 .. Len(s) + 1 : k \in 1 .. Len(s) \/ k = Len(s) + 1 BY <1>1
<1>3. \A k \in 1 .. Len(s) : k \in 1 .. Len(s) + 1 BY <1>1
<1>4. Len(s) + 1 \in 1 .. Len(s) + 1 BY <1>1
<1>5. Names(t) \subseteq Names(s) \cup {i.batch} BY <1>1, <1>2 DEF Names
<1>6. Names(s) \subseteq Names(t) BY <1>1, <1>3 DEF Names
<1>7. i.batch \in Names(t)
  <2>1. t[Len(s) + 1].batch \in Names(t) BY <1>1, <1>4 DEF Names
  <2> QED BY <2>1, <1>1
<1> QED BY <1>5, <1>6, <1>7 DEF t

\* A take removes at most that of the head.
LEMMA NamesTail ==
  ASSUME NEW s \in Seq(QueueItems), s # <<>>
  PROVE  Names(s) = Names(Tail(s)) \cup {Head(s).batch}
<1> DEFINE t == Tail(s)  n == Len(s) - 1
<1>1. /\ DOMAIN s = 1 .. n + 1 /\ DOMAIN t = 1 .. n /\ n \in Nat
      /\ \A k \in 1 .. n : t[k] = s[k + 1]
      /\ s[1] = Head(s)
  OBVIOUS
<1> HIDE DEF t, n
<1>2. \A k \in 1 .. n : k + 1 \in 1 .. n + 1 BY <1>1
<1>3. \A k \in 1 .. n + 1 : k = 1 \/ (k - 1 \in 1 .. n /\ s[k] = t[k - 1]) BY <1>1
<1>4. 1 \in 1 .. n + 1 BY <1>1
<1>5. Names(t) \subseteq Names(s) BY <1>1, <1>2 DEF Names
<1>6. Head(s).batch \in Names(s) BY <1>1, <1>4 DEF Names
<1>7. Names(s) \subseteq Names(t) \cup {Head(s).batch}
  <2> SUFFICES ASSUME NEW k \in 1 .. n + 1 PROVE s[k].batch \in Names(t) \cup {Head(s).batch}
    BY <1>1 DEF Names
  <2>1. CASE k = 1 BY <2>1, <1>1
  <2>2. CASE k # 1
    <3>1. k - 1 \in 1 .. n /\ s[k] = t[k - 1] BY <2>2, <1>3
    <3>2. t[k - 1].batch \in Names(t) BY <3>1, <1>1 DEF Names
    <3> QED BY <3>1, <3>2
  <2> QED BY <2>1, <2>2
<1> QED BY <1>5, <1>6, <1>7 DEF t

\* What a drain holds at each place.
LEMMA HeldBatches ==
  /\ HeldBatch(Running) = {} /\ HeldBatch(Flushing) = {} /\ HeldBatch(Done) = {}
  /\ \A f, i : HeldBatch(Holding(f, i)) = {i.batch}
BY DrainerFields DEF HeldBatch

\* What has come to a queue stays: it is queued, held or consumed.
LEMMA ArrivedGrows ==
  ASSUME PTyped, PStep, NEW n \in Queues
  PROVE  Arrived[n] \subseteq Arrived'[n]
<1> USE DEF Arrived
<1>u. /\ queue \in [Queues -> Seq(QueueItems)] /\ drainer \in [Queues -> Drainers]
      /\ consumed \in [Queues -> SUBSET QueueItems]
  BY DEF PTyped
<1>1. ASSUME UNCHANGED <<queue, drainer, consumed>> PROVE Arrived[n] \subseteq Arrived'[n] BY <1>1
<1>2. ASSUME NEW e \in Exporters, NEW b \in Batches, Enters(e, b) PROVE UNCHANGED <<queue, drainer, consumed>>
  BY <1>2 DEF Enters, Rest
<1>3. ASSUME NEW e \in Exporters, NEW p \in Places, NEW b \in Batches, NEW q \in Queues, NEW w \in BOOLEAN,
             Waits(e, p, b, q, w) \/ Passes(e, b, q, w) \/ Adds(e, b, q, w)
      PROVE  UNCHANGED <<queue, drainer, consumed>>
  BY <1>3 DEF Waits, Passes, Adds, Rest
<1>4. ASSUME NEW e \in Exporters, NEW b \in Batches, NEW q \in Queues, NEW w \in BOOLEAN, Sends(e, b, q, w)
      PROVE  Arrived[n] \subseteq Arrived'[n]
  <2>1. queue'[n] = queue[n] \/ queue'[n] = Append(queue[n], ItemOf(b)) BY <1>4, <1>u DEF Sends
  <2>2. Names(queue[n]) \subseteq Names(queue'[n]) BY <2>1, <1>u, NamesAppend
  <2>3. UNCHANGED <<drainer, consumed>> BY <1>4 DEF Sends, Rest
  <2> QED BY <2>2, <2>3
<1>5. ASSUME NEW q \in Queues, Takes(q) PROVE Arrived[n] \subseteq Arrived'[n]
  <2>1. CASE n # q
    <3>1. queue'[n] = queue[n] /\ drainer'[n] = drainer[n] /\ consumed' = consumed BY <1>5, <2>1, <1>u DEF Takes
    <3> QED BY <3>1
  <2>2. CASE n = q
    <3>1. /\ queue'[n] = Tail(queue[n]) /\ drainer'[n] = Holding(drainer[n], Head(queue[n])) /\ queue[n] # <<>>
          /\ consumed' = consumed /\ drainer[n] \in {Running, Flushing}
      BY <1>5, <2>2, <1>u DEF Takes
    <3>2. Names(queue[n]) = Names(queue'[n]) \cup {Head(queue[n]).batch} BY <3>1, <1>u, NamesTail
    <3>3. HeldBatch(drainer[n]) = {} /\ HeldBatch(drainer'[n]) = {Head(queue[n]).batch} BY <3>1, HeldBatches
    <3> QED BY <3>1, <3>2, <3>3
  <2> QED BY <2>1, <2>2
<1>6. ASSUME NEW q \in Queues, Closes(q) PROVE Arrived[n] \subseteq Arrived'[n]
  <2>1. CASE n # q
    <3>1. queue' = queue /\ drainer'[n] = drainer[n] /\ consumed' = consumed BY <1>6, <2>1, <1>u DEF Closes
    <3> QED BY <3>1
  <2>2. CASE n = q
    <3>1. queue' = queue /\ consumed' = consumed /\ drainer[n] \in {Running, Flushing}
      BY <1>6, <2>2, <1>u DEF Closes
    <3>2. HeldBatch(drainer[n]) = {} BY <3>1, HeldBatches
    <3> QED BY <3>1, <3>2
  <2> QED BY <2>1, <2>2
<1>7. ASSUME NEW q \in Queues, NEW f \in {Running, Flushing}, NEW i \in QueueItems, Consumes(q, f, i)
      PROVE  Arrived[n] \subseteq Arrived'[n]
  <2>1. CASE n # q
    <3>1. queue' = queue /\ drainer'[n] = drainer[n] /\ consumed'[n] = consumed[n] BY <1>7, <2>1, <1>u DEF Consumes
    <3> QED BY <3>1
  <2>2. CASE n = q
    <3>1. queue' = queue /\ drainer[n] = Holding(f, i) /\ consumed'[n] = consumed[n] \cup {i}
      BY <1>7, <2>2, <1>u DEF Consumes
    <3>2. HeldBatch(drainer[n]) = {i.batch} BY <3>1, HeldBatches
    <3>3. HeldBatch(drainer[n]) \subseteq {d.batch : d \in consumed'[n]} BY <3>1, <3>2
    <3>4. {d.batch : d \in consumed[n]} \subseteq {d.batch : d \in consumed'[n]} BY <3>1
    <3> QED BY <3>1, <3>3, <3>4
  <2> QED BY <2>1, <2>2
<1>8. CASE Controls BY <1>8, <1>1 DEF Controls
<1> QED BY <1>1, <1>2, <1>3, <1>4, <1>5, <1>6, <1>7, <1>8 DEF PStep

\* The queue without a successor is the last.
LEMMA LastQueue ==
  ASSUME NEW q \in Queues, NEW n \in Queues
  PROVE  /\ q \in Nat /\ n \in Nat /\ n >= 1
         /\ q + 1 \notin Queues => n <= q
<1>1. Cardinality(Queues) \in Nat BY PipelineAssumption, FS_CardinalityType
<1> DEFINE N == Cardinality(Queues)
<1>2. Queues = 1 .. N BY PipelineAssumption
<1> HIDE DEF N
<1> QED BY <1>1, <1>2 DEF N

\* Every step keeps Carried: an answer comes after the last queue, and then the
\* batch has come to all.
LEMMA CarriedStep ==
  ASSUME PTyped, Carried, PStep
  PROVE  Carried'
<1>p. "check" \in Places /\ "send" \in Places /\ "add" \in Places /\ "wait" \in Places BY DEF Places
<1> DEFINE Due(x, n) == n < handler[x].q \/ (n = handler[x].q /\ handler[x].at = "add")
           Have == \A x \in Exporters : handler'[x] # Idle =>
                     \A n \in Queues : n < handler'[x].q \/ (n = handler'[x].q /\ handler'[x].at = "add")
                                        => handler'[x].batch \in Arrived'[n]
           Told == \A b \in acked' : \A n \in Queues : b \in Arrived'[n]
<1>g. \A n \in Queues : Arrived[n] \subseteq Arrived'[n] BY ArrivedGrows
<1>h. Have /\ Told => Carried' BY DEF Carried
<1>k. acked' = acked => Told BY <1>g DEF Carried
\* A call that stays where it was, or moves back, has nothing new to show.
<1>s. ASSUME NEW e \in Exporters, NEW h \in Hands, Becomes(e, h),
             h # Idle => \A n \in Queues : n < h.q \/ (n = h.q /\ h.at = "add") => h.batch \in Arrived'[n]
      PROVE  Have
  <2>1. handler'[e] = h /\ \A x \in Exporters : x # e => handler'[x] = handler[x] BY <1>s, BecomesType
  <2>2. ASSUME NEW x \in Exporters, handler'[x] # Idle, NEW n \in Queues,
               n < handler'[x].q \/ (n = handler'[x].q /\ handler'[x].at = "add")
        PROVE  handler'[x].batch \in Arrived'[n]
    <3>1. CASE x = e BY <3>1, <2>1, <2>2, <1>s
    <3>2. CASE x # e
      <4>1. handler'[x] = handler[x] BY <3>2, <2>1
      <4>2. handler[x].batch \in Arrived[n] BY <4>1, <2>2 DEF Carried
      <4> QED BY <4>1, <4>2, <1>g
    <3> QED BY <3>1, <3>2
  <2> QED BY <2>2
<1>1. ASSUME NEW e \in Exporters, NEW b \in Batches, Enters(e, b) PROVE Carried'
  <2>0. PICK v \in BOOLEAN : Becomes(e, Call("check", b, 1, v)) BY <1>1 DEF Enters
  <2> DEFINE h == Call("check", b, 1, v)
  <2>1. h \in Hands /\ h.q = 1 /\ h.at = "check" BY <1>p, FirstQueue, HandsType, CallFields
  <2>2. \A n \in Queues : ~(n < 1) BY LastQueue
  <2> HIDE DEF h
  <2>3. \A n \in Queues : ~(n < h.q \/ (n = h.q /\ h.at = "add")) BY <2>1, <2>2
  <2>4. Becomes(e, h) BY <2>0 DEF h
  <2>5. Have BY <2>1, <2>3, <2>4, <1>s
  <2>6. Told BY <1>1, <1>k DEF Enters
  <2> QED BY <2>5, <2>6, <1>h
<1>2. ASSUME NEW e \in Exporters, NEW p \in Places, NEW b \in Batches, NEW q \in Queues, NEW w \in BOOLEAN,
             Waits(e, p, b, q, w)
      PROVE  Carried'
  <2>1. handler[e].batch = b /\ handler[e].q = q /\ handler[e] # Idle BY <1>2, CallFields DEF Waits
  <2>2. \A n \in Queues : n < q => b \in Arrived'[n] BY <2>1, <1>g DEF Carried
  <2>3. ASSUME Becomes(e, Idle) PROVE Have BY <2>3, <1>s, HandsType
  <2>4. ASSUME NEW x \in {"wait", "check"}, NEW v \in BOOLEAN, Becomes(e, Call(x, b, q, v)) PROVE Have
    <3> DEFINE h == Call(x, b, q, v)
    <3>1. h \in Hands /\ h.q = q /\ h.batch = b /\ h.at # "add" BY <1>p, HandsType, CallFields
    <3>2. Becomes(e, h) BY <2>4
    <3> HIDE DEF h
    <3> QED BY <3>1, <3>2, <2>2, <1>s
  <2>5. Have BY <1>2, <2>3, <2>4 DEF Waits
  <2>6. Told BY <1>2, <1>k DEF Waits
  <2> QED BY <2>5, <2>6, <1>h
<1>3. ASSUME NEW e \in Exporters, NEW b \in Batches, NEW q \in Queues, NEW w \in BOOLEAN, Passes(e, b, q, w)
      PROVE  Carried'
  <2>1. handler[e].batch = b /\ handler[e].q = q /\ handler[e] # Idle BY <1>3, <1>p, CallFields DEF Passes
  <2>2. \A n \in Queues : n < q => b \in Arrived'[n] BY <2>1, <1>g DEF Carried
  <2> DEFINE h == Call("send", b, q, w)
  <2>3. h \in Hands /\ h.q = q /\ h.batch = b /\ h.at # "add" BY <1>p, HandsType, CallFields
  <2>4. Becomes(e, h) BY <1>3 DEF Passes
  <2> HIDE DEF h
  <2>5. Have BY <2>2, <2>3, <2>4, <1>s
  <2>6. Told BY <1>3, <1>k DEF Passes
  <2> QED BY <2>5, <2>6, <1>h
<1>4. ASSUME NEW e \in Exporters, NEW b \in Batches, NEW q \in Queues, NEW w \in BOOLEAN, Sends(e, b, q, w)
      PROVE  Carried'
  <2>1. handler[e].batch = b /\ handler[e].q = q /\ handler[e] # Idle BY <1>4, <1>p, CallFields DEF Sends
  <2>2. \A n \in Queues : n < q => b \in Arrived'[n] BY <2>1, <1>g DEF Carried
  <2>3. b \in Arrived'[q]
    <3>1. queue \in [Queues -> Seq(QueueItems)] BY DEF PTyped
    <3>2. queue'[q] = Append(queue[q], ItemOf(b)) BY <1>4, <3>1 DEF Sends
    <3>3. b \in Names(queue'[q]) BY <3>1, <3>2, NamesAppend, ItemFields
    <3> QED BY <3>3 DEF Arrived
  <2> DEFINE h == Call("add", b, q, w)
  <2>4. h \in Hands /\ h.q = q /\ h.batch = b BY <1>p, HandsType, CallFields
  <2>5. Becomes(e, h) BY <1>4 DEF Sends
  <2> HIDE DEF h
  <2>6. Have BY <2>2, <2>3, <2>4, <2>5, <1>s
  <2>7. Told BY <1>4, <1>k DEF Sends, Rest
  <2> QED BY <2>6, <2>7, <1>h
<1>5. ASSUME NEW e \in Exporters, NEW b \in Batches, NEW q \in Queues, NEW w \in BOOLEAN, Adds(e, b, q, w)
      PROVE  Carried'
  <2>1. handler[e].batch = b /\ handler[e].q = q /\ handler[e].at = "add" /\ handler[e] # Idle
    BY <1>5, <1>p, CallFields DEF Adds
  <2>2. \A n \in Queues : n < q \/ n = q => b \in Arrived'[n] BY <2>1, <1>g DEF Carried
  <2>3. ASSUME q + 1 \in Queues, NEW v \in BOOLEAN, Becomes(e, Call("check", b, q + 1, v)), acked' = acked
        PROVE  Carried'
    <3> DEFINE m == q + 1  h == Call("check", b, m, v)
    <3>1. m \in Queues BY <2>3
    <3>2. \A n \in Queues : n < m => n < q \/ n = q BY LastQueue
    <3> HIDE DEF m
    <3>3. h \in Hands /\ h.q = m /\ h.batch = b /\ h.at = "check" BY <3>1, <1>p, HandsType, CallFields
    <3>4. Becomes(e, h) BY <2>3 DEF m
    <3> HIDE DEF h
    <3>5. Have BY <3>2, <3>3, <3>4, <2>2, <1>s
    <3> QED BY <3>5, <2>3, <1>k, <1>h
  <2>4. ASSUME q + 1 \notin Queues, Becomes(e, Idle), acked' = acked \cup {b} PROVE Carried'
    <3>1. \A n \in Queues : n < q \/ n = q BY <2>4, LastQueue
    <3>2. \A n \in Queues : b \in Arrived'[n] BY <3>1, <2>2
    <3>3. Told BY <3>2, <2>4, <1>g DEF Carried
    <3>4. Have BY <2>4, <1>s, HandsType
    <3> QED BY <3>3, <3>4, <1>h
  <2> QED BY <1>5, <2>3, <2>4 DEF Adds
<1>6. ASSUME UNCHANGED <<handler, acked>> PROVE Carried' BY <1>6, <1>g DEF Carried
<1>7. ASSUME NEW q \in Queues, Takes(q) \/ Closes(q) PROVE UNCHANGED <<handler, acked>> BY <1>7 DEF Takes, Closes
<1>8. ASSUME NEW q \in Queues, NEW f, NEW i, Consumes(q, f, i) PROVE UNCHANGED <<handler, acked>> BY <1>8 DEF Consumes
<1>9. CASE Controls BY <1>9, <1>6 DEF Controls
<1> QED BY <1>1, <1>2, <1>3, <1>4, <1>5, <1>6, <1>7, <1>8, <1>9 DEF PStep

-----------------------------------------------------------------------------
(* The drains. *)

\* Which drains have seen the cancellation.
LEMMA LeavingKinds ==
  /\ ~Leaving(Running) /\ Leaving(Flushing) /\ Leaving(Done)
  /\ \A f, i : Leaving(Holding(f, i)) <=> f # Running
BY DrainerFields, DrainersApart DEF Leaving

\* A call that is under way is not over by the time the receivers have stopped.
LEMMA CallUnderWay ==
  ASSUME PTyped, Closing, NEW e \in Exporters, handler[e] # Idle
  PROVE  stop \notin {"draining", "stopped"}
BY DEF Closing

\* The drains' context stays done.
LEMMA CancelStays == ASSUME PTyped, PStep, DrainCancelled PROVE DrainCancelled'
<1>1. signalled' = signalled \/ signalled' = TRUE
  BY DEF PStep, Enters, Waits, Passes, Sends, Adds, Takes, Closes, Consumes, Controls, Rest
<1>2. stop' = stop \/ (stop = "no" /\ stop' = "receivers") \/ stop' \in {"draining", "stopped"}
  BY DEF PStep, Enters, Waits, Passes, Sends, Adds, Takes, Closes, Consumes, Controls, Rest
<1> QED BY <1>1, <1>2 DEF DrainCancelled

\* Every step keeps Closing: a drain ends with an empty queue, and what comes
\* later is answered after the signal.
LEMMA ClosingStep ==
  ASSUME PTyped, Alone, Closing, PStep
  PROVE  Closing'
<1>p. "check" \in Places /\ "send" \in Places /\ "add" \in Places /\ "wait" \in Places BY DEF Places
<1>u. queue \in [Queues -> Seq(QueueItems)] /\ drainer \in [Queues -> Drainers] BY DEF PTyped
<1> DEFINE Cancelled == \A n \in Queues : Leaving(drainer'[n]) => DrainCancelled'
           Left == \A n \in Queues : drainer'[n] = Done => Names(queue'[n]) \cap (acked' \ late') = {}
           Quiet == stop' \in {"draining", "stopped"} => \A x \in Exporters : handler'[x] = Idle
           Ended == stop' = "stopped" => \A n \in Queues : drainer'[n] = Done
<1>h. Cancelled /\ Left /\ Quiet /\ Ended => Closing' BY DEF Closing
<1>c. ASSUME drainer' = drainer PROVE Cancelled BY <1>c, CancelStays DEF Closing
<1>d. ASSUME drainer' = drainer, stop' = stop PROVE Ended BY <1>d DEF Closing
<1>e. ASSUME drainer' = drainer, queue' = queue, acked' = acked, late' = late PROVE Left BY <1>e DEF Closing
\* While a call is under way the receivers have not stopped.
<1>f. ASSUME NEW e \in Exporters, handler[e] # Idle, stop' = stop PROVE Quiet BY <1>f, CallUnderWay
<1>1. ASSUME NEW e \in Exporters, NEW b \in Batches, Enters(e, b) PROVE Closing'
  <2>1. drainer' = drainer /\ queue' = queue /\ acked' = acked /\ late' = late /\ stop' = stop /\ stop = "no"
    BY <1>1 DEF Enters, Rest
  <2>2. Quiet BY <2>1
  <2> QED BY <2>1, <2>2, <1>c, <1>d, <1>e, <1>h
<1>2. ASSUME NEW e \in Exporters, NEW p \in Places, NEW b \in Batches, NEW q \in Queues, NEW w \in BOOLEAN,
             Waits(e, p, b, q, w) \/ Passes(e, b, q, w)
      PROVE  Closing'
  <2>1. drainer' = drainer /\ queue' = queue /\ acked' = acked /\ late' = late /\ stop' = stop
    BY <1>2 DEF Waits, Passes, Rest
  <2>2. handler[e] # Idle BY <1>2, <1>p, CallFields DEF Waits, Passes
  <2> QED BY <2>1, <2>2, <1>c, <1>d, <1>e, <1>f, <1>h
<1>3. ASSUME NEW e \in Exporters, NEW b \in Batches, NEW q \in Queues, NEW w \in BOOLEAN, Sends(e, b, q, w)
      PROVE  Closing'
  <2>1. drainer' = drainer /\ acked' = acked /\ late' = late /\ stop' = stop BY <1>3 DEF Sends, Rest
  <2>2. handler[e] # Idle /\ handler[e].batch = b BY <1>3, <1>p, CallFields DEF Sends
  <2>3. b \notin acked BY <2>2 DEF Alone
  <2>4. ASSUME NEW n \in Queues, drainer'[n] = Done PROVE Names(queue'[n]) \cap (acked' \ late') = {}
    <3>1. queue'[n] = queue[n] \/ queue'[n] = Append(queue[n], ItemOf(b)) BY <1>3, <1>u DEF Sends
    <3>2. Names(queue'[n]) \subseteq Names(queue[n]) \cup {b}
      <4>1. Names(Append(queue[n], ItemOf(b))) = Names(queue[n]) \cup {ItemOf(b).batch} BY <1>u, NamesAppend
      <4>2. ItemOf(b).batch = b BY ItemFields
      <4> QED BY <3>1, <4>1, <4>2
    <3>3. Names(queue[n]) \cap (acked \ late) = {} BY <2>1, <2>4 DEF Closing
    <3> QED BY <3>2, <3>3, <2>1, <2>3
  <2> QED BY <2>1, <2>2, <2>4, <1>c, <1>d, <1>f, <1>h
<1>4. ASSUME NEW e \in Exporters, NEW b \in Batches, NEW q \in Queues, NEW w \in BOOLEAN, Adds(e, b, q, w)
      PROVE  Closing'
  <2>1. drainer' = drainer /\ queue' = queue /\ stop' = stop BY <1>4 DEF Adds, Rest
  <2>2. handler[e] # Idle /\ handler[e].batch = b BY <1>4, <1>p, CallFields DEF Adds
  <2>3. ASSUME NEW n \in Queues, drainer'[n] = Done PROVE Names(queue'[n]) \cap (acked' \ late') = {}
    <3>1. Names(queue[n]) \cap (acked \ late) = {} BY <2>1, <2>3 DEF Closing
    <3>2. signalled
      <4>1. DrainCancelled BY <2>1, <2>3, LeavingKinds DEF Closing
      <4> QED BY <4>1, <2>2, CallUnderWay DEF DrainCancelled
    <3>3. acked' \ late' \subseteq acked \ late BY <1>4, <3>2 DEF Adds
    <3> QED BY <3>1, <3>3, <2>1
  <2> QED BY <2>1, <2>2, <2>3, <1>c, <1>d, <1>f, <1>h
<1>5. ASSUME NEW q \in Queues, Takes(q) PROVE Closing'
  <2>1. handler' = handler /\ acked' = acked /\ late' = late /\ signalled' = signalled /\ stop' = stop
    BY <1>5 DEF Takes
  <2>2. drainer[q] \in {Running, Flushing} /\ drainer'[q] = Holding(drainer[q], Head(queue[q]))
    BY <1>5, <1>u DEF Takes
  <2>3. \A n \in Queues : n # q => drainer'[n] = drainer[n] /\ queue'[n] = queue[n] BY <1>5, <1>u DEF Takes
  <2>4. Cancelled
    <3> SUFFICES ASSUME NEW n \in Queues, Leaving(drainer'[n]) PROVE DrainCancelled'
      OBVIOUS
    <3>1. CASE n = q
      <4>1. drainer[q] = Flushing BY <3>1, <2>2, LeavingKinds
      <4> QED BY <4>1, LeavingKinds, CancelStays DEF Closing
    <3>2. CASE n # q BY <3>2, <2>3, CancelStays DEF Closing
    <3> QED BY <3>1, <3>2
  <2>5. Left
    <3> SUFFICES ASSUME NEW n \in Queues, drainer'[n] = Done PROVE Names(queue'[n]) \cap (acked' \ late') = {}
      OBVIOUS
    <3>1. n # q BY <2>2, DrainersApart
    <3> QED BY <3>1, <2>1, <2>3 DEF Closing
  <2>6. stop # "stopped" BY <2>2, DrainersApart DEF Closing
  <2>7. Quiet /\ Ended BY <2>1, <2>6 DEF Closing
  <2> QED BY <2>4, <2>5, <2>7, <1>h
<1>6. ASSUME NEW q \in Queues, Closes(q) PROVE Closing'
  <2>1. /\ handler' = handler /\ queue' = queue /\ acked' = acked /\ late' = late
        /\ signalled' = signalled /\ stop' = stop
    BY <1>6 DEF Closes
  <2>2. /\ drainer[q] \in {Running, Flushing} /\ (drainer[q] = Running => DrainCancelled)
        /\ drainer'[q] \in {Flushing, Done} /\ (drainer'[q] = Done => queue[q] = <<>>)
    BY <1>6, <1>u, DrainersApart DEF Closes
  <2>3. \A n \in Queues : n # q => drainer'[n] = drainer[n] BY <1>6, <1>u DEF Closes
  <2>4. Cancelled
    <3> SUFFICES ASSUME NEW n \in Queues, Leaving(drainer'[n]) PROVE DrainCancelled'
      OBVIOUS
    <3>1. CASE n = q
      <4>1. DrainCancelled BY <2>2, LeavingKinds DEF Closing
      <4> QED BY <4>1, CancelStays
    <3>2. CASE n # q BY <3>2, <2>3, CancelStays DEF Closing
    <3> QED BY <3>1, <3>2
  <2>5. Left
    <3> SUFFICES ASSUME NEW n \in Queues, drainer'[n] = Done PROVE Names(queue'[n]) \cap (acked' \ late') = {}
      OBVIOUS
    <3>1. CASE n = q
      <4>1. queue'[n] = <<>> BY <3>1, <2>1, <2>2
      <4>2. Names(queue'[n]) = {} BY <4>1 DEF Names
      <4> QED BY <4>2
    <3>2. CASE n # q BY <3>2, <2>1, <2>3 DEF Closing
    <3> QED BY <3>1, <3>2
  <2>6. stop # "stopped" BY <2>2, DrainersApart DEF Closing
  <2>7. Quiet /\ Ended BY <2>1, <2>6 DEF Closing
  <2> QED BY <2>4, <2>5, <2>7, <1>h
<1>7. ASSUME NEW q \in Queues, NEW f \in {Running, Flushing}, NEW i \in QueueItems, Consumes(q, f, i)
      PROVE  Closing'
  <2>1. /\ handler' = handler /\ queue' = queue /\ acked' = acked /\ late' = late
        /\ signalled' = signalled /\ stop' = stop
    BY <1>7 DEF Consumes
  <2>2. drainer[q] = Holding(f, i) /\ drainer'[q] = f BY <1>7, <1>u DEF Consumes
  <2>3. \A n \in Queues : n # q => drainer'[n] = drainer[n] BY <1>7, <1>u DEF Consumes
  <2>4. Cancelled
    <3> SUFFICES ASSUME NEW n \in Queues, Leaving(drainer'[n]) PROVE DrainCancelled'
      OBVIOUS
    <3>1. CASE n = q
      <4>1. f # Running BY <3>1, <2>2, LeavingKinds
      <4>2. DrainCancelled BY <4>1, <2>2, LeavingKinds DEF Closing
      <4> QED BY <4>2, CancelStays
    <3>2. CASE n # q BY <3>2, <2>3, CancelStays DEF Closing
    <3> QED BY <3>1, <3>2
  <2>5. Left
    <3> SUFFICES ASSUME NEW n \in Queues, drainer'[n] = Done PROVE Names(queue'[n]) \cap (acked' \ late') = {}
      OBVIOUS
    <3>1. n # q BY <2>2, DrainersApart
    <3> QED BY <3>1, <2>1, <2>3 DEF Closing
  <2>6. stop # "stopped" BY <2>2, DrainersApart DEF Closing
  <2>7. Quiet /\ Ended BY <2>1, <2>6 DEF Closing
  <2> QED BY <2>4, <2>5, <2>7, <1>h
<1>8. ASSUME Controls PROVE Closing'
  <2>1. handler' = handler /\ queue' = queue /\ drainer' = drainer /\ acked' = acked /\ late' = late
    BY <1>8 DEF Controls
  <2>2. Quiet BY <1>8, <2>1 DEF Controls, Closing
  <2>3. Ended BY <1>8, <2>1 DEF Controls, Closing
  <2> QED BY <2>1, <2>2, <2>3, <1>c, <1>e, <1>h
<1> QED BY <1>1, <1>2, <1>3, <1>4, <1>5, <1>6, <1>7, <1>8 DEF PStep

-----------------------------------------------------------------------------
(* The limits. *)

\* An attribute: its key, and what of it is oversize.
AttrSet == [key : Int, bigKey : BOOLEAN, bigValue : BOOLEAN]

\* A span's attributes: finitely many, one per key.
Keyed(A) == A \in SUBSET AttrSet /\ IsFiniteSet(A) /\ \A a, c \in A : a.key = c.key => a = c

\* The attributes of a request are keyed.
LEMMA RequestsKeyed == ASSUME NEW b \in Batches PROVE Keyed(Request[b].attrs)
BY PipelineAssumption DEF Keyed, AttrSet

\* What is within a limit ranks below it.
LEMMA WithinRank ==
  ASSUME NEW A, NEW n \in Nat, n > 0, NEW a \in Within(A, n)
  PROVE  a \in A /\ Cardinality({c \in A : c.key < a.key}) < n
BY DEF Within

\* An attribute has a higher rank than those whose keys come before its own.
LEMMA RanksDiffer ==
  ASSUME NEW A, Keyed(A), NEW a \in A, NEW c \in A, a.key < c.key
  PROVE  Cardinality({x \in A : x.key < a.key}) # Cardinality({x \in A : x.key < c.key})
<1> DEFINE P == {x \in A : x.key < a.key}  Q == {x \in A : x.key < c.key}
<1>1. a.key \in Int /\ c.key \in Int /\ \A x \in A : x.key \in Int BY DEF Keyed, AttrSet
<1>2. P \in SUBSET Q BY <1>1
<1>3. a \in Q /\ a \notin P BY <1>1
<1>4. IsFiniteSet(Q) BY FS_Subset DEF Keyed
<1> HIDE DEF P, Q
<1>5. Cardinality(P) = Cardinality(Q) => Q = P BY <1>2, <1>4, FS_Subset
<1>6. Cardinality(P) # Cardinality(Q) BY <1>3, <1>5
<1> QED BY <1>6 DEF P, Q

\* The attributes before one of a span are fewer than the span has.
LEMMA RankBound ==
  ASSUME NEW A, Keyed(A), NEW a \in A
  PROVE  /\ Cardinality({c \in A : c.key < a.key}) \in Nat
         /\ Cardinality({c \in A : c.key < a.key}) < Cardinality(A)
<1> DEFINE B == {c \in A : c.key < a.key}  O == A \ {a}  b == Cardinality(B)  o == Cardinality(O)
           n == Cardinality(A)
<1>1. \A x \in A : x.key \in Int BY DEF Keyed, AttrSet
<1>2. B \in SUBSET O BY <1>1
<1>3. IsFiniteSet(O) /\ o = n - 1 /\ n \in Nat BY FS_RemoveElement, FS_CardinalityType DEF Keyed
<1> HIDE DEF B, O
<1>4. IsFiniteSet(B) /\ b <= o BY <1>2, <1>3, FS_Subset
<1>5. b \in Nat BY <1>4, FS_CardinalityType
<1> HIDE DEF b, o, n
<1>6. b < n BY <1>3, <1>4, <1>5
<1> QED BY <1>5, <1>6 DEF B, b, n

\* No more attributes are left than the limit: their ranks by key differ.
LEMMA WithinCount ==
  ASSUME NEW A, Keyed(A), NEW n \in Nat
  PROVE  IsFiniteSet(Within(A, n)) /\ (n > 0 => Cardinality(Within(A, n)) <= n)
<1>1. IsFiniteSet(Within(A, n))
  <2>1. Within(A, n) \in SUBSET A BY DEF Within
  <2> QED BY <2>1, FS_Subset DEF Keyed
<1>2. ASSUME n > 0 PROVE Cardinality(Within(A, n)) <= n
  <2> DEFINE Before(a) == {c \in A : c.key < a.key}
             M == Within(A, n)
             f == [a \in M |-> Cardinality(Before(a))]
  <2>1. \A a \in A : IsFiniteSet(Before(a)) /\ Cardinality(Before(a)) \in Nat
    <3> TAKE a \in A
    <3>1. Before(a) \in SUBSET A OBVIOUS
    <3> HIDE DEF Before
    <3>2. IsFiniteSet(Before(a)) BY <3>1, FS_Subset DEF Keyed
    <3> QED BY <3>2, FS_CardinalityType
  <2>2. ASSUME NEW a \in M PROVE a \in A /\ Cardinality(Before(a)) < n BY <1>2, WithinRank
  <2>3. ASSUME NEW a \in A, NEW c \in A, a.key < c.key PROVE Cardinality(Before(a)) # Cardinality(Before(c))
    BY <2>3, RanksDiffer
  <2>4. f \in Injection(M, 0 .. n - 1)
    <3>1. ASSUME NEW a \in M PROVE f[a] \in 0 .. n - 1
      <4>1. f[a] = Cardinality(Before(a)) OBVIOUS
      <4> HIDE DEF f, Before
      <4> QED BY <4>1, <2>1, <2>2, <1>2
    <3>2. ASSUME NEW a \in M, NEW c \in M, a # c PROVE f[a] # f[c]
      <4>1. a.key # c.key /\ a.key \in Int /\ c.key \in Int BY <3>2, <2>2 DEF Keyed, AttrSet
      <4>2. f[a] = Cardinality(Before(a)) /\ f[c] = Cardinality(Before(c)) OBVIOUS
      <4> HIDE DEF f, Before
      <4>3. a.key < c.key \/ c.key < a.key BY <4>1
      <4> QED BY <4>2, <4>3, <2>2, <2>3
    <3> DEFINE R == 0 .. n - 1
    <3>3. f \in [M -> R] BY <3>1
    <3>4. \A a, c \in M : a # c => f[a] # f[c] BY <3>2
    <3> HIDE DEF f, M, R
    <3>5. f \in Injection(M, R) BY <3>3, <3>4 DEF Injection, IsInjective
    <3> QED BY <3>5 DEF R
  <2>5. IsFiniteSet(0 .. n - 1) /\ Cardinality(0 .. n - 1) = n BY <1>2, FS_Interval
  <2> HIDE DEF f, M
  <2>6. Cardinality(M) <= Cardinality(0 .. n - 1) BY <2>4, <2>5, FS_Injection
  <2> QED BY <2>5, <2>6 DEF M
<1> QED BY <1>1, <1>2

\* Cutting values to size makes no attributes.
LEMMA LimitedCount ==
  ASSUME NEW A, Keyed(A)
  PROVE  Cardinality(Limited(A)) <= Cardinality(Within(A, MaxAttrs)) /\ Cardinality(Limited(A)) \in Nat
<1> DEFINE S == {b \in Within(A, MaxAttrs) : ~b.bigKey}
           g == [a \in S |-> [a EXCEPT !.bigValue = FALSE]]
           L == Limited(A)
<1>1. MaxAttrs \in Nat BY PipelineAssumption
<1>2. IsFiniteSet(Within(A, MaxAttrs)) BY <1>1, WithinCount
<1>3. S \in SUBSET Within(A, MaxAttrs) OBVIOUS
<1>4. IsFiniteSet(S) /\ Cardinality(S) <= Cardinality(Within(A, MaxAttrs)) BY <1>2, <1>3, FS_Subset
<1>5. L = {[a EXCEPT !.bigValue = FALSE] : a \in S} BY DEF Limited
<1>6. g \in Surjection(S, L)
  <2>1. \A a \in S : g[a] \in L BY <1>5
  <2>2. \A t \in L : \E a \in S : g[a] = t BY <1>5
  <2>3. g \in [S -> L] BY <2>1
  <2> HIDE DEF g, S, L
  <2> QED BY <2>2, <2>3 DEF Surjection
<1> HIDE DEF S, g, L
<1>7. IsFiniteSet(L) /\ Cardinality(L) <= Cardinality(S) BY <1>4, <1>6, FS_Surjection
<1> DEFINE l == Cardinality(L)  s == Cardinality(S)  w == Cardinality(Within(A, MaxAttrs))
<1>8. l \in Nat /\ s \in Nat /\ w \in Nat BY <1>2, <1>4, <1>7, FS_CardinalityType
<1>9. l <= s /\ s <= w BY <1>4, <1>7
<1> HIDE DEF l, s, w
<1>10. l <= w BY <1>8, <1>9
<1> QED BY <1>8, <1>10 DEF l, w, L

\* A span that is not flagged lost nothing.
LEMMA UnflaggedWhole ==
  ASSUME NEW A, Keyed(A), ~Span(A).truncated
  PROVE  Limited(A) = A
<1>1. ~Exceeds(Cardinality(A), MaxAttrs) /\ Big(A) = {} BY DEF Span
<1>2. MaxAttrs \in Nat /\ Cardinality(A) \in Nat BY PipelineAssumption, FS_CardinalityType DEF Keyed
<1>3. Within(A, MaxAttrs) = A
  <2>1. ASSUME NEW a \in A, MaxAttrs > 0 PROVE Cardinality({c \in A : c.key < a.key}) < MaxAttrs
    <3>1. Cardinality(A) <= MaxAttrs BY <1>1, <1>2, <2>1 DEF Exceeds
    <3>2. Cardinality({c \in A : c.key < a.key}) \in Nat /\ Cardinality({c \in A : c.key < a.key}) < Cardinality(A)
      BY RankBound
    <3> QED BY <1>2, <3>1, <3>2
  <2>2. MaxAttrs = 0 \/ MaxAttrs > 0 BY <1>2
  <2>3. \A a \in A : MaxAttrs = 0 \/ Cardinality({c \in A : c.key < a.key}) < MaxAttrs BY <2>1, <2>2
  <2> QED BY <2>3 DEF Within
<1>4. \A a \in A : a \in AttrSet /\ ~a.bigKey /\ a.bigValue = FALSE BY <1>1, <1>3 DEF Big, Keyed, AttrSet
<1>5. \A a \in A : [a EXCEPT !.bigValue = FALSE] = a BY <1>4 DEF AttrSet
<1>6. Limited(A) = {[a EXCEPT !.bigValue = FALSE] : a \in A}
  <2>1. {b \in A : ~b.bigKey} = A BY <1>4
  <2> QED BY <1>3, <2>1 DEF Limited
<1> QED BY <1>5, <1>6

\* What a sink consumed is within the limits, or says that it lost something.
LEMMA LimitsHold == ASSUME PTyped PROVE WithinLimits
<1> SUFFICES ASSUME NEW q \in Queues, NEW d \in consumed[q]
             PROVE  /\ ~Exceeds(Cardinality(d.span.attrs), MaxAttrs)
                    /\ \A a \in d.span.attrs : ~a.bigKey /\ ~a.bigValue
                    /\ d.span.attrs # Request[d.batch].attrs => d.span.truncated
                    /\ d.span.dropped = Cardinality(Request[d.batch].attrs) - Cardinality(d.span.attrs)
  BY DEF WithinLimits
<1> DEFINE b == d.batch  A == Request[b].attrs
<1>1. b \in Batches /\ d = ItemOf(b) BY ItemsBatches DEF PTyped
<1>2. Keyed(A) BY <1>1, RequestsKeyed
<1>3. d.span = Span(A) BY <1>1, ItemFields
<1> HIDE DEF A, b
<1>4. d.span.attrs = Limited(A) /\ d.span.dropped = Cardinality(A) - Cardinality(Limited(A)) BY <1>3 DEF Span
<1>5. ~Exceeds(Cardinality(Limited(A)), MaxAttrs)
  <2>1. MaxAttrs \in Nat BY PipelineAssumption
  <2>2. Cardinality(Limited(A)) <= Cardinality(Within(A, MaxAttrs)) /\ Cardinality(Limited(A)) \in Nat
    BY <1>2, LimitedCount
  <2>3. Cardinality(Within(A, MaxAttrs)) \in Nat /\ (MaxAttrs > 0 => Cardinality(Within(A, MaxAttrs)) <= MaxAttrs)
    BY <1>2, <2>1, WithinCount, FS_CardinalityType
  <2> DEFINE l == Cardinality(Limited(A))  w == Cardinality(Within(A, MaxAttrs))
  <2>4. l \in Nat /\ w \in Nat /\ l <= w /\ (MaxAttrs > 0 => w <= MaxAttrs) BY <2>2, <2>3
  <2> HIDE DEF l, w
  <2>5. MaxAttrs > 0 => ~(l > MaxAttrs) BY <2>1, <2>4
  <2>6. ~Exceeds(l, MaxAttrs) BY <2>5 DEF Exceeds
  <2> QED BY <2>6 DEF l
<1>6. \A a \in Limited(A) : ~a.bigKey /\ ~a.bigValue
  <2> SUFFICES ASSUME NEW c \in Within(A, MaxAttrs), ~c.bigKey
               PROVE  ~[c EXCEPT !.bigValue = FALSE].bigKey /\ ~[c EXCEPT !.bigValue = FALSE].bigValue
    BY DEF Limited
  <2>1. c \in AttrSet BY <1>2 DEF Within, Keyed
  <2> QED BY <2>1 DEF AttrSet
<1>7. Limited(A) # A => d.span.truncated BY <1>2, <1>3, UnflaggedWhole
<1> QED BY <1>4, <1>5, <1>6, <1>7 DEF A, b

-----------------------------------------------------------------------------
(* The invariant. *)

\* With no call under way and nothing queued, every sum is 0.
LEMMA SumsInit ==
  ASSUME PipelineInit, NEW q \in Queues
  PROVE  /\ Queued(queue[q]) = 0 /\ Held(drainer[q]) = 0 /\ bytes[q] = 0
         /\ \A p : Load(handler, p, q) = 0
<1>1. queue[q] = <<>> /\ drainer[q] = Running /\ bytes[q] = 0 BY DEF PipelineInit
<1>2. Queued(queue[q]) = 0 /\ Held(drainer[q]) = 0 BY <1>1, QueuedEmpty, HeldValues
<1>3. ASSUME NEW p PROVE Load(handler, p, q) = 0
  <2> DEFINE f == [e \in Exporters |-> Weight(handler[e], p, q)]
  <2>1. \A e \in Exporters : f[e] = 0 BY IdleWeight DEF PipelineInit
  <2> HIDE DEF f
  <2>2. SumFunctionOnSet(f, Exporters) = 0 BY <2>1, SumZero, PipelineAssumption
  <2> QED BY <2>2 DEF f, Load
<1> QED BY <1>1, <1>2, <1>3

\* The invariant holds initially.
LEMMA InvInit == PipelineInit => PInv
<1> SUFFICES ASSUME PipelineInit PROVE PInv
  OBVIOUS
<1>1. PTyped BY TypedInit
<1>2. Counted
  <2> SUFFICES ASSUME NEW q \in Queues
               PROVE  bytes[q] = Queued(queue[q]) + Held(drainer[q]) - Load(handler, "add", q)
    BY DEF Counted
  <2>1. bytes[q] = 0 /\ Queued(queue[q]) = 0 /\ Held(drainer[q]) = 0 /\ Load(handler, "add", q) = 0 BY SumsInit
  <2> QED BY <2>1
<1>3. Bounded
  <2> SUFFICES ASSUME MaxBytes > 0, NEW q \in Queues
               PROVE  Queued(queue[q]) + Held(drainer[q]) + Load(handler, "send", q) <= MaxBytes + Slack
    BY DEF Bounded
  <2>1. Queued(queue[q]) = 0 /\ Held(drainer[q]) = 0 /\ Load(handler, "send", q) = 0 BY SumsInit
  <2>2. MaxBytes \in Nat BY PipelineAssumption
  <2> QED BY <2>1, <2>2, SlackType
<1>4. \A e \in Exporters : handler[e] = Idle BY DEF PipelineInit
<1>5. Alone /\ Carried BY <1>4 DEF Alone, Carried, PipelineInit
<1>6. Closing
  <2>1. \A q \in Queues : drainer[q] = Running BY DEF PipelineInit
  <2>2. stop = "no" BY DEF PipelineInit
  <2> QED BY <1>4, <2>1, <2>2, LeavingKinds, DrainersApart DEF Closing
<1> QED BY <1>1, <1>2, <1>3, <1>5, <1>6 DEF PInv

\* Every step keeps the invariant.
LEMMA InvStep == PInv /\ [PipelineNext]_pipelineVars => PInv'
<1> SUFFICES ASSUME PInv, [PipelineNext]_pipelineVars PROVE PInv'
  OBVIOUS
<1>1. PTyped /\ Counted /\ Bounded /\ Alone /\ Carried /\ Closing BY DEF PInv
<1>2. PStep BY <1>1, StepCases
<1>3. PTyped' BY <1>1, <1>2, TypedStep
<1>4. Counted' BY <1>1, <1>2, CountedStep
<1>5. Bounded' BY <1>1, <1>2, BoundedStep
<1>6. Alone' BY <1>1, <1>2, AloneStep
<1>7. Carried' BY <1>1, <1>2, CarriedStep
<1>8. Closing' BY <1>1, <1>2, ClosingStep
<1> QED BY <1>3, <1>4, <1>5, <1>6, <1>7, <1>8 DEF PInv

-----------------------------------------------------------------------------
(* What the invariant says of the queues. *)

\* The bytes of the calls that have sent and not yet added.
LEMMA UncountedLoad ==
  ASSUME PTyped, NEW q \in Queues
  PROVE  UncountedBytes(q) = Load(handler, "add", q)
<1> DEFINE f == [e \in Exporters |-> Weight(handler[e], "add", q)]
           g == [e \in Exporters |-> IF handler[e] = Idle THEN 0 ELSE Size(handler[e].batch)]
           T == {e \in Exporters : handler[e].at = "add" /\ handler[e].q = q}
<1>1. \A e \in Exporters : f[e] \in Int
  <2>1. \A e \in Exporters : handler[e] \in Hands BY DEF PTyped
  <2> QED BY <2>1, WeightType
<1>2. \A e \in T : f[e] = g[e]
  <2>1. Idle.at # "add" BY DEF Idle
  <2> QED BY <2>1 DEF Weight
<1>3. \A e \in Exporters \ T : f[e] = 0 BY DEF Weight
<1>4. T \in SUBSET Exporters OBVIOUS
<1>5. IsFiniteSet(Exporters) BY PipelineAssumption
<1>6. UncountedBytes(q) = SumFunctionOnSet(g, T) BY DEF UncountedBytes, UncountedAt, At
<1>7. Load(handler, "add", q) = SumFunctionOnSet(f, Exporters) BY DEF Load
<1> HIDE DEF f, g, T
<1>8. SumFunctionOnSet(f, Exporters) = SumFunctionOnSet(f, T) BY <1>1, <1>3, <1>4, <1>5, SumWithin
<1>9. IsFiniteSet(T) BY <1>4, <1>5, FS_Subset
<1>10. SumFunctionOnSet(f, T) = SumFunctionOnSet(g, T) BY <1>2, <1>9, SumSame
<1> QED BY <1>6, <1>7, <1>8, <1>10

\* The account of the invariant is that of the property.
LEMMA AccountedHolds == ASSUME PTyped, Counted PROVE BytesAccounted
<1> SUFFICES ASSUME NEW q \in Queues
             PROVE  bytes[q] = QueuedBytes(q) + HeldBytes(q) - UncountedBytes(q)
  BY DEF BytesAccounted
<1>1. QueuedBytes(q) = Queued(queue[q]) BY DEF QueuedBytes, Queued
<1>2. HeldBytes(q) = Held(drainer[q]) BY DEF HeldBytes, Held
<1>3. UncountedBytes(q) = Load(handler, "add", q) BY UncountedLoad
<1> QED BY <1>1, <1>2, <1>3 DEF Counted

\* The bound of the invariant implies that of the property.
LEMMA OvershootHolds == ASSUME PTyped, Bounded PROVE OvershootBounded
<1> SUFFICES ASSUME MaxBytes > 0, NEW q \in Queues PROVE QueuedBytes(q) <= MaxBytes + Slack
  BY DEF OvershootBounded, Slack, Largest
<1>1. QueuedBytes(q) = Queued(queue[q]) BY DEF QueuedBytes, Queued
<1> DEFINE k == Queued(queue[q])  d == Held(drainer[q])  x == Load(handler, "send", q)
<1>2. k \in Int /\ d \in Nat /\ x \in Nat BY AccountTypes
<1>3. k + d + x <= MaxBytes + Slack BY DEF Bounded
<1>4. MaxBytes + Slack \in Int BY SlackType, PipelineAssumption
<1> HIDE DEF k, d, x
<1> DEFINE m == MaxBytes + Slack
<1>5. m \in Int /\ k + d + x <= m BY <1>3, <1>4
<1> HIDE DEF m
<1>6. k <= m BY <1>2, <1>5
<1> QED BY <1>1, <1>6 DEF k, m

\* When every drain is done, what has come to a queue and is not in it was
\* consumed.
LEMMA FlushHolds == ASSUME PTyped, Carried, Closing PROVE FlushedAtStop
<1> SUFFICES ASSUME stop = "stopped", NEW b \in acked \ late, NEW q \in Queues
             PROVE  \E d \in consumed[q] : d.batch = b
  BY DEF FlushedAtStop, Reached
<1>1. drainer[q] = Done BY DEF Closing
<1>2. b \notin Names(queue[q]) BY <1>1 DEF Closing
<1>3. b \notin HeldBatch(drainer[q]) BY <1>1, HeldBatches
<1>4. b \in Arrived[q] BY DEF Carried
<1> QED BY <1>2, <1>3, <1>4 DEF Arrived

\* The invariant implies the property.
LEMMA InvSound == PInv => PipelineSound
BY AccountedHolds, OvershootHolds, LimitsHold, FlushHolds DEF PInv, PipelineSound

\* The inductive invariant of the ingest queues holds for any number of calls,
\* batches and queues.
THEOREM PipelineInvariant == PipelineSpec => []PInv
<1> QED BY InvInit, InvStep, PTL DEF PipelineSpec

\* The byte counters are exact but for what is between two steps, the overshoot
\* is at most one batch for every other exporter, what a sink receives is within
\* the limits or flagged, and what was acknowledged before the signal has reached
\* every sink when Stop returns (push, tryEnqueue, drain, applySpanLimits, Stop).
THEOREM QueuesSound == PipelineSpec => []PipelineSound
<1> QED BY InvSound, PipelineInvariant, PTL
=============================================================================
