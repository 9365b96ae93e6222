-------------------------- MODULE TraceStoreProofs --------------------------
(***************************************************************************)
(* What the trace store keeps, for any number of traces, hours and blocks: *)
(* over any number of processes a bound row resolves and an acknowledged   *)
(* trace is on disk, both as long as no block id is handed out twice; and  *)
(* one process, up to its end, implements the archive.                     *)
(*                                                                         *)
(* The first holds under every fault the model has.  The others need that  *)
(* no write leaves part of a record and lets the process go on ("tear"):   *)
(* what follows the part could not be read back.                           *)
(***************************************************************************)
EXTENDS TraceStore, TLAPS

Files  == [kept : TraceSets, torn : BOOLEAN]
Sealed == [data : TraceSets, manifest : BOOLEAN]
Rows   == [state : {"none", "pending", "bound"}, seg : Ids \cup {None}]
Appends == [pc : {"journal", "hot"}, trace : Traces, key : Keys, id : Ids]
Seals  == [pc : {"files", "manifest", "bind"}, id : Ids, traces : TraceSets]

Replays == [seg : Ids \cup {None}, left : TraceSets]

OpenAt(k) == open[k] \in OpenBlocks
Sealing == seal \in Seals

Typed ==
  /\ wal \in [Ids -> Files] /\ blocks \in [Ids -> Sealed] /\ hot \in [Traces -> Rows]
  /\ open \in [Keys -> {None} \cup OpenBlocks] /\ seq \in Nat
  /\ app = NoAppend \/ app \in Appends
  /\ seal = NoSeal \/ seal \in Seals
  /\ replay \in Replays
  /\ acked \subseteq Traces /\ issued \subseteq Ids

\* Where the process is: an append under way has an open block, a seal is part
\* of Shutdown, and a process that is down has nothing open.
Placed ==
  /\ \A k \in Keys : OpenAt(k) => open[k].id.tier = k[1] /\ open[k].id.hour = k[2] /\ open[k].id \in issued
  /\ app \in Appends => OpenAt(app.key) /\ open[app.key].id = app.id /\ phase \in {"serving", "replay"}
  /\ Sealing => phase = "closing" /\ seal.id \in issued
  /\ phase \in {"down", "exited"} => \A k \in Keys : open[k] = None
  /\ phase # "replay" => replay = NoReplay
  /\ \A t \in Traces : hot[t].state # "none" => hot[t].seg \in issued
  /\ \A id \in Ids : wal[id] # NoFile \/ blocks[id] # NoBlock => id \in issued
  /\ replay.seg # None => replay.seg \in issued

\* What a pending row and a bound row can count on.
Binding ==
  /\ \A k \in Keys : OpenAt(k) /\ Sealing => open[k].id # seal.id
  /\ \A t \in Traces, k \in Keys :
       OpenAt(k) /\ hot[t].state = "pending" /\ hot[t].seg = open[k].id => t \in open[k].traces
  /\ \A t \in Traces :
       Sealing /\ hot[t].state = "pending" /\ hot[t].seg = seal.id => t \in seal.traces
  /\ app \in Appends /\ app.pc = "hot" => app.trace \in open[app.key].traces
  /\ \A t \in Traces : hot[t].state = "bound" =>
       /\ InSealedBlock(t, hot[t].seg)
       /\ \A k \in Keys : OpenAt(k) => open[k].id # hot[t].seg
       /\ Sealing => seal.id # hot[t].seg
  /\ Sealing /\ seal.pc \in {"manifest", "bind"} => blocks[seal.id].data = seal.traces
  /\ Sealing /\ seal.pc = "bind" => blocks[seal.id].manifest

BInv == Typed /\ Placed /\ (reused = {} => Binding)

-----------------------------------------------------------------------------
(* The steps.                                                              *)

LEMMA BlockID ==
  ASSUME NEW k \in Keys, Typed, seq < MaxSeq
  PROVE  NewBlock(k) \in Ids /\ NewBlock(k).tier = k[1] /\ NewBlock(k).hour = k[2]
<1>1. seq + 1 \in 1 .. MaxSeq
  BY StoreAssumption DEF Typed
<1>2. k[1] \in Tiers /\ k[2] \in Hours
  BY DEF Keys
<1> QED BY <1>1, <1>2 DEF NewBlock, Ids

\* An empty block of a new id.
Fresh(k) == [id |-> NewBlock(k), traces |-> {}, linked |-> TRUE]

LEMMA FreshTyped ==
  ASSUME NEW k \in Keys, Typed, seq < MaxSeq
  PROVE  Fresh(k) \in OpenBlocks /\ Fresh(k).id = NewBlock(k) /\ Fresh(k).traces = {} /\ Fresh(k).linked
<1> DEFINE id == NewBlock(k)
           none == {}
           yes == TRUE
<1>1. id \in Ids /\ none \in SUBSET Traces /\ yes \in BOOLEAN
  BY BlockID
<1>2. Fresh(k) = [id |-> id, traces |-> none, linked |-> yes]
  BY DEF Fresh
<1> HIDE DEF id, none, yes
<1>3. Fresh(k) \in OpenBlocks /\ Fresh(k).id = id /\ Fresh(k).traces = none /\ Fresh(k).linked = yes
  BY <1>1, <1>2 DEF OpenBlocks
<1> QED BY <1>3 DEF id, none, yes

LEMMA Opened ==
  ASSUME BInv, NEW t \in Traces, NEW tier \in Tiers, OpenFor(t, tier), app = NoAppend,
         phase \in {"serving", "replay"}, UNCHANGED <<disk, phase, seal, replay, acked>>
  PROVE  BInv'
<1> DEFINE k == <<tier, HourOf[t]>>
<1>1. k \in Keys
  BY StoreAssumption DEF Keys
<1>2. ~Sealing /\ Typed /\ Placed
  BY DEF BInv, Placed
<1>3. CASE open[k] # None /\ app' = [pc |-> "journal", trace |-> t, key |-> k, id |-> open[k].id]
           /\ UNCHANGED <<open, seq, issued, reused>>
  <2>1. OpenAt(k) /\ open[k].id \in Ids
    BY <1>1, <1>2, <1>3 DEF Typed, OpenAt, OpenBlocks
  <2>2. app' \in Appends /\ app'.key = k /\ app'.id = open[k].id /\ app'.pc = "journal"
    BY <1>1, <1>3, <2>1 DEF Appends
  <2>3. Typed'
    BY <1>2, <1>3, <2>2 DEF Typed, disk
  <2>4. Placed'
    BY <1>2, <1>3, <2>1, <2>2 DEF Placed, OpenAt, Sealing, disk
  <2>5. reused' = {} => Binding'
    BY <1>2, <1>3, <2>2 DEF BInv, Binding, OpenAt, Sealing, InSealedBlock, disk
  <2> QED BY <2>3, <2>4, <2>5 DEF BInv
<1>4. CASE /\ open[k] = None /\ seq < MaxSeq /\ seq' = seq + 1
           /\ open' = [open EXCEPT ![k] = Fresh(k)]
           /\ app' = [pc |-> "journal", trace |-> t, key |-> k, id |-> NewBlock(k)]
           /\ reused' = (IF NewBlock(k) \in issued THEN reused \cup {NewBlock(k)} ELSE reused)
           /\ issued' = issued \cup {NewBlock(k)}
  <2> DEFINE b == Fresh(k)
             id == NewBlock(k)
  <2>1. id \in Ids /\ id.tier = k[1] /\ id.hour = k[2] /\ b \in OpenBlocks /\ b.id = id /\ b.traces = {}
    BY <1>1, <1>2, <1>4, BlockID, FreshTyped
  <2>2. app' \in Appends /\ app'.key = k /\ app'.id = id /\ app'.pc = "journal"
    BY <1>1, <1>4, <2>1 DEF Appends
  <2> HIDE DEF b, id, k
  <2>3. open' = [open EXCEPT ![k] = b] /\ issued' = issued \cup {id} /\ seq' \in Nat
        /\ (reused' = {} => reused = {} /\ id \notin issued)
    BY <1>2, <1>4 DEF b, id, Typed
  <2>4. open'[k] = b /\ \A l \in Keys \ {k} : open'[l] = open[l]
    BY <1>1, <1>2, <2>3 DEF Typed
  <2>5. Typed'
    BY <1>1, <1>2, <2>1, <2>2, <2>3 DEF Typed, disk
  <2>6. Placed'
    BY <1>1, <1>2, <2>1, <2>2, <2>3, <2>4 DEF Placed, OpenAt, Sealing, disk
  <2>7. ASSUME reused' = {} PROVE Binding'
    <3>1. Binding /\ id \notin issued
      BY <2>3, <2>7 DEF BInv
    <3>2. \A s \in Traces : hot[s].state # "none" => hot[s].seg # id
      BY <1>2, <3>1 DEF Placed
    <3> QED BY <1>1, <1>2, <2>1, <2>2, <2>4, <3>1, <3>2 DEF Binding, OpenAt, Sealing, InSealedBlock, disk
  <2> QED BY <2>5, <2>6, <2>7 DEF BInv
<1> QED BY <1>3, <1>4 DEF OpenFor, Fresh

LEMMA FileWritten ==
  ASSUME NEW f \in Files, NEW t \in Traces
  PROVE  Written(f, t) \in Files /\ f.kept \subseteq Written(f, t).kept
         /\ (~f.torn => t \in Written(f, t).kept /\ ~Written(f, t).torn /\ Written(f, t).kept = f.kept \cup {t})
<1> DEFINE g == f.kept \cup {t}
<1>1. g \in TraceSets
  BY DEF Files, TraceSets
<1>2. Written(f, t) = IF f.torn THEN f ELSE [f EXCEPT !.kept = g]
  BY DEF Written
<1>3. t \in g /\ f.kept \subseteq g /\ g = f.kept \cup {t}
  OBVIOUS
<1> HIDE DEF g
<1> QED BY <1>1, <1>2, <1>3 DEF Files

\* A write to the journal, whole or not.
LEMMA Journalled ==
  ASSUME Typed, app \in Appends, NEW f \in Files, wal' = Journal(f)
  PROVE  /\ wal' \in [Ids -> Files]
         /\ \A id \in Ids \ {app.id} : wal'[id] = wal[id]
         /\ wal'[app.id] = IF open[app.key].linked THEN f ELSE wal[app.id]
<1>1. app.id \in Ids
  BY DEF Appends
<1> QED BY <1>1 DEF Journal, Typed

LEMMA JournalKeeps ==
  ASSUME BInv, AppendJournal
  PROVE  BInv'
<1> DEFINE k == app.key
           t == app.trace
           more == open[k].traces \cup {t}
           b == [open[k] EXCEPT !.traces = more]
<1>1. Typed /\ Placed /\ app \in Appends /\ k \in Keys /\ t \in Traces /\ app.id \in Ids
  BY DEF AppendJournal, BInv, Typed, NoAppend, Appends
<1>2. OpenAt(k) /\ open[k].id = app.id /\ app.id \in issued /\ ~Sealing
  BY <1>1 DEF Placed
<1>3. more \in SUBSET Traces
  BY <1>1, <1>2 DEF OpenAt, OpenBlocks
<1> HIDE DEF more
<1>4. b \in OpenBlocks /\ b.id = open[k].id /\ b.traces = more
  BY <1>2, <1>3 DEF OpenAt, OpenBlocks
<1>5. open' = [open EXCEPT ![k] = b]
  BY <1>1 DEF AppendJournal, Typed, more
<1> HIDE DEF b
<1>6. open'[k] = b /\ \A l \in Keys \ {k} : open'[l] = open[l]
  BY <1>1, <1>5 DEF Typed
<1>7. wal' \in [Ids -> Files] /\ \A id \in Ids \ {app.id} : wal'[id] = wal[id]
  <2>1. Written(wal[app.id], t) \in Files
    BY <1>1, FileWritten DEF Typed
  <2> QED BY <1>1, <2>1, Journalled DEF AppendJournal
<1>8. UNCHANGED <<blocks, hot, seq, phase, seal, todo, starts, acked, issued, reused>>
  BY DEF AppendJournal, history
<1>9. \/ /\ phase = "replay" /\ app' = NoAppend
         /\ replay' \in Replays /\ replay'.seg = replay.seg /\ replay'.left = replay.left \ {t}
      \/ phase # "replay" /\ app' \in Appends /\ app'.key = k /\ app'.id = app.id /\ app'.trace = t
         /\ app'.pc = "hot" /\ replay' = replay
  <2>1. CASE phase = "replay"
    BY <1>1, <2>1 DEF AppendJournal, Typed, Replays, TraceSets
  <2>2. CASE phase # "replay"
    <3> DEFINE next == "hot"
               a == [app EXCEPT !.pc = next]
    <3>1. app' = a /\ replay' = replay
      BY <2>2 DEF AppendJournal
    <3>2. next \in {"journal", "hot"} /\ next = "hot"
      OBVIOUS
    <3> HIDE DEF next
    <3>3. a \in Appends /\ a.key = k /\ a.id = app.id /\ a.trace = t /\ a.pc = next
      BY <1>1, <3>2 DEF Appends
    <3> QED BY <2>2, <3>1, <3>2, <3>3
  <2> QED BY <2>1, <2>2
<1>10. Typed'
  BY <1>1, <1>3, <1>4, <1>5, <1>7, <1>8, <1>9 DEF Typed, TraceSets
<1>11. Placed'
  <2>1. \A l \in Keys : OpenAt(l)' => open'[l].id.tier = l[1] /\ open'[l].id.hour = l[2] /\ open'[l].id \in issued
    BY <1>1, <1>2, <1>4, <1>6 DEF Placed, OpenAt
  <2> NoAppend \notin Appends
    BY DEF NoAppend, Appends
  <2>2. app' \in Appends => open'[app'.key] \in OpenBlocks /\ open'[app'.key].id = app'.id /\ phase' \in {"serving", "replay"}
    BY <1>1, <1>2, <1>4, <1>6, <1>8, <1>9 DEF Placed, OpenAt, NoAppend
  <2>3. \A id \in Ids : wal'[id] # NoFile \/ blocks'[id] # NoBlock => id \in issued
    BY <1>1, <1>2, <1>7, <1>8 DEF Placed
  <2> QED BY <1>1, <1>2, <1>8, <1>9, <2>1, <2>2, <2>3 DEF Placed, Sealing, OpenAt, Typed, NoReplay
<1>12. ASSUME reused' = {} PROVE Binding'
  <2>1. Binding
    BY <1>8, <1>12 DEF BInv
  <2>2. t \in more /\ open[k].traces \subseteq more
    BY DEF more
  <2>3. app' \in Appends /\ app'.pc = "hot" => app'.trace \in open'[app'.key].traces
    BY <1>4, <1>6, <1>9, <2>2 DEF Appends, NoAppend
  <2> QED BY <1>1, <1>2, <1>4, <1>6, <1>8, <2>1, <2>2, <2>3 DEF Binding, OpenAt, Sealing, InSealedBlock
<1> QED BY <1>10, <1>11, <1>12 DEF BInv

\* A step that changes at most the journal, at an issued id, and drops the
\* append, the replay or the seal under way.
LEMMA DropKeeps ==
  ASSUME BInv, UNCHANGED <<blocks, hot, open, acked, issued>>, reused' = reused, seq' \in Nat,
         wal' \in [Ids -> Files], \A id \in Ids : wal'[id] # wal[id] => id \in issued,
         app' \in {app, NoAppend}, seal' \in {seal, NoSeal}, replay' \in {replay, NoReplay},
         \/ phase' = phase /\ (phase = "replay" \/ replay' = NoReplay \/ replay' = replay)
         \/ /\ phase' \notin {"down", "exited"} /\ (phase' # "replay" => replay' = NoReplay)
            /\ (phase' \notin {"serving", "replay"} => app' = NoAppend) /\ (phase' # "closing" => seal' = NoSeal)
  PROVE  BInv'
<1>1. Typed /\ Placed
  BY DEF BInv
<1>2. NoAppend \notin Appends /\ NoSeal \notin Seals
  BY DEF NoAppend, Appends, NoSeal, Seals
<1>3. Typed'
  BY <1>1 DEF Typed, NoReplay, Replays, TraceSets
<1>4. Placed'
  BY <1>1, <1>2 DEF Placed, OpenAt, Sealing, NoReplay, Typed
<1>5. ASSUME reused' = {} PROVE Binding'
  <2>1. Binding
    BY <1>5 DEF BInv
  <2> QED BY <1>1, <1>2, <2>1 DEF Binding, OpenAt, Sealing, InSealedBlock
<1> QED BY <1>3, <1>4, <1>5 DEF BInv

LEMMA FailuresKeep ==
  ASSUME BInv, \/ \E t \in Traces, tier \in Tiers : OpenFails(t, tier)
               \/ \E partial \in BOOLEAN : AppendJournalFails(partial)
               \/ AppendHotFails
  PROVE  BInv'
<1>1. ASSUME NEW t \in Traces, NEW tier \in Tiers, OpenFails(t, tier) PROVE BInv'
  <2>1. seq' \in Nat /\ wal' \in [Ids -> Files] /\ wal' = wal
    BY <1>1 DEF OpenFails, BInv, Typed, disk
  <2> QED BY <1>1, <2>1, DropKeeps DEF OpenFails, GiveUpReplay, disk, history, BInv, Placed, Sealing, Typed
<1>2. ASSUME NEW partial \in BOOLEAN, AppendJournalFails(partial) PROVE BInv'
  <2>1. app \in Appends /\ app.id \in Ids /\ app.id \in issued /\ ~Sealing /\ phase \in {"serving", "replay"}
    BY <1>2 DEF AppendJournalFails, BInv, Typed, NoAppend, Appends, Placed
  <2>2. wal' \in [Ids -> Files] /\ \A id \in Ids \ {app.id} : wal'[id] = wal[id]
    <3>1. CASE partial
      <4>1. [wal[app.id] EXCEPT !.torn = TRUE] \in Files
        BY <2>1 DEF BInv, Typed, Files
      <4> QED BY <1>2, <2>1, <3>1, <4>1, Journalled DEF AppendJournalFails, BInv
    <3>2. CASE ~partial
      BY <1>2, <3>2 DEF AppendJournalFails, BInv, Typed
    <3> QED BY <3>1, <3>2
  <2> QED BY <1>2, <2>1, <2>2, DropKeeps DEF AppendJournalFails, GiveUpReplay, history, BInv, Typed, Sealing
<1>3. ASSUME AppendHotFails PROVE BInv'
  BY <1>3, DropKeeps DEF AppendHotFails, disk, history, BInv, Typed
<1> QED BY <1>1, <1>2, <1>3

LEMMA HotKeeps ==
  ASSUME BInv, AppendHot
  PROVE  BInv'
<1> DEFINE t == app.trace
           row == [state |-> "pending", seg |-> app.id]
<1>1. Typed /\ Placed /\ app \in Appends /\ t \in Traces /\ app.id \in Ids /\ app.key \in Keys
  BY DEF AppendHot, BInv, Typed, NoAppend, Appends
<1>2. OpenAt(app.key) /\ open[app.key].id = app.id /\ app.id \in issued /\ ~Sealing
  BY <1>1 DEF Placed
<1>3. row \in Rows /\ row.state = "pending" /\ row.seg = app.id
  BY <1>1 DEF Rows
<1> HIDE DEF row
<1>4. hot' \in [Traces -> Rows] /\ hot'[t] = row /\ \A s \in Traces \ {t} : hot'[s] = hot[s]
  BY <1>1, <1>3 DEF AppendHot, Typed, row
<1>5. UNCHANGED <<wal, blocks, open, seq, phase, seal, replay, issued, reused>> /\ app' = NoAppend /\ acked' = acked \cup {t}
  BY DEF AppendHot
<1>6. Typed'
  BY <1>1, <1>4, <1>5 DEF Typed
<1>7. NoAppend \notin Appends
  BY DEF NoAppend, Appends
<1>8. Placed'
  BY <1>1, <1>2, <1>3, <1>4, <1>5, <1>7 DEF Placed, OpenAt, Sealing
<1>9. ASSUME reused' = {} PROVE Binding'
  <2>1. Binding /\ app.pc = "hot"
    BY <1>5, <1>9 DEF BInv, AppendHot
  <2>2. \A k \in Keys : OpenAt(k) /\ open[k].id = app.id => k = app.key
    <3>1. ASSUME NEW k \in Keys, OpenAt(k), open[k].id = app.id PROVE k = app.key
      <4>1. k[1] = app.key[1] /\ k[2] = app.key[2]
        BY <1>1, <1>2, <3>1 DEF Placed
      <4> QED BY <1>1, <4>1 DEF Keys
    <3> QED BY <3>1
  <2> QED BY <1>1, <1>2, <1>3, <1>4, <1>5, <1>7, <2>1, <2>2 DEF Binding, OpenAt, Sealing, InSealedBlock
<1> QED BY <1>6, <1>8, <1>9 DEF BInv

LEMMA TakeKeeps ==
  ASSUME BInv, NEW id \in Ids, SealTake(id)
  PROVE  BInv'
<1>1. PICK k \in Keys : /\ open[k] # None /\ open[k].id = id
                        /\ seal' = [pc |-> "files", id |-> id, traces |-> open[k].traces]
                        /\ open' = [open EXCEPT ![k] = None]
  BY DEF SealTake
<1>2. Typed /\ Placed /\ phase = "closing" /\ ~Sealing /\ app = NoAppend
  BY DEF SealTake, BInv, Placed, Typed, NoSeal, Seals, Sealing
<1>3. OpenAt(k) /\ id \in issued
  BY <1>1, <1>2 DEF Typed, OpenAt, Placed
<1>4. seal' \in Seals /\ seal'.id = id /\ seal'.traces = open[k].traces /\ seal'.pc = "files"
  BY <1>1, <1>3 DEF Seals, OpenAt, OpenBlocks, TraceSets
<1>5. open'[k] = None /\ \A l \in Keys \ {k} : open'[l] = open[l]
  BY <1>1, <1>2 DEF Typed
<1>6. \A l \in Keys : open'[l] \in OpenBlocks => l # k /\ open[l] \in OpenBlocks /\ open'[l] = open[l] /\ open[l].id # id
  <2>1. ASSUME NEW l \in Keys, OpenAt(l), open[l].id = id PROVE l = k
    <3>1. l[1] = k[1] /\ l[2] = k[2]
      BY <1>1, <1>2, <1>3, <2>1 DEF Placed
    <3> QED BY <3>1 DEF Keys
  <2> QED BY <1>5, <2>1, NoneAssumption DEF OpenAt
<1>7. UNCHANGED <<disk, seq, phase, app, replay, acked, issued, reused>>
  BY DEF SealTake, history
<1>8. Typed'
  BY <1>1, <1>2, <1>4, <1>7 DEF Typed, disk
<1>9. Placed'
  BY <1>2, <1>3, <1>4, <1>6, <1>7 DEF Placed, OpenAt, Sealing, disk, NoAppend, Appends
<1>10. ASSUME reused' = {} PROVE Binding'
  <2>1. Binding
    BY <1>7, <1>10 DEF BInv
  <2> QED BY <1>1, <1>2, <1>3, <1>4, <1>6, <1>7, <2>1 DEF Binding, OpenAt, Sealing, InSealedBlock, disk, NoAppend, Appends
<1> QED BY <1>8, <1>9, <1>10 DEF BInv

\* A seal's later steps write the files of its block, and only those.
LEMMA BlockKeeps ==
  ASSUME BInv, Sealing, seal.pc \in {"files", "manifest"}, NEW b \in Sealed, blocks' = [blocks EXCEPT ![seal.id] = b],
         UNCHANGED <<wal, hot, open, seq, phase, app, replay, acked, issued, reused>>,
         \/ seal' = NoSeal
         \/ /\ seal' \in Seals /\ seal'.id = seal.id /\ seal'.traces = seal.traces
            /\ reused = {} => b.data = seal.traces
            /\ seal'.pc = "bind" => b.manifest
  PROVE  BInv'
<1>1. Typed /\ Placed /\ seal.id \in Ids /\ seal.id \in issued /\ NoSeal \notin Seals
  BY DEF BInv, Placed, Sealing, Seals, NoSeal
<1>2. blocks'[seal.id] = b /\ \A id \in Ids \ {seal.id} : blocks'[id] = blocks[id]
  BY <1>1 DEF Typed
<1>3. Typed'
  BY <1>1 DEF Typed
<1>4. Placed'
  BY <1>1, <1>2 DEF Placed, OpenAt, Sealing
<1>5. ASSUME reused' = {} PROVE Binding'
  <2>1. Binding
    BY <1>5 DEF BInv
  <2>2. \A t \in Traces : hot[t].state = "bound" => hot[t].seg \in Ids /\ hot[t].seg # seal.id
    BY <1>1, <2>1, NoneAssumption DEF Binding, Typed, Rows, Placed, Sealing
  <2>3. Sealing' => /\ seal'.id = seal.id /\ seal'.traces = seal.traces /\ blocks'[seal.id].data = seal.traces
                    /\ seal'.pc = "bind" => blocks'[seal.id].manifest
    BY <1>1, <1>2, <1>5 DEF Sealing
  <2>4. \A t \in Traces : hot[t].state = "bound" => InSealedBlock(t, hot[t].seg)'
    BY <1>2, <2>1, <2>2 DEF Binding, InSealedBlock
  <2> QED BY <1>1, <2>1, <2>2, <2>3, <2>4 DEF Binding, OpenAt, Sealing
<1> QED BY <1>3, <1>4, <1>5 DEF BInv

LEMMA SealMoved ==
  ASSUME NEW s \in Seals, NEW p \in {"files", "manifest", "bind"}
  PROVE  LET u == [s EXCEPT !.pc = p] IN u \in Seals /\ u.id = s.id /\ u.traces = s.traces /\ u.pc = p
  BY DEF Seals

\* What a half-done seal leaves of its block.
LEMMA Half ==
  ASSUME BInv, HalfSealed, blocks' # blocks
  PROVE  /\ Sealing /\ seal.pc \in {"files", "manifest"}
         /\ \E b \in Sealed : /\ blocks' = [blocks EXCEPT ![seal.id] = b]
                              /\ b = [blocks[seal.id] EXCEPT !.data = {}] \/ b = [blocks[seal.id] EXCEPT !.manifest = FALSE]
<1>1. Sealing /\ seal.pc \in {"files", "manifest"} /\ seal.id \in Ids /\ blocks[seal.id] \in Sealed
  BY DEF HalfSealed, BInv, Typed, NoSeal, Sealing, Seals
<1>2. [blocks[seal.id] EXCEPT !.data = {}] \in Sealed
  <2> DEFINE none == {}
  <2>1. none \in TraceSets
    BY DEF TraceSets
  <2> HIDE DEF none
  <2>2. [blocks[seal.id] EXCEPT !.data = none] \in Sealed
    BY <1>1, <2>1 DEF Sealed
  <2> QED BY <2>2 DEF none
<1>3. [blocks[seal.id] EXCEPT !.manifest = FALSE] \in Sealed
  <2> DEFINE no == FALSE
  <2>1. no \in BOOLEAN
    OBVIOUS
  <2> HIDE DEF no
  <2>2. [blocks[seal.id] EXCEPT !.manifest = no] \in Sealed
    BY <1>1, <2>1 DEF Sealed
  <2> QED BY <2>2 DEF no
<1>4. CASE blocks' = [blocks EXCEPT ![seal.id].data = {}]
  <2>1. blocks' = [blocks EXCEPT ![seal.id] = [blocks[seal.id] EXCEPT !.data = {}]]
    BY <1>1, <1>4 DEF BInv, Typed
  <2> QED BY <1>1, <1>2, <2>1
<1>5. CASE blocks' = [blocks EXCEPT ![seal.id].manifest = FALSE]
  <2>1. blocks' = [blocks EXCEPT ![seal.id] = [blocks[seal.id] EXCEPT !.manifest = FALSE]]
    BY <1>1, <1>5 DEF BInv, Typed
  <2> QED BY <1>1, <1>3, <2>1
<1> QED BY <1>4, <1>5 DEF HalfSealed

LEMMA SealKeeps ==
  ASSUME BInv, SealFiles \/ SealManifest \/ SealFails
  PROVE  BInv'
<1>1. CASE SealFiles
  <2> DEFINE all == seal.traces
             b == [blocks[seal.id] EXCEPT !.data = all]
             u == [seal EXCEPT !.pc = "manifest"]
  <2>1. Sealing /\ seal.pc = "files" /\ seal.id \in Ids /\ blocks[seal.id] \in Sealed /\ all \in TraceSets
    BY <1>1 DEF SealFiles, BInv, Typed, NoSeal, Sealing, Seals
  <2>2. blocks' = [blocks EXCEPT ![seal.id] = b] /\ seal' = u
    BY <1>1, <2>1 DEF SealFiles, BInv, Typed
  <2> HIDE DEF all
  <2>3. b \in Sealed /\ b.data = all
    BY <2>1 DEF Sealed
  <2>4. u \in Seals /\ u.id = seal.id /\ u.traces = seal.traces /\ u.pc = "manifest"
    BY <2>1, SealMoved DEF Sealing
  <2> HIDE DEF u, b
  <2> QED BY <1>1, <2>1, <2>2, <2>3, <2>4, BlockKeeps DEF SealFiles, history, all
<1>2. CASE SealManifest
  <2> DEFINE yes == TRUE
             b == [blocks[seal.id] EXCEPT !.manifest = yes]
             u == [seal EXCEPT !.pc = "bind"]
  <2>1. Sealing /\ seal.pc = "manifest" /\ seal.id \in Ids /\ blocks[seal.id] \in Sealed /\ yes \in BOOLEAN /\ yes
    BY <1>2 DEF SealManifest, BInv, Typed, NoSeal, Sealing, Seals
  <2>2. blocks' = [blocks EXCEPT ![seal.id] = b] /\ seal' = u
    BY <1>2, <2>1 DEF SealManifest, BInv, Typed
  <2> HIDE DEF yes
  <2>3. b \in Sealed /\ b.data = blocks[seal.id].data /\ b.manifest = yes
    BY <2>1 DEF Sealed
  <2>4. u \in Seals /\ u.id = seal.id /\ u.traces = seal.traces /\ u.pc = "bind"
    BY <2>1, SealMoved DEF Sealing
  <2> HIDE DEF u, b
  <2> QED BY <1>2, <2>1, <2>2, <2>3, <2>4, BlockKeeps DEF SealManifest, history, BInv, Binding
<1>3. CASE SealFails
  <2>1. Sealing /\ seal.pc \in {"files", "manifest"} /\ HalfSealed
    BY <1>3 DEF SealFails, BInv, Typed, NoSeal, Sealing
  <2>2. CASE blocks' = blocks
    BY <1>3, <2>2, DropKeeps DEF SealFails, history, BInv, Typed
  <2>3. CASE blocks' # blocks
    BY <1>3, <2>1, <2>3, Half, BlockKeeps DEF SealFails, history
  <2> QED BY <2>2, <2>3
<1> QED BY <1>1, <1>2, <1>3

LEMMA BindKeeps ==
  ASSUME BInv, Bind
  PROVE  BInv'
<1>1. Typed /\ Placed /\ Sealing /\ seal.pc = "bind"
  BY DEF Bind, BInv, Typed, NoSeal, Sealing
<1>2. ASSUME NEW t \in Traces
      PROVE  /\ hot'[t] \in Rows /\ hot'[t].seg = hot[t].seg
             /\ hot[t].state = "pending" /\ hot[t].seg = seal.id => hot'[t].state = "bound"
             /\ ~(hot[t].state = "pending" /\ hot[t].seg = seal.id) => hot'[t] = hot[t]
  <2> DEFINE bound == "bound"
             row == [hot[t] EXCEPT !.state = bound]
  <2>1. hot[t] \in Rows /\ bound \in {"none", "pending", "bound"} /\ bound = "bound"
    BY <1>1 DEF Typed
  <2>2. hot'[t] = IF hot[t] = [state |-> "pending", seg |-> seal.id] THEN row ELSE hot[t]
    BY DEF Bind
  <2>3. hot[t] = [state |-> "pending", seg |-> seal.id] <=> hot[t].state = "pending" /\ hot[t].seg = seal.id
    BY <2>1 DEF Rows
  <2> HIDE DEF bound
  <2>4. row \in Rows /\ row.seg = hot[t].seg /\ row.state = bound
    BY <2>1 DEF Rows
  <2> QED BY <2>1, <2>2, <2>3, <2>4
<1>3. UNCHANGED <<wal, blocks, open, seq, phase, app, replay, acked, issued, reused>> /\ seal' = NoSeal
      /\ hot' = [t \in Traces |-> hot'[t]]
  BY DEF Bind, history
<1>4. NoSeal \notin Seals
  BY DEF NoSeal, Seals
<1>5. Typed'
  BY <1>1, <1>2, <1>3 DEF Typed
<1>6. Placed'
  BY <1>1, <1>2, <1>3, <1>4 DEF Placed, OpenAt, Sealing
<1>7. ASSUME reused' = {} PROVE Binding'
  <2>1. Binding
    BY <1>3, <1>7 DEF BInv
  <2>2. \A t \in Traces : hot'[t].state = "bound" =>
          InSealedBlock(t, hot[t].seg) /\ \A k \in Keys : OpenAt(k) => open[k].id # hot[t].seg
    <3> SUFFICES ASSUME NEW t \in Traces, hot'[t].state = "bound"
                 PROVE  InSealedBlock(t, hot[t].seg) /\ \A k \in Keys : OpenAt(k) => open[k].id # hot[t].seg
      OBVIOUS
    <3>1. CASE hot[t].state = "pending" /\ hot[t].seg = seal.id
      BY <1>1, <2>1, <3>1 DEF Binding, InSealedBlock
    <3>2. CASE ~(hot[t].state = "pending" /\ hot[t].seg = seal.id)
      BY <1>2, <2>1, <3>2 DEF Binding
    <3> QED BY <3>1, <3>2
  <2>3. \A t \in Traces : hot'[t].state = "pending" => hot'[t] = hot[t]
    BY <1>2
  <2>4. \A t \in Traces : hot'[t].state = "bound" => InSealedBlock(t, hot[t].seg)' /\ hot'[t].seg = hot[t].seg
    BY <1>2, <1>3, <2>2 DEF InSealedBlock
  <2> QED BY <1>1, <1>3, <1>4, <2>1, <2>2, <2>3, <2>4 DEF Binding, OpenAt, Sealing, InSealedBlock
<1> QED BY <1>5, <1>6, <1>7 DEF BInv

\* The process ends, and what it had open with it; nothing on disk but the
\* journal may change, at an issued id.
LEMMA DownKeeps ==
  ASSUME BInv, UNCHANGED <<blocks, hot, acked, issued, reused>>, phase' \in {"down", "exited"},
         wal' \in [Ids -> Files], \A id \in Ids : wal'[id] # wal[id] => id \in issued,
         open' = [k \in Keys |-> None], seq' = 0, app' = NoAppend, seal' = NoSeal, replay' = NoReplay
  PROVE  BInv'
<1>1. Typed /\ Placed /\ NoAppend \notin Appends /\ NoSeal \notin Seals
  BY DEF BInv, NoAppend, Appends, NoSeal, Seals
<1>2. \A k \in Keys : open'[k] = None /\ ~OpenAt(k)'
  BY NoneAssumption DEF OpenAt
<1>3. Typed'
  BY <1>1 DEF Typed, Replays, NoReplay, TraceSets
<1>4. Placed'
  BY <1>1, <1>2 DEF Placed, Sealing, NoReplay
<1>5. ASSUME reused' = {} PROVE Binding'
  BY <1>1, <1>2, <1>5 DEF BInv, Binding, Sealing, InSealedBlock
<1> QED BY <1>3, <1>4, <1>5 DEF BInv

LEMMA ExitKeeps == ASSUME BInv, Exit PROVE BInv'
<1>1. app = NoAppend /\ replay = NoReplay
  BY DEF Exit, BInv, Placed, Typed
<1> QED BY <1>1, DownKeeps DEF Exit, disk, history, BInv, Typed

LEMMA StartKeeps == ASSUME BInv, Start PROVE BInv'
<1>1. /\ phase \in {"down", "exited"} /\ phase' = "replay" /\ Typed /\ Placed /\ app \notin Appends
      /\ ~Sealing /\ \A k \in Keys : open[k] = None
      /\ UNCHANGED <<wal, blocks, hot, open, seq, app, seal, replay, acked, issued, reused>>
  BY DEF Start, BInv, Placed, disk, history
<1>2. Typed'
  BY <1>1 DEF Typed
<1>3. Placed'
  BY <1>1 DEF Placed, OpenAt, Sealing
<1>4. reused' = {} => Binding'
  BY <1>1 DEF BInv, Binding, OpenAt, Sealing, InSealedBlock
<1> QED BY <1>2, <1>3, <1>4 DEF BInv

LEMMA KillKeeps == ASSUME BInv, Kill PROVE BInv'
<1>1. wal' \in [Ids -> Files] /\ \A id \in Ids : wal'[id] # wal[id] => id \in issued
  <2>1. CASE wal' = wal
    BY <2>1 DEF BInv, Typed
  <2>2. CASE app.pc = "journal" /\ wal' = Journal([wal[app.id] EXCEPT !.torn = TRUE])
    <3>1. app \in Appends /\ app.id \in Ids /\ app.id \in issued
      BY <2>2 DEF BInv, Typed, NoAppend, Appends, Placed
    <3>2. [wal[app.id] EXCEPT !.torn = TRUE] \in Files
      BY <3>1 DEF BInv, Typed, Files
    <3> QED BY <2>2, <3>1, <3>2, Journalled DEF BInv
  <2> QED BY <2>1, <2>2 DEF Kill
<1>2. CASE blocks' = blocks
  BY <1>1, <1>2, DownKeeps DEF Kill, history
<1>3. CASE blocks' # blocks
  \* The block changes first, then the process goes down.
  <2>1. PICK b \in Sealed : blocks' = [blocks EXCEPT ![seal.id] = b]
    BY <1>3, Half DEF Kill
  <2>2. Sealing /\ Typed /\ Placed /\ seal.id \in Ids /\ seal.id \in issued /\ NoAppend \notin Appends /\ NoSeal \notin Seals
    BY <1>3, Half DEF Kill, BInv, Placed, Sealing, Seals, NoAppend, Appends, NoSeal
  <2>3. blocks'[seal.id] = b /\ \A id \in Ids \ {seal.id} : blocks'[id] = blocks[id]
    BY <2>1, <2>2 DEF Typed
  <2>4. \A k \in Keys : open'[k] = None /\ ~OpenAt(k)'
    BY NoneAssumption DEF Kill, OpenAt
  <2>5. /\ UNCHANGED <<hot, acked, issued, reused>> /\ seq' = 0 /\ phase' = "down" /\ app' = NoAppend /\ seal' = NoSeal
        /\ replay' = NoReplay /\ open' = [k \in Keys |-> None]
    BY DEF Kill, history
  <2>6. Typed'
    BY <1>1, <2>1, <2>2, <2>5 DEF Typed, Replays, NoReplay, TraceSets
  <2>7. Placed'
    BY <1>1, <2>2, <2>3, <2>4, <2>5 DEF Placed, Sealing, NoReplay
  <2>8. ASSUME reused' = {} PROVE Binding'
    BY <2>2, <2>3, <2>4, <2>5, <2>8 DEF BInv, Binding, Sealing, InSealedBlock, Typed, Rows, Placed
  <2> QED BY <2>6, <2>7, <2>8 DEF BInv
<1> QED BY <1>2, <1>3

\* A step of the replay itself.
LEMMA VisitKeeps ==
  ASSUME BInv, NEW id \in Ids, NEW unreadable \in BOOLEAN, ReplayVisit(id, unreadable)
  PROVE  BInv'
<1>1. /\ phase = "replay" /\ Typed /\ Placed
      /\ UNCHANGED <<wal, blocks, hot, open, seq, phase, app, seal, acked, issued, reused>>
  BY DEF ReplayVisit, BInv, disk, history
<1>2. replay' = NoReplay \/ (replay' = [seg |-> id, left |-> wal[id].kept] /\ id \in issued)
  <2>1. ~Skipped(id) => wal[id] # NoFile
    BY DEF Skipped, NoFile
  <2> QED BY <1>1, <2>1 DEF ReplayVisit, Placed
<1>3. replay' \in Replays /\ (replay'.seg # None => replay'.seg \in issued)
  BY <1>1, <1>2 DEF Replays, NoReplay, Typed, Files, TraceSets
<1>4. Typed' /\ Placed'
  BY <1>1, <1>3 DEF Typed, Placed, OpenAt, Sealing
<1>5. reused' = {} => Binding'
  BY <1>1 DEF BInv, Binding, OpenAt, Sealing, InSealedBlock
<1> QED BY <1>4, <1>5 DEF BInv

LEMMA RemoveKeeps ==
  ASSUME BInv, ReplayRemove
  PROVE  BInv'
<1> DEFINE id == replay.seg
<1>1. /\ phase = "replay" /\ Typed /\ Placed /\ app = NoAppend /\ id \in Ids /\ id \in issued /\ ~Sealing
      /\ wal' = [wal EXCEPT ![id] = NoFile] /\ open' = Unlinked(id) /\ replay' = NoReplay
      /\ UNCHANGED <<blocks, hot, seq, phase, app, seal, acked, issued, reused>>
  BY DEF ReplayRemove, BInv, Placed, Typed, Replays, history
<1> HIDE DEF id
<1>2. NoFile \in Files /\ NoAppend \notin Appends
  BY DEF NoFile, Files, TraceSets, NoAppend, Appends
<1>3. ASSUME NEW k \in Keys
      PROVE  /\ open'[k] \in {None} \cup OpenBlocks
             /\ open'[k] \in OpenBlocks => open[k] \in OpenBlocks /\ open'[k].id = open[k].id /\ open'[k].traces = open[k].traces
  <2> DEFINE no == FALSE
             b == [open[k] EXCEPT !.linked = no]
  <2>1. open'[k] = IF open[k] # None /\ open[k].id = id THEN b ELSE open[k]
    BY <1>1 DEF Unlinked
  <2>2. no \in BOOLEAN /\ open[k] \in {None} \cup OpenBlocks
    BY <1>1 DEF Typed
  <2> HIDE DEF no
  <2>3. open[k] \in OpenBlocks => b \in OpenBlocks /\ b.id = open[k].id /\ b.traces = open[k].traces
    BY <2>2 DEF OpenBlocks
  <2> HIDE DEF b
  <2> QED BY <2>1, <2>2, <2>3, NoneAssumption
<1>4. open' = [k \in Keys |-> open'[k]]
  BY <1>1 DEF Unlinked
<1>5. Typed'
  BY <1>1, <1>2, <1>3, <1>4 DEF Typed, NoReplay, Replays, TraceSets
<1>6. Placed'
  BY <1>1, <1>2, <1>3 DEF Placed, OpenAt, Sealing, NoReplay, Typed
<1>7. ASSUME reused' = {} PROVE Binding'
  BY <1>1, <1>2, <1>3, <1>7 DEF BInv, Binding, OpenAt, Sealing, InSealedBlock
<1> QED BY <1>5, <1>6, <1>7 DEF BInv

LEMMA Keeping == ASSUME BInv, [Next]_vars PROVE BInv'
<1>1. ASSUME NEW t \in Traces, NEW tier \in Tiers, Append(t, tier) PROVE BInv'
  BY <1>1, Opened DEF Append
<1>2. CASE AppendStep
  BY <1>2, JournalKeeps, HotKeeps, FailuresKeep DEF AppendStep
<1>3. CASE SealStep
  <2>1. CASE BindFails
    BY <2>1, DropKeeps DEF BindFails, disk, history, BInv, Typed
  <2> QED BY <1>3, <2>1, TakeKeeps, SealKeeps, BindKeeps, ExitKeeps DEF SealStep
<1>4. CASE ReplayStep
  <2>1. ASSUME NEW t \in Traces, ReplayAppend(t) PROVE BInv'
    BY <2>1, Opened DEF ReplayAppend, Tiers
  <2>2. CASE Serve
    BY <2>2, DropKeeps DEF Serve, disk, history, BInv, Typed, Placed, Sealing
  <2> QED BY <1>4, <2>1, <2>2, VisitKeeps, RemoveKeeps DEF ReplayStep
<1>5. CASE Shutdown
  BY <1>5, DropKeeps DEF Shutdown, disk, history, BInv, Typed, Placed
<1>6. CASE UNCHANGED vars
  BY <1>6, DropKeeps DEF vars, BInv, Typed
<1> QED BY <1>1, <1>2, <1>3, <1>4, <1>5, <1>6, StartKeeps, KillKeeps DEF Next

LEMMA Starting == Init => BInv
<1> SUFFICES ASSUME Init PROVE BInv
  OBVIOUS
<1>1. NoFile \in Files /\ NoBlock \in Sealed /\ NoRow \in Rows /\ NoReplay \in Replays /\ NoAppend \notin Appends /\ NoSeal \notin Seals
  BY DEF NoFile, Files, NoBlock, Sealed, NoRow, Rows, NoReplay, Replays, NoAppend, Appends, NoSeal, Seals, TraceSets
<1>2. Typed
  BY <1>1 DEF Init, Typed
<1>3. Placed
  BY <1>1, NoneAssumption DEF Init, Placed, OpenAt, Sealing, NoRow, NoReplay
<1>4. Binding
  BY <1>1, NoneAssumption DEF Init, Binding, OpenAt, Sealing, NoRow
<1> QED BY <1>2, <1>3, <1>4 DEF BInv

\* A row is bound only to a sealed block that holds its trace, whichever calls
\* fail and whenever the process is killed (SealManifest before Bind).
THEOREM RowsResolve == Spec => []BoundRowsResolve
<1>1. BInv => BoundRowsResolve
  BY DEF BInv, Binding, BoundRowsResolve
<1>2. BInv /\ [Next]_vars => BInv'
  BY Keeping
<1> QED BY <1>1, <1>2, Starting, PTL DEF Spec

-----------------------------------------------------------------------------
(* Durability.                                                             *)

\* An open block's segment holds nothing the block does not, can be read to its
\* end and is the one on disk; so is a block's being sealed, up to its manifest.
\* What has been replayed is in another segment by then.
Moved ==
  replay.seg # None => \A t \in wal[replay.seg].kept \ replay.left :
                         \E id \in Ids \ {replay.seg} : ~blocks[id].manifest /\ t \in wal[id].kept
Durable ==
  /\ \A k \in Keys : OpenAt(k) =>
       /\ open[k].linked /\ ~wal[open[k].id].torn /\ wal[open[k].id].kept \subseteq open[k].traces
       /\ ~blocks[open[k].id].manifest
       /\ open[k].id # replay.seg
  /\ Sealing /\ seal.pc \in {"files", "manifest"} =>
       ~blocks[seal.id].manifest /\ wal[seal.id].kept \subseteq seal.traces
  /\ app \in Appends /\ app.pc = "hot" => app.trace \in wal[app.id].kept
  /\ Moved
  /\ \A t \in acked : OnDisk(t)

LEMMA QuietEndures ==
  ASSUME Durable, UNCHANGED <<wal, blocks, acked>>,
         \A k \in Keys : OpenAt(k)' => OpenAt(k) /\ open'[k] = open[k],
         app' \in {app, NoAppend}, seal' \in {seal, NoSeal}, replay' \in {replay, NoReplay}
  PROVE  Durable'
<1>1. NoAppend \notin Appends /\ NoSeal \notin Seals /\ NoReplay.seg = None
  BY DEF NoAppend, Appends, NoSeal, Seals, NoReplay
<1>2. \A k \in Keys : OpenAt(k)' => open'[k].id # replay'.seg
  <2> SUFFICES ASSUME NEW k \in Keys, OpenAt(k)' PROVE open'[k].id # replay'.seg
    OBVIOUS
  <2>1. OpenAt(k) /\ open'[k].id \in Ids /\ open[k] = open'[k]
    BY DEF OpenAt, OpenBlocks
  <2> QED BY <1>1, <2>1, NoneAssumption DEF Durable
<1>3. \A t \in acked' : OnDisk(t)'
  BY DEF Durable, OnDisk, InSealedBlock
<1>4. Moved'
  BY <1>1 DEF Durable, Moved
<1> QED BY <1>1, <1>2, <1>3, <1>4 DEF Durable, OpenAt, Sealing

LEMMA OpeningEndures ==
  ASSUME BInv, Durable, reused' = {}, NEW t \in Traces, NEW tier \in Tiers, OpenFor(t, tier),
         UNCHANGED <<disk, seal, replay, acked>>
  PROVE  Durable'
<1> DEFINE k == <<tier, HourOf[t]>>
<1>1. k \in Keys /\ Typed /\ Placed
  BY StoreAssumption DEF Keys, BInv
<1>2. app' \in Appends => app'.pc = "journal"
  BY DEF OpenFor
<1>3. \A l \in Keys : OpenAt(l)' =>
        \/ OpenAt(l) /\ open'[l] = open[l]
        \/ /\ open'[l].linked /\ open'[l].traces = {}
           /\ open'[l].id \in Ids /\ open'[l].id \notin issued
  <2>1. CASE open' = open
    BY <2>1 DEF OpenAt
  <2>2. CASE seq < MaxSeq /\ open' = [open EXCEPT ![k] = Fresh(k)]
             /\ reused' = (IF NewBlock(k) \in issued THEN reused \cup {NewBlock(k)} ELSE reused)
    <3>1. NewBlock(k) \in Ids /\ NewBlock(k) \notin issued
      BY <1>1, <2>2, BlockID
    <3>2. Fresh(k).id = NewBlock(k) /\ Fresh(k).linked /\ Fresh(k).traces = {}
      BY <1>1, <2>2, FreshTyped
    <3> HIDE DEF k
    <3>3. open'[k] = Fresh(k) /\ \A l \in Keys \ {k} : open'[l] = open[l]
      BY <1>1, <2>2 DEF Typed
    <3> QED BY <3>1, <3>2, <3>3 DEF OpenAt
  <2> QED BY <2>1, <2>2 DEF OpenFor, Fresh
<1>4. \A id \in Ids \ issued : wal[id] = NoFile /\ blocks[id] = NoBlock /\ id # replay.seg
  BY <1>1, NoneAssumption DEF Placed
<1>5. \A id \in Ids \ issued : wal[id].kept = {} /\ ~wal[id].torn /\ ~blocks[id].manifest /\ id # replay.seg
  BY <1>4 DEF NoFile, NoBlock
<1>6. \A l \in Keys : OpenAt(l)' =>
        /\ open'[l].linked /\ ~wal[open'[l].id].torn /\ wal[open'[l].id].kept \subseteq open'[l].traces
        /\ ~blocks[open'[l].id].manifest
        /\ open'[l].id # replay.seg
  BY <1>3, <1>5 DEF Durable
<1> QED BY <1>2, <1>6 DEF Durable, OpenAt, Sealing, Moved, OnDisk, InSealedBlock, disk

LEMMA JournalEndures ==
  ASSUME BInv, Durable, reused = {}, AppendJournal
  PROVE  Durable'
<1> DEFINE k == app.key
           t == app.trace
           file == Written(wal[app.id], t)
<1>1. Typed /\ Placed /\ app \in Appends /\ k \in Keys /\ t \in Traces /\ app.id \in Ids
  BY DEF AppendJournal, BInv, Typed, NoAppend, Appends
<1>2. OpenAt(k) /\ open[k].id = app.id /\ ~Sealing
  BY <1>1 DEF Placed
<1>3. /\ open[k].linked /\ ~wal[app.id].torn /\ wal[app.id].kept \subseteq open[k].traces
      /\ ~blocks[app.id].manifest /\ app.id # replay.seg
  BY <1>1, <1>2 DEF Durable
<1>4. file \in Files /\ file.kept = wal[app.id].kept \cup {t} /\ ~file.torn
  BY <1>1, <1>3, FileWritten DEF Typed
<1> HIDE DEF file
<1>5. wal'[app.id] = file /\ \A id \in Ids \ {app.id} : wal'[id] = wal[id]
  BY <1>1, <1>3, <1>4, Journalled DEF AppendJournal, file
<1>6. \A id \in Ids : wal[id].kept \subseteq wal'[id].kept
  BY <1>4, <1>5
<1>7. /\ UNCHANGED <<blocks, seal, acked>> /\ replay'.seg = replay.seg /\ replay'.left \in {replay.left, replay.left \ {t}}
  BY <1>1 DEF AppendJournal, history, Typed, Replays
<1>8. open'[k].id = app.id /\ open'[k].linked /\ open'[k].traces = open[k].traces \cup {t}
      /\ \A l \in Keys \ {k} : open'[l] = open[l]
  <2> DEFINE more == open[k].traces \cup {t}
             b == [open[k] EXCEPT !.traces = more]
  <2>1. open'[k] = b /\ \A l \in Keys \ {k} : open'[l] = open[l]
    BY <1>1 DEF AppendJournal, Typed
  <2> HIDE DEF more
  <2>2. b.id = open[k].id /\ b.linked = open[k].linked /\ b.traces = more
    BY <1>2 DEF OpenAt, OpenBlocks
  <2> QED BY <1>2, <1>3, <2>1, <2>2 DEF more
<1>9. \A l \in Keys \ {k} : OpenAt(l) => open[l].id # app.id
  <2> SUFFICES ASSUME NEW l \in Keys, OpenAt(l), open[l].id = app.id PROVE l = k
    OBVIOUS
  <2>1. l[1] = k[1] /\ l[2] = k[2]
    BY <1>1, <1>2 DEF Placed
  <2> QED BY <1>1, <2>1 DEF Keys
<1>10. \A l \in Keys : OpenAt(l)' =>
        /\ open'[l].linked /\ ~wal'[open'[l].id].torn /\ wal'[open'[l].id].kept \subseteq open'[l].traces
        /\ ~blocks'[open'[l].id].manifest
        /\ open'[l].id # replay'.seg
  <2> SUFFICES ASSUME NEW l \in Keys, OpenAt(l)'
               PROVE  /\ open'[l].linked /\ ~wal'[open'[l].id].torn /\ wal'[open'[l].id].kept \subseteq open'[l].traces
                      /\ ~blocks'[open'[l].id].manifest
                      /\ open'[l].id # replay'.seg
    OBVIOUS
  <2>1. CASE l = k
    BY <1>3, <1>4, <1>5, <1>7, <1>8, <2>1
  <2>2. CASE l # k
    <3>1. OpenAt(l) /\ open'[l] = open[l] /\ open[l].id \in Ids /\ open[l].id # app.id
      BY <1>8, <1>9, <2>2 DEF OpenAt, OpenBlocks
    <3> QED BY <1>5, <1>7, <3>1 DEF Durable
  <2> QED BY <2>1, <2>2
<1>11. app' \in Appends /\ app'.pc = "hot" => app'.trace \in wal'[app'.id].kept
  <2>1. CASE phase = "replay"
    BY <2>1 DEF AppendJournal, NoAppend, Appends
  <2>2. CASE phase # "replay"
    <3>1. app' = [app EXCEPT !.pc = "hot"]
      BY <2>2 DEF AppendJournal
    <3>2. app'.trace = t /\ app'.id = app.id
      BY <1>1, <3>1 DEF Appends
    <3> QED BY <1>4, <1>5, <3>2
  <2> QED BY <2>1, <2>2
<1>12. Moved'
  <2> SUFFICES ASSUME replay.seg # None, NEW s \in wal'[replay.seg].kept, s \notin replay'.left
               PROVE  \E id \in Ids \ {replay.seg} : ~blocks[id].manifest /\ s \in wal'[id].kept
    BY <1>7 DEF Moved
  <2>1. CASE s = t
    BY <1>1, <1>3, <1>4, <1>5, <2>1
  <2>2. CASE s # t
    <3>1. replay.seg \in Ids /\ wal'[replay.seg] = wal[replay.seg] /\ s \notin replay.left
      BY <1>1, <1>3, <1>5, <1>7, <2>2 DEF Typed, Replays
    <3> QED BY <1>6, <3>1 DEF Durable, Moved
  <2> QED BY <2>1, <2>2
<1>13. \A s \in acked' : OnDisk(s)'
  BY <1>6, <1>7 DEF Durable, OnDisk, InSealedBlock
<1> QED BY <1>2, <1>7, <1>10, <1>11, <1>12, <1>13 DEF Durable, Sealing

LEMMA HotEndures ==
  ASSUME BInv, Durable, AppendHot
  PROVE  Durable'
<1>1. app \in Appends /\ app.pc = "hot" /\ app.id \in Ids /\ app.key \in Keys /\ Placed
  BY DEF AppendHot, BInv, Typed, NoAppend, Appends
<1>2. OpenAt(app.key) /\ open[app.key].id = app.id
  BY <1>1 DEF Placed
<1>3. OnDisk(app.trace)
  BY <1>1, <1>2 DEF Durable, OnDisk
<1>4. app' \notin Appends
  BY DEF AppendHot, NoAppend, Appends
<1> QED BY <1>3, <1>4 DEF AppendHot, Durable, OpenAt, Sealing, Moved, OnDisk, InSealedBlock

LEMMA TakingEndures ==
  ASSUME BInv, Durable, NEW id \in Ids, SealTake(id)
  PROVE  Durable'
<1>1. PICK k \in Keys : /\ open[k] # None /\ open[k].id = id
                        /\ seal' = [pc |-> "files", id |-> id, traces |-> open[k].traces]
                        /\ open' = [open EXCEPT ![k] = None]
  BY DEF SealTake
<1>2. OpenAt(k) /\ \A l \in Keys : OpenAt(l)' => OpenAt(l) /\ open'[l] = open[l]
  BY <1>1, NoneAssumption DEF BInv, Typed, OpenAt
<1>3. ~blocks[id].manifest /\ wal[id].kept \subseteq open[k].traces
  BY <1>1, <1>2 DEF Durable
<1>4. seal'.id = id /\ seal'.traces = open[k].traces
  BY <1>1
<1>5. UNCHANGED <<disk, app, replay, acked>>
  BY DEF SealTake, history
<1> QED BY <1>2, <1>3, <1>4, <1>5 DEF Durable, OpenAt, Moved, OnDisk, InSealedBlock, disk

\* A step of a seal that keeps on disk whatever was there: only the manifest
\* makes files count, and it comes when the files hold the segment.
LEMMA SealingEndures ==
  ASSUME BInv, Durable, reused = {}, Sealing, seal.pc \in {"files", "manifest"},
         NEW b \in Sealed, blocks' = [blocks EXCEPT ![seal.id] = b],
         b.manifest => b.data = seal.traces,
         seal' = NoSeal \/ (seal'.id = seal.id /\ seal'.traces = seal.traces /\ (b.manifest => seal'.pc = "bind")),
         wal' \in [Ids -> Files], \A id \in Ids : wal'[id].kept = wal[id].kept,
         \/ UNCHANGED <<wal, open, app, replay, acked>>
         \/ open' = [k \in Keys |-> None] /\ app' = NoAppend /\ replay' = NoReplay /\ acked' = acked
  PROVE  Durable'
<1>1. Typed /\ Placed /\ Binding /\ seal.id \in Ids /\ NoSeal \notin Seals /\ NoAppend \notin Appends /\ NoReplay.seg = None
  BY DEF BInv, Placed, Sealing, Seals, NoSeal, NoAppend, Appends, NoReplay
<1>2. blocks'[seal.id] = b /\ \A id \in Ids \ {seal.id} : blocks'[id] = blocks[id]
  BY <1>1 DEF Typed
<1>3. ~blocks[seal.id].manifest /\ wal[seal.id].kept \subseteq seal.traces
  BY DEF Durable
<1>4. replay.seg = None /\ replay'.seg = None /\ (app' \in Appends => app' = app) /\ acked' = acked
  BY <1>1 DEF Placed
<1>5. \A k \in Keys : OpenAt(k)' => /\ OpenAt(k) /\ open'[k] = open[k] /\ open[k].id \in Ids /\ open[k].id # seal.id
                                    /\ wal' = wal /\ replay' = replay
  BY <1>1, NoneAssumption DEF OpenAt, OpenBlocks, Binding
<1>6. \A k \in Keys : OpenAt(k)' =>
        /\ open'[k].linked /\ ~wal'[open'[k].id].torn /\ wal'[open'[k].id].kept \subseteq open'[k].traces
        /\ ~blocks'[open'[k].id].manifest
        /\ open'[k].id # replay'.seg
  BY <1>2, <1>5 DEF Durable
<1>7. Sealing' /\ seal'.pc \in {"files", "manifest"} =>
        ~blocks'[seal'.id].manifest /\ wal'[seal'.id].kept \subseteq seal'.traces
  BY <1>1, <1>2, <1>3 DEF Sealing
<1>8. app' \in Appends /\ app'.pc = "hot" => app'.trace \in wal'[app'.id].kept
  <2>1. app \in Appends => app.id \in Ids
    BY DEF Appends
  <2> QED BY <1>4, <2>1 DEF Durable
<1>9. ASSUME NEW t \in acked' PROVE OnDisk(t)'
  <2>1. PICK id \in Ids : InSealedBlock(t, id) \/ (~blocks[id].manifest /\ t \in wal[id].kept)
    BY <1>4, <1>9 DEF Durable, OnDisk
  <2>2. CASE id = seal.id
    BY <1>1, <1>2, <1>3, <2>1, <2>2 DEF OnDisk, InSealedBlock
  <2>3. CASE id # seal.id
    BY <1>2, <2>1, <2>3 DEF OnDisk, InSealedBlock
  <2> QED BY <2>2, <2>3
<1> QED BY <1>4, <1>6, <1>7, <1>8, <1>9 DEF Durable, Moved

LEMMA SealStepsEndure ==
  ASSUME BInv, Durable, reused = {}, SealFiles \/ SealManifest \/ SealFails
  PROVE  Durable'
<1>1. Sealing /\ seal.pc \in {"files", "manifest"} /\ seal.id \in Ids /\ blocks[seal.id] \in Sealed /\ Typed /\ Binding
      /\ ~blocks[seal.id].manifest
  BY DEF SealFiles, SealManifest, SealFails, BInv, Typed, NoSeal, Sealing, Seals, Durable
<1>2. wal' = wal /\ wal' \in [Ids -> Files] /\ UNCHANGED <<wal, open, app, replay, acked>>
  BY <1>1 DEF SealFiles, SealManifest, SealFails, Typed, history
<1>3. CASE SealFiles
  <2> DEFINE all == seal.traces
             b == [blocks[seal.id] EXCEPT !.data = all]
             u == [seal EXCEPT !.pc = "manifest"]
  <2>1. all \in TraceSets /\ seal \in Seals
    BY <1>1 DEF Sealing, Seals
  <2>2. blocks' = [blocks EXCEPT ![seal.id] = b] /\ seal' = u
    BY <1>1, <1>3 DEF SealFiles, Typed
  <2> HIDE DEF all
  <2>3. b \in Sealed /\ ~b.manifest
    BY <1>1, <2>1 DEF Sealed
  <2>4. u.id = seal.id /\ u.traces = seal.traces
    BY <2>1, SealMoved
  <2> HIDE DEF u, b
  <2> QED BY <1>1, <1>2, <2>2, <2>3, <2>4, SealingEndures
<1>4. CASE SealManifest
  <2> DEFINE yes == TRUE
             b == [blocks[seal.id] EXCEPT !.manifest = yes]
             u == [seal EXCEPT !.pc = "bind"]
  <2>1. yes \in BOOLEAN /\ seal \in Seals /\ blocks[seal.id].data = seal.traces
    BY <1>1, <1>4 DEF Sealing, SealManifest, Binding
  <2>2. blocks' = [blocks EXCEPT ![seal.id] = b] /\ seal' = u
    BY <1>1, <1>4 DEF SealManifest, Typed
  <2> HIDE DEF yes
  <2>3. b \in Sealed /\ b.data = seal.traces
    BY <1>1, <2>1 DEF Sealed
  <2>4. u.id = seal.id /\ u.traces = seal.traces /\ u.pc = "bind"
    BY <2>1, SealMoved
  <2> HIDE DEF u, b
  <2> QED BY <1>1, <1>2, <2>2, <2>3, <2>4, SealingEndures
<1>5. CASE SealFails
  <2>1. CASE blocks' = blocks
    BY <1>2, <1>5, <2>1, QuietEndures DEF SealFails, OpenAt
  <2>2. CASE blocks' # blocks
    <3>1. PICK b \in Sealed : blocks' = [blocks EXCEPT ![seal.id] = b]
                /\ (b = [blocks[seal.id] EXCEPT !.data = {}] \/ b = [blocks[seal.id] EXCEPT !.manifest = FALSE])
      BY <1>5, <2>2, Half DEF SealFails
    <3>2. ~b.manifest
      BY <1>1, <3>1 DEF Sealed
    <3> QED BY <1>1, <1>2, <1>5, <3>1, <3>2, SealingEndures DEF SealFails
  <2> QED BY <2>1, <2>2
<1> QED BY <1>3, <1>4, <1>5

LEMMA VisitEndures ==
  ASSUME BInv, Durable, NEW id \in Ids, NEW unreadable \in BOOLEAN, ReplayVisit(id, unreadable)
  PROVE  Durable'
<1>1. UNCHANGED <<wal, blocks, open, app, seal, acked>>
  BY DEF ReplayVisit, disk, history
<1>2. CASE replay' = NoReplay
  BY <1>1, <1>2, QuietEndures DEF OpenAt
<1>3. CASE ~Skipped(id) /\ replay' = [seg |-> id, left |-> wal[id].kept]
  <2>1. replay'.seg = id /\ replay'.left = wal[id].kept
    BY <1>3
  <2>2. \A k \in Keys : OpenAt(k) => open[k].id # id
    BY <1>3, NoneAssumption DEF Skipped, IsOpen, OpenAt
  <2> QED BY <1>1, <2>1, <2>2 DEF Durable, OpenAt, Sealing, Moved, OnDisk, InSealedBlock
<1> QED BY <1>2, <1>3 DEF ReplayVisit

LEMMA RemoveEndures ==
  ASSUME BInv, Durable, ReplayRemove
  PROVE  Durable'
<1> DEFINE seg == replay.seg
<1>1. /\ Typed /\ app' = NoAppend /\ seg \in Ids /\ replay.left = {} /\ wal' = [wal EXCEPT ![seg] = NoFile]
      /\ open' = Unlinked(seg) /\ replay' = NoReplay /\ ~Sealing /\ UNCHANGED <<blocks, seal, acked>>
  BY DEF ReplayRemove, BInv, Placed, Typed, Replays, history
<1>2. \A id \in Ids \ {seg} : wal'[id] = wal[id]
  BY <1>1 DEF Typed
<1>3. \A k \in Keys : OpenAt(k)' => OpenAt(k) /\ open'[k] = open[k] /\ open[k].id \in Ids \ {seg}
  <2> SUFFICES ASSUME NEW k \in Keys, OpenAt(k)'
               PROVE  OpenAt(k) /\ open'[k] = open[k] /\ open[k].id \in Ids \ {seg}
    OBVIOUS
  <2>1. open[k] \in {None} \cup OpenBlocks
    BY <1>1 DEF Typed
  <2>2. OpenAt(k) => open[k].id # seg /\ open[k].id \in Ids
    BY DEF Durable, OpenAt, OpenBlocks
  <2>3. open'[k] = IF open[k] # None /\ open[k].id = seg THEN [open[k] EXCEPT !.linked = FALSE] ELSE open[k]
    BY <1>1 DEF Unlinked
  <2> QED BY <2>1, <2>2, <2>3, NoneAssumption DEF OpenAt
<1>4. ASSUME NEW t \in acked' PROVE OnDisk(t)'
  <2>1. PICK id \in Ids : InSealedBlock(t, id) \/ (~blocks[id].manifest /\ t \in wal[id].kept)
    BY <1>1, <1>4 DEF Durable, OnDisk
  <2>2. CASE id # seg \/ InSealedBlock(t, id)
    BY <1>1, <1>2, <2>1, <2>2 DEF OnDisk, InSealedBlock
  <2>3. CASE id = seg /\ t \in wal[id].kept
    <3>1. PICK other \in Ids \ {seg} : ~blocks[other].manifest /\ t \in wal[other].kept
      BY <1>1, <2>3, NoneAssumption DEF Durable, Moved
    <3> QED BY <1>1, <1>2, <3>1 DEF OnDisk
  <2> QED BY <2>1, <2>2, <2>3
<1>5. NoAppend \notin Appends /\ NoReplay.seg = None
  BY DEF NoAppend, Appends, NoReplay
<1>6. \A k \in Keys : OpenAt(k)' => open'[k].id # NoReplay.seg
  BY <1>3, <1>5, NoneAssumption
<1> HIDE DEF seg
<1> QED BY <1>1, <1>2, <1>3, <1>4, <1>5, <1>6 DEF Durable, Sealing, Moved

LEMMA KillEndures ==
  ASSUME BInv, Durable, reused = {}, Kill
  PROVE  Durable'
<1>1. wal' \in [Ids -> Files] /\ \A id \in Ids : wal'[id].kept = wal[id].kept
  <2>1. CASE wal' = wal
    BY <2>1 DEF BInv, Typed
  <2>2. CASE app.pc = "journal" /\ wal' = Journal([wal[app.id] EXCEPT !.torn = TRUE])
    <3>1. app \in Appends /\ app.id \in Ids /\ wal[app.id] \in Files
      BY <2>2 DEF BInv, Typed, NoAppend, Appends
    <3> DEFINE yes == TRUE
               file == [wal[app.id] EXCEPT !.torn = yes]
    <3>2. yes \in BOOLEAN
      OBVIOUS
    <3>3. wal' = Journal(file)
      BY <2>2
    <3> HIDE DEF yes
    <3>4. file \in Files /\ file.kept = wal[app.id].kept
      BY <3>1, <3>2 DEF Files
    <3> HIDE DEF file
    <3> QED BY <3>1, <3>3, <3>4, Journalled DEF BInv
  <2> QED BY <2>1, <2>2 DEF Kill
<1>2. open' = [k \in Keys |-> None] /\ app' = NoAppend /\ replay' = NoReplay /\ seal' = NoSeal /\ acked' = acked
  BY DEF Kill, history
<1>3. CASE blocks' # blocks
  <2>1. Sealing /\ seal.pc \in {"files", "manifest"} /\ seal.id \in Ids /\ blocks[seal.id] \in Sealed /\ ~blocks[seal.id].manifest
    BY <1>3, Half DEF Kill, BInv, Typed, Sealing, Seals, Durable
  <2>2. PICK b \in Sealed : blocks' = [blocks EXCEPT ![seal.id] = b]
              /\ (b = [blocks[seal.id] EXCEPT !.data = {}] \/ b = [blocks[seal.id] EXCEPT !.manifest = FALSE])
    BY <1>3, Half DEF Kill
  <2>3. ~b.manifest
    BY <2>1, <2>2 DEF Sealed
  <2> QED BY <1>1, <1>2, <2>1, <2>2, <2>3, SealingEndures
<1>4. CASE blocks' = blocks
  <2>1. \A k \in Keys : ~OpenAt(k)'
    BY <1>2, NoneAssumption DEF OpenAt
  <2>2. NoAppend \notin Appends /\ NoSeal \notin Seals /\ NoReplay.seg = None
    BY DEF NoAppend, Appends, NoSeal, Seals, NoReplay
  <2>3. \A t \in acked' : OnDisk(t)'
    BY <1>1, <1>2, <1>4 DEF Durable, OnDisk, InSealedBlock
  <2> QED BY <1>2, <2>1, <2>2, <2>3 DEF Durable, Sealing, Moved
<1> QED BY <1>3, <1>4

LEMMA Enduring ==
  ASSUME "tear" \notin Faults, BInv, Durable, reused' = {}, reused = {}, [Next]_vars
  PROVE  Durable'
<1>1. ASSUME NEW t \in Traces, NEW tier \in Tiers, Append(t, tier) PROVE Durable'
  BY <1>1, OpeningEndures DEF Append
<1>2. ASSUME NEW t \in Traces, ReplayAppend(t) PROVE Durable'
  BY <1>2, OpeningEndures DEF ReplayAppend, Tiers
<1>3. ASSUME NEW t \in Traces, NEW tier \in Tiers, OpenFails(t, tier) PROVE Durable'
  BY <1>3, QuietEndures DEF OpenFails, GiveUpReplay, disk, history, OpenAt
<1>4. ASSUME NEW partial \in BOOLEAN, AppendJournalFails(partial) PROVE Durable'
  <2>1. ~partial
    BY <1>4 DEF AppendJournalFails
  <2> QED BY <1>4, <2>1, QuietEndures DEF AppendJournalFails, GiveUpReplay, history, OpenAt
<1>5. CASE AppendHotFails \/ Bind \/ BindFails \/ Shutdown \/ Start \/ Serve \/ UNCHANGED vars
  BY <1>5, QuietEndures DEF AppendHotFails, Bind, BindFails, Shutdown, Start, Serve, disk, history, vars, OpenAt
<1>6. CASE Exit
  <2>1. \A k \in Keys : ~OpenAt(k)'
    BY <1>6, NoneAssumption DEF Exit, OpenAt
  <2> QED BY <1>6, <2>1, QuietEndures DEF Exit, disk, history
<1>7. CASE AppendStep
  BY <1>3, <1>4, <1>5, <1>7, JournalEndures, HotEndures DEF AppendStep
<1>8. CASE SealStep
  BY <1>5, <1>6, <1>8, TakingEndures, SealStepsEndure DEF SealStep
<1>9. CASE ReplayStep
  BY <1>2, <1>5, <1>9, VisitEndures, RemoveEndures DEF ReplayStep
<1> QED BY <1>1, <1>5, <1>7, <1>8, <1>9, KillEndures DEF Next

\* No step takes a block id back once it has been handed out twice.
LEMMA ReusedForGood == ASSUME [Next]_vars PROVE reused \subseteq reused'
  BY DEF Next, Start, Shutdown, Kill, Append, OpenFor, AppendStep, AppendJournal, AppendHot, AppendHotFails,
         AppendJournalFails, OpenFails, SealStep, SealTake, SealFiles, SealManifest, SealFails, Bind, BindFails, Exit,
         ReplayStep, ReplayVisit, ReplayAppend, ReplayRemove, Serve, history, vars

\* DR-7 without a partial write: whatever calls fail, whenever the process is
\* killed and however often it starts again, every trace whose Append returned
\* no error is in a sealed block or in a segment the next start replays, as
\* long as no block id is handed out twice.
THEOREM AcknowledgedEndures ==
  ASSUME "tear" \notin Faults
  PROVE  Spec => []DurableUnlessReused
<1> DEFINE Inv == BInv /\ (reused = {} => Durable)
<1>1. Init => Inv
  <2> SUFFICES ASSUME Init PROVE Durable
    BY Starting
  <2>1. NoSeal \notin Seals /\ NoAppend \notin Appends /\ NoReplay.seg = None
    BY DEF NoAppend, Appends, NoSeal, Seals, NoReplay
  <2> QED BY <2>1, NoneAssumption DEF Init, Durable, OpenAt, Sealing, Moved
<1>2. Inv /\ [Next]_vars => Inv'
  BY Keeping, Enduring, ReusedForGood
<1>3. Inv => DurableUnlessReused
  BY DEF Durable, DurableUnlessReused
<1> QED BY <1>1, <1>2, <1>3, PTL DEF Spec

-----------------------------------------------------------------------------
(* The archive.                                                            *)

\* What the first process can count on: it has nothing to replay, its counter
\* is past every id handed out, and a pending row's trace is in its segment.
FirstProcess ==
  /\ reused = {} /\ starts \in Nat
  /\ starts = 0 => phase = "down" /\ issued = {}
  /\ phase \in {"replay", "serving", "closing"} => \A id \in issued : id.seq <= seq
  /\ phase = "replay" => todo = {} /\ replay = NoReplay /\ app = NoAppend
  /\ \A t \in Traces : hot[t].state = "pending" => t \in wal[hot[t].seg].kept
  /\ \A t \in Traces : t \in acked <=> hot[t].state # "none"

AInv == BInv /\ Durable /\ FirstProcess

LEMMA NewNumber ==
  ASSUME AInv, NEW t \in Traces, NEW tier \in Tiers, OpenFor(t, tier), phase = "serving"
  PROVE  reused' = {} /\ \A id \in issued' : id.seq <= seq'
<1> DEFINE k == <<tier, HourOf[t]>>
<1>1. k \in Keys /\ seq \in Nat /\ issued \subseteq Ids
  BY StoreAssumption DEF Keys, AInv, BInv, Typed
<1>2. \A id \in issued : id.seq \in Nat /\ id.seq <= seq
  BY <1>1 DEF AInv, FirstProcess, Ids
<1>3. CASE open[k] # None
  BY <1>2, <1>3 DEF OpenFor, AInv, FirstProcess
<1>4. CASE seq' = seq + 1 /\ issued' = issued \cup {NewBlock(k)}
           /\ reused' = IF NewBlock(k) \in issued THEN reused \cup {NewBlock(k)} ELSE reused
  <2>1. NewBlock(k).seq = seq + 1
    BY DEF NewBlock
  <2>2. NewBlock(k) \notin issued
    BY <1>1, <1>2, <2>1
  <2> HIDE DEF k
  <2> QED BY <1>1, <1>2, <1>4, <2>1, <2>2 DEF AInv, FirstProcess
<1> QED BY <1>3, <1>4 DEF OpenFor

LEMMA WritingKeepsFirst ==
  ASSUME AInv, AppendJournal \/ AppendHot
  PROVE  FirstProcess'
<1>1. Typed /\ Placed /\ app \in Appends /\ app.id \in Ids /\ app.trace \in Traces /\ phase = "serving"
  BY DEF AppendJournal, AppendHot, AInv, BInv, Typed, Placed, NoAppend, Appends, FirstProcess
<1>2. UNCHANGED <<reused, issued, starts, seq, phase>>
  BY DEF AppendJournal, AppendHot, history
<1>3. CASE AppendJournal
  <2>1. \A id \in Ids : wal[id].kept \subseteq wal'[id].kept
    BY <1>1, <1>3, FileWritten, Journalled DEF AppendJournal, Typed
  <2>2. \A t \in Traces : hot[t].state = "pending" => hot[t].seg \in Ids
    BY <1>1 DEF Typed, Placed
  <2> QED BY <1>1, <1>2, <1>3, <2>1, <2>2 DEF AppendJournal, AInv, FirstProcess, history
<1>4. CASE AppendHot
  <2>1. app.trace \in wal[app.id].kept
    BY <1>1, <1>4 DEF AppendHot, AInv, Durable
  <2>2. hot'[app.trace].state = "pending" /\ hot'[app.trace].seg = app.id
        /\ \A t \in Traces \ {app.trace} : hot'[t] = hot[t]
    BY <1>1, <1>4 DEF AppendHot, Typed
  <2> QED BY <1>1, <1>2, <1>4, <2>1, <2>2 DEF AppendHot, AInv, FirstProcess
<1> QED BY <1>3, <1>4

LEMMA BindingKeepsFirst ==
  ASSUME AInv, Bind
  PROVE  FirstProcess'
<1>1. \A t \in Traces : \/ hot'[t] = hot[t]
                        \/ hot'[t].state = "bound"
  <2> SUFFICES ASSUME NEW t \in Traces PROVE hot'[t] = hot[t] \/ hot'[t].state = "bound"
    OBVIOUS
  <2> DEFINE bound == "bound"
             row == [hot[t] EXCEPT !.state = bound]
  <2>1. hot[t] \in Rows /\ (hot'[t] = hot[t] \/ hot'[t] = row)
    BY DEF AInv, BInv, Typed, Bind
  <2> HIDE DEF bound
  <2>2. row.state = bound
    BY <2>1 DEF Rows
  <2> QED BY <2>1, <2>2 DEF bound
<1> QED BY <1>1 DEF Bind, AInv, BInv, Typed, FirstProcess, history

LEMMA OthersKeepFirst ==
  ASSUME MaxStarts <= 1, AInv, [Next]_vars, ~AppendJournal, ~AppendHot, ~Bind
  PROVE  FirstProcess'
<1>1. Typed /\ Placed /\ FirstProcess /\ seq \in Nat /\ MaxStarts \in Nat
  BY StoreAssumption DEF AInv, BInv, Typed
<1>2. ASSUME NEW t \in Traces, NEW tier \in Tiers, Append(t, tier) PROVE FirstProcess'
  BY <1>1, <1>2, NewNumber DEF Append, FirstProcess, disk
<1>3. CASE Start
  <2>1. starts = 0 /\ phase = "down" /\ issued = {}
    BY <1>1, <1>3 DEF Start, FirstProcess
  <2>2. todo' = {} /\ replay = NoReplay /\ app = NoAppend
    BY <1>1, <1>3, <2>1 DEF Start, Placed, Typed
  <2> QED BY <1>1, <1>3, <2>1, <2>2 DEF Start, FirstProcess, disk, history
<1>4. CASE Kill \/ Exit
  <2>1. \A id \in Ids : wal[id].kept = wal'[id].kept
    <3>1. CASE wal' = wal
      BY <3>1
    <3>2. CASE Kill /\ app.pc = "journal" /\ wal' = Journal([wal[app.id] EXCEPT !.torn = TRUE])
      <4>1. app \in Appends /\ app.id \in Ids /\ wal[app.id] \in Files
        BY <1>1, <3>2 DEF Typed, NoAppend, Appends
      <4> DEFINE yes == TRUE
                 file == [wal[app.id] EXCEPT !.torn = yes]
      <4>2. yes \in BOOLEAN /\ wal' = Journal(file)
        BY <3>2
      <4> HIDE DEF yes
      <4>3. file \in Files /\ file.kept = wal[app.id].kept
        BY <4>1, <4>2 DEF Files
      <4> HIDE DEF file
      <4> QED BY <1>1, <4>1, <4>2, <4>3, Journalled
    <3> QED BY <1>4, <3>1, <3>2 DEF Kill, Exit, disk
  <2>2. \A t \in Traces : hot[t].state = "pending" => hot[t].seg \in Ids
    BY <1>1 DEF Typed, Placed
  <2> QED BY <1>1, <1>4, <2>1, <2>2 DEF Kill, Exit, FirstProcess, disk, history
<1>5. CASE AppendHotFails \/ BindFails \/ Shutdown \/ SealFiles \/ SealManifest \/ SealFails \/ UNCHANGED vars
           \/ \E id \in Ids : SealTake(id)
  BY <1>1, <1>5 DEF AppendHotFails, BindFails, Shutdown, SealFiles, SealManifest, SealFails, SealTake, FirstProcess, disk,
                    history, vars
<1>6. ASSUME NEW partial \in BOOLEAN, AppendJournalFails(partial) PROVE FirstProcess'
  <2>1. phase = "serving" /\ app \in Appends /\ app.id \in Ids /\ wal[app.id] \in Files
    BY <1>1, <1>6 DEF AppendJournalFails, FirstProcess, Placed, Typed, NoAppend, Appends
  <2>2. \A id \in Ids : wal[id].kept = wal'[id].kept
    <3>1. CASE ~partial
      BY <1>6, <3>1 DEF AppendJournalFails
    <3>2. CASE partial
      <4> DEFINE yes == TRUE
                 file == [wal[app.id] EXCEPT !.torn = yes]
      <4>1. yes \in BOOLEAN /\ wal' = Journal(file)
        BY <1>6, <3>2 DEF AppendJournalFails
      <4> HIDE DEF yes
      <4>2. file \in Files /\ file.kept = wal[app.id].kept
        BY <2>1, <4>1 DEF Files
      <4> HIDE DEF file
      <4> QED BY <1>1, <2>1, <4>1, <4>2, Journalled
    <3> QED BY <3>1, <3>2
  <2>3. \A t \in Traces : hot[t].state = "pending" => hot[t].seg \in Ids
    BY <1>1 DEF Typed, Placed
  <2> QED BY <1>1, <1>6, <2>1, <2>2, <2>3 DEF AppendJournalFails, GiveUpReplay, FirstProcess, history
<1>7. ASSUME NEW t \in Traces, NEW tier \in Tiers, OpenFails(t, tier) PROVE FirstProcess'
  <2>1. seq' \in Nat /\ seq' = seq + 1 /\ \A id \in issued : id.seq \in Nat
    BY <1>1, <1>7 DEF OpenFails, Typed, Ids
  <2>2. phase = "serving"
    BY <1>1, <1>7 DEF OpenFails, FirstProcess, Placed, NoReplay
  <2> QED BY <1>1, <1>7, <2>1, <2>2 DEF OpenFails, GiveUpReplay, FirstProcess, disk, history
<1>8. CASE ReplayStep
  <2>1. CASE Serve
    BY <1>1, <2>1 DEF Serve, FirstProcess, disk, history
  <2>2. ~(\E id \in Ids, unreadable \in BOOLEAN : ReplayVisit(id, unreadable))
    BY <1>1 DEF ReplayVisit, IsFirst, FirstProcess
  <2>3. ~(\E t \in Traces : ReplayAppend(t)) /\ ~ReplayRemove
    BY <1>1 DEF ReplayAppend, ReplayRemove, NoReplay, FirstProcess
  <2> QED BY <1>8, <2>1, <2>2, <2>3 DEF ReplayStep
<1> QED BY <1>2, <1>3, <1>4, <1>5, <1>6, <1>7, <1>8 DEF Next, AppendStep, SealStep

\* FR-F03-1 and FR-F03-2: as long as the process is not started again and no
\* write is left partial, every acknowledged trace is found from the moment of
\* its acknowledgement on, and no other one, through seals, binds, errors, the
\* shutdown and a kill: the store implements an archive.
THEOREM StoreImplementsArchive ==
  ASSUME "tear" \notin Faults, MaxStarts <= 1
  PROVE  Spec => ActsAsArchive
<1> DEFINE found == {t \in Traces : Found(t)}
<1>1. Init => AInv
  <2> SUFFICES ASSUME Init PROVE Durable /\ FirstProcess
    BY Starting DEF AInv
  <2>1. NoSeal \notin Seals /\ NoAppend \notin Appends /\ NoReplay.seg = None
    BY DEF NoAppend, Appends, NoSeal, Seals, NoReplay
  <2>2. Durable
    BY <2>1, NoneAssumption DEF Init, Durable, OpenAt, Sealing, Moved
  <2>3. FirstProcess
    BY DEF Init, FirstProcess, NoRow
  <2> QED BY <2>2, <2>3
<1>2. AInv /\ [Next]_vars => AInv'
  <2> SUFFICES ASSUME AInv, [Next]_vars PROVE AInv'
    OBVIOUS
  <2>1. BInv'
    BY Keeping DEF AInv
  <2>2. FirstProcess'
    BY WritingKeepsFirst, BindingKeepsFirst, OthersKeepFirst
  <2>3. Durable'
    BY <2>2, Enduring DEF AInv, FirstProcess
  <2> QED BY <2>1, <2>2, <2>3 DEF AInv
<1>3. AInv => found = acked
  BY DEF AInv, BInv, Typed, Rows, Binding, FirstProcess, Found
<1>4. AInv' => found' = acked'
  BY DEF AInv, BInv, Typed, Rows, Binding, FirstProcess, Found
<1>5. Init => Archive!Init
  <2> SUFFICES ASSUME Init PROVE acked = {} /\ \A t \in Traces : ~Found(t)
    BY DEF Archive!Init
  <2> QED BY DEF Init, Found, NoRow
<1>6. AInv /\ AInv' /\ [Next]_vars => [Archive!Next]_<<acked, found>>
  <2> SUFFICES ASSUME AInv, AInv', [Next]_vars PROVE Archive!Next \/ (acked' = acked /\ found' = found)
    OBVIOUS
  <2>1. found = acked /\ found' = acked'
    BY <1>3, <1>4
  <2>2. \/ acked' = acked
        \/ AppendHot
    BY DEF Next, Start, Shutdown, Kill, Append, OpenFor, AppendStep, AppendJournal, AppendHot, AppendHotFails,
           AppendJournalFails, OpenFails, SealStep, SealTake, SealFiles, SealManifest, SealFails, Bind, BindFails, Exit,
           ReplayStep, ReplayVisit, ReplayAppend, ReplayRemove, Serve, history, vars
  <2>3. CASE AppendHot
    <3>1. app.trace \in Traces /\ acked' = acked \cup {app.trace}
      BY <2>3 DEF AppendHot, AInv, BInv, Typed, NoAppend, Appends
    <3> QED BY <2>1, <3>1 DEF Archive!Next, Archive!Put
  <2> QED BY <2>1, <2>2, <2>3
<1> QED BY <1>1, <1>2, <1>5, <1>6, PTL DEF Spec, ActsAsArchive, Archive!Spec
=============================================================================
