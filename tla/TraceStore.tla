------------------------------ MODULE TraceStore ------------------------------
(***************************************************************************)
(* The tiered trace store across process kills and restarts: the cold      *)
(* write-ahead journal and blocks (internal/store/parquet), the hot index  *)
(* rows (internal/store/sqlite), the two-step Append and GetTrace of       *)
(* internal/store, and the part of cmd/traceiq/system.go that replays the  *)
(* journal at start and seals every open block at shutdown.                *)
(*                                                                         *)
(* On disk: journal segments, block files, manifests, hot rows.  In        *)
(* memory: the open blocks and the block counter.  A kill keeps what the   *)
(* process has written and loses its memory; power loss is not modelled,   *)
(* so fsync is not either.                                                 *)
(*                                                                         *)
(* One tenant.  One bridge goroutine appends, and Shutdown joins it before *)
(* it seals, so at most one Append or one Seal is under way.  An open      *)
(* block's id is also its journal segment's name.  A segment's records are *)
(* a set: all belong to one hour, so replay sends them to one block in     *)
(* whichever order; what matters is whether a partial record precedes one. *)
(***************************************************************************)
EXTENDS Naturals, FiniteSets

CONSTANTS
  Traces, Hours,
  HourOf,      \* the hour of a trace's start time
  Faults,      \* which calls may return an error
  Kills,       \* whether the process may be killed
  MaxSeq,      \* bound on the blocks one process opens
  MaxStarts,   \* bound on the number of times the process starts
  None

Tiers == {"anomalous", "sampled"}

ASSUME StoreAssumption ==
  /\ Hours \subseteq Nat
  /\ HourOf \in [Traces -> Hours]
  /\ Faults \subseteq {"open", "write", "tear", "hot", "seal", "bind", "replay"}
  /\ Kills \in BOOLEAN
  /\ MaxSeq \in Nat /\ MaxStarts \in Nat

Ids == [tier : Tiers, hour : Hours, seq : 1 .. MaxSeq]
Keys == Tiers \X Hours

OpenBlocks == [id : Ids, traces : SUBSET Traces, linked : BOOLEAN]

ASSUME NoneAssumption == None \notin Ids /\ None \notin Traces /\ None \notin OpenBlocks

VARIABLES
  wal,      \* wal/<id>.wal: the records before any partial one, and whether there is one
  blocks,   \* blocks/<id>/: the traces in the parquet files, and whether there is a manifest
  hot,      \* the hot index's row of each trace
  open,     \* Store.open, by (tier, hour)
  seq,      \* blockSeq, which starts again at zero in every process
  phase,    \* down, replay, serving, closing or exited
  app,      \* the Append under way
  seal,     \* the Seal and BindColdBlock under way
  todo,     \* the segments ReplayWAL, or the blocks Shutdown, has still to visit
  replay,   \* the segment being replayed
  starts,   \* how often the process has started
  acked,    \* history: traces whose Append returned no error
  issued, reused, \* history: block ids handed out, and handed out again
  unbound   \* history: blocks whose rows could not be bound

disk == <<wal, blocks, hot>>
history == <<acked, issued, reused, unbound>>
vars == <<wal, blocks, hot, open, seq, phase, app, seal, todo, replay, starts,
          acked, issued, reused, unbound>>

(***************************************************************************)
(* Helpers.                                                                *)
(***************************************************************************)
NoFile == [kept |-> {}, torn |-> FALSE]
NoBlock == [data |-> {}, manifest |-> FALSE]
NoRow == [state |-> "none", seg |-> None]
NoAppend == [pc |-> "idle", trace |-> None, key |-> None, id |-> None]
NoSeal == [pc |-> "idle", id |-> None, traces |-> {}]
NoReplay == [seg |-> None, left |-> {}]

IsOpen(id) == \E k \in Keys : open[k] # None /\ open[k].id = id

\* Nothing after a partial record can be parsed.
Written(file, t) == IF file.torn THEN file ELSE [file EXCEPT !.kept = @ \cup {t}]

\* os.ReadDir and sort.Strings: tier, hour and counter, in this order.
Rank(tier) == IF tier = "anomalous" THEN 1 ELSE 2
Precedes(x, y) ==
  \/ Rank(x.tier) < Rank(y.tier)
  \/ x.tier = y.tier /\ x.hour < y.hour
  \/ x.tier = y.tier /\ x.hour = y.hour /\ x.seq < y.seq
IsFirst(id, S) == id \in S /\ \A other \in S \ {id} : Precedes(id, other)

(***************************************************************************)
(* Append: the cold journal, then the hot row, then the acknowledgement.   *)
(***************************************************************************)
NewBlock(k) == [tier |-> k[1], hour |-> k[2], seq |-> seq + 1]

\* The block of the trace's tier and hour, opened if there is none.
OpenFor(t, tier) ==
  LET k == <<tier, HourOf[t]>> IN
  \/ /\ open[k] # None
     /\ app' = [pc |-> "journal", trace |-> t, key |-> k, id |-> open[k].id]
     /\ UNCHANGED <<open, seq, issued, reused>>
  \/ /\ open[k] = None
     /\ seq < MaxSeq
     /\ seq' = seq + 1
     /\ open' = [open EXCEPT ![k] = [id |-> NewBlock(k), traces |-> {}, linked |-> TRUE]]
     /\ app' = [pc |-> "journal", trace |-> t, key |-> k, id |-> NewBlock(k)]
     /\ reused' = IF NewBlock(k) \in issued THEN reused \cup {NewBlock(k)} ELSE reused
     /\ issued' = issued \cup {NewBlock(k)}

\* A file that has been removed under its open handle takes writes that no
\* later process will see.
Journal(file) == IF open[app.key].linked THEN [wal EXCEPT ![app.id] = file] ELSE wal

Append(t, tier) ==
  /\ phase = "serving" /\ app = NoAppend
  /\ OpenFor(t, tier)
  /\ UNCHANGED <<disk, phase, seal, todo, replay, starts, acked, unbound>>

AppendJournal ==
  /\ app.pc = "journal"
  /\ wal' = Journal(Written(wal[app.id], app.trace))
  /\ open' = [open EXCEPT ![app.key].traces = @ \cup {app.trace}]
  /\ IF phase = "replay"
     THEN /\ app' = NoAppend
          /\ replay' = [replay EXCEPT !.left = @ \ {app.trace}]
     ELSE /\ app' = [app EXCEPT !.pc = "hot"]
          /\ UNCHANGED replay
  /\ UNCHANGED <<blocks, hot, seq, phase, seal, todo, starts, history>>

\* ReplayWAL gives up at its first error, and newSystem only logs it.
GiveUpReplay == IF phase = "replay"
                THEN phase' = "serving" /\ todo' = {} /\ replay' = NoReplay
                ELSE UNCHANGED <<phase, todo, replay>>

\* The journal segment cannot be created: its number is used up.
OpenFails(t, tier) ==
  /\ "open" \in Faults
  /\ app = NoAppend
  /\ phase = "serving" \/ (t \in replay.left /\ tier = "sampled")
  /\ open[<<tier, HourOf[t]>>] = None
  /\ seq < MaxSeq
  /\ seq' = seq + 1
  /\ GiveUpReplay
  /\ UNCHANGED <<disk, open, app, seal, starts, history>>

\* A write fails, perhaps after part of the record; the block stays open.
AppendJournalFails(partial) ==
  /\ (IF partial THEN "tear" ELSE "write") \in Faults
  /\ app.pc = "journal"
  /\ wal' = IF partial THEN Journal([wal[app.id] EXCEPT !.torn = TRUE]) ELSE wal
  /\ app' = NoAppend
  /\ GiveUpReplay
  /\ UNCHANGED <<blocks, hot, open, seq, seal, starts, history>>

\* WriteBatch upserts the trace's row: pending, in this segment.
AppendHot ==
  /\ app.pc = "hot"
  /\ hot' = [hot EXCEPT ![app.trace] = [state |-> "pending", seg |-> app.id]]
  /\ acked' = acked \cup {app.trace}
  /\ app' = NoAppend
  /\ UNCHANGED <<wal, blocks, open, seq, phase, seal, todo, replay, starts, issued, reused, unbound>>

\* Not the code: an Append that ignores the error of the hot index.
AppendHotFailsAcked ==
  /\ "hot" \in Faults
  /\ app.pc = "hot"
  /\ acked' = acked \cup {app.trace} /\ app' = NoAppend
  /\ UNCHANGED <<disk, open, seq, phase, seal, todo, replay, starts, issued, reused, unbound>>

AppendHotFails ==
  /\ "hot" \in Faults
  /\ app.pc = "hot"
  /\ app' = NoAppend
  /\ UNCHANGED <<disk, open, seq, phase, seal, todo, replay, starts, history>>

(***************************************************************************)
(* Shutdown: seal every open block and bind its rows, one after the other. *)
(***************************************************************************)
Shutdown ==
  /\ phase = "serving" /\ app = NoAppend
  /\ phase' = "closing"
  /\ todo' = {id \in Ids : IsOpen(id)}
  /\ UNCHANGED <<disk, open, seq, app, seal, replay, starts, history>>

\* Seal takes the block out of the open map and copies its traces.
SealTake(id) ==
  /\ phase = "closing" /\ seal = NoSeal
  /\ IsFirst(id, todo)
  /\ \E k \in Keys :
       /\ open[k] # None /\ open[k].id = id
       /\ seal' = [pc |-> "files", id |-> id, traces |-> open[k].traces]
       /\ open' = [open EXCEPT ![k] = None]
  /\ todo' = todo \ {id}
  /\ UNCHANGED <<disk, seq, phase, app, replay, starts, history>>

SealFiles ==
  /\ seal.pc = "files"
  /\ blocks' = [blocks EXCEPT ![seal.id].data = seal.traces]
  /\ seal' = [seal EXCEPT !.pc = "manifest"]
  /\ UNCHANGED <<wal, hot, open, seq, phase, app, todo, replay, starts, history>>

\* Not the code: a seal whose bind is forgotten.
SealManifestOnly ==
  /\ seal.pc = "manifest"
  /\ blocks' = [blocks EXCEPT ![seal.id].manifest = TRUE]
  /\ seal' = NoSeal
  /\ UNCHANGED <<wal, hot, open, seq, phase, app, todo, replay, starts, history>>

SealManifest ==
  /\ seal.pc = "manifest"
  /\ blocks' = [blocks EXCEPT ![seal.id].manifest = TRUE]
  /\ seal' = [seal EXCEPT !.pc = "bind"]
  /\ UNCHANGED <<wal, hot, open, seq, phase, app, todo, replay, starts, history>>

\* os.Create and os.WriteFile truncate first: a seal that stops half-way may
\* leave empty files, or a manifest that does not parse.
HalfSealed ==
  \/ UNCHANGED blocks
  \/ seal.pc = "files" /\ blocks' = [blocks EXCEPT ![seal.id].data = {}]
  \/ seal.pc = "manifest" /\ blocks' = [blocks EXCEPT ![seal.id].manifest = FALSE]

\* Seal returns an error: the block is no longer open and is not bound.
SealFails ==
  /\ "seal" \in Faults
  /\ seal.pc \in {"files", "manifest"}
  /\ HalfSealed
  /\ seal' = NoSeal
  /\ UNCHANGED <<wal, hot, open, seq, phase, app, todo, replay, starts, history>>

\* Not the code: a bind of every pending row, whichever block it names.
BindEverything ==
  /\ seal.pc = "bind"
  /\ hot' = [t \in Traces |-> IF hot[t].state = "pending" THEN [state |-> "bound", seg |-> seal.id]
                              ELSE hot[t]]
  /\ seal' = NoSeal
  /\ UNCHANGED <<wal, blocks, open, seq, phase, app, todo, replay, starts, history>>

Bind ==
  /\ seal.pc = "bind"
  /\ hot' = [t \in Traces |-> IF hot[t] = [state |-> "pending", seg |-> seal.id]
                              THEN [hot[t] EXCEPT !.state = "bound"] ELSE hot[t]]
  /\ seal' = NoSeal
  /\ UNCHANGED <<wal, blocks, open, seq, phase, app, todo, replay, starts, history>>

\* The shutdown grace has run out, or the database refuses the write.
BindFails ==
  /\ "bind" \in Faults
  /\ seal.pc = "bind"
  /\ seal' = NoSeal
  /\ unbound' = unbound \cup {seal.id}
  /\ UNCHANGED <<disk, open, seq, phase, app, todo, replay, starts, acked, issued, reused>>

Exit ==
  /\ phase = "closing" /\ seal = NoSeal /\ todo = {}
  /\ phase' = "exited"
  /\ open' = [k \in Keys |-> None] /\ seq' = 0
  /\ UNCHANGED <<disk, app, seal, todo, replay, starts, history>>

(***************************************************************************)
(* Start: open the directory, replay the journal, then serve.              *)
(***************************************************************************)
Start ==
  /\ phase \in {"down", "exited"}
  /\ starts < MaxStarts
  /\ starts' = starts + 1
  /\ phase' = "replay"
  /\ todo' = {id \in Ids : wal[id] # NoFile}
  /\ UNCHANGED <<disk, open, seq, app, seal, replay, history>>

\* Sealed already, open already, or nothing in it that can be parsed.
Skipped(id) == blocks[id].manifest \/ IsOpen(id) \/ wal[id].kept = {}

\* Not the code: a segment removed before its records are appended again.
ReplayVisitRemoving(id, unreadable) ==
  /\ phase = "replay" /\ replay = NoReplay
  /\ IsFirst(id, todo)
  /\ unreadable => "replay" \in Faults
  /\ todo' = todo \ {id}
  /\ replay' = IF Skipped(id) \/ unreadable THEN NoReplay
               ELSE [seg |-> id, left |-> wal[id].kept]
  /\ wal' = IF Skipped(id) THEN wal ELSE [wal EXCEPT ![id] = NoFile]
  /\ UNCHANGED <<blocks, hot, open, seq, phase, app, seal, starts, history>>

ReplayVisit(id, unreadable) ==
  /\ phase = "replay" /\ replay = NoReplay
  /\ IsFirst(id, todo)
  /\ unreadable => "replay" \in Faults
  /\ todo' = todo \ {id}
  /\ replay' = IF Skipped(id) \/ unreadable THEN NoReplay
               ELSE [seg |-> id, left |-> wal[id].kept]
  /\ UNCHANGED <<disk, open, seq, phase, app, seal, starts, history>>

\* The tier is not in the record: replay always appends as sampled.
ReplayAppend(t) ==
  /\ phase = "replay" /\ app = NoAppend
  /\ t \in replay.left
  /\ OpenFor(t, "sampled")
  /\ UNCHANGED <<disk, phase, seal, todo, replay, starts, acked, unbound>>

Unlinked(id) == [k \in Keys |-> IF open[k] # None /\ open[k].id = id
                                THEN [open[k] EXCEPT !.linked = FALSE] ELSE open[k]]

\* os.Remove, by name, whatever is open under that name.
ReplayRemove ==
  /\ phase = "replay" /\ app = NoAppend
  /\ replay.seg # None /\ replay.left = {}
  /\ wal' = [wal EXCEPT ![replay.seg] = NoFile]
  /\ open' = Unlinked(replay.seg)
  /\ replay' = NoReplay
  /\ UNCHANGED <<blocks, hot, seq, phase, app, seal, todo, starts, history>>

Serve ==
  /\ phase = "replay" /\ replay = NoReplay /\ todo = {}
  /\ phase' = "serving"
  /\ UNCHANGED <<disk, open, seq, app, seal, todo, replay, starts, history>>

(***************************************************************************)
(* A kill.  A record or a block file under way may be left partial.        *)
(***************************************************************************)
Kill ==
  /\ Kills
  /\ phase \in {"replay", "serving", "closing"}
  /\ phase' = "down"
  /\ \/ UNCHANGED wal
     \/ app.pc = "journal" /\ wal' = Journal([wal[app.id] EXCEPT !.torn = TRUE])
  /\ HalfSealed
  /\ open' = [k \in Keys |-> None] /\ seq' = 0
  /\ app' = NoAppend /\ seal' = NoSeal /\ replay' = NoReplay /\ todo' = {}
  /\ UNCHANGED <<hot, starts, history>>

Init ==
  /\ wal = [id \in Ids |-> NoFile]
  /\ blocks = [id \in Ids |-> NoBlock]
  /\ hot = [t \in Traces |-> NoRow]
  /\ open = [k \in Keys |-> None]
  /\ seq = 0 /\ phase = "down"
  /\ app = NoAppend /\ seal = NoSeal /\ todo = {} /\ replay = NoReplay
  /\ starts = 0
  /\ acked = {} /\ issued = {} /\ reused = {} /\ unbound = {}

AppendStep == \/ AppendJournal \/ AppendHot \/ AppendHotFails
              \/ \E partial \in BOOLEAN : AppendJournalFails(partial)
              \/ \E t \in Traces, tier \in Tiers : OpenFails(t, tier)
SealStep == \/ \E id \in Ids : SealTake(id)
            \/ SealFiles \/ SealManifest \/ SealFails \/ Bind \/ BindFails \/ Exit
ReplayStep == \/ \E id \in Ids, unreadable \in BOOLEAN : ReplayVisit(id, unreadable)
              \/ \E t \in Traces : ReplayAppend(t)
              \/ ReplayRemove \/ Serve

Next == \/ Start \/ Shutdown \/ Kill
        \/ \E t \in Traces, tier \in Tiers : Append(t, tier)
        \/ AppendStep \/ SealStep \/ ReplayStep

Spec == Init /\ [][Next]_vars

\* Shutdown is straight-line code: it goes on until it ends or is killed.
FairSpec == Spec /\ WF_vars(SealStep)

-----------------------------------------------------------------------------
(***************************************************************************)
(* Properties.                                                             *)
(***************************************************************************)
TraceSets == SUBSET Traces

\* Every variable holds a value of its type.
TypeOK ==
  /\ wal \in [Ids -> [kept : TraceSets, torn : BOOLEAN]]
  /\ blocks \in [Ids -> [data : TraceSets, manifest : BOOLEAN]]
  /\ hot \in [Traces -> [state : {"none", "pending", "bound"}, seg : Ids \cup {None}]]
  /\ open \in [Keys -> {None} \cup OpenBlocks]
  /\ seq \in Nat /\ starts \in Nat
  /\ phase \in {"down", "replay", "serving", "closing", "exited"}
  /\ \/ app = NoAppend
     \/ app \in [pc : {"journal", "hot"}, trace : Traces, key : Keys, id : Ids]
  /\ \/ seal = NoSeal
     \/ seal \in [pc : {"files", "manifest", "bind"}, id : Ids, traces : TraceSets]
  /\ todo \subseteq Ids
  /\ replay \in [seg : Ids \cup {None}, left : TraceSets]
  /\ acked \subseteq Traces /\ issued \subseteq Ids /\ reused \subseteq issued /\ unbound \subseteq Ids

\* GetTrace: the row first, then the open block and the segment of that name
\* for a pending row, the sealed block for a bound one.
InOpenBlock(t, id) == \E k \in Keys : open[k] # None /\ open[k].id = id /\ t \in open[k].traces
InSealedBlock(t, id) == blocks[id].manifest /\ t \in blocks[id].data
Found(t) ==
  \/ hot[t].state = "pending" /\ (InOpenBlock(t, hot[t].seg) \/ t \in wal[hot[t].seg].kept)
  \/ hot[t].state = "bound" /\ InSealedBlock(t, hot[t].seg)

\* What a process started now could get at: a sealed block, or a segment
\* without a manifest, which ReplayWAL reads.
OnDisk(t) == \E id \in Ids : InSealedBlock(t, id) \/ (~blocks[id].manifest /\ t \in wal[id].kept)

\* Append and GetTrace (FR-F03-1, FR-F03-2): until the process is restarted,
\* the store is an archive.  GetTrace finds every trace from the step on that
\* acknowledges it, and no other one, whatever an error, Seal, a failed bind or
\* a kill does before and after.
Archive == INSTANCE TraceArchive WITH put <- acked, found <- {t \in Traces : Found(t)}
ActsAsArchive == Archive!Spec

\* DR-7's ordering: a row carries a block id only if that block has a manifest
\* and its files hold the trace, as long as no block id is handed out twice.
BoundRowsResolve ==
  reused = {} => \A t \in Traces : hot[t].state = "bound" => InSealedBlock(t, hot[t].seg)

\* Durability over kills and restarts, including kills inside replay and
\* inside a seal: an acknowledged trace can be recovered from disk, as long as
\* no block id is handed out twice.
DurableUnlessReused == reused = {} => \A t \in acked : OnDisk(t)

\* Shutdown (X9): a row that is pending in an open block when Shutdown starts
\* to seal is bound in the end, unless the process is killed first or the seal
\* or the bind of its own block fails: the failure of one block leaves the
\* others alone.
PendingInOpenBlock(t) == hot[t].state = "pending" /\ InOpenBlock(t, hot[t].seg)
Unsealed(id) == ~IsOpen(id) /\ seal = NoSeal /\ ~blocks[id].manifest
ShutdownBinds ==
  \A t \in Traces : (phase = "closing" /\ PendingInOpenBlock(t)) ~>
     \/ hot[t].state = "bound" \/ phase = "down"
     \/ hot[t].seg \in Ids /\ (Unsealed(hot[t].seg) \/ hot[t].seg \in unbound)

\* What the documents say and the code does not do ----------------------------

\* DR-7: span bodies are durable once Append returns; no loss on process kill.
DurableOnceAcked == \A t \in acked : OnDisk(t)
=============================================================================
