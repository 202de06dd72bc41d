------------------------------ MODULE MuxCycle ------------------------------
(***************************************************************************)
(* The ingestion cycle an admin runs for a day: scan the day's recordings  *)
(* that cannot be watched yet, retry each, in chunks, scan again until two *)
(* scans in a row find nothing to do, then heal the highlights of those    *)
(* that can be watched.  It runs in one process, which keeps its progress  *)
(* in memory and lets one cycle run at a time; the recordings meanwhile    *)
(* arrive and become ready on their own.                                   *)
(***************************************************************************)
EXTENDS Naturals, Sequences, FiniteSets, SequencesExt

CONSTANTS
  Recs,         \* recordings of the day, in the order of their start
  Chunk,        \* MUX_CYCLE_CONCURRENCY
  MaxScans,     \* MUX_CYCLE_MAX_SCAN_ROUNDS
  MaxIdle       \* MUX_CYCLE_MAX_IDLE_ROUNDS

VARIABLES
  rec,          \* recordings: whether each can be watched
  running,      \* muxCycleRunning
  progress,     \* muxCycleProgress
  pc, scans, idle, results, todo, got,  \* the cycle that is running
  seen          \* history: what its last scan found

vars == <<rec, running, progress, pc, scans, idle, results, todo, got, seen>>

Terminal == {"already_ready", "no_source_video", "failed"}
Waiting == {"polled_mux_asset", "mux_still_processing", "mux_retries_exhausted"}
Healed == {"no_highlights", "highlights_ready", "highlight_clips_enqueued",
           "highlights_processing", "highlights_pending"}
Results == Seq([of : Recs, action : Terminal \cup Waiting])
Heals == Seq([of : Recs, action : Healed])

NoProgress == [status |-> "idle", phase |-> "none", total |-> 0, processed |-> 0,
               results |-> <<>>, heals |-> <<>>]

TypeOK ==
  /\ rec \in [Recs -> {"absent", "waiting", "playable"}]
  /\ running \in BOOLEAN
  /\ progress.status \in {"idle", "running", "complete", "failed"}
  /\ progress.phase \in {"none", "video", "highlights"}
  /\ progress.total \in 0 .. Cardinality(Recs)
  /\ progress.results \in Results /\ progress.heals \in Heals
  /\ pc \in {"off", "scan", "retry", "highlights", "heal"}
  /\ scans \in 0 .. MaxScans /\ idle \in 0 .. MaxIdle
  /\ results \in Results /\ got \in Seq([of : Recs, action : Terminal \cup Waiting \cup Healed])
  /\ todo \in Seq(Recs) /\ seen \subseteq Recs

Init ==
  /\ rec \in [Recs -> {"absent", "waiting", "playable"}]
  /\ running = FALSE /\ progress = NoProgress
  /\ pc = "off" /\ scans = 0 /\ idle = 0
  /\ results = <<>> /\ todo = <<>> /\ got = <<>> /\ seen = {}

-----------------------------------------------------------------------------
\* The recordings in a set, in the order of their start.
InOrder(S) == SetToSortSeq(S, <)
Playable == {r \in Recs : rec[r] = "playable"}
Candidates == {r \in Recs : rec[r] = "waiting"}   \* listMuxCycleVideoCandidates
Of(rows) == {rows[i].of : i \in DOMAIN rows}

\* upsertMuxCycleResult, for the results of a chunk.  (A mutant: they are
\* appended.)
Upsert(rows, row) ==
  IF row.of \in Of(rows)
  THEN [rows EXCEPT ![CHOOSE i \in DOMAIN rows : rows[i].of = row.of] = row]
  ELSE Append(rows, row)
Appended(rows, new) == rows \o new
Upserted(rows, new) == FoldLeft(Upsert, rows, new)

\* Between two chunks: the head of todo is being retried.
InChunk == SubSeq(todo, 1, IF Len(todo) < Chunk THEN Len(todo) ELSE Chunk)
ChunkDone == Of(got) = Range(InChunk)
Next1 == InChunk[Len(got) + 1]

Started(phase) == [NoProgress EXCEPT !.status = "running", !.phase = phase]

Start(phase) ==
  /\ ~running /\ running' = TRUE
  /\ progress' = Started(phase)
  /\ pc' = IF phase = "video" THEN "scan" ELSE "highlights"
  /\ scans' = 0 /\ idle' = 0 /\ results' = <<>> /\ todo' = <<>> /\ got' = <<>>
  /\ seen' = {}
  /\ UNCHANGED rec

\* A scan: those with a final result are left out.
Scan ==
  LET done == {results[i].of : i \in {j \in DOMAIN results :
                                        results[j].action \in Terminal}}
      next == InOrder(Candidates \ done)
  IN /\ pc = "scan" /\ scans < MaxScans /\ idle < MaxIdle
     /\ scans' = scans + 1
     /\ seen' = Candidates
     /\ idle' = IF next = <<>> THEN idle + 1 ELSE 0
     /\ todo' = next
     /\ pc' = IF next = <<>> THEN "scan" ELSE "retry"
     /\ progress' = IF next = <<>> THEN progress
                    ELSE [progress EXCEPT !.total =
                            Cardinality(Of(results) \cup Range(next))]
     /\ UNCHANGED <<rec, running, results, got>>

\* retryMuxIngestion of one recording of the chunk.
Retry ==
  /\ pc = "retry" /\ ~ChunkDone
  /\ LET r == Next1 IN
     \E action \in Terminal \cup Waiting :
       /\ action = "already_ready" <=> rec[r] = "playable"
       /\ rec' = IF action = "polled_mux_asset" THEN [rec EXCEPT ![r] = "playable"]
                 ELSE rec
       /\ got' = Append(got, [of |-> r, action |-> action])
  /\ UNCHANGED <<running, progress, pc, scans, idle, results, todo, seen>>

EndChunk ==
  LET new == Upserted(results, got)
      rest == SubSeq(todo, Len(InChunk) + 1, Len(todo))
  IN /\ pc = "retry" /\ ChunkDone
     /\ results' = new
     /\ progress' = [progress EXCEPT !.processed = Len(new), !.results = new]
     /\ todo' = rest /\ got' = <<>>
     /\ pc' = IF rest = <<>> THEN "scan" ELSE "retry"
     /\ UNCHANGED <<rec, running, scans, idle, seen>>

EndVideo ==
  /\ pc = "scan" /\ (scans = MaxScans \/ idle = MaxIdle)
  /\ pc' = "highlights"
  /\ progress' = [progress EXCEPT !.phase = "highlights"]
  /\ UNCHANGED <<rec, running, scans, idle, results, todo, got, seen>>

\* runHighlightMuxCycleForDate: the recordings that can be watched now.
ListPlayable ==
  /\ pc = "highlights"
  /\ pc' = "heal" /\ todo' = InOrder(Playable)
  /\ UNCHANGED <<rec, running, progress, scans, idle, results, got, seen>>

\* buildHighlightMuxSummary: what rows there are.  A clip is cut for a row that
\* has an asset; one that has none waits in the queue, or elsewhere.
Rows == {"failed", "ready", "clip", "queued", "other"}
HealAction(rows) ==
  CASE rows = {} -> "no_highlights"
    [] rows \ {"failed"} = {"ready"} -> "highlights_ready"
    [] rows \cap {"queued", "other"} # {} -> "highlight_clips_enqueued"
    [] rows \cap {"clip", "queued", "other"} = {"clip"} -> "highlights_processing"
    [] OTHER -> "highlights_pending"

\* healHighlightMuxForRecording names what it finds afterwards.
HealHighlights ==
  /\ pc = "heal" /\ Len(got) < Len(todo)
  /\ \E rows \in SUBSET Rows :
       got' = Append(got, [of |-> todo[Len(got) + 1], action |-> HealAction(rows)])
  /\ UNCHANGED <<rec, running, progress, pc, scans, idle, results, todo, seen>>

Off == pc' = "off" /\ running' = FALSE /\ todo' = <<>> /\ got' = <<>>

\* The cycle is complete.  A cycle of highlights alone counts these; the other
\* one keeps the counts of the videos.
Complete ==
  /\ pc = "heal" /\ Len(got) = Len(todo)
  /\ progress' =
       [progress EXCEPT !.status = "complete", !.heals = got,
                        !.total = IF scans = 0 THEN Len(got) ELSE @,
                        !.processed = IF scans = 0 THEN Len(got) ELSE @]
  /\ Off
  /\ UNCHANGED <<rec, scans, idle, results, seen>>

\* A read of the database fails: the flag is given back.
Fail ==
  /\ pc \in {"scan", "highlights", "heal"}
  /\ progress' = [progress EXCEPT !.status = "failed"]
  /\ Off
  /\ UNCHANGED <<rec, scans, idle, results, seen>>

\* The process restarts: what was in memory is gone.
Restart ==
  /\ running
  /\ progress' = NoProgress
  /\ Off /\ scans' = 0 /\ idle' = 0 /\ results' = <<>> /\ seen' = {}
  /\ UNCHANGED rec

\* Recordings of the day are made, and become ready by other hands.
Arrive(r) ==
  /\ rec[r] = "absent"
  /\ rec' = [rec EXCEPT ![r] = "waiting"]
  /\ UNCHANGED <<running, progress, pc, scans, idle, results, todo, got, seen>>

BecomePlayable(r) ==
  /\ rec[r] = "waiting"
  /\ rec' = [rec EXCEPT ![r] = "playable"]
  /\ UNCHANGED <<running, progress, pc, scans, idle, results, todo, got, seen>>

CycleStep ==
  \/ Scan \/ Retry \/ EndChunk \/ EndVideo \/ ListPlayable \/ HealHighlights
  \/ Complete \/ Fail

Next ==
  \/ CycleStep \/ Start("video") \/ Start("highlights") \/ Restart
  \/ \E r \in Recs : Arrive(r) \/ BecomePlayable(r)

-----------------------------------------------------------------------------
(* Properties.                                                             *)

Once(rows) == Cardinality(Of(rows)) = Len(rows)
Settled(r) ==
  \E i \in DOMAIN progress.results :
    progress.results[i].of = r /\ progress.results[i].action \in Terminal

\* A cycle that says it is complete has one result for each recording it
\* counts, and has left none behind: what its last scan found waiting has a
\* final result, unless the scans have run out; and each recording that could
\* be watched by the end of the scans has had its highlights healed.
CycleReports ==
  progress.status = "complete" =>
    /\ Once(progress.results) /\ Once(progress.heals)
    /\ progress.processed = progress.total
    /\ scans < MaxScans => \A r \in seen : Settled(r)
    /\ \A r \in Of(progress.results) :
         (\E i \in DOMAIN progress.results :
            progress.results[i] = [of |-> r, action |-> "already_ready"])
         => r \in Of(progress.heals)
=============================================================================
