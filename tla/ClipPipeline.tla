---------------------------- MODULE ClipPipeline ----------------------------
(***************************************************************************)
(* The highlight-clip pipeline: a highlight row is created by a button     *)
(* click, queued when the source recording is playable, and turned into a  *)
(* Mux clip by the SQS consumers, one recording at a time under a Postgres *)
(* advisory lock.  Around the consumers run the Mux webhook, the sweep     *)
(* Lambda, the self-heals that reads trigger, and the gap-heal cron.       *)
(*                                                                         *)
(* One column of recording_highlights is one variable.  Time is left out:  *)
(* a row "stuck for five minutes" is any row with that status, because a   *)
(* consumer may legally sleep longer than that in its rate-limit retries.  *)
(* processing_order only sorts a consumer's list and is left out.          *)
(***************************************************************************)
EXTENDS Integers, FiniteSets

CONSTANTS
  Recordings,      \* recordings.id
  Highlights,      \* recording_highlights.id
  RecOf,           \* recording_highlights.recording_id
  S3Highlights,    \* the highlights created with an S3 clip (s3path set)
  Consumers,       \* polling loops, over every instance of the backend
  None,
  MaxClips,        \* bound: clips Mux is asked to make
  MaxMessages,     \* bound: messages of one recording waiting in SQS
  MaxFaults        \* bound: failures of any kind in one behaviour

ASSUME RecOfAssumption == RecOf \in [Highlights -> Recordings]
ASSUME S3Assumption == S3Highlights \subseteq Highlights
ASSUME NoneAssumption ==
  /\ None \notin Recordings
  /\ None \notin Highlights
  /\ None \notin Consumers
ASSUME BoundsAssumption ==
  MaxClips \in Nat /\ MaxMessages \in Nat /\ MaxFaults \in Nat

NoClip == 0
Clips == 1 .. MaxClips

VARIABLES
  (* recording_highlights *)
  status,         \* "absent" before the INSERT, "deleted" after the DELETE
  assetId,        \* asset_id
  isClipCreated,
  lockVersion,    \* lock_version
  (* recordings *)
  recStatus,
  recAsset,       \* mux_asset_id is set
  videoCreated,   \* isVideoCreated
  (* webhook_events: the events already handled *)
  seenSource, seenClip,
  (* Mux *)
  muxSource, muxClip,
  (* SQS and the advisory locks *)
  queue, lock,
  (* consumers *)
  pc, crec, todo, snap, cur, posted,
  (* requests, webhook transactions and jobs in progress *)
  click, hook, sweep, heal,
  (* history: the highlight a clip was made for, the clips no row will     *)
  (* ever name (a failure kept them from being recorded, or their row was  *)
  (* deleted), and the failures so far                                     *)
  madeFor, orphans, faults

rowVars == <<status, assetId, isClipCreated, lockVersion>>
recVars == <<recStatus, recAsset, videoCreated>>
seenVars == <<seenSource, seenClip>>
muxVars == <<muxSource, muxClip, madeFor>>
consumerVars == <<lock, pc, crec, todo, snap, cur, posted>>
jobVars == <<click, hook, sweep, heal>>
vars == <<rowVars, recVars, seenVars, muxVars, queue, consumerVars, jobVars,
          orphans, faults>>

Statuses == {"absent", "pending", "queued", "processing", "clip_created",
             "ready", "failed", "permanently_failed", "errored", "deleted"}

\* What a consumer remembers of a row: its clip and its version.
Snapshot == [asset : Clips \cup {NoClip}, created : BOOLEAN, version : Nat]
Blank == [asset |-> NoClip, created |-> FALSE, version |-> 0]

NoHook == [open |-> FALSE, rows |-> {}]
NoHeal == [pc |-> "idle", rows |-> {}]

RowsTyped ==
  /\ status \in [Highlights -> Statuses]
  /\ assetId \in [Highlights -> Clips \cup {NoClip}]
  /\ isClipCreated \in [Highlights -> BOOLEAN]
  /\ lockVersion \in [Highlights -> Nat]

RecordingsTyped ==
  /\ recStatus \in [Recordings -> {"processing", "ready", "failed"}]
  /\ recAsset \in [Recordings -> BOOLEAN]
  /\ videoCreated \in [Recordings -> BOOLEAN]
  /\ queue \in [Recordings -> 0 .. MaxMessages]

MuxTyped ==
  /\ muxSource \in [Recordings -> {"preparing", "ready", "errored"}]
  /\ muxClip \in [Clips -> {"none", "preparing", "ready", "errored", "gone"}]
  /\ madeFor \in [Clips -> Highlights \cup {None}]
  /\ seenSource \subseteq Recordings
  /\ seenClip \subseteq Clips
  /\ orphans \subseteq Clips
  /\ faults \in 0 .. MaxFaults

ConsumersTyped ==
  /\ lock \in [Recordings -> Consumers \cup {None}]
  /\ pc \in [Consumers -> {"idle", "received", "select", "loop", "check",
                           "post", "record"}]
  /\ crec \in [Consumers -> Recordings \cup {None}]
  /\ todo \in [Consumers -> SUBSET Highlights]
  /\ snap \in [Consumers -> [Highlights -> Snapshot]]
  /\ cur \in [Consumers -> Highlights \cup {None}]
  /\ posted \in [Consumers -> Clips \cup {NoClip}]

\* Which of these a consumer has at which point of its job.
ConsumersAgree ==
  \A c \in Consumers :
    /\ pc[c] # "idle" => crec[c] \in Recordings
    /\ pc[c] \in {"check", "post", "record"} => cur[c] \in Highlights
    /\ pc[c] = "record" <=> posted[c] # NoClip

JobsTyped ==
  /\ click \in [Highlights -> {"none", "early", "late", "inserted", "done"}]
  /\ hook \in [Recordings -> [open : BOOLEAN, rows : SUBSET Highlights]]
  /\ sweep \in [row : Highlights \cup {None}, kind : {"requeue", "touch"}]
  /\ heal \in [Recordings -> [pc : {"idle", "selected", "deleting"},
                             rows : SUBSET Highlights]]

TypeOK ==
  /\ RowsTyped
  /\ RecordingsTyped
  /\ MuxTyped
  /\ ConsumersTyped
  /\ ConsumersAgree
  /\ JobsTyped

Init ==
  /\ status = [h \in Highlights |-> "absent"]
  /\ assetId = [h \in Highlights |-> NoClip]
  /\ isClipCreated = [h \in Highlights |-> FALSE]
  /\ lockVersion = [h \in Highlights |-> 0]
  /\ recStatus = [r \in Recordings |-> "processing"]
  /\ recAsset \in [Recordings -> BOOLEAN]
  /\ videoCreated = [r \in Recordings |-> FALSE]
  /\ seenSource = {}
  /\ seenClip = {}
  /\ muxSource = [r \in Recordings |-> "preparing"]
  /\ muxClip = [k \in Clips |-> "none"]
  /\ queue = [r \in Recordings |-> 0]
  /\ lock = [r \in Recordings |-> None]
  /\ pc = [c \in Consumers |-> "idle"]
  /\ crec = [c \in Consumers |-> None]
  /\ todo = [c \in Consumers |-> {}]
  /\ snap = [c \in Consumers |-> [h \in Highlights |-> Blank]]
  /\ cur = [c \in Consumers |-> None]
  /\ posted = [c \in Consumers |-> NoClip]
  /\ click = [h \in Highlights |-> "none"]
  /\ hook = [r \in Recordings |-> NoHook]
  /\ sweep = [row |-> None, kind |-> "requeue"]
  /\ heal = [r \in Recordings |-> NoHeal]
  /\ madeFor = [k \in Clips |-> None]
  /\ orphans = {}
  /\ faults = 0

-----------------------------------------------------------------------------
(* Helpers.                                                                *)

Exists(h) == status[h] \notin {"absent", "deleted"}
Rows(r) == {h \in Highlights : RecOf[h] = r /\ Exists(h)}

Fault == faults < MaxFaults /\ faults' = faults + 1

\* The queue after a SendMessage for r.
Sent(r) == [queue EXCEPT ![r] = IF @ < MaxMessages THEN @ + 1 ELSE @]

\* enqueueRecording: the message arrives, or the send fails and is logged.
Enqueue(r) ==
  \/ queue' = Sent(r) /\ UNCHANGED faults
  \/ queue' = queue /\ Fault

\* getActionableHighlights: the rows a processor still has to look at.
Actionable(r) ==
  {h \in Rows(r) : status[h] \notin
     {"clip_created", "ready", "permanently_failed", "failed"}}

\* The transaction of a source webhook holds the lock of the recording row.
RowLocked(r) == hook[r].open

-----------------------------------------------------------------------------
(* Creating a highlight (createRecordingHighlight, createActiveHighlight). *)

\* The request reads the recording.  "late": it was already playable.
ClickRead(h) ==
  LET r == RecOf[h] IN
  /\ click[h] = "none"
  /\ click' = [click EXCEPT ![h] =
       IF recAsset[r] /\ videoCreated[r] /\ h \notin S3Highlights
       THEN "late" ELSE "early"]
  /\ UNCHANGED <<rowVars, recVars, seenVars, muxVars, queue, consumerVars,
                 hook, sweep, heal, orphans, faults>>

\* The INSERT commits: with an S3 clip the row is born ready.
ClickInsert(h) ==
  /\ click[h] \in {"early", "late"}
  /\ status' = [status EXCEPT ![h] =
       IF h \in S3Highlights THEN "ready" ELSE "pending"]
  /\ isClipCreated' = [isClipCreated EXCEPT ![h] = h \in S3Highlights]
  /\ click' = [click EXCEPT ![h] = IF @ = "late" THEN "inserted" ELSE "done"]
  /\ UNCHANGED <<assetId, lockVersion, recVars, seenVars, muxVars, queue,
                 consumerVars, hook, sweep, heal, orphans, faults>>

\* After the commit, when the recording was playable as it was read: UPDATE by
\* id, whatever the row's status has become, and enqueue.
ClickQueue(h) ==
  /\ click[h] = "inserted"
  /\ status' = [status EXCEPT ![h] = IF Exists(h) THEN "queued" ELSE @]
  /\ Enqueue(RecOf[h])
  /\ click' = [click EXCEPT ![h] = "done"]
  /\ UNCHANGED <<assetId, isClipCreated, lockVersion, recVars, seenVars,
                 muxVars, consumerVars, hook, sweep, heal, orphans>>

\* The backend dies between the commit and the UPDATE.
ClickLost(h) ==
  /\ click[h] = "inserted"
  /\ Fault
  /\ click' = [click EXCEPT ![h] = "done"]
  /\ UNCHANGED <<rowVars, recVars, seenVars, muxVars, queue, consumerVars,
                 hook, sweep, heal, orphans>>

-----------------------------------------------------------------------------
(* The consumers: ClipProcessingConsumer.pollLoop around                   *)
(* ClipProcessingProcessor.processRecording.                               *)

Forget(c) ==
  /\ pc' = [pc EXCEPT ![c] = "idle"]
  /\ crec' = [crec EXCEPT ![c] = None]
  /\ todo' = [todo EXCEPT ![c] = {}]
  /\ snap' = [snap EXCEPT ![c] = [h \in Highlights |-> Blank]]
  /\ cur' = [cur EXCEPT ![c] = None]
  /\ posted' = [posted EXCEPT ![c] = NoClip]

\* Mutant: no finally block.
LockKept(c) == lock

\* pg_advisory_unlock in the finally block.
Unlocked(c) ==
  [r \in Recordings |-> IF lock[r] = c THEN None ELSE lock[r]]

\* On to the next row of the list.
NextRow(c) ==
  /\ pc' = [pc EXCEPT ![c] = "loop"]
  /\ cur' = [cur EXCEPT ![c] = None]
  /\ snap' = [snap EXCEPT ![c][cur[c]] = Blank]
  /\ posted' = [posted EXCEPT ![c] = NoClip]

\* A message stays invisible while the heartbeat runs; SQS may still deliver a
\* second copy of it.
Receive(c, r) ==
  /\ pc[c] = "idle"
  /\ queue[r] > 0
  /\ \/ queue' = [queue EXCEPT ![r] = @ - 1] /\ UNCHANGED faults
     \/ UNCHANGED queue /\ Fault
  /\ pc' = [pc EXCEPT ![c] = "received"]
  /\ crec' = [crec EXCEPT ![c] = r]
  /\ UNCHANGED <<rowVars, recVars, seenVars, muxVars, lock, todo, snap, cur,
                 posted, jobVars, orphans>>

\* Mutant: the lock is not asked for.
LockIgnored(r) == TRUE

LockFree(r) == lock[r] = None

\* pg_try_advisory_lock.
TryLock(c) ==
  /\ pc[c] = "received"
  /\ LockFree(crec[c])
  /\ lock' = [lock EXCEPT ![crec[c]] = c]
  /\ pc' = [pc EXCEPT ![c] = "select"]
  /\ UNCHANGED <<rowVars, recVars, seenVars, muxVars, queue, crec, todo, snap,
                 cur, posted, jobVars, orphans, faults>>

\* Status 'locked' is a normal result: the message is deleted.
Locked(c) ==
  /\ pc[c] = "received"
  /\ ~LockFree(crec[c])
  /\ Forget(c)
  /\ UNCHANGED <<rowVars, recVars, seenVars, muxVars, queue, lock, jobVars,
                 orphans, faults>>

\* The rows to process, with the columns read now.
Select(c) ==
  LET r == crec[c] IN
  /\ pc[c] = "select"
  /\ Actionable(r) # {}
  /\ recAsset[r]
  /\ todo' = [todo EXCEPT ![c] = Actionable(r)]
  /\ snap' = [snap EXCEPT ![c] = [h \in Highlights |->
       IF h \in Actionable(r)
       THEN [asset |-> assetId[h], created |-> isClipCreated[h],
             version |-> lockVersion[h]]
       ELSE Blank]]
  /\ pc' = [pc EXCEPT ![c] = "loop"]
  /\ UNCHANGED <<rowVars, recVars, seenVars, muxVars, queue, lock, crec, cur,
                 posted, jobVars, orphans, faults>>

\* Nothing to do ('no_highlights', or no mux_asset_id), or the list is done:
\* release the lock and delete the message.
Finish(c) ==
  /\ \/ /\ pc[c] = "select"
        /\ Actionable(crec[c]) = {} \/ ~recAsset[crec[c]]
     \/ pc[c] = "loop" /\ todo[c] = {}
  /\ lock' = Unlocked(c)
  /\ Forget(c)
  /\ UNCHANGED <<rowVars, recVars, seenVars, muxVars, queue, jobVars, orphans,
                 faults>>

\* A row that already has a clip is only looked up at Mux.
BeginCheck(c, h) ==
  /\ pc[c] = "loop"
  /\ h \in todo[c]
  /\ snap[c][h].created \/ snap[c][h].asset # NoClip
  /\ todo' = [todo EXCEPT ![c] = @ \ {h}]
  /\ cur' = [cur EXCEPT ![c] = h]
  /\ pc' = [pc EXCEPT ![c] = "check"]
  /\ UNCHANGED <<rowVars, recVars, seenVars, muxVars, queue, lock, crec, snap,
                 posted, jobVars, orphans, faults>>

\* The UPDATE of setStatusProcessing matches the row.
VersionMatches(c, h) == Exists(h) /\ lockVersion[h] = snap[c][h].version

\* setStatusProcessing: UPDATE ... WHERE lock_version = <the one read>.
BeginPost(c, h) ==
  /\ pc[c] = "loop"
  /\ h \in todo[c]
  /\ ~snap[c][h].created /\ snap[c][h].asset = NoClip
  /\ todo' = [todo EXCEPT ![c] = @ \ {h}]
  /\ IF VersionMatches(c, h)
       THEN /\ status' = [status EXCEPT ![h] = "processing"]
            /\ lockVersion' = [lockVersion EXCEPT ![h] = @ + 1]
            /\ cur' = [cur EXCEPT ![c] = h]
            /\ pc' = [pc EXCEPT ![c] = "post"]
            /\ UNCHANGED snap
       ELSE /\ snap' = [snap EXCEPT ![c][h] = Blank]
            /\ UNCHANGED <<status, lockVersion, cur, pc>>
  /\ UNCHANGED <<assetId, isClipCreated, recVars, seenVars, muxVars, queue,
                 lock, crec, posted, jobVars, orphans, faults>>

\* markFailed and markPermanentlyFailed (UPDATE by id).
Mark(h, s) ==
  /\ status' = [status EXCEPT ![h] = IF Exists(h) THEN s ELSE @]
  /\ lockVersion' = [lockVersion EXCEPT ![h] = IF Exists(h) THEN @ + 1 ELSE @]

NewClip(k, h) ==
  /\ muxClip[k] = "none"
  /\ \A j \in Clips : j < k => muxClip[j] # "none"
  /\ muxClip' = [muxClip EXCEPT ![k] = "preparing"]
  /\ madeFor' = [madeFor EXCEPT ![k] = h]

\* POST /video/v1/assets answers 201.  (Mux may refuse any request.)
PostCreated(c) ==
  /\ pc[c] = "post"
  /\ \E k \in Clips :
       /\ NewClip(k, cur[c])
       /\ posted' = [posted EXCEPT ![c] = k]
  /\ pc' = [pc EXCEPT ![c] = "record"]
  /\ UNCHANGED <<rowVars, recVars, seenVars, muxSource, queue, lock, crec,
                 todo, snap, cur, jobVars, orphans, faults>>

\* 5xx, a network error or eleven 429s: failed.  400 or no credentials:
\* permanently failed.
PostFails(c) ==
  /\ pc[c] = "post"
  /\ Fault
  /\ \E s \in {"failed", "permanently_failed"} : Mark(cur[c], s)
  /\ NextRow(c)
  /\ UNCHANGED <<assetId, isClipCreated, recVars, seenVars, muxVars, queue,
                 lock, crec, todo, jobVars, orphans>>

\* The answer is lost after Mux made the clip: a network error to the backend.
PostAnswerLost(c) ==
  /\ pc[c] = "post"
  /\ Fault
  /\ \E k \in Clips :
       /\ NewClip(k, cur[c])
       /\ orphans' = orphans \cup {k}
  /\ Mark(cur[c], "failed")
  /\ NextRow(c)
  /\ UNCHANGED <<assetId, isClipCreated, recVars, seenVars, muxSource, queue,
                 lock, crec, todo, jobVars>>

\* 401 or 403, from the POST or from the GET of a clip: the row is permanently
\* failed, the exception releases the lock, and SQS delivers the message again
\* after its visibility timeout.
AuthError(c) ==
  /\ pc[c] \in {"post", "check"}
  /\ pc[c] = "check" => snap[c][cur[c]].asset # NoClip
  /\ Fault
  /\ Mark(cur[c], "permanently_failed")
  /\ lock' = Unlocked(c)
  /\ queue' = Sent(crec[c])
  /\ Forget(c)
  /\ UNCHANGED <<assetId, isClipCreated, recVars, seenVars, muxVars, jobVars,
                 orphans>>

\* The UPDATE that records the clip, by id and without a version check.
Record(c) ==
  LET h == cur[c] IN
  /\ pc[c] = "record"
  /\ IF Exists(h)
       THEN /\ status' = [status EXCEPT ![h] = "clip_created"]
            /\ assetId' = [assetId EXCEPT ![h] = posted[c]]
            /\ isClipCreated' = [isClipCreated EXCEPT ![h] = TRUE]
            /\ lockVersion' = [lockVersion EXCEPT ![h] = @ + 1]
            /\ UNCHANGED orphans
       ELSE orphans' = orphans \cup {posted[c]} /\ UNCHANGED rowVars
  /\ NextRow(c)
  /\ UNCHANGED <<recVars, seenVars, muxVars, queue, lock, crec, todo,
                 jobVars, faults>>

\* checkExistingClip: GET /video/v1/assets/<the clip of the row as it was read>,
\* and the UPDATE by id that Mux's answer calls for.
Checking(c, k) == pc[c] = "check" /\ k = snap[c][cur[c]].asset

CheckReady(c) ==
  /\ \E k \in Clips : Checking(c, k) /\ muxClip[k] = "ready"
  /\ Mark(cur[c], "ready")
  /\ isClipCreated' = [isClipCreated EXCEPT ![cur[c]] = Exists(cur[c])]
  /\ NextRow(c)
  /\ UNCHANGED <<assetId, recVars, seenVars, muxVars, queue, lock, crec, todo,
                 jobVars, orphans, faults>>

\* Mutant: a clip that is still encoding is made again.
NotReady(k) == muxClip[k] # "ready"

Vanished(k) == muxClip[k] = "gone"

\* 404: the row is failed and free to be made again.
CheckGone(c) ==
  /\ \E k \in Clips : Checking(c, k) /\ Vanished(k)
  /\ Mark(cur[c], "failed")
  /\ isClipCreated' = [isClipCreated EXCEPT ![cur[c]] = FALSE]
  /\ assetId' = [assetId EXCEPT ![cur[c]] = NoClip]
  /\ NextRow(c)
  /\ UNCHANGED <<recVars, seenVars, muxVars, queue, lock, crec, todo, jobVars,
                 orphans, faults>>

\* Nothing to ask for, or a clip that is not ready: the row is skipped.
CheckSkips(c) ==
  /\ \/ Checking(c, NoClip)
     \/ \E k \in Clips :
          Checking(c, k) /\ muxClip[k] \in {"preparing", "errored"}
  /\ NextRow(c)
  /\ UNCHANGED <<rowVars, recVars, seenVars, muxVars, queue, lock, crec, todo,
                 jobVars, orphans, faults>>

CheckFails(c) ==
  /\ \E k \in Clips : Checking(c, k)
  /\ Fault
  /\ \E s \in {"failed", "permanently_failed"} : Mark(cur[c], s)
  /\ NextRow(c)
  /\ UNCHANGED <<assetId, isClipCreated, recVars, seenVars, muxVars, queue,
                 lock, crec, todo, jobVars, orphans>>

\* The process is killed or loses its database session: Postgres drops the
\* lock, every later query of the processor fails, and the message becomes
\* visible again.  A clip made and not yet recorded is orphaned, and so is the
\* one that Mux still makes for a POST already sent.
Die(c) ==
  /\ pc[c] # "idle"
  /\ Fault
  /\ \/ /\ orphans' = orphans \cup ({posted[c]} \ {NoClip})
        /\ UNCHANGED <<muxClip, madeFor>>
     \/ /\ pc[c] = "post"
        /\ \E k \in Clips : NewClip(k, cur[c]) /\ orphans' = orphans \cup {k}
  /\ lock' = Unlocked(c)
  /\ queue' = Sent(crec[c])
  /\ Forget(c)
  /\ UNCHANGED <<rowVars, recVars, seenVars, muxSource, jobVars>>

-----------------------------------------------------------------------------
(* Mux (external).                                                         *)

MuxSourceDone(r) ==
  /\ muxSource[r] = "preparing"
  /\ \/ muxSource' = [muxSource EXCEPT ![r] = "ready"] /\ UNCHANGED faults
     \/ muxSource' = [muxSource EXCEPT ![r] = "errored"] /\ Fault
  /\ UNCHANGED <<rowVars, recVars, seenVars, muxClip, madeFor, queue,
                 consumerVars, jobVars, orphans>>

MuxClipDone(k) ==
  /\ muxClip[k] = "preparing"
  /\ \/ muxClip' = [muxClip EXCEPT ![k] = "ready"] /\ UNCHANGED faults
     \/ muxClip' = [muxClip EXCEPT ![k] = "errored"] /\ Fault
  /\ UNCHANGED <<rowVars, recVars, seenVars, muxSource, madeFor, queue,
                 consumerVars, jobVars, orphans>>

\* A finished clip is deleted at Mux.
MuxClipDeleted(k) ==
  /\ muxClip[k] = "ready"
  /\ Fault
  /\ muxClip' = [muxClip EXCEPT ![k] = "gone"]
  /\ UNCHANGED <<rowVars, recVars, seenVars, muxSource, madeFor, queue,
                 consumerVars, jobVars, orphans>>

-----------------------------------------------------------------------------
(* The Mux webhook (handleMuxWebhook).  Mux delivers an event until it is  *)
(* acknowledged; webhook_events makes a second delivery do nothing.        *)

Owners(k) == {h \in Highlights : Exists(h) /\ assetId[h] = k}

\* Mutant: the type of the event is not looked at.
AlwaysReady(k) == "ready"

\* Mutant: the row takes the status Mux gives of the asset.
StatusAtMux(k) == muxClip[k]

EventStatus(k) == IF muxClip[k] = "errored" THEN "errored" ELSE "ready"

\* video.asset.ready or .errored of a clip.  With no row of that asset_id the
\* event is ignored, and it counts as handled all the same.
ClipEvent(k) ==
  /\ muxClip[k] \in {"ready", "errored", "gone"}
  /\ k \notin seenClip
  /\ seenClip' = seenClip \cup {k}
  /\ status' = [h \in Highlights |->
       IF h \in Owners(k) THEN EventStatus(k) ELSE status[h]]
  /\ isClipCreated' = [h \in Highlights |->
       \/ isClipCreated[h]
       \/ h \in Owners(k) /\ EventStatus(k) = "errored"]
  /\ UNCHANGED <<assetId, lockVersion, recVars, seenSource, muxVars, queue,
                 consumerVars, jobVars, orphans, faults>>

RowsToQueue(r) == {h \in Rows(r) : ~isClipCreated[h]}

\* video.asset.ready of a source, up to the wait for Mux: the transaction has
\* updated the recording (uncommitted) and read the rows to queue.  (The asset
\* it waits for only sets the recording's start and end times.)
SourceReadyBegin(r) ==
  /\ muxSource[r] = "ready"
  /\ r \notin seenSource
  /\ ~RowLocked(r)
  /\ hook' = [hook EXCEPT ![r] =
       [open |-> TRUE, rows |-> RowsToQueue(r)]]
  /\ UNCHANGED <<rowVars, recVars, seenVars, muxVars, queue, consumerVars,
                 click, sweep, heal, orphans, faults>>

\* Every row read above is queued by id, and the recording is enqueued.
SourceReadyCommit(r) ==
  LET rows == {h \in hook[r].rows : Exists(h)} IN
  /\ RowLocked(r)
  /\ recStatus' = [recStatus EXCEPT ![r] = "ready"]
  /\ videoCreated' = [videoCreated EXCEPT ![r] = TRUE]
  /\ recAsset' = [recAsset EXCEPT ![r] = TRUE]
  /\ status' = [h \in Highlights |->
       IF h \in rows THEN "queued" ELSE status[h]]
  /\ seenSource' = seenSource \cup {r}
  /\ IF hook[r].rows # {} THEN Enqueue(r) ELSE UNCHANGED <<queue, faults>>
  /\ hook' = [hook EXCEPT ![r] = NoHook]
  /\ UNCHANGED <<assetId, isClipCreated, lockVersion, seenClip, muxVars,
                 consumerVars, click, sweep, heal, orphans>>

\* The backend dies in the transaction: nothing is kept, Mux delivers again.
SourceReadyAbort(r) ==
  /\ RowLocked(r)
  /\ Fault
  /\ hook' = [hook EXCEPT ![r] = NoHook]
  /\ UNCHANGED <<rowVars, recVars, seenVars, muxVars, queue, consumerVars,
                 click, sweep, heal, orphans>>

\* handleAssetErrored of a source: found by mux_asset_id only.
SourceErrored(r) ==
  /\ muxSource[r] = "errored"
  /\ r \notin seenSource
  /\ ~RowLocked(r)
  /\ seenSource' = seenSource \cup {r}
  /\ IF recAsset[r]
       THEN /\ recStatus' = [recStatus EXCEPT ![r] = "failed"]
            /\ videoCreated' = [videoCreated EXCEPT ![r] = TRUE]
            /\ status' = [h \in Highlights |->
                 IF h \in Rows(r) THEN "permanently_failed" ELSE status[h]]
       ELSE UNCHANGED <<recStatus, videoCreated, status>>
  /\ UNCHANGED <<assetId, isClipCreated, lockVersion, recAsset, seenClip,
                 muxVars, queue, consumerVars, jobVars, orphans, faults>>

-----------------------------------------------------------------------------
(* Other writers of the recording.                                         *)

\* syncMuxReadyStatus: a recording with an S3 copy is made ready before Mux is.
ReadyFromS3(r) ==
  /\ recStatus[r] = "processing"
  /\ ~RowLocked(r)
  /\ recStatus' = [recStatus EXCEPT ![r] = "ready"]
  /\ videoCreated' = [videoCreated EXCEPT ![r] = TRUE]
  /\ UNCHANGED <<rowVars, recAsset, seenVars, muxVars, queue, consumerVars,
                 jobVars, orphans, faults>>

\* An extraction that timed out or was reported failed by the Raspberry Pi.
RecordingFails(r) ==
  /\ recStatus[r] = "processing"
  /\ ~RowLocked(r)
  /\ Fault
  /\ recStatus' = [recStatus EXCEPT ![r] = "failed"]
  /\ UNCHANGED <<rowVars, recAsset, videoCreated, seenVars, muxVars, queue,
                 consumerVars, jobVars, orphans>>

\* The body of ensureHighlightClipsForRecording.
Ensure(r) ==
  LET pending == {h \in Rows(r) :
                    status[h] = "pending" /\ assetId[h] = NoClip}
      stuck == {h \in Rows(r) : status[h] # "ready" /\ assetId[h] # NoClip}
  IN
  /\ isClipCreated' = [h \in Highlights |->
       /\ isClipCreated[h]
       /\ ~(h \in Rows(r) \cap S3Highlights /\ assetId[h] = NoClip)]
  /\ status' = [h \in Highlights |->
       IF h \in pending THEN "queued" ELSE status[h]]
  /\ IF pending \cup stuck # {} THEN Enqueue(r)
                                ELSE UNCHANGED <<queue, faults>>

\* A read of the recording calls it when the video exists.
EnsureClips(r) ==
  /\ recAsset[r] /\ videoCreated[r]
  /\ Ensure(r)
  /\ UNCHANGED <<assetId, lockVersion, recVars, seenVars, muxVars,
                 consumerVars, jobVars, orphans>>

\* syncMuxReadyStatus: Mux is polled and found ready.
SyncSource(r) ==
  /\ recAsset[r]
  /\ recStatus[r] # "ready"
  /\ muxSource[r] = "ready"
  /\ ~RowLocked(r)
  /\ recStatus' = [recStatus EXCEPT ![r] = "ready"]
  /\ videoCreated' = [videoCreated EXCEPT ![r] = TRUE]
  /\ Ensure(r)
  /\ UNCHANGED <<assetId, lockVersion, recAsset, seenVars, muxVars,
                 consumerVars, jobVars, orphans>>

\* syncHighlightClipFromMux: a read of a row whose clip is ready at Mux.
SyncClip(h) ==
  /\ Exists(h)
  /\ status[h] # "ready"
  /\ assetId[h] # NoClip
  /\ muxClip[assetId[h]] = "ready"
  /\ status' = [status EXCEPT ![h] = "ready"]
  /\ isClipCreated' = [isClipCreated EXCEPT ![h] = TRUE]
  /\ UNCHANGED <<assetId, lockVersion, recVars, seenVars, muxVars, queue,
                 consumerVars, jobVars, orphans, faults>>

-----------------------------------------------------------------------------
(* The sweep Lambda, row by row: each query finds rows, each row is        *)
(* updated by id afterwards, and its recording is enqueued.                *)

\* Steps 1 and 2: stuck processing, and pending under a ready recording.
Stuck(h) ==
  \/ status[h] = "processing"
  \/ /\ status[h] = "pending"
     /\ recAsset[RecOf[h]]
     /\ recStatus[RecOf[h]] = "ready"

\* Mutant: only rows nobody has turned to are looked for.
NeverLost(h) == FALSE

\* Step 7: queued, and its message may be lost.
Unheard(h) == status[h] = "queued" /\ recAsset[RecOf[h]]

SweepFind(h) ==
  /\ sweep.row = None
  /\ \/ Stuck(h) /\ sweep' = [row |-> h, kind |-> "requeue"]
     \/ Unheard(h) /\ sweep' = [row |-> h, kind |-> "touch"]
  /\ UNCHANGED <<rowVars, recVars, seenVars, muxVars, queue, consumerVars,
                 click, hook, heal, orphans, faults>>

\* Step 7 touches only updated_at.
SweepFix(h) ==
  /\ sweep.row = h
  /\ sweep' = [row |-> None, kind |-> "requeue"]
  /\ status' = [status EXCEPT ![h] =
       IF sweep.kind = "requeue" /\ Exists(h) THEN "queued" ELSE @]
  /\ Enqueue(RecOf[h])
  /\ UNCHANGED <<assetId, isClipCreated, lockVersion, recVars, seenVars,
                 muxVars, consumerVars, click, hook, heal, orphans>>

-----------------------------------------------------------------------------
(* The gap-heal cron: failed recordings are read first and cleaned later,  *)
(* after their S3 objects were listed and deleted one by one.              *)

HealSelect(r) ==
  /\ recStatus[r] = "failed"
  /\ heal[r] = NoHeal
  /\ heal' = [heal EXCEPT ![r].pc = "selected"]
  /\ UNCHANGED <<rowVars, recVars, seenVars, muxVars, queue, consumerVars,
                 click, hook, sweep, orphans, faults>>

\* cleanupFailedPartialExtract clears mux_asset_id, whatever the recording has
\* become, and reads the rows that wait and have no clip ...
HealClear(r) ==
  /\ heal[r].pc = "selected"
  /\ ~RowLocked(r)
  /\ recAsset' = [recAsset EXCEPT ![r] = FALSE]
  /\ heal' = [heal EXCEPT ![r] =
       [pc |-> "deleting",
        rows |-> {h \in Rows(r) \ S3Highlights :
                    /\ status[h] \in {"pending", "queued", "processing"}
                    /\ assetId[h] = NoClip}]]
  /\ UNCHANGED <<rowVars, recStatus, videoCreated, seenVars, muxVars, queue,
                 consumerVars, click, hook, sweep, orphans, faults>>

\* ... and then deletes them, by id.
HealDelete(r) ==
  LET rows == {h \in heal[r].rows : Exists(h)} IN
  /\ heal[r].pc = "deleting"
  /\ heal' = [heal EXCEPT ![r] = NoHeal]
  /\ status' = [h \in Highlights |->
       IF h \in rows THEN "deleted" ELSE status[h]]
  /\ assetId' = [h \in Highlights |->
       IF h \in rows THEN NoClip ELSE assetId[h]]
  /\ orphans' = orphans \cup ({assetId[h] : h \in rows} \ {NoClip})
  /\ UNCHANGED <<isClipCreated, lockVersion, recVars, seenVars, muxVars, queue,
                 consumerVars, click, hook, sweep, faults>>

-----------------------------------------------------------------------------
Consume(c) ==
  \/ \E r \in Recordings : Receive(c, r)
  \/ TryLock(c)
  \/ Locked(c)
  \/ Select(c)
  \/ Finish(c)
  \/ \E h \in Highlights : BeginCheck(c, h) \/ BeginPost(c, h)
  \/ PostCreated(c)
  \/ PostFails(c)
  \/ PostAnswerLost(c)
  \/ AuthError(c)
  \/ Record(c)
  \/ CheckReady(c)
  \/ CheckGone(c)
  \/ CheckSkips(c)
  \/ CheckFails(c)

Next ==
  \/ \E h \in Highlights :
       \/ ClickRead(h)
       \/ ClickInsert(h)
       \/ ClickQueue(h)
       \/ ClickLost(h)
       \/ SyncClip(h)
       \/ SweepFind(h)
       \/ SweepFix(h)
  \/ \E c \in Consumers : Consume(c) \/ Die(c)
  \/ \E k \in Clips : MuxClipDone(k) \/ MuxClipDeleted(k) \/ ClipEvent(k)
  \/ \E r \in Recordings :
       \/ MuxSourceDone(r)
       \/ SourceReadyBegin(r)
       \/ SourceReadyCommit(r)
       \/ SourceReadyAbort(r)
       \/ SourceErrored(r)
       \/ ReadyFromS3(r)
       \/ RecordingFails(r)
       \/ EnsureClips(r)
       \/ SyncSource(r)
       \/ HealSelect(r)
       \/ HealClear(r)
       \/ HealDelete(r)

Spec == Init /\ [][Next]_vars

\* What the deployment gives: pollers that run, a Mux that finishes its work
\* and repeats its events, and a sweep every ten minutes that reaches every
\* row.  Nothing is assumed of the reads of users, nor of the gap heal.
Fairness ==
  /\ \A c \in Consumers : WF_vars(Consume(c))
  /\ \A h \in Highlights :
       /\ WF_vars(ClickQueue(h))
       /\ SF_vars(SweepFind(h))
       /\ WF_vars(SweepFix(h))
  /\ \A k \in Clips : WF_vars(MuxClipDone(k)) /\ WF_vars(ClipEvent(k))
  /\ \A r \in Recordings :
       /\ WF_vars(MuxSourceDone(r))
       /\ WF_vars(SourceReadyBegin(r))
       /\ WF_vars(SourceReadyCommit(r))

FairSpec == Spec /\ Fairness

-----------------------------------------------------------------------------
(* What the pipeline promises.                                             *)

\* A clip Mux is making or has made.
Live(k) == muxClip[k] \in {"preparing", "ready", "errored"}

Attached(k) == madeFor[k] # None /\ assetId[madeFor[k]] = k
InFlight(k) ==
  \E c \in Consumers :
    pc[c] = "record" /\ posted[c] = k /\ cur[c] = madeFor[k]

\* Every clip Mux was made to produce is accounted for: it is on the row it was
\* made for, or the consumer that made it is about to record it there, or it is
\* a known orphan.  (Clips cost money, and nothing else would find a stray one.)
NoStrayClip == \A k \in Clips : Live(k) => Attached(k) \/ InFlight(k)
                                                      \/ k \in orphans

\* At most one clip is made for a highlight, orphans aside.
OneClipEach ==
  \A j, k \in Clips :
    /\ Live(j) /\ Live(k) /\ {j, k} \cap orphans = {}
    /\ madeFor[j] = madeFor[k]
    => j = k

\* The optimistic lock never finds a conflict on a row that still exists: what
\* a consumer read of a row stays true until it turns to it, because the rows
\* get a clip or a new version under the advisory lock only.
SnapshotFresh ==
  \A c \in Consumers :
    /\ \A h \in todo[c] :
         Exists(h) => /\ lockVersion[h] = snap[c][h].version
                      /\ assetId[h] = snap[c][h].asset
    /\ pc[c] \in {"post", "record"} => assetId[cur[c]] = NoClip

\* A recording is locked exactly while one consumer is between the lock and the
\* unlock: no lock outlives its job, and no job runs without it.
LockHeld ==
  \A r \in Recordings, c \in Consumers :
    lock[r] = c <=> crec[c] = r /\ pc[c] \notin {"idle", "received"}

\* What a row says of its clip is so: ready (and not only an S3 clip) means a
\* clip that Mux finished, though it may have been deleted there since; and
\* a row that still waits has isClipCreated only with an asset_id (the processor
\* would skip it, "No asset ID to check", for ever).
ReadyIsPlayable ==
  /\ \A h \in Highlights \ S3Highlights :
       status[h] = "ready" => /\ assetId[h] # NoClip
                              /\ muxClip[assetId[h]] \in {"ready", "gone"}
  /\ \A h \in Highlights :
       status[h] \in {"pending", "queued", "processing"} /\ isClipCreated[h]
       => assetId[h] # NoClip

\* The rows that wait for a clip the consumers can make.
Waiting(h) == /\ status[h] \in {"queued", "processing"}
              /\ recAsset[RecOf[h]]
              /\ ~isClipCreated[h]

\* A row that waits for its clip leaves that state: whatever message was lost,
\* whatever consumer died or found the lock taken, the sweep comes back to it.
WaitingEnds == \A h \in Highlights : Waiting(h) ~> ~Waiting(h)

(* What the documents and the comments say, and the code does not do.      *)

\* "Mux will send video.asset.ready webhook when encoding finishes": a row with
\* a clip under way becomes ready or errored by the webhook.
ClipCreatedEnds ==
  \A h \in Highlights : status[h] = "clip_created" ~> status[h] # "clip_created"

(* The clips alone, as ClipLedger tells it.                                *)

FlightOf(h) ==
  LET flying == {c \in Consumers : pc[c] = "record" /\ cur[c] = h} IN
  IF flying = {} THEN NoClip ELSE posted[CHOOSE c \in flying : TRUE]

Ledger == INSTANCE ClipLedger WITH
  flight <- [h \in Highlights |-> FlightOf(h)],
  held <- assetId,
  lost <- orphans,
  gone <- {k \in Clips : muxClip[k] = "gone"}

ClipLedgerSpec == Ledger!Spec
=============================================================================
