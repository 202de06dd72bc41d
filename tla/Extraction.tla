----------------------------- MODULE Extraction -----------------------------
(***************************************************************************)
(* The life of one recording from the moment its video is on its way until *)
(* it can be played: the Raspberry Pi that extracts it, Mux that encodes   *)
(* it, and everything that writes its row: the Pi's callback, two webhook  *)
(* endpoints, the upload Lambda, two crons, the admin's retries, a claim   *)
(* that supersedes it and the readers that heal it.                        *)
(*                                                                         *)
(* A handler is a call.  It keeps what it has read of the row and will use *)
(* after it has waited for Mux or S3; a read and the write that follows it *)
(* with nothing but the database in between are one step.  metadata is one *)
(* JSON column: who writes a key of it writes all the others as once read. *)
(* The only keys kept are mux_retries and mux_upload_id: expected_s3_key   *)
(* is set for every extraction, and a stopped live recording has s3Path.   *)
(***************************************************************************)
EXTENDS Integers, FiniteSets

CONSTANTS
  Assets,     \* bound: assets Mux can make for the recording
  Jobs,       \* bound: extractions the Pi can be asked for
  FirstJob,
  Calls,      \* slots for handlers in progress
  None,
  MaxTries,   \* mux_retries at which retryMuxIngestion gives up: 3
  MaxCrashes, \* bound: restarts of the server
  MaxPosts,   \* bound: uploads from S3 by retryMuxIngestion
  EventsLost  \* whether Mux may give up delivering an event

ASSUME JobAssumption == FirstJob \in Jobs
ASSUME CallsAssumption == IsFiniteSet(Calls)
ASSUME NoneAssumption == None \notin Assets \cup Jobs
ASSUME BoundsAssumption ==
  /\ MaxTries \in Nat \ {0} /\ MaxCrashes \in Nat /\ MaxPosts \in Nat
  /\ EventsLost \in BOOLEAN

VARIABLES
  row,      \* recordings: the row
  old,      \* its updated_at is hours ago
  stored,   \* S3 has an object recordings/<id>_...
  pi,       \* what each extraction has come to
  upload,   \* Mux direct uploads: what has come of the one of each job
  asset,    \* Mux: the state of each asset
  events,   \* the assets whose final event is not yet delivered
  trigger,  \* S3 has yet to run the upload Lambda for a new object
  call,     \* what each handler does next, and what it has read
  crashes,
  (* history: uploads from S3 begun by retryMuxIngestion; whether two      *)
  (* calls had the metadata in hand at once; whether the recording has     *)
  (* been playable with nothing under way                                  *)
  posts, meddled, settled

outside == <<stored, pi, upload, asset, events, trigger>>
history == <<crashes, posts, meddled, settled>>
vars == <<row, old, outside, call, history>>

Meta == [tries : Nat, upload : Jobs \cup {None}]
Row == [status : {"extracting", "uploaded", "processing", "completed",
                  "ready", "failed"},
        s3 : BOOLEAN,
        asset : Assets \cup {None},
        play : Assets \cup {None},  \* the asset of the playback id
        meta : Meta]

\* The steps after which a call will still write metadata it has read.
WithMeta == {"poll", "pollUpload", "post", "save", "count",
             "stale", "failing", "extract"}
Call == [pc : {"idle", "retry", "heal", "sync", "lambda"} \cup WithMeta,
         meta : Meta,                 \* the metadata read
         asset : Assets \cup {None},  \* the asset read, or the one made
         differs : BOOLEAN]           \* a reader found something to mend

NoMeta == [tries |-> 0, upload |-> None]
NewRow == [status |-> "extracting", s3 |-> FALSE, asset |-> None,
           play |-> None, meta |-> NoMeta]
Idle == [pc |-> "idle", meta |-> NoMeta, asset |-> None, differs |-> FALSE]

\* A call that wrote the row owns nothing older than what it read: the asset
\* it carries is one that Mux has made.
TypeOK ==
  /\ row \in Row
  /\ old \in BOOLEAN /\ stored \in BOOLEAN /\ trigger \in BOOLEAN
  /\ pi \in [Jobs -> {"new", "running", "s3", "mux", "failed", "off"}]
  /\ upload \in [Jobs -> {"none", "waiting", "timed_out"} \cup Assets]
  /\ asset \in [Assets -> {"none", "preparing", "broken", "ready", "errored"}]
  /\ events \subseteq {a \in Assets : asset[a] \in {"ready", "errored"}}
  /\ call \in [Calls -> Call]
  /\ \A c \in Calls :
       call[c].pc \in {"save", "lambda"} => asset[call[c].asset] # "none"
  /\ crashes \in 0 .. MaxCrashes
  /\ posts \in 0 .. MaxPosts /\ meddled \in BOOLEAN /\ settled \in BOOLEAN

\* An extraction has been dispatched, with a direct upload or without; or a
\* live recording has been stopped and its file handed to retryMuxIngestion.
Init ==
  /\ \E up \in {FirstJob, None} :
       \/ /\ row = [NewRow EXCEPT !.meta.upload = up]
          /\ pi = [j \in Jobs |-> IF j = FirstJob THEN "running" ELSE "new"]
          /\ upload = [j \in Jobs |-> IF j = up THEN "waiting" ELSE "none"]
          /\ stored = FALSE /\ trigger = FALSE
          /\ call = [c \in Calls |-> Idle]
       \/ /\ up = None
          /\ row = [NewRow EXCEPT !.status = "completed", !.s3 = TRUE]
          /\ pi = [j \in Jobs |-> IF j = FirstJob THEN "off" ELSE "new"]
          /\ upload = [j \in Jobs |-> "none"]
          /\ stored = TRUE /\ trigger = TRUE
          /\ \E c \in Calls :
               call = [d \in Calls |-> IF d = c THEN [Idle EXCEPT !.pc = "retry"]
                                       ELSE Idle]
  /\ old = FALSE
  /\ asset = [a \in Assets |-> "none"]
  /\ events = {}
  /\ crashes = 0 /\ posts = 0 /\ meddled = FALSE /\ settled = FALSE

-----------------------------------------------------------------------------
(* Helpers.                                                                *)

Go(c, new) == call' = [call EXCEPT ![c] = new]
Return(c) == Go(c, Idle)

\* The call c goes on with retryMuxIngestion, or with an upload from S3.
Retry(c) == Go(c, [Idle EXCEPT !.pc = "retry"])
Upload(c) == Go(c, [Idle EXCEPT !.pc = "post", !.meta = call[c].meta])

\* A call begins; when it is not to read the row later, it has read it now.
BeginRetry(c) == call[c].pc = "idle" /\ Retry(c)
Begin(c, pc, read) ==
  /\ call[c].pc = "idle"
  /\ Go(c, [Idle EXCEPT !.pc = pc, !.meta = read.meta, !.asset = read.asset])
BeginReader(c, pc, differs) ==
  /\ call[c].pc = "idle"
  /\ Go(c, [Idle EXCEPT !.pc = pc, !.asset = row.asset, !.differs = differs])
WithoutAsset(r) == [r EXCEPT !.asset = None]

Write(new) == row' = new /\ old' = FALSE

\* The row is written with metadata that the call c has read before.
HoldsMeta(c) == call[c].pc \in WithMeta
WriteMeta(c, new) ==
  /\ Write(new)
  /\ meddled' = (meddled \/ \E d \in Calls \ {c} : HoldsMeta(d))

\* isRecordingMuxPlayable.  (A mutant: completed is forgotten.)
ReadyWithId(r) == r.status = "ready" /\ r.play # None
Playable(r) == r.status \in {"ready", "completed"} /\ r.play # None

Unused == {a \in Assets : asset[a] = "none"}

AsReady(r, a) == [r EXCEPT !.status = "ready", !.play = a]

-----------------------------------------------------------------------------
(* The Pi, Mux and S3.                                                     *)

PiStores(j) ==
  /\ pi[j] = "running"
  /\ pi' = [pi EXCEPT ![j] = "s3"]
  /\ stored' = TRUE
  /\ trigger' = TRUE
  /\ UNCHANGED <<row, old, upload, asset, events, call, history>>

PiUploads(j) ==
  /\ pi[j] = "running"
  /\ upload[j] = "waiting"
  /\ \E a \in Unused :
       /\ upload' = [upload EXCEPT ![j] = a]
       /\ asset' = [asset EXCEPT ![a] = "preparing"]
  /\ pi' = [pi EXCEPT ![j] = "mux"]
  /\ UNCHANGED <<row, old, stored, events, trigger, call, history>>

PiFails(j) ==
  /\ pi[j] = "running"
  /\ pi' = [pi EXCEPT ![j] = "failed"]
  /\ UNCHANGED <<row, old, stored, upload, asset, events, trigger, call,
                 history>>

\* The Pi's callback is never sent, or never arrives.
PiSilent(j) ==
  /\ pi[j] \in {"s3", "mux", "failed"}
  /\ pi' = [pi EXCEPT ![j] = "off"]
  /\ UNCHANGED <<row, old, stored, upload, asset, events, trigger, call,
                 history>>

UploadTimesOut(j) ==
  /\ upload[j] = "waiting"
  /\ upload' = [upload EXCEPT ![j] = "timed_out"]
  /\ UNCHANGED <<row, old, stored, pi, asset, events, trigger, call, history>>

\* An asset whose input was not there can only fail.
AssetSettles(a) ==
  /\ \/ asset[a] = "preparing" /\ asset' = [asset EXCEPT ![a] = "ready"]
     \/ asset[a] \in {"preparing", "broken"}
          /\ asset' = [asset EXCEPT ![a] = "errored"]
  /\ events' = events \cup {a}
  /\ UNCHANGED <<row, old, stored, pi, upload, trigger, call, history>>

EventLost(a) ==
  /\ EventsLost
  /\ a \in events
  /\ events' = events \ {a}
  /\ UNCHANGED <<row, old, stored, pi, upload, asset, trigger, call, history>>

\* No handler runs for hours.
Age ==
  /\ ~old
  /\ \A c \in Calls : call[c].pc = "idle"
  /\ old' = TRUE
  /\ UNCHANGED <<row, outside, call, history>>

\* The server restarts: what its handlers were doing is not resumed.
Crash ==
  /\ crashes < MaxCrashes
  /\ \E c \in Calls : call[c].pc # "idle"
  /\ crashes' = crashes + 1
  /\ meddled' = (meddled \/ \E c \in Calls :
                              call[c].pc \in {"save", "count"})
  /\ call' = [c \in Calls |-> IF call[c].pc = "lambda" THEN call[c] ELSE Idle]
  /\ UNCHANGED <<row, old, outside, posts, settled>>

-----------------------------------------------------------------------------
(* Events from Mux.                                                        *)

\* POST /webhooks/mux.  A ready asset finds the recording by the asset or by
\* its passthrough.
ReadyEvent(a) ==
  /\ a \in events
  /\ asset[a] = "ready"
  /\ events' = events \ {a}
  /\ Write([AsReady(row, a) EXCEPT !.asset = a])
  /\ UNCHANGED <<stored, pi, upload, asset, trigger, call, history>>

\* An errored asset finds it by the asset alone, else the event is ignored.
ErroredEvent(a) ==
  /\ a \in events
  /\ asset[a] = "errored"
  /\ events' = events \ {a}
  /\ IF row.asset = a THEN Write([row EXCEPT !.status = "failed"])
     ELSE UNCHANGED <<row, old>>
  /\ UNCHANGED <<stored, pi, upload, asset, trigger, call, history>>

\* POST /mux/webhook, the older endpoint, knows only ready assets.
CompletedEvent(a) ==
  /\ a \in events
  /\ events' = events \ {a}
  /\ IF asset[a] = "ready"
     THEN Write([row EXCEPT !.status = "completed", !.asset = a, !.play = a])
     ELSE UNCHANGED <<row, old>>
  /\ UNCHANGED <<stored, pi, upload, asset, trigger, call, history>>

-----------------------------------------------------------------------------
(* retryMuxIngestion and uploadFromS3.                                     *)

Exhausted(r) == r.meta.tries >= MaxTries

RetryRead(c) ==
  /\ call[c].pc = "retry"
  /\ IF Playable(row)
     THEN Return(c) /\ UNCHANGED <<row, old>>
     ELSE IF Exhausted(row)
     THEN Return(c) /\ Write([row EXCEPT !.status = "failed"])
     ELSE /\ Go(c, [Idle EXCEPT
                      !.meta = row.meta,
                      !.asset = row.asset,
                      !.pc = IF row.asset # None THEN "poll"
                             ELSE IF row.meta.upload # None THEN "pollUpload"
                             ELSE "post"])
          /\ UNCHANGED <<row, old>>
  /\ UNCHANGED <<outside, history>>

Poll(c) ==
  LET a == call[c].asset
  IN /\ call[c].pc = "poll"
     /\ IF asset[a] = "ready" THEN Write(AsReady(row, a))
        ELSE UNCHANGED <<row, old>>
     /\ Return(c)
     /\ UNCHANGED <<outside, history>>

\* Mux has made an asset of the direct upload.  (A mutant: an upload that has
\* not timed out is taken for one.)
UploadGoesOn(up) == up # "timed_out"
UploadIsAsset(up) == up \in Assets

PollUpload(c) ==
  LET up == upload[call[c].meta.upload]
  IN /\ call[c].pc = "pollUpload"
     /\ IF UploadIsAsset(up)
        THEN /\ Write([row EXCEPT !.asset = up, !.status = "processing"])
             /\ Retry(c)
        ELSE /\ IF up = "waiting" THEN Return(c) ELSE Upload(c)
             /\ UNCHANGED <<row, old>>
     /\ UNCHANGED <<outside, history>>

\* Mux does not answer: the file is uploaded (again).
PollFails(c) ==
  /\ call[c].pc \in {"poll", "pollUpload"}
  /\ Upload(c)
  /\ UNCHANGED <<row, old, outside, history>>

\* The URL of the S3 object is given to Mux, whether or not it exists.
Post(c) ==
  /\ call[c].pc = "post"
  /\ posts < MaxPosts
  /\ \E a \in Unused :
       /\ asset' = [asset EXCEPT ![a] = IF stored THEN "preparing" ELSE "broken"]
       /\ Go(c, [call[c] EXCEPT !.pc = "save", !.asset = a])
  /\ posts' = posts + 1
  /\ UNCHANGED <<row, old, stored, pi, upload, events, trigger, crashes, meddled,
                 settled>>

\* uploadFromS3 handles its errors, and retryMuxIngestion does not see them.
PostFails(c) ==
  /\ call[c].pc = "post"
  /\ posts < MaxPosts
  /\ Write([row EXCEPT !.s3 = TRUE, !.status = "ready"])
  /\ Go(c, [call[c] EXCEPT !.pc = "count"])
  /\ posts' = posts + 1
  /\ UNCHANGED <<outside, crashes, meddled,
                 settled>>

\* The bounds end here: the call is cut off, as by a restart.
PostBound(c) ==
  /\ call[c].pc = "post"
  /\ posts = MaxPosts \/ Unused = {}
  /\ Return(c)
  /\ UNCHANGED <<row, old, outside, history>>

SaveAsset(c) ==
  /\ call[c].pc = "save"
  /\ Write([row EXCEPT !.asset = call[c].asset, !.status = "processing"])
  /\ Go(c, [Idle EXCEPT !.pc = "count", !.meta = call[c].meta])
  /\ UNCHANGED <<outside, history>>

\* (A mutant: the retry is not counted.)
Uncounted(m) == m
Counted(m) == [m EXCEPT !.tries = @ + 1]

CountRetry(c) ==
  /\ call[c].pc = "count"
  /\ WriteMeta(c, [row EXCEPT !.s3 = TRUE, !.status = "uploaded",
                              !.meta = Counted(call[c].meta)])
  /\ Return(c)
  /\ UNCHANGED <<outside, crashes, posts, settled>>

-----------------------------------------------------------------------------
(* The Pi's callback.                                                      *)

\* The file is in S3: it names its key, or the row already has one.
CallbackStored(c, j) ==
  /\ pi[j] \in {"s3", "mux"}
  /\ pi[j] = "s3" \/ row.s3
  /\ pi' = [pi EXCEPT ![j] = "off"]
  /\ BeginRetry(c)
  /\ Write([row EXCEPT !.status = "uploaded", !.s3 = TRUE])
  /\ UNCHANGED <<stored, upload, asset, events, trigger, history>>

\* The Pi has used the direct upload.
CallbackUploaded(j) ==
  /\ pi[j] = "mux"
  /\ ~row.s3
  /\ pi' = [pi EXCEPT ![j] = "off"]
  /\ Write([row EXCEPT !.status = "processing"])
  /\ UNCHANGED <<stored, upload, asset, events, trigger, call, history>>

CallbackFailed(c, j) ==
  /\ pi[j] \in {"s3", "mux", "failed"}
  /\ pi' = [pi EXCEPT ![j] = "off"]
  /\ Begin(c, "failing", WithoutAsset(row))
  /\ UNCHANGED <<row, old, stored, upload, asset, events, trigger, history>>

FailureHandled(c) ==
  /\ call[c].pc = "failing"
  /\ IF stored
     THEN /\ WriteMeta(c, [row EXCEPT !.status = "uploaded", !.s3 = TRUE,
                                      !.meta = call[c].meta])
          /\ Retry(c)
     ELSE /\ WriteMeta(c, [row EXCEPT !.status = "failed",
                                      !.meta = call[c].meta])
          /\ Return(c)
  /\ UNCHANGED <<outside, crashes, posts, settled>>

-----------------------------------------------------------------------------
(* The upload Lambda, run by S3 for every new object.                      *)

LambdaPost(c) ==
  /\ trigger
  /\ call[c].pc = "idle"
  /\ trigger' = FALSE
  /\ \E a \in Unused :
       /\ asset' = [asset EXCEPT ![a] = "preparing"]
       /\ Go(c, [Idle EXCEPT !.pc = "lambda", !.asset = a])
  /\ UNCHANGED <<row, old, stored, pi, upload, events, history>>

\* The playback id is stored at once, while Mux prepares the asset.
LambdaSave(c) ==
  LET a == call[c].asset
  IN /\ call[c].pc = "lambda"
     /\ Write([row EXCEPT !.status = "completed", !.asset = a, !.play = a,
                          !.s3 = TRUE])
     /\ Return(c)
     /\ UNCHANGED <<outside, history>>

\* The object has no watermark tags, the bucket is not the expected one, or
\* Mux refuses.
LambdaFail ==
  /\ trigger
  /\ trigger' = FALSE
  /\ Write([row EXCEPT !.status = "failed"])
  /\ UNCHANGED <<stored, pi, upload, asset, events, call, history>>

-----------------------------------------------------------------------------
(* Crons.                                                                  *)

\* sweepStaleOnDemandExtractions, every five minutes.  (A mutant: rows that
\* are still extracting are left out.)
UploadedRow(r) == r.status = "uploaded" /\ r.play = None
StaleRow(r) == r.status \in {"extracting", "uploaded"} /\ r.play = None

StaleSweep(c) ==
  /\ old
  /\ StaleRow(row)
  /\ Begin(c, "stale", row)
  /\ UNCHANGED <<row, old, outside, history>>

StaleRecover(c) ==
  /\ call[c].pc = "stale"
  /\ stored
  /\ WriteMeta(c, [row EXCEPT !.status = "uploaded", !.s3 = TRUE,
                              !.meta = call[c].meta])
  /\ Retry(c)
  /\ UNCHANGED <<outside, crashes, posts, settled>>

StaleAsset(c) ==
  LET a == call[c].asset
  IN /\ call[c].pc = "stale"
     /\ ~stored
     /\ a # None
     /\ \/ asset[a] = "ready" /\ Write(AsReady(row, a))
        \/ asset[a] \in {"preparing", "broken"} /\ UNCHANGED <<row, old>>
     /\ Return(c)
     /\ UNCHANGED <<outside, history>>

\* There is no asset, it has failed, or Mux does not answer.
StaleFail(c) ==
  /\ call[c].pc = "stale"
  /\ ~stored
  /\ WriteMeta(c, [row EXCEPT !.status = "failed", !.meta = call[c].meta])
  /\ Return(c)
  /\ UNCHANGED <<outside, crashes, posts, settled>>

\* sweepStuckMuxIngestion, every ten minutes.
StuckSweep(c) ==
  /\ row.status \in {"uploaded", "processing", "ready"}
  /\ row.play = None
  /\ row.s3
  /\ BeginRetry(c)
  /\ UNCHANGED <<row, old, outside, history>>

-----------------------------------------------------------------------------
(* Admins and claims.                                                      *)

\* The day's cycle, and the admin's retry of one recording.
IngestionCycle(c) ==
  /\ ~Playable(row)
  /\ BeginRetry(c)
  /\ UNCHANGED <<row, old, outside, history>>

\* There is a job left for one more retry (a bound).
JobLeft ==
  Cardinality({c \in Calls : call[c].pc = "extract"})
    < Cardinality({j \in Jobs : pi[j] = "new"})

\* The batch tries the stored file first.
RetryExtractions(c) ==
  /\ row.status = "failed"
  /\ JobLeft
  /\ IF stored THEN BeginRetry(c) ELSE Begin(c, "extract", WithoutAsset(row))
  /\ UNCHANGED <<row, old, outside, history>>

RetryExtraction(c) ==
  /\ row.status = "failed"
  /\ JobLeft
  /\ Begin(c, "extract", WithoutAsset(row))
  /\ UNCHANGED <<row, old, outside, history>>

\* The Pi is asked again, with a new direct upload if Mux gives one; the
\* request to the Pi may be lost.
Dispatch(c) ==
  /\ call[c].pc = "extract"
  /\ \E j \in Jobs, given \in BOOLEAN :
       /\ pi[j] = "new"
       /\ \E s \in {"running", "off"} : pi' = [pi EXCEPT ![j] = s]
       /\ upload' = [upload EXCEPT ![j] = IF given THEN "waiting" ELSE "none"]
       /\ WriteMeta(c, [NewRow EXCEPT
                          !.meta = [tries |-> call[c].meta.tries,
                                    upload |-> IF given THEN j ELSE None]])
  /\ Return(c)
  /\ UNCHANGED <<stored, asset, events, trigger, crashes, posts, settled>>

\* The user claims the session again.
Supersede ==
  /\ old
  /\ StaleRow(row)
  /\ Write([row EXCEPT !.status = "failed"])
  /\ UNCHANGED <<outside, call, history>>

-----------------------------------------------------------------------------
(* Readers.                                                                *)

\* getRecordingById.
Read(c) ==
  /\ ~Playable(row)
  /\ row.asset # None
  /\ BeginReader(c, "heal", row.status # "ready" \/ row.play # row.asset)
  /\ UNCHANGED <<row, old, outside, history>>

Heal(c) ==
  LET a == call[c].asset
  IN /\ call[c].pc = "heal"
     /\ IF asset[a] = "ready" /\ call[c].differs THEN Write(AsReady(row, a))
        ELSE UNCHANGED <<row, old>>
     /\ Return(c)
     /\ UNCHANGED <<outside, history>>

\* syncMuxReadyStatus: a stored file is enough to be called ready.
StatusFromS3 ==
  /\ row.s3
  /\ row.status \notin {"failed", "ready"}
  /\ Write([row EXCEPT !.status = "ready"])
  /\ UNCHANGED <<outside, call, history>>

StatusPoll(c) ==
  /\ ~row.s3 \/ row.status = "failed"
  /\ row.asset # None
  /\ ~Playable(row)
  /\ BeginReader(c, "sync", row.play # None)
  /\ UNCHANGED <<row, old, outside, history>>

StatusSync(c) ==
  LET a == call[c].asset
  IN /\ call[c].pc = "sync"
     /\ \/ asset[a] = "ready" /\ Write(AsReady(row, a))
        \/ asset[a] # "ready" /\ call[c].differs
             /\ Write([row EXCEPT !.play = None])
        \/ asset[a] # "ready" /\ ~call[c].differs /\ UNCHANGED <<row, old>>
     /\ Return(c)
     /\ UNCHANGED <<outside, history>>

-----------------------------------------------------------------------------

\* The recording can be watched, the asset it names is the one that plays,
\* and nothing that is under way concerns it.  (A retry that overlaps the
\* Lambda leaves the asset of the one with the playback id of the other, and
\* when the first fails the recording that played does too.)
Watchable ==
  /\ row.status \in {"ready", "completed"}
  /\ row.play # None /\ row.asset = row.play
  /\ asset[row.play] = "ready"
Quiet ==
  /\ \A c \in Calls : call[c].pc = "idle"
  /\ \A j \in Jobs : pi[j] \in {"new", "off"}
  /\ ~trigger

\* (History.)  Somebody notices that this is so.
Settle ==
  /\ ~settled
  /\ Watchable
  /\ Quiet
  /\ settled' = TRUE
  /\ UNCHANGED <<row, old, outside, call, crashes, posts, meddled>>

CallStep(c) ==
  \/ RetryRead(c) \/ Poll(c) \/ PollUpload(c) \/ PollFails(c)
  \/ Post(c) \/ PostFails(c) \/ PostBound(c) \/ SaveAsset(c)
  \/ CountRetry(c) \/ FailureHandled(c) \/ LambdaSave(c)
  \/ StaleRecover(c) \/ StaleAsset(c) \/ StaleFail(c)
  \/ Dispatch(c) \/ Heal(c) \/ StatusSync(c)

Next ==
  \/ \E j \in Jobs :
       \/ PiStores(j) \/ PiUploads(j) \/ PiFails(j) \/ PiSilent(j)
       \/ UploadTimesOut(j) \/ CallbackUploaded(j)
       \/ \E c \in Calls : CallbackStored(c, j) \/ CallbackFailed(c, j)
  \/ \E a \in Assets :
       \/ AssetSettles(a) \/ EventLost(a)
       \/ ReadyEvent(a) \/ ErroredEvent(a) \/ CompletedEvent(a)
  \/ Age \/ Crash \/ LambdaFail \/ Supersede \/ StatusFromS3 \/ Settle
  \/ \E c \in Calls :
       \/ CallStep(c) \/ LambdaPost(c) \/ StaleSweep(c) \/ StuckSweep(c)
       \/ IngestionCycle(c) \/ RetryExtractions(c) \/ RetryExtraction(c)
       \/ Read(c) \/ StatusPoll(c)

Spec == Init /\ [][Next]_vars

(* The crons come back until they find a free slot; a handler that does    *)
(* not crash goes on; time passes; Mux settles its assets, gives up the    *)
(* uploads nobody makes and delivers its events to the newer endpoint.     *)
(* The Pi, the readers and the admins owe nothing.                         *)
Fairness ==
  /\ \A c \in Calls : WF_vars(CallStep(c))
  /\ SF_vars(\E c \in Calls : StaleSweep(c))
  /\ SF_vars(\E c \in Calls : StuckSweep(c))
  /\ SF_vars(Age)
  /\ \A j \in Jobs : WF_vars(UploadTimesOut(j))
  /\ \A a \in Assets :
       /\ WF_vars(AssetSettles(a))
       /\ WF_vars(ReadyEvent(a) \/ ErroredEvent(a))

FairSpec == Spec /\ Fairness

-----------------------------------------------------------------------------
(* Properties.                                                             *)

\* Once a recording can be watched while no handler, extraction or Lambda run
\* that concerns it is under way, it can be watched for ever: no sweep, retry,
\* repeated event or reader takes the video away again.
StaysWatchable == settled => Watchable

\* Unless two handlers have had the metadata in hand at once or the server
\* has died between the two, mux_retries counts the uploads from S3, those
\* under way apart.
RetriesCounted ==
  ~meddled =>
    row.meta.tries + Cardinality({c \in Calls :
                                    call[c].pc \in {"save", "count"}})
      = posts

\* An extraction ends: if the Pi never calls back, the sweep ends it.
ExtractionEnds == row.status = "extracting" ~> row.status # "extracting"

(* What comments say, and the code does not do.                            *)

\* "Re-trigger Mux ingest for recordings stuck at uploaded/processing without
\* playback" (sweepStuckMuxIngestion): they do not stay there for ever.
Stuck == row.status \in {"uploaded", "processing"} /\ row.play = None
StuckEnds == Stuck ~> ~Stuck
=============================================================================
