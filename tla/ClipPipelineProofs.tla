------------------------- MODULE ClipPipelineProofs -------------------------
(***************************************************************************)
(* Proofs about ClipPipeline, for every set of recordings, highlights and  *)
(* consumers and every bound: first its types, and from them its safety.   *)
(* The advisory lock excludes, what a consumer remembers of a row stays    *)
(* true under it, and so every clip is accounted for and made once; what a *)
(* row says of its clip is so; and ClipPipeline implements ClipLedger.     *)
(***************************************************************************)
EXTENDS ClipPipeline, TLAPS

\* The tuples of variables say only what an action leaves alone.
USE DEF vars, rowVars, recVars, seenVars, muxVars, consumerVars, jobVars

-----------------------------------------------------------------------------
(* Each part of the type invariant needs only its own variables.           *)

LEMMA RowsKept == ASSUME RowsTyped, UNCHANGED rowVars PROVE RowsTyped'
  BY DEF RowsTyped

LEMMA RecordingsKept ==
  ASSUME RecordingsTyped, UNCHANGED <<recVars, queue>>
  PROVE  RecordingsTyped'
  BY DEF RecordingsTyped

LEMMA MuxKept ==
  ASSUME MuxTyped, UNCHANGED <<muxVars, seenVars, orphans, faults>>
  PROVE  MuxTyped'
  BY DEF MuxTyped

LEMMA ConsumersKept ==
  ASSUME ConsumersTyped, UNCHANGED consumerVars
  PROVE  ConsumersTyped'
  BY DEF ConsumersTyped

LEMMA AgreementKept ==
  ASSUME ConsumersAgree, UNCHANGED consumerVars
  PROVE  ConsumersAgree'
  BY DEF ConsumersAgree

LEMMA JobsKept == ASSUME JobsTyped, UNCHANGED jobVars PROVE JobsTyped'
  BY DEF JobsTyped

-----------------------------------------------------------------------------
(* What the helpers of the actions keep within their types.                *)

LEMMA FaultTyped ==
  ASSUME MuxTyped, Fault
  PROVE  faults' \in 0 .. MaxFaults
  BY BoundsAssumption DEF MuxTyped, Fault

LEMMA SentTyped ==
  ASSUME RecordingsTyped, NEW r \in Recordings
  PROVE  Sent(r) \in [Recordings -> 0 .. MaxMessages]
  BY BoundsAssumption DEF RecordingsTyped, Sent

LEMMA EnqueueTyped ==
  ASSUME RecordingsTyped, MuxTyped, NEW r \in Recordings, Enqueue(r)
  PROVE  /\ queue' \in [Recordings -> 0 .. MaxMessages]
         /\ faults' \in 0 .. MaxFaults
  BY FaultTyped, SentTyped DEF Enqueue, RecordingsTyped, MuxTyped

LEMMA MarkTyped ==
  ASSUME RowsTyped, NEW h \in Highlights, NEW s \in Statuses, Mark(h, s)
  PROVE  /\ status' \in [Highlights -> Statuses]
         /\ lockVersion' \in [Highlights -> Nat]
  BY DEF RowsTyped, Mark

LEMMA NewClipTyped ==
  ASSUME MuxTyped, NEW h \in Highlights, NEW k \in Clips, NewClip(k, h)
  PROVE  /\ muxClip' \in
              [Clips -> {"none", "preparing", "ready", "errored", "gone"}]
         /\ madeFor' \in [Clips -> Highlights \cup {None}]
  BY DEF MuxTyped, NewClip

LEMMA BlankTyped == Blank \in Snapshot /\ NoClip \notin Clips
  BY DEF Blank, Snapshot, Clips, NoClip

LEMMA SnapshotTyped ==
  ASSUME RowsTyped, NEW h \in Highlights
  PROVE  [asset |-> assetId[h], created |-> isClipCreated[h],
          version |-> lockVersion[h]] \in Snapshot
  BY DEF RowsTyped, Snapshot

LEMMA UnlockedTyped ==
  ASSUME ConsumersTyped, NEW c \in Consumers
  PROVE  Unlocked(c) \in [Recordings -> Consumers \cup {None}]
  BY DEF ConsumersTyped, Unlocked

\* A job that ends leaves nothing behind in its consumer.
LEMMA ForgetTyped ==
  ASSUME TypeOK, NEW c \in Consumers, Forget(c),
         lock' \in [Recordings -> Consumers \cup {None}]
  PROVE  ConsumersTyped' /\ ConsumersAgree'
  BY BlankTyped DEF TypeOK, ConsumersTyped, ConsumersAgree, Forget, NoClip

LEMMA NextRowTyped ==
  ASSUME TypeOK, NEW c \in Consumers, pc[c] \in {"check", "post", "record"},
         NextRow(c), UNCHANGED <<lock, crec, todo>>
  PROVE  ConsumersTyped' /\ ConsumersAgree'
<1>1. ConsumersTyped'
  BY BlankTyped DEF TypeOK, ConsumersTyped, NextRow
<1>2. ConsumersAgree'
  BY DEF TypeOK, ConsumersTyped, ConsumersAgree, NextRow
<1> QED
  BY <1>1, <1>2

-----------------------------------------------------------------------------
(* Every action keeps the types.                                           *)

LEMMA TypeClickRead ==
  ASSUME TypeOK, NEW h \in Highlights, ClickRead(h)
  PROVE  TypeOK'
<1>1. JobsTyped'
  BY DEF TypeOK, ClickRead, JobsTyped
<1> QED
  BY <1>1, RowsKept, RecordingsKept, MuxKept, ConsumersKept, AgreementKept DEF TypeOK, ClickRead

LEMMA TypeClickInsert ==
  ASSUME TypeOK, NEW h \in Highlights, ClickInsert(h)
  PROVE  TypeOK'
<1>1. RowsTyped'
  BY DEF TypeOK, ClickInsert, RowsTyped, Statuses
<1>2. JobsTyped'
  BY DEF TypeOK, ClickInsert, JobsTyped
<1> QED
  BY <1>1, <1>2, RecordingsKept, MuxKept, ConsumersKept, AgreementKept DEF TypeOK, ClickInsert

LEMMA TypeClickQueue ==
  ASSUME TypeOK, NEW h \in Highlights, ClickQueue(h)
  PROVE  TypeOK'
<1>1. RowsTyped'
  BY DEF TypeOK, ClickQueue, RowsTyped, Statuses
<1>2. RecordingsTyped'
  BY RecOfAssumption, EnqueueTyped DEF TypeOK, ClickQueue, RecordingsTyped
<1>3. MuxTyped'
  BY RecOfAssumption, EnqueueTyped DEF TypeOK, ClickQueue, MuxTyped
<1>4. JobsTyped'
  BY DEF TypeOK, ClickQueue, JobsTyped
<1> QED
  BY <1>1, <1>2, <1>3, <1>4, ConsumersKept, AgreementKept DEF TypeOK, ClickQueue

LEMMA TypeClickLost ==
  ASSUME TypeOK, NEW h \in Highlights, ClickLost(h)
  PROVE  TypeOK'
<1>1. MuxTyped'
  BY FaultTyped DEF TypeOK, ClickLost, MuxTyped
<1>2. JobsTyped'
  BY DEF TypeOK, ClickLost, JobsTyped
<1> QED
  BY <1>1, <1>2, RowsKept, RecordingsKept, ConsumersKept, AgreementKept DEF TypeOK, ClickLost

LEMMA TypeReceive ==
  ASSUME TypeOK, NEW c \in Consumers, NEW r \in Recordings, Receive(c, r)
  PROVE  TypeOK'
<1>1. RecordingsTyped'
  BY BoundsAssumption DEF TypeOK, Receive, RecordingsTyped, Fault
<1>2. MuxTyped'
  BY FaultTyped DEF TypeOK, Receive, MuxTyped
<1>3. ConsumersTyped'
  BY DEF TypeOK, Receive, ConsumersTyped
<1>4. ConsumersAgree'
  BY DEF TypeOK, Receive, ConsumersAgree, ConsumersTyped
<1> QED
  BY <1>1, <1>2, <1>3, <1>4, RowsKept, JobsKept DEF TypeOK, Receive

LEMMA TypeTryLock ==
  ASSUME TypeOK, NEW c \in Consumers, TryLock(c)
  PROVE  TypeOK'
<1>1. ConsumersTyped'
  BY DEF TypeOK, TryLock, ConsumersTyped
<1>2. ConsumersAgree'
  BY DEF TypeOK, TryLock, ConsumersAgree, ConsumersTyped
<1> QED
  BY <1>1, <1>2, RowsKept, RecordingsKept, MuxKept, JobsKept DEF TypeOK, TryLock

LEMMA TypeLocked ==
  ASSUME TypeOK, NEW c \in Consumers, Locked(c)
  PROVE  TypeOK'
<1>1. lock' \in [Recordings -> Consumers \cup {None}]
  BY DEF TypeOK, ConsumersTyped, Locked
<1>2. ConsumersTyped' /\ ConsumersAgree'
  BY <1>1, ForgetTyped DEF Locked
<1> QED
  BY <1>1, <1>2, RowsKept, RecordingsKept, MuxKept, JobsKept DEF TypeOK, Locked

LEMMA TypeSelect ==
  ASSUME TypeOK, NEW c \in Consumers, Select(c)
  PROVE  TypeOK'
<1>1. ConsumersTyped'
  <2>1. snap' \in [Consumers -> [Highlights -> Snapshot]]
    <3>1. [h \in Highlights |->
             IF h \in Actionable(crec[c])
             THEN [asset |-> assetId[h], created |-> isClipCreated[h],
                   version |-> lockVersion[h]]
             ELSE Blank] \in [Highlights -> Snapshot]
      BY SnapshotTyped, BlankTyped DEF TypeOK
    <3> QED
      BY <3>1 DEF TypeOK, ConsumersTyped, Select
  <2>2. todo' \in [Consumers -> SUBSET Highlights]
    BY DEF TypeOK, ConsumersTyped, Select, Actionable, Rows
  <2> QED
    BY <2>1, <2>2 DEF TypeOK, ConsumersTyped, Select
<1>2. ConsumersAgree'
  BY DEF TypeOK, Select, ConsumersAgree, ConsumersTyped
<1> QED
  BY <1>1, <1>2, RowsKept, RecordingsKept, MuxKept, JobsKept
  DEF TypeOK, Select

LEMMA TypeFinish ==
  ASSUME TypeOK, NEW c \in Consumers, Finish(c)
  PROVE  TypeOK'
<1>1. lock' \in [Recordings -> Consumers \cup {None}]
  BY UnlockedTyped DEF TypeOK, ConsumersTyped, Finish
<1>2. ConsumersTyped' /\ ConsumersAgree'
  BY <1>1, ForgetTyped DEF Finish
<1> QED
  BY <1>1, <1>2, RowsKept, RecordingsKept, MuxKept, JobsKept DEF TypeOK, Finish

LEMMA TypeBeginCheck ==
  ASSUME TypeOK, NEW c \in Consumers, NEW h \in Highlights, BeginCheck(c, h)
  PROVE  TypeOK'
<1>1. ConsumersTyped'
  BY DEF TypeOK, BeginCheck, ConsumersTyped
<1>2. ConsumersAgree'
  BY DEF TypeOK, BeginCheck, ConsumersAgree, ConsumersTyped
<1> QED
  BY <1>1, <1>2, RowsKept, RecordingsKept, MuxKept, JobsKept DEF TypeOK, BeginCheck

LEMMA TypeBeginPost ==
  ASSUME TypeOK, NEW c \in Consumers, NEW h \in Highlights, BeginPost(c, h)
  PROVE  TypeOK'
<1>1. RowsTyped'
  BY DEF TypeOK, BeginPost, RowsTyped, Statuses
<1>2. ConsumersTyped'
  <2>1. snap' \in [Consumers -> [Highlights -> Snapshot]]
    <3>1. [snap[c] EXCEPT ![h] = Blank] \in [Highlights -> Snapshot]
      BY BlankTyped DEF TypeOK, ConsumersTyped
    <3>2. \/ snap' = snap
          \/ snap' = [snap EXCEPT ![c] = [snap[c] EXCEPT ![h] = Blank]]
      BY DEF TypeOK, ConsumersTyped, BeginPost
    <3> QED
      BY <3>1, <3>2 DEF TypeOK, ConsumersTyped
  <2>2. /\ pc' \in [Consumers -> {"idle", "received", "select", "loop",
                                  "check", "post", "record"}]
        /\ cur' \in [Consumers -> Highlights \cup {None}]
        /\ todo' \in [Consumers -> SUBSET Highlights]
    BY DEF TypeOK, ConsumersTyped, BeginPost
  <2> QED
    BY <2>1, <2>2 DEF TypeOK, ConsumersTyped, BeginPost
<1>3. ConsumersAgree'
  BY DEF TypeOK, BeginPost, ConsumersAgree, ConsumersTyped
<1> QED
  BY <1>1, <1>2, <1>3, RecordingsKept, MuxKept, JobsKept
  DEF TypeOK, BeginPost

LEMMA TypePostCreated ==
  ASSUME TypeOK, NEW c \in Consumers, PostCreated(c)
  PROVE  TypeOK'
<1>1. cur[c] \in Highlights
  BY DEF TypeOK, ConsumersAgree, PostCreated
<1>2. MuxTyped'
  BY <1>1, NewClipTyped DEF TypeOK, PostCreated, MuxTyped
<1>3. ConsumersTyped'
  BY <1>1 DEF TypeOK, PostCreated, ConsumersTyped
<1>4. ConsumersAgree'
  BY <1>1 DEF TypeOK, PostCreated, ConsumersAgree, ConsumersTyped, NoClip, Clips
<1> QED
  BY <1>1, <1>2, <1>3, <1>4, RowsKept, RecordingsKept, JobsKept DEF TypeOK, PostCreated

LEMMA TypePostFails ==
  ASSUME TypeOK, NEW c \in Consumers, PostFails(c)
  PROVE  TypeOK'
<1>1. cur[c] \in Highlights /\ pc[c] \in {"check", "post", "record"}
  BY DEF TypeOK, ConsumersAgree, PostFails
<1>2. RowsTyped'
  BY <1>1, MarkTyped DEF TypeOK, PostFails, RowsTyped, Statuses
<1>3. MuxTyped'
  BY <1>1, FaultTyped DEF TypeOK, PostFails, MuxTyped
<1>4. ConsumersTyped' /\ ConsumersAgree'
  BY <1>1, NextRowTyped DEF PostFails
<1> QED
  BY <1>1, <1>2, <1>3, <1>4, RecordingsKept, JobsKept DEF TypeOK, PostFails

LEMMA TypePostAnswerLost ==
  ASSUME TypeOK, NEW c \in Consumers, PostAnswerLost(c)
  PROVE  TypeOK'
<1>1. cur[c] \in Highlights /\ pc[c] \in {"check", "post", "record"}
  BY DEF TypeOK, ConsumersAgree, PostAnswerLost
<1>2. RowsTyped'
  BY <1>1, MarkTyped DEF TypeOK, PostAnswerLost, RowsTyped, Statuses
<1>3. MuxTyped'
  BY <1>1, FaultTyped, NewClipTyped DEF TypeOK, PostAnswerLost, MuxTyped
<1>4. ConsumersTyped' /\ ConsumersAgree'
  BY <1>1, NextRowTyped DEF PostAnswerLost
<1> QED
  BY <1>1, <1>2, <1>3, <1>4, RecordingsKept, JobsKept DEF TypeOK, PostAnswerLost

LEMMA TypeAuthError ==
  ASSUME TypeOK, NEW c \in Consumers, AuthError(c)
  PROVE  TypeOK'
<1>1. cur[c] \in Highlights /\ crec[c] \in Recordings
  BY DEF TypeOK, ConsumersAgree, AuthError
<1>2. RowsTyped'
  BY <1>1, MarkTyped DEF TypeOK, AuthError, RowsTyped, Statuses
<1>3. RecordingsTyped'
  BY <1>1, SentTyped DEF TypeOK, AuthError, RecordingsTyped
<1>4. MuxTyped'
  BY <1>1, FaultTyped DEF TypeOK, AuthError, MuxTyped
<1>5. lock' \in [Recordings -> Consumers \cup {None}]
  BY UnlockedTyped DEF TypeOK, ConsumersTyped, AuthError
<1>6. ConsumersTyped' /\ ConsumersAgree'
  BY <1>5, ForgetTyped DEF AuthError
<1> QED
  BY <1>1, <1>2, <1>3, <1>4, <1>5, <1>6, JobsKept DEF TypeOK, AuthError

LEMMA TypeRecord ==
  ASSUME TypeOK, NEW c \in Consumers, Record(c)
  PROVE  TypeOK'
<1>1. /\ cur[c] \in Highlights
      /\ pc[c] \in {"check", "post", "record"}
      /\ posted[c] \in Clips
  BY DEF TypeOK, ConsumersAgree, ConsumersTyped, Record
<1>2. RowsTyped'
  <2>1. CASE Exists(cur[c])
    <3>1. /\ status' = [status EXCEPT ![cur[c]] = "clip_created"]
          /\ assetId' = [assetId EXCEPT ![cur[c]] = posted[c]]
          /\ isClipCreated' = [isClipCreated EXCEPT ![cur[c]] = TRUE]
          /\ lockVersion' = [lockVersion EXCEPT ![cur[c]] = @ + 1]
      BY <2>1 DEF Record
    <3> QED
      BY <1>1, <3>1 DEF TypeOK, RowsTyped, Statuses
  <2>2. CASE ~Exists(cur[c])
    BY <2>2, RowsKept DEF TypeOK, Record
  <2> QED
    BY <2>1, <2>2
<1>3. MuxTyped'
  BY <1>1 DEF TypeOK, Record, MuxTyped
<1>4. ConsumersTyped' /\ ConsumersAgree'
  BY <1>1, NextRowTyped DEF Record
<1> QED
  BY <1>2, <1>3, <1>4, RecordingsKept, JobsKept DEF TypeOK, Record

LEMMA TypeCheckReady ==
  ASSUME TypeOK, NEW c \in Consumers, CheckReady(c)
  PROVE  TypeOK'
<1>1. cur[c] \in Highlights /\ pc[c] \in {"check", "post", "record"}
  BY DEF TypeOK, ConsumersAgree, CheckReady, Checking
<1>2. RowsTyped'
  BY <1>1, MarkTyped DEF TypeOK, CheckReady, RowsTyped, Statuses, Exists
<1>3. ConsumersTyped' /\ ConsumersAgree'
  BY <1>1, NextRowTyped DEF CheckReady
<1> QED
  BY <1>1, <1>2, <1>3, RecordingsKept, MuxKept, JobsKept DEF TypeOK, CheckReady

LEMMA TypeCheckGone ==
  ASSUME TypeOK, NEW c \in Consumers, CheckGone(c)
  PROVE  TypeOK'
<1>1. cur[c] \in Highlights /\ pc[c] \in {"check", "post", "record"}
  BY DEF TypeOK, ConsumersAgree, CheckGone, Checking
<1>2. RowsTyped'
  BY <1>1, MarkTyped DEF TypeOK, CheckGone, RowsTyped, Statuses
<1>3. ConsumersTyped' /\ ConsumersAgree'
  BY <1>1, NextRowTyped DEF CheckGone
<1> QED
  BY <1>1, <1>2, <1>3, RecordingsKept, MuxKept, JobsKept DEF TypeOK, CheckGone

LEMMA TypeCheckSkips ==
  ASSUME TypeOK, NEW c \in Consumers, CheckSkips(c)
  PROVE  TypeOK'
<1>1. cur[c] \in Highlights /\ pc[c] \in {"check", "post", "record"}
  BY DEF TypeOK, ConsumersAgree, CheckSkips, Checking
<1>2. ConsumersTyped' /\ ConsumersAgree'
  BY <1>1, NextRowTyped DEF CheckSkips
<1> QED
  BY <1>1, <1>2, RowsKept, RecordingsKept, MuxKept, JobsKept DEF TypeOK, CheckSkips

LEMMA TypeCheckFails ==
  ASSUME TypeOK, NEW c \in Consumers, CheckFails(c)
  PROVE  TypeOK'
<1>1. cur[c] \in Highlights /\ pc[c] \in {"check", "post", "record"}
  BY DEF TypeOK, ConsumersAgree, CheckFails, Checking
<1>2. RowsTyped'
  BY <1>1, MarkTyped DEF TypeOK, CheckFails, RowsTyped, Statuses
<1>3. MuxTyped'
  BY <1>1, FaultTyped DEF TypeOK, CheckFails, MuxTyped
<1>4. ConsumersTyped' /\ ConsumersAgree'
  BY <1>1, NextRowTyped DEF CheckFails
<1> QED
  BY <1>1, <1>2, <1>3, <1>4, RecordingsKept, JobsKept DEF TypeOK, CheckFails

LEMMA TypeDie ==
  ASSUME TypeOK, NEW c \in Consumers, Die(c)
  PROVE  TypeOK'
<1>1. crec[c] \in Recordings
  BY DEF TypeOK, ConsumersAgree, Die
<1>2. RecordingsTyped'
  BY <1>1, SentTyped DEF TypeOK, Die, RecordingsTyped
<1>3. MuxTyped'
  <2>1. faults' \in 0 .. MaxFaults
    BY FaultTyped DEF TypeOK, Die
  <2>2. CASE /\ orphans' = orphans \cup ({posted[c]} \ {NoClip})
             /\ UNCHANGED <<muxClip, madeFor>>
    BY <2>1, <2>2 DEF TypeOK, Die, MuxTyped, ConsumersTyped
  <2>3. CASE /\ pc[c] = "post"
             /\ \E k \in Clips :
                  NewClip(k, cur[c]) /\ orphans' = orphans \cup {k}
    <3>1. cur[c] \in Highlights
      BY <2>3 DEF TypeOK, ConsumersAgree
    <3>2. PICK k \in Clips : NewClip(k, cur[c]) /\ orphans' = orphans \cup {k}
      BY <2>3
    <3> QED
      BY <2>1, <3>1, <3>2, NewClipTyped DEF TypeOK, Die, MuxTyped
  <2> QED
    BY <2>2, <2>3 DEF Die
<1>4. lock' \in [Recordings -> Consumers \cup {None}]
  BY UnlockedTyped DEF TypeOK, ConsumersTyped, Die
<1>5. ConsumersTyped' /\ ConsumersAgree'
  BY <1>4, ForgetTyped DEF Die
<1> QED
  BY <1>2, <1>3, <1>5, RowsKept, JobsKept DEF TypeOK, Die

LEMMA TypeMuxSourceDone ==
  ASSUME TypeOK, NEW r \in Recordings, MuxSourceDone(r)
  PROVE  TypeOK'
<1>1. MuxTyped'
  BY FaultTyped DEF TypeOK, MuxSourceDone, MuxTyped
<1> QED
  BY <1>1, RowsKept, RecordingsKept, ConsumersKept, AgreementKept, JobsKept DEF TypeOK, MuxSourceDone

LEMMA TypeMuxClipDone ==
  ASSUME TypeOK, NEW k \in Clips, MuxClipDone(k)
  PROVE  TypeOK'
<1>1. MuxTyped'
  BY FaultTyped DEF TypeOK, MuxClipDone, MuxTyped
<1> QED
  BY <1>1, RowsKept, RecordingsKept, ConsumersKept, AgreementKept, JobsKept DEF TypeOK, MuxClipDone

LEMMA TypeMuxClipDeleted ==
  ASSUME TypeOK, NEW k \in Clips, MuxClipDeleted(k)
  PROVE  TypeOK'
<1>1. MuxTyped'
  BY FaultTyped DEF TypeOK, MuxClipDeleted, MuxTyped
<1> QED
  BY <1>1, RowsKept, RecordingsKept, ConsumersKept, AgreementKept, JobsKept DEF TypeOK, MuxClipDeleted

LEMMA TypeClipEvent ==
  ASSUME TypeOK, NEW k \in Clips, ClipEvent(k)
  PROVE  TypeOK'
<1>1. RowsTyped'
  BY DEF TypeOK, ClipEvent, RowsTyped, Statuses, EventStatus
<1>2. MuxTyped'
  BY DEF TypeOK, ClipEvent, MuxTyped
<1> QED
  BY <1>1, <1>2, RecordingsKept, ConsumersKept, AgreementKept, JobsKept DEF TypeOK, ClipEvent

LEMMA TypeSourceReadyBegin ==
  ASSUME TypeOK, NEW r \in Recordings, SourceReadyBegin(r)
  PROVE  TypeOK'
<1>1. JobsTyped'
  BY DEF TypeOK, SourceReadyBegin, JobsTyped, RowsToQueue, Rows
<1> QED
  BY <1>1, RowsKept, RecordingsKept, MuxKept, ConsumersKept, AgreementKept DEF TypeOK, SourceReadyBegin

LEMMA TypeSourceReadyCommit ==
  ASSUME TypeOK, NEW r \in Recordings, SourceReadyCommit(r)
  PROVE  TypeOK'
<1>1. RowsTyped'
  BY DEF TypeOK, SourceReadyCommit, RowsTyped, Statuses
<1>2. RecordingsTyped'
  BY EnqueueTyped DEF TypeOK, SourceReadyCommit, RecordingsTyped
<1>3. MuxTyped'
  BY EnqueueTyped DEF TypeOK, SourceReadyCommit, MuxTyped
<1>4. JobsTyped'
  BY DEF TypeOK, SourceReadyCommit, JobsTyped, NoHook
<1> QED
  BY <1>1, <1>2, <1>3, <1>4, ConsumersKept, AgreementKept DEF TypeOK, SourceReadyCommit

LEMMA TypeSourceReadyAbort ==
  ASSUME TypeOK, NEW r \in Recordings, SourceReadyAbort(r)
  PROVE  TypeOK'
<1>1. MuxTyped'
  BY FaultTyped DEF TypeOK, SourceReadyAbort, MuxTyped
<1>2. JobsTyped'
  BY DEF TypeOK, SourceReadyAbort, JobsTyped, NoHook
<1> QED
  BY <1>1, <1>2, RowsKept, RecordingsKept, ConsumersKept, AgreementKept DEF TypeOK, SourceReadyAbort

LEMMA TypeSourceErrored ==
  ASSUME TypeOK, NEW r \in Recordings, SourceErrored(r)
  PROVE  TypeOK'
<1>1. RowsTyped'
  BY DEF TypeOK, SourceErrored, RowsTyped, Statuses
<1>2. RecordingsTyped'
  BY DEF TypeOK, SourceErrored, RecordingsTyped
<1>3. MuxTyped'
  BY DEF TypeOK, SourceErrored, MuxTyped
<1> QED
  BY <1>1, <1>2, <1>3, ConsumersKept, AgreementKept, JobsKept DEF TypeOK, SourceErrored

LEMMA TypeReadyFromS3 ==
  ASSUME TypeOK, NEW r \in Recordings, ReadyFromS3(r)
  PROVE  TypeOK'
<1>1. RecordingsTyped'
  BY DEF TypeOK, ReadyFromS3, RecordingsTyped
<1> QED
  BY <1>1, RowsKept, MuxKept, ConsumersKept, AgreementKept, JobsKept DEF TypeOK, ReadyFromS3

LEMMA TypeRecordingFails ==
  ASSUME TypeOK, NEW r \in Recordings, RecordingFails(r)
  PROVE  TypeOK'
<1>1. RecordingsTyped'
  BY DEF TypeOK, RecordingFails, RecordingsTyped
<1>2. MuxTyped'
  BY FaultTyped DEF TypeOK, RecordingFails, MuxTyped
<1> QED
  BY <1>1, <1>2, RowsKept, ConsumersKept, AgreementKept, JobsKept DEF TypeOK, RecordingFails

LEMMA TypeEnsureClips ==
  ASSUME TypeOK, NEW r \in Recordings, EnsureClips(r)
  PROVE  TypeOK'
<1>1. RowsTyped'
  BY DEF TypeOK, EnsureClips, RowsTyped, Ensure, Statuses
<1>2. RecordingsTyped'
  BY EnqueueTyped DEF TypeOK, EnsureClips, RecordingsTyped, Ensure
<1>3. MuxTyped'
  BY EnqueueTyped DEF TypeOK, EnsureClips, MuxTyped, Ensure
<1> QED
  BY <1>1, <1>2, <1>3, ConsumersKept, AgreementKept, JobsKept DEF TypeOK, EnsureClips, Ensure

LEMMA TypeSyncSource ==
  ASSUME TypeOK, NEW r \in Recordings, SyncSource(r)
  PROVE  TypeOK'
<1>1. RowsTyped'
  BY DEF TypeOK, SyncSource, RowsTyped, Ensure, Statuses
<1>2. RecordingsTyped'
  BY EnqueueTyped DEF TypeOK, SyncSource, RecordingsTyped, Ensure
<1>3. MuxTyped'
  BY EnqueueTyped DEF TypeOK, SyncSource, MuxTyped, Ensure
<1> QED
  BY <1>1, <1>2, <1>3, ConsumersKept, AgreementKept, JobsKept DEF TypeOK, SyncSource, Ensure

LEMMA TypeSyncClip ==
  ASSUME TypeOK, NEW h \in Highlights, SyncClip(h)
  PROVE  TypeOK'
<1>1. RowsTyped'
  BY DEF TypeOK, SyncClip, RowsTyped, Statuses
<1> QED
  BY <1>1, RecordingsKept, MuxKept, ConsumersKept, AgreementKept, JobsKept DEF TypeOK, SyncClip

LEMMA TypeSweepFind ==
  ASSUME TypeOK, NEW h \in Highlights, SweepFind(h)
  PROVE  TypeOK'
<1>1. JobsTyped'
  BY DEF TypeOK, SweepFind, JobsTyped
<1> QED
  BY <1>1, RowsKept, RecordingsKept, MuxKept, ConsumersKept, AgreementKept DEF TypeOK, SweepFind

LEMMA TypeSweepFix ==
  ASSUME TypeOK, NEW h \in Highlights, SweepFix(h)
  PROVE  TypeOK'
<1>1. RowsTyped'
  BY DEF TypeOK, SweepFix, RowsTyped, Statuses
<1>2. RecordingsTyped'
  BY RecOfAssumption, EnqueueTyped DEF TypeOK, SweepFix, RecordingsTyped
<1>3. MuxTyped'
  BY RecOfAssumption, EnqueueTyped DEF TypeOK, SweepFix, MuxTyped
<1>4. JobsTyped'
  BY DEF TypeOK, SweepFix, JobsTyped
<1> QED
  BY <1>1, <1>2, <1>3, <1>4, ConsumersKept, AgreementKept DEF TypeOK, SweepFix

LEMMA TypeHealSelect ==
  ASSUME TypeOK, NEW r \in Recordings, HealSelect(r)
  PROVE  TypeOK'
<1>1. JobsTyped'
  BY DEF TypeOK, HealSelect, JobsTyped
<1> QED
  BY <1>1, RowsKept, RecordingsKept, MuxKept, ConsumersKept, AgreementKept DEF TypeOK, HealSelect

LEMMA TypeHealClear ==
  ASSUME TypeOK, NEW r \in Recordings, HealClear(r)
  PROVE  TypeOK'
<1>1. RecordingsTyped'
  BY DEF TypeOK, HealClear, RecordingsTyped
<1>2. JobsTyped'
  BY DEF TypeOK, HealClear, JobsTyped, Rows
<1> QED
  BY <1>1, <1>2, RowsKept, MuxKept, ConsumersKept, AgreementKept DEF TypeOK, HealClear

LEMMA TypeHealDelete ==
  ASSUME TypeOK, NEW r \in Recordings, HealDelete(r)
  PROVE  TypeOK'
<1>1. RowsTyped'
  BY DEF TypeOK, HealDelete, RowsTyped, Statuses
<1>2. MuxTyped'
  <2>1. \A h \in heal[r].rows : h \in Highlights
    BY DEF TypeOK, JobsTyped
  <2>2. \A h \in Highlights : assetId[h] \in Clips \cup {NoClip}
    BY DEF TypeOK, RowsTyped
  <2>3. orphans' \subseteq Clips
    BY <2>1, <2>2 DEF TypeOK, MuxTyped, HealDelete
  <2> QED
    BY <2>3 DEF TypeOK, MuxTyped, HealDelete
<1>3. JobsTyped'
  BY DEF TypeOK, HealDelete, JobsTyped, NoHeal
<1> QED
  BY <1>1, <1>2, <1>3, RecordingsKept, ConsumersKept, AgreementKept
  DEF TypeOK, HealDelete

LEMMA TypeStep == ASSUME TypeOK, [Next]_vars PROVE TypeOK'
<1>1. CASE Next
  <2>1. ASSUME NEW c \in Consumers, Consume(c) PROVE TypeOK'
    BY <2>1, TypeReceive, TypeTryLock, TypeLocked, TypeSelect, TypeFinish,
       TypeBeginCheck, TypeBeginPost, TypePostCreated, TypePostFails,
       TypePostAnswerLost, TypeAuthError, TypeRecord, TypeCheckReady,
       TypeCheckGone, TypeCheckSkips, TypeCheckFails DEF Consume
  <2> QED
    BY <1>1, <2>1, TypeClickRead, TypeClickInsert, TypeClickQueue,
       TypeClickLost, TypeDie, TypeMuxSourceDone, TypeMuxClipDone,
       TypeMuxClipDeleted, TypeClipEvent, TypeSourceReadyBegin,
       TypeSourceReadyCommit, TypeSourceReadyAbort, TypeSourceErrored,
       TypeReadyFromS3, TypeRecordingFails, TypeEnsureClips, TypeSyncSource,
       TypeSyncClip, TypeSweepFind, TypeSweepFix, TypeHealSelect,
       TypeHealClear, TypeHealDelete DEF Next
<1>2. CASE UNCHANGED vars
  BY <1>2, RowsKept, RecordingsKept, MuxKept, ConsumersKept, AgreementKept,
     JobsKept DEF TypeOK
<1> QED
  BY <1>1, <1>2

LEMMA TypeInit == ASSUME Init PROVE TypeOK
  BY BoundsAssumption, BlankTyped
  DEF Init, TypeOK, RowsTyped, RecordingsTyped, MuxTyped, ConsumersTyped,
      ConsumersAgree, JobsTyped, Statuses, NoHook, NoHeal, NoClip

\* Every variable keeps to its type, and a consumer always has the recording,
\* the row and the clip that its point in processRecording calls for.
THEOREM TypeCorrect == Spec => []TypeOK
<1>1. Init => TypeOK
  BY TypeInit
<1>2. TypeOK /\ [Next]_vars => TypeOK'
  BY TypeStep
<1> QED
  BY <1>1, <1>2, PTL DEF Spec

-----------------------------------------------------------------------------
(* The advisory lock.                                                      *)

Outside == {"idle", "received"}

LEMMA ConsumerFrame ==
  ASSUME [Next]_vars
  PROVE  \/ UNCHANGED consumerVars
         \/ \E c \in Consumers : Consume(c) \/ Die(c)
  BY DEF Next, ClickRead, ClickInsert, ClickQueue, ClickLost, SyncClip,
         SweepFind, SweepFix, MuxClipDone, MuxClipDeleted, ClipEvent,
         MuxSourceDone, SourceReadyBegin, SourceReadyCommit,
         SourceReadyAbort, SourceErrored, ReadyFromS3, RecordingFails,
         EnsureClips, SyncSource, HealSelect, HealClear, HealDelete

\* Between the lock and the unlock a job keeps its recording and its lock.
LEMMA InsideFrame ==
  ASSUME ConsumersTyped, NEW c \in Consumers,
         \/ Select(c)
         \/ \E h \in Highlights : BeginCheck(c, h) \/ BeginPost(c, h)
         \/ PostCreated(c) \/ PostFails(c) \/ PostAnswerLost(c) \/ Record(c)
         \/ CheckReady(c) \/ CheckGone(c) \/ CheckSkips(c) \/ CheckFails(c)
  PROVE  /\ UNCHANGED <<lock, crec>>
         /\ pc[c] \notin Outside /\ pc'[c] \notin Outside
         /\ \A d \in Consumers \ {c} : pc'[d] = pc[d]
  BY DEF ConsumersTyped, Outside, Select, BeginCheck, BeginPost, PostCreated,
         PostFails, PostAnswerLost, Record, CheckReady, CheckGone, CheckSkips,
         CheckFails, Checking, NextRow

LEMMA LockStep ==
  ASSUME TypeOK, LockHeld, [Next]_vars
  PROVE  LockHeld'
<1> USE DEF LockHeld
<1>1. CASE UNCHANGED consumerVars
  BY <1>1
<1>2. ASSUME NEW c \in Consumers, Consume(c) \/ Die(c)
      PROVE  LockHeld'
  <2> USE DEF TypeOK, ConsumersTyped
  <2>1. ASSUME NEW r \in Recordings, Receive(c, r) PROVE LockHeld'
    BY <2>1 DEF Receive
  <2>2. CASE TryLock(c)
    BY <2>2, NoneAssumption DEF TryLock, LockFree
  <2>3. CASE Locked(c)
    BY <2>3 DEF Locked, Forget
  <2>4. CASE Finish(c) \/ AuthError(c) \/ Die(c)
    <3>1. lock' = Unlocked(c) /\ Forget(c)
      BY <2>4 DEF Finish, AuthError, Die
    <3>2. \A r \in Recordings : lock'[r] # c
      BY <3>1, NoneAssumption DEF Unlocked
    <3>3. \A r \in Recordings, d \in Consumers \ {c} :
            lock'[r] = d <=> lock[r] = d
      BY <3>1, NoneAssumption DEF Unlocked
    <3>4. /\ pc'[c] = "idle"
          /\ \A d \in Consumers \ {c} : pc'[d] = pc[d] /\ crec'[d] = crec[d]
      BY <3>1 DEF Forget
    <3> QED
      BY <3>2, <3>3, <3>4
  <2>5. CASE \/ Select(c)
             \/ \E h \in Highlights : BeginCheck(c, h) \/ BeginPost(c, h)
             \/ PostCreated(c) \/ PostFails(c) \/ PostAnswerLost(c) \/ Record(c)
             \/ CheckReady(c) \/ CheckGone(c) \/ CheckSkips(c) \/ CheckFails(c)
    BY <2>5, InsideFrame DEF Outside
  <2> QED
    BY <1>2, <2>1, <2>2, <2>3, <2>4, <2>5 DEF Consume
<1> QED
  BY <1>1, <1>2, ConsumerFrame

\* A recording is locked exactly while one consumer is between the lock and the
\* unlock of processRecording: no exception and no death leaves a lock behind.
THEOREM LockAlwaysHeld == Spec => []LockHeld
<1>1. Init => LockHeld
  BY NoneAssumption DEF Init, LockHeld
<1>2. TypeOK /\ LockHeld /\ [Next]_vars => LockHeld'
  BY LockStep
<1> QED
  BY <1>1, <1>2, TypeCorrect, PTL DEF Spec

\* Two consumers are never between the lock and the unlock of one recording.
LEMMA Exclusion ==
  ASSUME TypeOK, LockHeld, NEW c \in Consumers, NEW d \in Consumers,
         pc[c] \notin Outside, pc[d] \notin Outside, crec[c] = crec[d]
  PROVE  c = d
  BY DEF TypeOK, ConsumersAgree, LockHeld, Outside

-----------------------------------------------------------------------------
(* What a consumer remembers.                                              *)

\* A row exists from the INSERT of its click on, and has a clip only then.
RowLife ==
  \A h \in Highlights :
    /\ status[h] = "absent" <=> click[h] \in {"none", "early", "late"}
    /\ ~Exists(h) => assetId[h] = NoClip

\* What consumer c remembers of the rows of its list, and of the row it is at.
Remembers(c) ==
  /\ todo[c] # {} => pc[c] \in {"loop", "check", "post", "record"}
  /\ \A h \in todo[c] :
       /\ RecOf[h] = crec[c]
       /\ status[h] # "absent"
       /\ Exists(h) => /\ lockVersion[h] = snap[c][h].version
                       /\ assetId[h] = snap[c][h].asset
  /\ pc[c] \in {"check", "post", "record"} =>
       /\ cur[c] \notin todo[c]
       /\ RecOf[cur[c]] = crec[c]
       /\ status[cur[c]] # "absent"
  /\ pc[c] \in {"post", "record"} => assetId[cur[c]] = NoClip
  /\ pc[c] = "check" /\ Exists(cur[c]) =>
       assetId[cur[c]] = snap[c][cur[c]].asset

FreshInv == RowLife /\ \A c \in Consumers : Remembers(c)


\* An action outside the consumers changes no version, takes a clip from a row
\* only with the row, and brings no row back.
RowsQuiet ==
  \A h \in Highlights :
    /\ lockVersion'[h] = lockVersion[h]
    /\ \/ assetId'[h] = assetId[h]
       \/ status'[h] = "deleted" /\ assetId'[h] = NoClip
    /\ status[h] # "absent" => status'[h] # "absent"
    /\ status[h] = "deleted" => status'[h] = "deleted"

External ==
  \/ \E h \in Highlights :
       \/ ClickRead(h) \/ ClickInsert(h) \/ ClickQueue(h) \/ ClickLost(h)
       \/ SyncClip(h) \/ SweepFind(h) \/ SweepFix(h)
  \/ \E k \in Clips : MuxClipDone(k) \/ MuxClipDeleted(k) \/ ClipEvent(k)
  \/ \E r \in Recordings :
       \/ MuxSourceDone(r) \/ SourceReadyBegin(r) \/ SourceReadyCommit(r)
       \/ SourceReadyAbort(r) \/ SourceErrored(r) \/ ReadyFromS3(r)
       \/ RecordingFails(r) \/ EnsureClips(r) \/ SyncSource(r)
       \/ HealSelect(r) \/ HealClear(r) \/ HealDelete(r)
  \/ UNCHANGED vars

LEMMA NextSplit ==
  ASSUME [Next]_vars
  PROVE  External \/ \E c \in Consumers : Consume(c) \/ Die(c)
  BY DEF Next, External

LEMMA ExternalRows ==
  ASSUME TypeOK, RowLife, External
  PROVE  UNCHANGED consumerVars /\ RowsQuiet /\ RowLife'
<1> USE DEF TypeOK, RowsTyped, JobsTyped, RowLife, RowsQuiet, Exists
<1>1. ASSUME NEW h \in Highlights,
             \/ ClickRead(h) \/ ClickInsert(h) \/ ClickQueue(h)
             \/ ClickLost(h) \/ SyncClip(h) \/ SweepFind(h) \/ SweepFix(h)
      PROVE  UNCHANGED consumerVars /\ RowsQuiet /\ RowLife'
  BY <1>1 DEF ClickRead, ClickInsert, ClickQueue, ClickLost, SyncClip,
              SweepFind, SweepFix
<1>2. ASSUME NEW k \in Clips,
             MuxClipDone(k) \/ MuxClipDeleted(k) \/ ClipEvent(k)
      PROVE  UNCHANGED consumerVars /\ RowsQuiet /\ RowLife'
  BY <1>2 DEF MuxClipDone, MuxClipDeleted, ClipEvent, Owners, EventStatus
<1>3. ASSUME NEW r \in Recordings,
             \/ MuxSourceDone(r) \/ SourceReadyBegin(r) \/ SourceReadyAbort(r)
             \/ ReadyFromS3(r) \/ RecordingFails(r) \/ HealSelect(r)
             \/ HealClear(r)
      PROVE  UNCHANGED consumerVars /\ RowsQuiet /\ RowLife'
  BY <1>3 DEF MuxSourceDone, SourceReadyBegin, SourceReadyAbort, ReadyFromS3,
              RecordingFails, HealSelect, HealClear
<1>4. ASSUME NEW r \in Recordings,
             \/ SourceReadyCommit(r) \/ SourceErrored(r) \/ EnsureClips(r)
             \/ SyncSource(r)
      PROVE  UNCHANGED consumerVars /\ RowsQuiet /\ RowLife'
  BY <1>4 DEF SourceReadyCommit, SourceErrored, EnsureClips, SyncSource,
              Ensure, Rows
<1>5. ASSUME NEW r \in Recordings, HealDelete(r)
      PROVE  UNCHANGED consumerVars /\ RowsQuiet /\ RowLife'
  BY <1>5 DEF HealDelete
<1>6. CASE UNCHANGED vars
  BY <1>6
<1> QED
  BY <1>1, <1>2, <1>3, <1>4, <1>5, <1>6 DEF External

\* A consumer writes only rows of the recording it has locked.
OtherRows(c) ==
  \A h \in Highlights :
    pc[c] \in Outside \/ crec[c] # RecOf[h] =>
      /\ status'[h] = status[h]
      /\ assetId'[h] = assetId[h]
      /\ lockVersion'[h] = lockVersion[h]

OthersKept(c) ==
  \A d \in Consumers \ {c} :
    /\ pc'[d] = pc[d] /\ crec'[d] = crec[d] /\ todo'[d] = todo[d]
    /\ snap'[d] = snap[d] /\ cur'[d] = cur[d] /\ posted'[d] = posted[d]

LEMMA ConsumerRows ==
  ASSUME TypeOK, RowLife, NEW c \in Consumers, Remembers(c),
         Consume(c) \/ Die(c)
  PROVE  OtherRows(c) /\ OthersKept(c) /\ RowLife'
<1> USE DEF TypeOK, RowsTyped, ConsumersTyped, ConsumersAgree, OtherRows,
            OthersKept, Outside, RowLife, Exists
<1>1. CASE \/ \E r \in Recordings : Receive(c, r)
           \/ TryLock(c) \/ Locked(c) \/ Select(c) \/ Finish(c) \/ Die(c)
           \/ PostCreated(c) \/ CheckSkips(c)
           \/ \E h \in Highlights : BeginCheck(c, h)
  BY <1>1 DEF Receive, TryLock, Locked, Select, Finish, Die, PostCreated,
              CheckSkips, BeginCheck, Forget, NextRow
<1>2. ASSUME NEW h \in Highlights, BeginPost(c, h)
      PROVE  OtherRows(c) /\ OthersKept(c) /\ RowLife'
  BY <1>2 DEF BeginPost, Remembers, VersionMatches
<1>3. CASE \/ PostFails(c) \/ PostAnswerLost(c) \/ AuthError(c)
           \/ CheckReady(c) \/ CheckFails(c)
  <2>1. /\ cur[c] \in Highlights
        /\ pc[c] \in {"check", "post"}
        /\ RecOf[cur[c]] = crec[c]
        /\ status[cur[c]] # "absent"
    BY <1>3 DEF PostFails, PostAnswerLost, AuthError, CheckReady, CheckFails,
                Checking, Remembers
  <2>2. PICK s \in {"ready", "failed", "permanently_failed"} : Mark(cur[c], s)
    BY <1>3 DEF PostFails, PostAnswerLost, AuthError, CheckReady, CheckFails
  <2>3. UNCHANGED <<assetId, click>> /\ (NextRow(c) \/ Forget(c))
                                     /\ (crec' = crec \/ Forget(c))
                                     /\ (todo' = todo \/ Forget(c))
    BY <1>3 DEF PostFails, PostAnswerLost, AuthError, CheckReady, CheckFails
  <2>4. OtherRows(c) /\ RowLife'
    BY <2>1, <2>2, <2>3 DEF Mark
  <2>5. OthersKept(c)
    BY <2>3 DEF NextRow, Forget
  <2> QED
    BY <2>4, <2>5
<1>4. CASE CheckGone(c)
  BY <1>4 DEF CheckGone, Checking, Remembers, Mark, NextRow
<1>5. CASE Record(c)
  BY <1>5 DEF Record, Remembers, NextRow
<1> QED
  BY <1>1, <1>2, <1>3, <1>4, <1>5 DEF Consume

LEMMA OthersRemember ==
  ASSUME TypeOK, LockHeld, NEW c \in Consumers, OtherRows(c), OthersKept(c),
         NEW d \in Consumers \ {c}, Remembers(d)
  PROVE  Remembers(d)'
<1>1. CASE pc[d] \in Outside \cup {"select"}
  BY <1>1 DEF OthersKept, Remembers, Outside
<1>2. CASE pc[d] \notin Outside
  <2>1. \A h \in Highlights : RecOf[h] = crec[d] =>
          /\ status'[h] = status[h]
          /\ assetId'[h] = assetId[h]
          /\ lockVersion'[h] = lockVersion[h]
    BY <1>2, Exclusion DEF OtherRows
  <2>2. todo[d] \subseteq Highlights
    BY DEF TypeOK, ConsumersTyped
  <2>3. pc[d] \in {"check", "post", "record"} => cur[d] \in Highlights
    BY DEF TypeOK, ConsumersAgree
  <2> QED
    BY <2>1, <2>2, <2>3 DEF OthersKept, Remembers, Exists
<1> QED
  BY <1>1, <1>2

LEMMA SelfRemembers ==
  ASSUME TypeOK, RowLife, NEW c \in Consumers, Remembers(c),
         Consume(c) \/ Die(c)
  PROVE  Remembers(c)'
<1> USE DEF TypeOK, RowsTyped, ConsumersTyped, ConsumersAgree, Remembers,
            Outside
<1>1. CASE \/ \E r \in Recordings : Receive(c, r)
           \/ TryLock(c)
  BY <1>1 DEF Receive, TryLock
<1>2. CASE Locked(c) \/ Finish(c) \/ AuthError(c) \/ Die(c)
  BY <1>2 DEF Locked, Finish, AuthError, Die, Forget
<1>3. CASE Select(c)
  BY <1>3 DEF Select, Actionable, Rows, Exists
<1>4. ASSUME NEW h \in Highlights, BeginCheck(c, h) PROVE Remembers(c)'
  BY <1>4 DEF BeginCheck, Exists
<1>5. ASSUME NEW h \in Highlights, BeginPost(c, h) PROVE Remembers(c)'
  BY <1>5 DEF BeginPost, VersionMatches, Exists
<1>6. CASE PostCreated(c)
  BY <1>6 DEF PostCreated, Exists
<1>7. CASE \/ PostFails(c) \/ PostAnswerLost(c) \/ Record(c)
           \/ CheckReady(c) \/ CheckGone(c) \/ CheckSkips(c) \/ CheckFails(c)
  <2>1. /\ cur[c] \in Highlights
        /\ cur[c] \notin todo[c]
        /\ NextRow(c)
        /\ UNCHANGED <<crec, todo>>
    BY <1>7 DEF PostFails, PostAnswerLost, Record, CheckReady, CheckGone,
                CheckSkips, CheckFails, Checking
  <2>2. \A h \in todo[c] : /\ status'[h] = status[h]
                           /\ assetId'[h] = assetId[h]
                           /\ lockVersion'[h] = lockVersion[h]
    BY <1>7, <2>1 DEF PostFails, PostAnswerLost, Record, CheckReady, CheckGone,
                      CheckSkips, CheckFails, Mark
  <2> QED
    BY <2>1, <2>2 DEF NextRow, Exists
<1> QED
  BY <1>1, <1>2, <1>3, <1>4, <1>5, <1>6, <1>7 DEF Consume

LEMMA FreshStep ==
  ASSUME TypeOK, LockHeld, FreshInv, [Next]_vars
  PROVE  FreshInv'
<1>1. CASE External
  <2>1. UNCHANGED consumerVars /\ RowsQuiet /\ RowLife'
    BY <1>1, ExternalRows DEF FreshInv
  <2>2. ASSUME NEW c \in Consumers PROVE Remembers(c)'
    <3>1. todo[c] \subseteq Highlights
      BY DEF TypeOK, ConsumersTyped
    <3>2. pc[c] \in {"check", "post", "record"} => cur[c] \in Highlights
      BY DEF TypeOK, ConsumersAgree
    <3> QED
      BY <2>1, <3>1, <3>2 DEF FreshInv, Remembers, RowsQuiet, Exists
  <2> QED
    BY <2>1, <2>2 DEF FreshInv
<1>2. ASSUME NEW c \in Consumers, Consume(c) \/ Die(c) PROVE FreshInv'
  <2>1. OtherRows(c) /\ OthersKept(c) /\ RowLife'
    BY <1>2, ConsumerRows DEF FreshInv
  <2> QED
    BY <1>2, <2>1, OthersRemember, SelfRemembers DEF FreshInv
<1> QED
  BY <1>1, <1>2, NextSplit

LEMMA FreshInit == ASSUME Init PROVE FreshInv
  BY DEF Init, FreshInv, RowLife, Remembers, Exists

\* The lock, and what a consumer read of its rows: list and current row are of its
\* recording, and clip and version are as read (Remembers, of every row in hand).
THEOREM FreshCorrect == Spec => []FreshInv
<1>1. Init => FreshInv
  BY FreshInit
<1>2. TypeOK /\ LockHeld /\ FreshInv /\ [Next]_vars => FreshInv'
  BY FreshStep
<1> QED
  BY <1>1, <1>2, TypeCorrect, LockAlwaysHeld, PTL DEF Spec

\* The optimistic lock of setStatusProcessing never finds a conflict on a row
\* that still exists, and a consumer never makes a clip for a row that has one:
\* the advisory lock alone keeps what was read of a row true.
THEOREM SnapshotAlwaysFresh == Spec => []SnapshotFresh
<1>1. FreshInv => SnapshotFresh
  BY DEF FreshInv, Remembers, SnapshotFresh
<1> QED
  BY <1>1, FreshCorrect, PTL

-----------------------------------------------------------------------------
(* The clips.                                                              *)

\* Every clip on a row, or in a consumer's hands, was made for that row.
Owned ==
  /\ \A h \in Highlights : assetId[h] # NoClip =>
       madeFor[assetId[h]] = h /\ muxClip[assetId[h]] # "none"
  /\ \A c \in Consumers : pc[c] = "record" =>
       madeFor[posted[c]] = cur[c] /\ muxClip[posted[c]] # "none"

ClipInv == Owned /\ NoStrayClip

\* Nothing is said of clips that are left alone.
LEMMA ClipsKept ==
  ASSUME ClipInv, TypeOK,
         UNCHANGED <<assetId, madeFor, orphans>>,
         \A c \in Consumers :
           \/ posted'[c] = posted[c] /\ cur'[c] = cur[c]
                                     /\ (pc'[c] = "record" <=> pc[c] = "record")
           \/ pc[c] # "record" /\ pc'[c] # "record",
         \A k \in Clips : /\ muxClip[k] = "none" <=> muxClip'[k] = "none"
                          /\ Live(k)' => Live(k)
  PROVE  ClipInv'
<1>1. Owned'
  BY DEF ClipInv, Owned, TypeOK, RowsTyped, ConsumersTyped, ConsumersAgree
<1>2. NoStrayClip'
  BY DEF ClipInv, NoStrayClip, Attached, InFlight
<1> QED
  BY <1>1, <1>2 DEF ClipInv

\* A new clip is in flight or an orphan; the others stay where they were.
LEMMA NewClipAccounted ==
  ASSUME TypeOK, ClipInv, NEW c \in Consumers, NEW k \in Clips,
         pc[c] = "post", NewClip(k, cur[c]), UNCHANGED assetId,
         \A d \in Consumers \ {c} :
           pc'[d] = pc[d] /\ posted'[d] = posted[d] /\ cur'[d] = cur[d],
         \/ /\ UNCHANGED orphans
            /\ pc'[c] = "record" /\ posted'[c] = k /\ cur'[c] = cur[c]
         \/ orphans' = orphans \cup {k} /\ pc'[c] # "record"
  PROVE  ClipInv'
<1> USE DEF TypeOK, RowsTyped, MuxTyped, ConsumersTyped, ConsumersAgree,
            NewClip, NoClip
<1>1. /\ muxClip[k] = "none"
      /\ muxClip'[k] = "preparing" /\ madeFor'[k] = cur[c]
      /\ \A j \in Clips \ {k} :
           muxClip'[j] = muxClip[j] /\ madeFor'[j] = madeFor[j]
  OBVIOUS
<1>2. Owned'
  <2>1. ASSUME NEW h \in Highlights, assetId'[h] # NoClip
        PROVE  madeFor'[assetId'[h]] = h /\ muxClip'[assetId'[h]] # "none"
    BY <1>1, <2>1 DEF ClipInv, Owned
  <2>2. ASSUME NEW d \in Consumers, pc'[d] = "record"
        PROVE  madeFor'[posted'[d]] = cur'[d] /\ muxClip'[posted'[d]] # "none"
    BY SMTT(30), <1>1, <2>2 DEF ClipInv, Owned
  <2> QED
    BY <2>1, <2>2 DEF Owned
<1>3. NoStrayClip'
  <2>1. InFlight(k)' \/ k \in orphans'
    BY <1>1 DEF InFlight
  <2>2. ASSUME NEW j \in Clips \ {k}, Live(j)'
        PROVE  Attached(j)' \/ InFlight(j)' \/ j \in orphans'
    <3>1. Attached(j) \/ InFlight(j) \/ j \in orphans
      BY <1>1, <2>2 DEF ClipInv, NoStrayClip, Live
    <3>2. CASE Attached(j)
      BY <1>1, <2>2, <3>2 DEF Attached
    <3>3. CASE InFlight(j)
      <4>1. PICK d \in Consumers :
              pc[d] = "record" /\ posted[d] = j /\ cur[d] = madeFor[j]
        BY <3>3 DEF InFlight
      <4>2. d # c
        BY <4>1
      <4>3. pc'[d] = "record" /\ posted'[d] = j /\ cur'[d] = madeFor'[j]
        BY <1>1, <2>2, <4>1, <4>2
      <4> QED
        BY <4>3 DEF InFlight
    <3>4. CASE j \in orphans
      BY <3>4
    <3> QED
      BY <3>1, <3>2, <3>3, <3>4
  <2> QED
    BY <2>1, <2>2 DEF NoStrayClip
<1> QED
  BY <1>2, <1>3 DEF ClipInv

LEMMA ConsumerClips ==
  ASSUME TypeOK, FreshInv, ClipInv, NEW c \in Consumers, Consume(c) \/ Die(c)
  PROVE  ClipInv'
<1> USE DEF TypeOK, ConsumersTyped, ConsumersAgree
<1>1. CASE \/ \E r \in Recordings : Receive(c, r)
           \/ TryLock(c) \/ Locked(c) \/ Select(c) \/ Finish(c)
           \/ \E h \in Highlights : BeginCheck(c, h) \/ BeginPost(c, h)
           \/ PostFails(c) \/ AuthError(c)
           \/ CheckReady(c) \/ CheckSkips(c) \/ CheckFails(c)
  BY <1>1, ClipsKept
  DEF Receive, TryLock, Locked, Select, Finish, BeginCheck, BeginPost,
      PostFails, AuthError, CheckReady, CheckSkips, CheckFails, Checking,
      Forget, NextRow, Live
<1>2. CASE PostCreated(c)
  <2>1. PICK k \in Clips : NewClip(k, cur[c])
                           /\ posted' = [posted EXCEPT ![c] = k]
    BY <1>2 DEF PostCreated
  <2> QED
    BY <1>2, <2>1, NewClipAccounted DEF PostCreated
<1>3. CASE PostAnswerLost(c)
  <2>1. PICK k \in Clips : NewClip(k, cur[c]) /\ orphans' = orphans \cup {k}
    BY <1>3 DEF PostAnswerLost
  <2> QED
    BY <1>3, <2>1, NewClipAccounted DEF PostAnswerLost, NextRow
<1>4. CASE Die(c)
  <2>1. CASE /\ orphans' = orphans \cup ({posted[c]} \ {NoClip})
             /\ UNCHANGED <<muxClip, madeFor>>
    <3>1. Owned'
      BY <1>4, <2>1 DEF Die, Forget, ClipInv, Owned
    <3>2. NoStrayClip'
      BY <1>4, <2>1 DEF Die, Forget, ClipInv, NoStrayClip, Live, Attached,
                        InFlight, NoClip, Clips
    <3> QED
      BY <3>1, <3>2 DEF ClipInv
  <2>2. ASSUME pc[c] = "post", NEW k \in Clips, NewClip(k, cur[c]),
               orphans' = orphans \cup {k}
        PROVE  ClipInv'
    BY <1>4, <2>2, NewClipAccounted DEF Die, Forget
  <2> QED
    BY <1>4, <2>1, <2>2 DEF Die
<1>5. CASE Record(c)
  <2>1. /\ cur[c] \in Highlights /\ posted[c] \in Clips
        /\ assetId[cur[c]] = NoClip
        /\ madeFor[posted[c]] = cur[c] /\ muxClip[posted[c]] # "none"
    BY <1>5 DEF Record, FreshInv, Remembers, ClipInv, Owned
  <2>2. /\ pc'[c] # "record"
        /\ \A d \in Consumers \ {c} :
             pc'[d] = pc[d] /\ posted'[d] = posted[d] /\ cur'[d] = cur[d]
        /\ UNCHANGED <<muxClip, madeFor>>
    BY <1>5 DEF Record, NextRow
  <2>3. \/ /\ assetId' = [assetId EXCEPT ![cur[c]] = posted[c]]
           /\ UNCHANGED orphans
        \/ orphans' = orphans \cup {posted[c]} /\ UNCHANGED assetId
    BY <1>5 DEF Record
  <2>4. Owned'
    <3>1. ASSUME NEW h \in Highlights, assetId'[h] # NoClip
          PROVE  madeFor'[assetId'[h]] = h /\ muxClip'[assetId'[h]] # "none"
      <4>1. CASE h = cur[c] /\ assetId'[h] = posted[c]
        BY <4>1, <2>1, <2>2
      <4>2. CASE assetId'[h] = assetId[h]
        BY <4>2, <3>1, <2>2 DEF ClipInv, Owned
      <4> QED
        BY <4>1, <4>2, <2>3 DEF RowsTyped
    <3>2. ASSUME NEW d \in Consumers, pc'[d] = "record"
          PROVE  madeFor'[posted'[d]] = cur'[d] /\ muxClip'[posted'[d]] # "none"
      <4>1. d # c
        BY <3>2, <2>2
      <4> QED
        BY <4>1, <3>2, <2>2 DEF ClipInv, Owned
    <3> QED
      BY <3>1, <3>2 DEF Owned
  <2>5. ASSUME NEW k \in Clips, Live(k)'
        PROVE  Attached(k)' \/ InFlight(k)' \/ k \in orphans'
    <3>1. Attached(k) \/ InFlight(k) \/ k \in orphans
      BY <2>2, <2>5 DEF ClipInv, NoStrayClip, Live
    <3>2. CASE k = posted[c]
      BY <3>2, <2>1, <2>2, <2>3, NoneAssumption DEF Attached, RowsTyped
    <3>3. CASE k # posted[c]
      <4>1. CASE Attached(k)
        <5>1. madeFor[k] # cur[c]
          BY <4>1, <2>1 DEF Attached, Clips, NoClip
        <5>2. madeFor[k] \in Highlights
          BY <4>1 DEF Attached, MuxTyped
        <5>3. assetId'[madeFor[k]] = k
          BY <4>1, <5>1, <5>2, <2>3 DEF Attached, RowsTyped
        <5> QED
          BY <4>1, <5>3, <2>2 DEF Attached
      <4>2. CASE InFlight(k)
        <5>1. PICK d \in Consumers :
                pc[d] = "record" /\ posted[d] = k /\ cur[d] = madeFor[k]
          BY <4>2 DEF InFlight
        <5>2. d # c
          BY <5>1, <3>3
        <5>3. pc'[d] = "record" /\ posted'[d] = k /\ cur'[d] = madeFor'[k]
          BY <5>1, <5>2, <2>2
        <5> QED
          BY <5>3 DEF InFlight
      <4>3. CASE k \in orphans
        BY <4>3, <2>3
      <4> QED
        BY <3>1, <4>1, <4>2, <4>3
    <3> QED
      BY <3>2, <3>3
  <2> QED
    BY <2>4, <2>5 DEF ClipInv, NoStrayClip
<1>6. CASE CheckGone(c)
  <2>1. /\ cur[c] \in Highlights
        /\ assetId[cur[c]] = NoClip \/ muxClip[assetId[cur[c]]] = "gone"
    BY <1>6 DEF CheckGone, Checking, Vanished, FreshInv, RowLife, Remembers
  <2>2. /\ assetId' = [assetId EXCEPT ![cur[c]] = NoClip]
        /\ pc[c] # "record" /\ pc'[c] # "record"
        /\ \A d \in Consumers \ {c} :
             pc'[d] = pc[d] /\ posted'[d] = posted[d] /\ cur'[d] = cur[d]
        /\ UNCHANGED <<muxClip, madeFor, orphans>>
    BY <1>6 DEF CheckGone, Checking, NextRow
  <2>3. Owned'
    BY <2>1, <2>2 DEF ClipInv, Owned, RowsTyped
  <2>4. ASSUME NEW k \in Clips, Live(k)'
        PROVE  Attached(k)' \/ InFlight(k)' \/ k \in orphans'
    <3>1. Attached(k) \/ InFlight(k) \/ k \in orphans
      BY <2>2, <2>4 DEF ClipInv, NoStrayClip, Live
    <3>2. CASE Attached(k)
      <4>1. madeFor[k] # cur[c]
        BY <3>2, <2>1, <2>2, <2>4 DEF Attached, Live, Clips, NoClip
      <4>2. madeFor[k] \in Highlights
        BY <3>2 DEF Attached, MuxTyped
      <4>3. assetId'[madeFor[k]] = k
        BY <3>2, <4>1, <4>2, <2>2 DEF Attached, RowsTyped
      <4> QED
        BY <3>2, <4>3, <2>2 DEF Attached
    <3>3. CASE InFlight(k)
      <4>1. PICK d \in Consumers :
              pc[d] = "record" /\ posted[d] = k /\ cur[d] = madeFor[k]
        BY <3>3 DEF InFlight
      <4>2. d # c
        BY <4>1, <2>2
      <4>3. pc'[d] = "record" /\ posted'[d] = k /\ cur'[d] = madeFor'[k]
        BY <4>1, <4>2, <2>2
      <4> QED
        BY <4>3 DEF InFlight
    <3>4. CASE k \in orphans
      BY <3>4, <2>2
    <3> QED
      BY <3>1, <3>2, <3>3, <3>4
  <2> QED
    BY <2>3, <2>4 DEF ClipInv, NoStrayClip
<1> QED
  BY <1>1, <1>2, <1>3, <1>4, <1>5, <1>6 DEF Consume

LEMMA ExternalClips ==
  ASSUME TypeOK, ClipInv, External
  PROVE  ClipInv'
<1>1. ASSUME NEW h \in Highlights,
             \/ ClickRead(h) \/ ClickInsert(h) \/ ClickQueue(h)
             \/ ClickLost(h) \/ SyncClip(h) \/ SweepFind(h) \/ SweepFix(h)
      PROVE  ClipInv'
  BY <1>1, ClipsKept
  DEF ClickRead, ClickInsert, ClickQueue, ClickLost, SyncClip, SweepFind,
      SweepFix, Live
<1>2. ASSUME NEW k \in Clips,
             MuxClipDone(k) \/ MuxClipDeleted(k) \/ ClipEvent(k)
      PROVE  ClipInv'
  BY <1>2, ClipsKept
  DEF MuxClipDone, MuxClipDeleted, ClipEvent, Live, TypeOK, MuxTyped
<1>3. ASSUME NEW r \in Recordings,
             \/ MuxSourceDone(r) \/ SourceReadyBegin(r) \/ SourceReadyCommit(r)
             \/ SourceReadyAbort(r) \/ SourceErrored(r) \/ ReadyFromS3(r)
             \/ RecordingFails(r) \/ EnsureClips(r) \/ SyncSource(r)
             \/ HealSelect(r) \/ HealClear(r)
      PROVE  ClipInv'
  BY <1>3, ClipsKept
  DEF MuxSourceDone, SourceReadyBegin, SourceReadyCommit, SourceReadyAbort,
      SourceErrored, ReadyFromS3, RecordingFails, EnsureClips, SyncSource,
      HealSelect, HealClear, Live
<1>4. ASSUME NEW r \in Recordings, HealDelete(r) PROVE ClipInv'
  <2>1. /\ UNCHANGED <<pc, posted, cur, muxClip, madeFor>>
        /\ orphans \subseteq orphans'
        /\ \A h \in Highlights :
             \/ assetId'[h] = assetId[h]
             \/ /\ assetId'[h] = NoClip
                /\ assetId[h] # NoClip => assetId[h] \in orphans'
    BY <1>4 DEF HealDelete, TypeOK, RowsTyped, JobsTyped
  <2>2. Owned'
    BY <2>1 DEF ClipInv, Owned, TypeOK, RowsTyped
  <2>3. NoStrayClip'
    BY <2>1 DEF ClipInv, NoStrayClip, Live, Attached, InFlight, TypeOK,
                RowsTyped, MuxTyped, Clips, NoClip
  <2> QED
    BY <2>2, <2>3 DEF ClipInv
<1>5. CASE UNCHANGED vars
  BY <1>5, ClipsKept DEF Live
<1> QED
  BY <1>1, <1>2, <1>3, <1>4, <1>5 DEF External

LEMMA ClipInit == ASSUME Init PROVE ClipInv
  BY DEF Init, ClipInv, Owned, NoStrayClip, Live

\* Where each clip is, and that a highlight for which a clip is under way has none
\* recorded: what NoClipStrays and OneClipForEach rest on.
THEOREM ClipsCorrect == Spec => []ClipInv
<1>1. Init => ClipInv
  BY ClipInit
<1>2. TypeOK /\ FreshInv /\ ClipInv /\ [Next]_vars => ClipInv'
  BY ExternalClips, ConsumerClips, NextSplit
<1> QED
  BY <1>1, <1>2, TypeCorrect, FreshCorrect, PTL DEF Spec

\* Every clip that Mux was made to produce is on its row, about to be recorded
\* there, or one of those that a failure orphaned.
THEOREM NoClipStrays == Spec => []NoStrayClip
  BY ClipsCorrect, PTL DEF ClipInv

\* Mux is never made to produce two clips for one highlight, unless a failure
\* orphaned one of them.
THEOREM OneClipForEach == Spec => []OneClipEach
<1>1. TypeOK /\ LockHeld /\ FreshInv /\ ClipInv => OneClipEach
  <2> SUFFICES ASSUME TypeOK, LockHeld, FreshInv, ClipInv,
                      NEW j \in Clips, NEW k \in Clips, Live(j), Live(k),
                      j \notin orphans, k \notin orphans,
                      madeFor[j] = madeFor[k]
               PROVE  j = k
    BY DEF OneClipEach
  <2>1. (Attached(j) \/ InFlight(j)) /\ (Attached(k) \/ InFlight(k))
    BY DEF ClipInv, NoStrayClip
  <2>2. \A i \in Clips : Attached(i) => ~\E l \in Clips : InFlight(l)
                                          /\ madeFor[l] = madeFor[i]
    BY DEF Attached, InFlight, FreshInv, Remembers, Clips, NoClip
  <2>3. ASSUME InFlight(j), InFlight(k) PROVE j = k
    <3>1. PICK c \in Consumers :
            pc[c] = "record" /\ posted[c] = j /\ cur[c] = madeFor[j]
      BY <2>3 DEF InFlight
    <3>2. PICK d \in Consumers :
            pc[d] = "record" /\ posted[d] = k /\ cur[d] = madeFor[k]
      BY <2>3 DEF InFlight
    <3>3. crec[c] = crec[d]
      BY <3>1, <3>2 DEF FreshInv, Remembers
    <3> QED
      BY <3>1, <3>2, <3>3, Exclusion DEF Outside
  <2> QED
    BY <2>1, <2>2, <2>3 DEF Attached
<1> QED
  BY <1>1, TypeCorrect, LockAlwaysHeld, FreshCorrect, ClipsCorrect, PTL

-----------------------------------------------------------------------------
(* What a row says of its clip.                                            *)

\* A row said to have a clip, and that names none: an S3 clip alone.
Bare(h) == Exists(h) /\ isClipCreated[h] /\ assetId[h] = NoClip

\* Nobody is about to queue h, and no consumer took it for a row without a clip.
LeftAlone(h) ==
  /\ \A r \in Recordings : h \notin hook[r].rows
  /\ ~(sweep.row = h /\ sweep.kind = "requeue")
  /\ \A c \in Consumers : h \in todo[c] => snap[c][h].created

RowTold(h) ==
  /\ click[h] \in {"late", "inserted"} => h \notin S3Highlights
  /\ h \notin S3Highlights /\ status[h] = "ready" =>
       assetId[h] # NoClip /\ muxClip[assetId[h]] \in {"ready", "gone"}
  /\ Bare(h) => /\ h \in S3Highlights
                /\ status[h] \notin {"pending", "queued", "processing"}
                /\ LeftAlone(h)

\* A webhook and a sweep have read only rows that were inserted.
ReadRows ==
  /\ \A r \in Recordings : \A h \in hook[r].rows : status[h] # "absent"
  /\ sweep.row # None => status[sweep.row] # "absent"

ReadyInv == ReadRows /\ \A h \in Highlights : RowTold(h)

LEMMA ReadyExternal ==
  ASSUME TypeOK, FreshInv, ClipInv, ReadyInv, External
  PROVE  ReadyInv'
<1> USE DEF TypeOK, RowsTyped, JobsTyped, MuxTyped, ReadyInv, ReadRows,
            RowTold, Bare, LeftAlone, Exists
<1>1. ASSUME NEW h \in Highlights,
             ClickRead(h) \/ ClickQueue(h) \/ ClickLost(h) \/ SweepFind(h)
      PROVE  ReadyInv'
  BY <1>1, NoneAssumption DEF ClickRead, ClickQueue, ClickLost, SweepFind, Stuck, Unheard
<1>2. ASSUME NEW h \in Highlights, SweepFix(h) PROVE ReadyInv'
  BY <1>2, NoneAssumption DEF SweepFix
<1>3. ASSUME NEW h \in Highlights, SyncClip(h) PROVE ReadyInv'
  BY <1>3 DEF SyncClip
<1>4. ASSUME NEW h \in Highlights, ClickInsert(h) PROVE ReadyInv'
  <2>1. /\ status[h] = "absent" /\ assetId[h] = NoClip
        /\ \A c \in Consumers : h \notin todo[c]
    BY <1>4 DEF ClickInsert, FreshInv, RowLife, Remembers
  <2>2. ReadRows'
    BY <1>4, NoneAssumption DEF ClickInsert
  <2>3. RowTold(h)'
    <3>1. LeftAlone(h)'
      BY <1>4, <2>1, NoneAssumption DEF ClickInsert
    <3>2. /\ status'[h] = IF h \in S3Highlights THEN "ready" ELSE "pending"
          /\ isClipCreated'[h] = (h \in S3Highlights)
          /\ click'[h] = IF click[h] = "late" THEN "inserted" ELSE "done"
      BY <1>4 DEF ClickInsert
    <3> QED
      BY <3>1, <3>2
  <2>4. ASSUME NEW g \in Highlights \ {h} PROVE RowTold(g)'
    BY <1>4, <2>4 DEF ClickInsert
  <2> QED
    BY <2>2, <2>3, <2>4
<1>5. ASSUME NEW k \in Clips,
             MuxClipDone(k) \/ MuxClipDeleted(k)
      PROVE  ReadyInv'
  BY <1>5 DEF MuxClipDone, MuxClipDeleted
<1>6. ASSUME NEW k \in Clips, ClipEvent(k) PROVE ReadyInv'
  BY <1>6 DEF ClipEvent, Owners, EventStatus, NoClip, Clips
<1>7. ASSUME NEW r \in Recordings,
             \/ MuxSourceDone(r) \/ ReadyFromS3(r) \/ RecordingFails(r)
             \/ HealSelect(r) \/ HealClear(r)
      PROVE  ReadyInv'
  BY <1>7 DEF MuxSourceDone, ReadyFromS3, RecordingFails, HealSelect, HealClear
<1>8. ASSUME NEW r \in Recordings, SourceReadyBegin(r) \/ SourceReadyAbort(r)
      PROVE  ReadyInv'
  <2>1. /\ UNCHANGED <<rowVars, click, sweep, todo, snap, muxClip>>
        /\ \A q \in Recordings : \A h \in hook'[q].rows :
             h \in hook[q].rows \/ (Exists(h) /\ ~isClipCreated[h])
    <3>1. CASE SourceReadyBegin(r)
      BY <3>1 DEF SourceReadyBegin, RowsToQueue, Rows
    <3>2. CASE SourceReadyAbort(r)
      BY <3>2 DEF SourceReadyAbort, NoHook
    <3> QED
      BY <1>8, <3>1, <3>2
  <2>2. ReadRows'
    BY <2>1
  <2>3. ASSUME NEW h \in Highlights PROVE RowTold(h)'
    BY <2>1
  <2> QED
    BY <2>2, <2>3
<1>9. ASSUME NEW r \in Recordings, SourceReadyCommit(r)
      PROVE  ReadyInv'
  BY <1>9 DEF SourceReadyCommit, NoHook
<1>10. ASSUME NEW r \in Recordings, SourceErrored(r) PROVE ReadyInv'
  BY <1>10 DEF SourceErrored, Rows
<1>11. ASSUME NEW r \in Recordings, EnsureClips(r) \/ SyncSource(r)
       PROVE  ReadyInv'
  BY <1>11 DEF EnsureClips, SyncSource, Ensure, Rows
<1>12. ASSUME NEW r \in Recordings, HealDelete(r) PROVE ReadyInv'
  BY <1>12 DEF HealDelete
<1>13. CASE UNCHANGED vars
  BY <1>13
<1> QED
  BY <1>1, <1>2, <1>3, <1>4, <1>5, <1>6, <1>7, <1>8, <1>9, <1>10, <1>11, <1>12,
     <1>13 DEF External

\* What a consumer still has to look at, it remembers as before.
ListsKept ==
  \A d \in Consumers : \A h \in todo'[d] :
    h \in todo[d] /\ snap'[d][h] = snap[d][h]

LEMMA ListsKeptByConsumer ==
  ASSUME TypeOK, FreshInv, NEW c \in Consumers,
         \/ Forget(c)
         \/ /\ NextRow(c) /\ UNCHANGED todo
            /\ pc[c] \in {"check", "post", "record"}
  PROVE  ListsKept
<1> USE DEF TypeOK, ConsumersTyped, ConsumersAgree
<1>1. CASE Forget(c)
  BY <1>1 DEF Forget, ListsKept
<1>2. CASE /\ NextRow(c) /\ UNCHANGED todo
           /\ pc[c] \in {"check", "post", "record"}
  <2>1. cur[c] \notin todo[c] /\ cur[c] \in Highlights
    BY <1>2 DEF FreshInv, Remembers
  <2> QED
    BY <1>2, <2>1 DEF NextRow, ListsKept
<1> QED
  BY <1>1, <1>2

\* What Mux has finished stays finished.
FinishedKept ==
  \A k \in Clips :
    muxClip[k] \in {"ready", "gone"} => muxClip'[k] = muxClip[k]

LEMMA ReadyConsumer ==
  ASSUME TypeOK, FreshInv, ClipInv, ReadyInv, NEW c \in Consumers,
         Consume(c) \/ Die(c)
  PROVE  ReadyInv'
<1> USE DEF TypeOK, RowsTyped, ConsumersTyped, ConsumersAgree, JobsTyped,
            MuxTyped, ReadyInv, ReadRows, RowTold, Bare, LeftAlone, Exists
<1>1. CASE \/ \E r \in Recordings : Receive(c, r)
           \/ TryLock(c) \/ Locked(c) \/ Finish(c)
  <2>1. ListsKept
    <3>1. CASE Locked(c) \/ Finish(c)
      BY <3>1, ListsKeptByConsumer DEF Locked, Finish
    <3>2. CASE TryLock(c) \/ \E r \in Recordings : Receive(c, r)
      BY <3>2 DEF Receive, TryLock, ListsKept
    <3> QED
      BY <1>1, <3>1, <3>2
  <2>2. UNCHANGED <<rowVars, muxClip, jobVars>>
    BY <1>1 DEF Receive, TryLock, Locked, Finish
  <2> QED
    BY <2>1, <2>2 DEF ListsKept
<1>2. CASE Select(c)
  BY <1>2 DEF Select, Actionable, Rows
<1>3. ASSUME NEW h \in Highlights, BeginCheck(c, h) PROVE ReadyInv'
  BY <1>3 DEF BeginCheck
<1>4. ASSUME NEW h \in Highlights, BeginPost(c, h) PROVE ReadyInv'
  BY <1>4 DEF BeginPost, VersionMatches
<1>5. CASE PostCreated(c)
  BY <1>5 DEF PostCreated, NewClip
<1>6. CASE PostFails(c) \/ PostAnswerLost(c) \/ AuthError(c) \/ CheckFails(c)
  <2>1. ListsKept
    BY <1>6, ListsKeptByConsumer
    DEF PostFails, PostAnswerLost, AuthError, CheckFails, Checking
  <2>2. /\ \E s \in {"failed", "permanently_failed"} : Mark(cur[c], s)
        /\ UNCHANGED <<assetId, isClipCreated, jobVars>>
        /\ muxClip' = muxClip \/ \E k \in Clips : NewClip(k, cur[c])
    BY <1>6 DEF PostFails, PostAnswerLost, AuthError, CheckFails
  <2>3. cur[c] \in Highlights
    BY <1>6 DEF PostFails, PostAnswerLost, AuthError, CheckFails, Checking
  <2>4. FinishedKept
    BY <2>2 DEF FinishedKept, NewClip
  <2>5. ReadRows'
    BY <2>2, <2>3 DEF Mark
  <2>6. ASSUME NEW h \in Highlights PROVE RowTold(h)'
    BY <2>1, <2>2, <2>3, <2>4 DEF ListsKept, FinishedKept, Mark
  <2> QED
    BY <2>5, <2>6
<1>7. CASE Record(c)
  BY <1>7 DEF Record, NextRow, NoClip, Clips
<1>8. CASE CheckReady(c)
  BY <1>8 DEF CheckReady, Checking, Mark, NextRow, FreshInv, Remembers, NoClip, Clips
<1>9. CASE CheckGone(c)
  BY <1>9 DEF CheckGone, Checking, Mark, NextRow
<1>10. CASE CheckSkips(c)
  <2>1. ListsKept
    BY <1>10, ListsKeptByConsumer DEF CheckSkips, Checking
  <2> QED
    BY <1>10, <2>1 DEF CheckSkips, ListsKept
<1>11. CASE Die(c)
  <2>1. ListsKept
    BY <1>11, ListsKeptByConsumer DEF Die
  <2>2. /\ UNCHANGED <<rowVars, jobVars>>
        /\ muxClip' = muxClip \/ \E k \in Clips : NewClip(k, cur[c])
    BY <1>11 DEF Die
  <2>3. FinishedKept
    BY <2>2 DEF FinishedKept, NewClip
  <2> QED
    BY <2>1, <2>2, <2>3 DEF ListsKept, FinishedKept
<1> QED
  BY <1>1, <1>2, <1>3, <1>4, <1>5, <1>6, <1>7, <1>8, <1>9, <1>10, <1>11
  DEF Consume

LEMMA ReadyInit == ASSUME Init PROVE ReadyInv
  BY DEF Init, ReadyInv, ReadRows, RowTold, Bare, LeftAlone, Exists, NoHook

\* A row that checkExistingClip, the webhook or ensureHighlightClips says is ready
\* holds a clip that Mux has finished, though Mux may have lost it since; and a
\* row that still waits has isClipCreated only beside an asset_id, so that the
\* next run of the processor asks Mux instead of skipping it for ever.
THEOREM RowsToldTrue == Spec => []ReadyIsPlayable
<1>1. Init => ReadyInv
  BY ReadyInit
<1>2. TypeOK /\ FreshInv /\ ClipInv /\ ReadyInv /\ [Next]_vars => ReadyInv'
  BY ReadyExternal, ReadyConsumer, NextSplit
<1>3. ReadyInv => ReadyIsPlayable
  BY DEF ReadyInv, ReadyIsPlayable, RowTold, Bare, Exists
<1> QED
  BY <1>1, <1>2, <1>3, TypeCorrect, FreshCorrect, ClipsCorrect, PTL DEF Spec

-----------------------------------------------------------------------------
(* The pipeline implements the ledger.                                     *)

\* What Mux was never asked for, nobody has lost.
LostMade == \A k \in orphans : muxClip[k] # "none"

\* The row of a consumer is in no other consumer's hands, and what ClipLedger
\* calls in flight is the clip the consumer at that row is about to record.
FlightsTold ==
  /\ \A h \in Highlights :
       \/ FlightOf(h) = NoClip
       \/ \E c \in Consumers : pc[c] = "record" /\ cur[c] = h
                                               /\ FlightOf(h) = posted[c]
  /\ \A c \in Consumers :
       /\ pc[c] = "record" => FlightOf(cur[c]) = posted[c]
       /\ pc[c] = "post" => FlightOf(cur[c]) = NoClip
  /\ \A c, d \in Consumers :
       pc[c] = "record" /\ pc[d] = "record" /\ cur[c] = cur[d] => c = d

\* What ClipLedger calls flight.
Flight == [h \in Highlights |-> FlightOf(h)]

LEMMA FlightsFollow ==
  ASSUME TypeOK, LockHeld, FreshInv
  PROVE  FlightsTold
<1>1. ASSUME NEW c \in Consumers, NEW d \in Consumers,
             pc[c] \in {"post", "record"}, pc[d] = "record", cur[c] = cur[d]
      PROVE  c = d
  <2>1. crec[c] = crec[d]
    BY <1>1 DEF FreshInv, Remembers
  <2> QED
    BY <1>1, <2>1, Exclusion DEF Outside
<1>2. ASSUME NEW h \in Highlights
      PROVE  \/ FlightOf(h) = NoClip
             \/ \E c \in Consumers : pc[c] = "record" /\ cur[c] = h
                                                     /\ FlightOf(h) = posted[c]
  BY DEF FlightOf
<1>3. ASSUME NEW c \in Consumers, pc[c] = "record"
      PROVE  FlightOf(cur[c]) = posted[c]
  <2>1. {d \in Consumers : pc[d] = "record" /\ cur[d] = cur[c]} = {c}
    BY <1>1, <1>3
  <2> QED
    BY <2>1 DEF FlightOf
<1>4. ASSUME NEW c \in Consumers, pc[c] = "post"
      PROVE  FlightOf(cur[c]) = NoClip
  <2>1. {d \in Consumers : pc[d] = "record" /\ cur[d] = cur[c]} = {}
    BY <1>1, <1>4
  <2> QED
    BY <2>1 DEF FlightOf
<1> QED
  BY <1>1, <1>2, <1>3, <1>4 DEF FlightsTold

LEMMA LostStep ==
  ASSUME TypeOK, ClipInv, LostMade, [Next]_vars
  PROVE  LostMade'
<1> USE DEF TypeOK, RowsTyped, MuxTyped, JobsTyped, LostMade
<1>1. \A k \in Clips : muxClip[k] # "none" => muxClip'[k] # "none"
  <2>1. ASSUME NEW c \in Consumers, Consume(c) \/ Die(c)
        PROVE  UNCHANGED muxClip \/ \E k \in Clips : NewClip(k, cur[c])
    <3>1. CASE Die(c) \/ PostCreated(c) \/ PostAnswerLost(c)
      BY <3>1 DEF Die, PostCreated, PostAnswerLost
    <3>2. CASE /\ Consume(c)
               /\ ~PostCreated(c) /\ ~PostAnswerLost(c)
      BY <3>2 DEF Consume, Receive, TryLock, Locked, Select, Finish, BeginCheck,
           BeginPost, PostFails, AuthError, Record, CheckReady, CheckGone,
           CheckSkips, CheckFails
    <3> QED
      BY <2>1, <3>1, <3>2
  <2>2. ASSUME External
        PROVE  \/ UNCHANGED muxClip
               \/ \E k \in Clips : MuxClipDone(k) \/ MuxClipDeleted(k)
    BY <2>2 DEF External, ClickRead, ClickInsert, ClickQueue, ClickLost,
         SyncClip, SweepFind, SweepFix, ClipEvent, MuxSourceDone,
         SourceReadyBegin, SourceReadyCommit, SourceReadyAbort, SourceErrored,
         ReadyFromS3, RecordingFails, EnsureClips, SyncSource, HealSelect,
         HealClear, HealDelete
  <2>3. ASSUME NEW c \in Consumers, NEW k \in Clips, NewClip(k, cur[c])
        PROVE  \A j \in Clips : muxClip[j] # "none" => muxClip'[j] # "none"
    BY <2>3 DEF NewClip
  <2>4. ASSUME NEW k \in Clips, MuxClipDone(k) \/ MuxClipDeleted(k)
        PROVE  \A j \in Clips : muxClip[j] # "none" => muxClip'[j] # "none"
    BY <2>4 DEF MuxClipDone, MuxClipDeleted
  <2> QED
    BY <2>1, <2>2, <2>3, <2>4, NextSplit
<1>2. ASSUME NEW k \in orphans', k \notin orphans PROVE muxClip'[k] # "none"
  <2>1. CASE \E r \in Recordings : HealDelete(r)
    BY <1>2, <2>1 DEF HealDelete, ClipInv, Owned
  <2>2. ASSUME NEW c \in Consumers, PostAnswerLost(c) \/ Die(c) \/ Record(c)
        PROVE  muxClip'[k] # "none"
    <3>1. CASE PostAnswerLost(c)
      BY <1>2, <3>1 DEF PostAnswerLost, NewClip
    <3>2. CASE Record(c)
      BY <1>2, <3>2 DEF Record, ClipInv, Owned
    <3>3. CASE Die(c)
      BY <1>2, <3>3 DEF Die, NewClip, ClipInv, Owned, ConsumersAgree
    <3> QED
      BY <2>2, <3>1, <3>2, <3>3
  <2>3. ASSUME External, \A r \in Recordings : ~HealDelete(r)
        PROVE  FALSE
    BY <1>2, <2>3 DEF External, ClickRead, ClickInsert, ClickQueue, ClickLost,
         SyncClip, SweepFind, SweepFix, MuxClipDone, MuxClipDeleted, ClipEvent,
         MuxSourceDone, SourceReadyBegin, SourceReadyCommit, SourceReadyAbort,
         SourceErrored, ReadyFromS3, RecordingFails, EnsureClips, SyncSource,
         HealSelect, HealClear
  <2>4. ASSUME NEW c \in Consumers, Consume(c),
               ~PostAnswerLost(c), ~Record(c)
        PROVE  FALSE
    BY <1>2, <2>4 DEF Consume, Receive, TryLock, Locked, Select, Finish,
         BeginCheck, BeginPost, PostCreated, PostFails, AuthError, CheckReady,
         CheckGone, CheckSkips, CheckFails
  <2> QED
    BY <2>1, <2>2, <2>3, <2>4, NextSplit
<1> QED
  BY <1>1, <1>2

\* A step that leaves the clips and their consumers alone is no step of the
\* ledger.
LEMMA LedgerStutters ==
  ASSUME TypeOK, FlightsTold, FlightsTold', UNCHANGED <<assetId, orphans>>,
         \A k \in Clips : muxClip[k] = "gone" <=> muxClip'[k] = "gone",
         \A c \in Consumers :
           /\ pc[c] = "record" <=> pc'[c] = "record"
           /\ pc[c] = "record" => cur'[c] = cur[c] /\ posted'[c] = posted[c]
  PROVE  UNCHANGED Ledger!vars
<1>1. \A h \in Highlights : FlightOf(h)' = FlightOf(h)
  BY DEF FlightsTold
<1> QED
  BY <1>1 DEF Ledger!vars

\* A consumer that leaves its row has no clip in flight any more.
LEMMA FlightEnds ==
  ASSUME TypeOK, FlightsTold, FlightsTold', NEW c \in Consumers,
         NextRow(c) \/ Forget(c)
  PROVE  /\ pc[c] = "record" => Flight' = [Flight EXCEPT ![cur[c]] = NoClip]
         /\ pc[c] # "record" => Flight' = Flight
<1> USE DEF TypeOK, ConsumersTyped, ConsumersAgree
<1>1. /\ pc'[c] # "record"
      /\ \A d \in Consumers \ {c} :
           pc'[d] = pc[d] /\ cur'[d] = cur[d] /\ posted'[d] = posted[d]
  BY DEF NextRow, Forget
<1>2. ASSUME NEW h \in Highlights, pc[c] # "record" \/ h # cur[c]
      PROVE  FlightOf(h)' = FlightOf(h)
  <2>1. CASE \E d \in Consumers : pc[d] = "record" /\ cur[d] = h
    <3>1. PICK d \in Consumers \ {c} : pc[d] = "record" /\ cur[d] = h
      BY <1>2, <2>1
    <3>2. pc'[d] = "record" /\ cur'[d] = h /\ posted'[d] = posted[d]
      BY <1>1, <3>1
    <3>3. FlightOf(h) = posted[d] /\ FlightOf(h)' = posted'[d]
      BY <3>1, <3>2 DEF FlightsTold
    <3> QED
      BY <3>2, <3>3
  <2>2. CASE ~\E d \in Consumers : pc[d] = "record" /\ cur[d] = h
    <3>1. ~\E d \in Consumers : pc'[d] = "record" /\ cur'[d] = h
      BY <1>1, <2>2
    <3> QED
      BY <2>2, <3>1 DEF FlightsTold
  <2> QED
    BY <2>1, <2>2
<1>3. ASSUME pc[c] = "record", NEW h \in Highlights, h = cur[c]
      PROVE  FlightOf(h)' = NoClip
  <2>1. ~\E d \in Consumers : pc'[d] = "record" /\ cur'[d] = h
    BY <1>1, <1>3 DEF FlightsTold
  <2> QED
    BY <1>3, <2>1 DEF FlightsTold
<1> QED
  BY <1>2, <1>3 DEF Flight

\* A clip that Mux was not asked for yet is new to the ledger.
LEMMA NoneIsFresh ==
  ASSUME TypeOK, ClipInv, LostMade, FlightsTold,
         NEW k \in Clips, muxClip[k] = "none"
  PROVE  Ledger!Fresh(k)
  BY DEF Ledger!Fresh, ClipInv, Owned, LostMade, FlightsTold, NoClip, Clips

LEMMA LedgerConsumer ==
  ASSUME TypeOK, FreshInv, ClipInv, LostMade, FlightsTold, FlightsTold',
         NEW c \in Consumers, Consume(c) \/ Die(c)
  PROVE  [Ledger!Next]_(Ledger!vars)
<1> USE DEF TypeOK, ConsumersTyped, ConsumersAgree
<1>1. CASE \/ \E r \in Recordings : Receive(c, r)
           \/ TryLock(c) \/ Locked(c) \/ Select(c) \/ Finish(c)
           \/ \E h \in Highlights : BeginCheck(c, h) \/ BeginPost(c, h)
           \/ PostFails(c) \/ AuthError(c)
           \/ CheckReady(c) \/ CheckSkips(c) \/ CheckFails(c)
  BY <1>1, LedgerStutters
  DEF Receive, TryLock, Locked, Select, Finish, BeginCheck, BeginPost,
      PostFails, AuthError, CheckReady, CheckSkips, CheckFails, Checking,
      Forget, NextRow
<1>2. CASE PostCreated(c)
  <2>1. PICK k \in Clips :
          NewClip(k, cur[c]) /\ posted' = [posted EXCEPT ![c] = k]
    BY <1>2 DEF PostCreated
  <2>2. Ledger!Free(cur[c])
    BY <1>2 DEF PostCreated, Ledger!Free, FlightsTold, FreshInv, Remembers
  <2>3. Ledger!Fresh(k)
    BY <2>1, NoneIsFresh DEF NewClip
  <2>4. FlightOf(cur[c])' = k
    BY <1>2, <2>1 DEF PostCreated, FlightsTold
  <2>5. \A h \in Highlights \ {cur[c]} : FlightOf(h)' = FlightOf(h)
    BY <1>2, <2>1 DEF PostCreated, FlightsTold
  <2>6. Flight' = [Flight EXCEPT ![cur[c]] = k]
    BY <1>2, <2>4, <2>5 DEF PostCreated, Flight
  <2>7. {j \in Clips : muxClip'[j] = "gone"} = {j \in Clips : muxClip[j] = "gone"}
    BY <2>1 DEF NewClip, MuxTyped
  <2>8. Ledger!Make(cur[c])
    BY <1>2, <2>2, <2>3, <2>6, <2>7 DEF PostCreated, Ledger!Make, Flight
  <2> QED
    BY <1>2, <2>8 DEF PostCreated, Ledger!Next
<1>3. ASSUME pc[c] = "post", NEW k \in Clips, NewClip(k, cur[c]),
             orphans' = orphans \cup {k}, UNCHANGED assetId,
             NextRow(c) \/ Forget(c)
      PROVE  [Ledger!Next]_(Ledger!vars)
  <2>1. Ledger!Free(cur[c])
    BY <1>3 DEF Ledger!Free, FlightsTold, FreshInv, Remembers
  <2>2. Ledger!Fresh(k)
    BY <1>3, NoneIsFresh DEF NewClip
  <2>3. Flight' = Flight
    BY <1>3, FlightEnds
  <2>4. {j \in Clips : muxClip'[j] = "gone"} = {j \in Clips : muxClip[j] = "gone"}
    BY <1>3 DEF NewClip, MuxTyped
  <2>5. Ledger!MakeInVain(cur[c])
    BY <1>3, <2>1, <2>2, <2>3, <2>4 DEF Ledger!MakeInVain, Flight
  <2> QED
    BY <1>3, <2>5 DEF Ledger!Next
<1>4. ASSUME pc[c] = "record", NextRow(c) \/ Forget(c),
             UNCHANGED <<assetId, muxClip>>,
             orphans' = orphans \cup {posted[c]}
      PROVE  [Ledger!Next]_(Ledger!vars)
  <2>1. FlightOf(cur[c]) = posted[c] /\ posted[c] # NoClip
    BY <1>4 DEF FlightsTold
  <2>2. Flight' = [Flight EXCEPT ![cur[c]] = NoClip]
    BY <1>4, FlightEnds
  <2>3. Ledger!Lose(cur[c])
    BY <1>4, <2>1, <2>2 DEF Ledger!Lose, Flight
  <2> QED
    BY <1>4, <2>3 DEF Ledger!Next
<1>5. CASE Record(c) /\ Exists(cur[c])
  <2>1. FlightOf(cur[c]) = posted[c] /\ posted[c] # NoClip
    BY <1>5 DEF Record, FlightsTold
  <2>2. Flight' = [Flight EXCEPT ![cur[c]] = NoClip]
    BY <1>5, FlightEnds DEF Record
  <2>3. /\ assetId[cur[c]] = NoClip
        /\ assetId' = [assetId EXCEPT ![cur[c]] = posted[c]]
    BY <1>5 DEF Record, FreshInv, Remembers
  <2>4. Ledger!Hold(cur[c])
    BY <1>5, <2>1, <2>2, <2>3 DEF Record, Ledger!Hold, Flight
  <2> QED
    BY <1>5, <2>4 DEF Record, Ledger!Next
<1>6. CASE CheckGone(c)
  <2>1. \A h \in Highlights : FlightOf(h)' = FlightOf(h)
    BY <1>6 DEF CheckGone, Checking, FlightsTold, NextRow
  <2>2. CASE assetId[cur[c]] = NoClip
    BY <1>6, <2>1, <2>2 DEF CheckGone, Checking, Ledger!vars, RowsTyped
  <2>3. CASE assetId[cur[c]] # NoClip
    <3>1. Ledger!LetGo(cur[c])
      BY <1>6, <2>1, <2>3
      DEF CheckGone, Checking, Vanished, Ledger!LetGo, FreshInv, RowLife,
          Remembers
    <3> QED
      BY <1>6, <3>1 DEF CheckGone, Checking, Ledger!Next
  <2> QED
    BY <2>2, <2>3
<1>7. CASE PostAnswerLost(c)
  BY <1>3, <1>7 DEF PostAnswerLost
<1>8. CASE Record(c) /\ ~Exists(cur[c])
  BY <1>4, <1>8 DEF Record
<1>9. CASE Die(c)
  <2>1. CASE pc[c] = "record"
    BY <1>4, <1>9, <2>1 DEF Die
  <2>2. CASE pc[c] # "record" /\ UNCHANGED orphans /\ UNCHANGED muxClip
    BY <1>9, <2>2, LedgerStutters DEF Die, Forget
  <2>3. CASE pc[c] = "post" /\ \E k \in Clips :
               NewClip(k, cur[c]) /\ orphans' = orphans \cup {k}
    BY <1>3, <1>9, <2>3 DEF Die
  <2> QED
    BY <1>9, <2>1, <2>2, <2>3 DEF Die
<1> QED
  BY <1>1, <1>2, <1>5, <1>6, <1>7, <1>8, <1>9 DEF Consume

LEMMA LedgerExternal ==
  ASSUME TypeOK, FlightsTold, FlightsTold', External
  PROVE  [Ledger!Next]_(Ledger!vars)
<1>1. ASSUME NEW k \in Clips, MuxClipDeleted(k)
      PROVE  [Ledger!Next]_(Ledger!vars)
  <2>1. \A h \in Highlights : FlightOf(h)' = FlightOf(h)
    BY <1>1 DEF MuxClipDeleted, FlightsTold
  <2>2. {j \in Clips : muxClip'[j] = "gone"}
          = {j \in Clips : muxClip[j] = "gone"} \cup {k}
    BY <1>1 DEF MuxClipDeleted, TypeOK, MuxTyped
  <2>3. Ledger!Vanish(k)
    BY <1>1, <2>1, <2>2 DEF MuxClipDeleted, Ledger!Vanish
  <2> QED
    BY <2>3 DEF Ledger!Next
<1>2. ASSUME NEW r \in Recordings, HealDelete(r)
      PROVE  [Ledger!Next]_(Ledger!vars)
  <2> DEFINE rows == {h \in heal[r].rows : Exists(h)}
  <2>1. \A h \in Highlights : FlightOf(h)' = FlightOf(h)
    BY <1>2 DEF HealDelete, FlightsTold
  <2>2. rows \in SUBSET Highlights
    BY DEF TypeOK, JobsTyped
  <2>3. /\ assetId' = [h \in Highlights |->
              IF h \in rows THEN NoClip ELSE assetId[h]]
        /\ orphans' = orphans \cup ({assetId[h] : h \in rows} \ {NoClip})
        /\ UNCHANGED muxClip
    BY <1>2 DEF HealDelete
  <2>4. Ledger!Delete(rows)
    BY <2>1, <2>2, <2>3 DEF Ledger!Delete
  <2> QED
    BY <2>2, <2>4 DEF Ledger!Next
<1>3. CASE \/ \E h \in Highlights :
                \/ ClickRead(h) \/ ClickInsert(h) \/ ClickQueue(h)
                \/ ClickLost(h) \/ SyncClip(h) \/ SweepFind(h) \/ SweepFix(h)
           \/ \E k \in Clips : MuxClipDone(k) \/ ClipEvent(k)
           \/ \E r \in Recordings :
                \/ MuxSourceDone(r) \/ SourceReadyBegin(r)
                \/ SourceReadyCommit(r) \/ SourceReadyAbort(r)
                \/ SourceErrored(r) \/ ReadyFromS3(r) \/ RecordingFails(r)
                \/ EnsureClips(r) \/ SyncSource(r) \/ HealSelect(r)
                \/ HealClear(r)
           \/ UNCHANGED vars
  BY <1>3, LedgerStutters
  DEF ClickRead, ClickInsert, ClickQueue, ClickLost, SyncClip, SweepFind,
      SweepFix, MuxClipDone, ClipEvent, MuxSourceDone, SourceReadyBegin,
      SourceReadyCommit, SourceReadyAbort, SourceErrored, ReadyFromS3,
      RecordingFails, EnsureClips, SyncSource, HealSelect, HealClear,
      TypeOK, MuxTyped
<1> QED
  BY <1>1, <1>2, <1>3 DEF External

\* Whatever sweeps, heals, webhooks and deaths of consumers come between, the
\* processor has Mux make a clip only for a highlight that has none and for which
\* no other is under way, records it on that highlight or loses it with the
\* answer, and lets go of it only when Mux has it no more or the row is deleted.
THEOREM LedgerImplemented == Spec => ClipLedgerSpec
<1>1. Init => LostMade
  BY DEF Init, LostMade
<1>2. TypeOK /\ ClipInv /\ LostMade /\ [Next]_vars => LostMade'
  BY LostStep
<1>3. TypeOK /\ LockHeld /\ FreshInv => FlightsTold
  BY FlightsFollow
<1>4. Init => Ledger!Init
  BY DEF Init, Ledger!Init, FlightOf
<1>5. /\ TypeOK /\ FreshInv /\ ClipInv /\ LostMade /\ FlightsTold
      /\ FlightsTold' /\ [Next]_vars
      => [Ledger!Next]_(Ledger!vars)
  BY NextSplit, LedgerConsumer, LedgerExternal
<1> QED
  BY <1>1, <1>2, <1>3, <1>4, <1>5, TypeCorrect, LockAlwaysHeld, FreshCorrect,
     ClipsCorrect, PTL DEF Spec, ClipLedgerSpec, Ledger!Spec
=============================================================================
