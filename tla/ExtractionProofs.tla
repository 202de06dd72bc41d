-------------------------- MODULE ExtractionProofs --------------------------
(***************************************************************************)
(* Extraction, proved for every number of assets, jobs and calls: its      *)
(* types, that a recording that can be watched when all is quiet stays so, *)
(* and that mux_retries counts the uploads from S3.                        *)
(***************************************************************************)
EXTENDS Extraction, FiniteSetTheorems, TLAPS

USE DEF vars, outside, history

-----------------------------------------------------------------------------
(* Calls.  Whatever a call becomes, the metadata it will write is what it  *)
(* had in hand already, or what the row says.                              *)

\* What a call that goes on, or begins, may become.
Fits(c, new) ==
  /\ new \in Call
  /\ new.pc \in {"save", "lambda"} =>
       new.asset \in Assets /\ asset'[new.asset] # "none"
  /\ new.pc \in WithMeta =>
       \/ new.meta = row.meta
       \/ HoldsMeta(c) /\ new.meta = call[c].meta

\* The call c becomes one of the given steps.
Turns(c, pcs) == \E new \in Call : Go(c, new) /\ Fits(c, new) /\ new.pc \in pcs

CallsTyped ==
  /\ call \in [Calls -> Call]
  /\ \A c \in Calls : call[c].pc \in {"save", "lambda"} =>
                        call[c].asset \in Assets /\ asset[call[c].asset] # "none"

MuxTyped ==
  /\ upload \in [Jobs -> {"none", "waiting", "timed_out"} \cup Assets]
  /\ asset \in [Assets -> {"none", "preparing", "broken", "ready", "errored"}]
  /\ events \subseteq {a \in Assets : asset[a] \in {"ready", "errored"}}

Typed ==
  /\ row \in Row
  /\ old \in BOOLEAN /\ stored \in BOOLEAN /\ trigger \in BOOLEAN
  /\ pi \in [Jobs -> {"new", "running", "s3", "mux", "failed", "off"}]
  /\ MuxTyped
  /\ CallsTyped
  /\ crashes \in 0 .. MaxCrashes /\ posts \in 0 .. MaxPosts
  /\ meddled \in BOOLEAN /\ settled \in BOOLEAN

\* An asset that has been made is not unmade.
AssetsStay == \A a \in Assets : asset[a] # "none" => asset'[a] # "none"

LEMMA Constants ==
  /\ Idle \in Call /\ NoMeta \in Meta /\ NewRow \in Row
  /\ Idle.pc = "idle" /\ Idle.meta = NoMeta /\ Idle.asset = None
  BY DEF Idle, Call, NoMeta, Meta, NewRow, Row

LEMMA ReturnTurns ==
  ASSUME NEW c, Return(c)
  PROVE  Turns(c, {"idle"})
  BY Constants DEF Return, Turns, Fits, WithMeta

LEMMA RetryTurns ==
  ASSUME NEW c, Retry(c)
  PROVE  Turns(c, {"retry"})
<1> DEFINE new == [Idle EXCEPT !.pc = "retry"]
<1>1. new \in Call /\ new.pc = "retry"
  BY DEF Idle, Call, NoMeta, Meta
<1>2. Go(c, new)
  BY DEF Retry
<1> HIDE DEF new
<1> QED
  BY <1>1, <1>2 DEF Turns, Fits, WithMeta

LEMMA UploadTurns ==
  ASSUME Typed, NEW c \in Calls, HoldsMeta(c), Upload(c)
  PROVE  Turns(c, {"post"})
<1>1. PICK m \in Meta : m = call[c].meta
  BY DEF Typed, CallsTyped, Call
<1> DEFINE new == [Idle EXCEPT !.pc = "post", !.meta = m]
<1>2. new \in Call /\ new.pc = "post" /\ new.meta = m
  BY Constants DEF Idle, Call, WithMeta
<1>3. Go(c, new)
  BY <1>1 DEF Upload
<1> HIDE DEF new
<1> QED
  BY <1>1, <1>2, <1>3 DEF Turns, Fits

LEMMA BeginTurns ==
  ASSUME Typed, NEW c \in Calls, NEW pc \in WithMeta \ {"save", "count"},
         NEW read \in {row, WithoutAsset(row)}, Begin(c, pc, read)
  PROVE  Turns(c, {pc})
<1>1. PICK m \in Meta, a \in Assets \cup {None} : m = read.meta /\ a = read.asset
  BY DEF Typed, Row, WithoutAsset
<1>2. m = row.meta
  BY <1>1 DEF Typed, Row, WithoutAsset
<1> DEFINE new == [Idle EXCEPT !.pc = pc, !.meta = m, !.asset = a]
<1>3. new \in Call /\ new.pc = pc /\ new.meta = m
  BY Constants DEF Idle, Call
<1>4. Go(c, new)
  BY <1>1 DEF Begin
<1> HIDE DEF new
<1>5. Fits(c, new)
  BY <1>2, <1>3 DEF Fits, WithMeta
<1> QED
  BY <1>3, <1>4, <1>5 DEF Turns

LEMMA ReaderTurns ==
  ASSUME Typed, NEW c \in Calls, NEW pc \in {"heal", "sync"},
         NEW differs \in BOOLEAN, BeginReader(c, pc, differs)
  PROVE  Turns(c, {pc})
<1>1. PICK a \in Assets \cup {None} : a = row.asset
  BY DEF Typed, Row
<1> DEFINE new == [Idle EXCEPT !.pc = pc, !.asset = a, !.differs = differs]
<1>2. new \in Call /\ new.pc = pc
  BY Constants DEF Idle, Call
<1>3. Go(c, new)
  BY <1>1 DEF BeginReader
<1> HIDE DEF new
<1>4. Fits(c, new)
  BY <1>2 DEF Fits, WithMeta
<1> QED
  BY <1>2, <1>3, <1>4 DEF Turns

\* A call that turned keeps the calls typed, and moves no other.
LEMMA TurnsTyped ==
  ASSUME Typed, NEW c \in Calls, NEW pcs, Turns(c, pcs), AssetsStay
  PROVE  /\ CallsTyped'
         /\ call'[c].pc \in pcs
         /\ call'[c].pc \in WithMeta =>
              \/ call'[c].meta = row.meta
              \/ HoldsMeta(c) /\ call'[c].meta = call[c].meta
         /\ \A d \in Calls \ {c} : call'[d] = call[d]
<1>1. PICK new \in Call : Go(c, new) /\ Fits(c, new) /\ new.pc \in pcs
  BY DEF Turns
<1>2. call' = [call EXCEPT ![c] = new]
  BY <1>1 DEF Go
<1>3. call'[c] = new /\ \A d \in Calls \ {c} : call'[d] = call[d]
  BY <1>2 DEF Typed, CallsTyped
<1>4. CallsTyped'
  BY <1>1, <1>2, <1>3 DEF Typed, CallsTyped, Fits, AssetsStay
<1> QED
  BY <1>1, <1>3, <1>4 DEF Fits

-----------------------------------------------------------------------------
(* What the handlers do.                                                   *)

\* The row is written, or not, without its metadata.
RowKept == row' \in Row /\ row'.meta = row.meta /\ old' \in BOOLEAN

\* Handlers that go on, and neither upload nor write metadata.
Handling(c) ==
  \/ RetryRead(c) \/ Poll(c) \/ PollUpload(c) \/ PollFails(c) \/ PostBound(c)
  \/ LambdaSave(c) \/ StaleAsset(c) \/ Heal(c) \/ StatusSync(c)

\* Calls that begin.
Beginning(c) ==
  \/ \E j \in Jobs : CallbackStored(c, j) \/ CallbackFailed(c, j)
  \/ LambdaPost(c) \/ StaleSweep(c) \/ StuckSweep(c) \/ IngestionCycle(c)
  \/ RetryExtractions(c) \/ RetryExtraction(c) \/ Read(c) \/ StatusPoll(c)

\* Handlers that write metadata they have read.
MetaWriting(c) ==
  \/ CountRetry(c) \/ FailureHandled(c) \/ StaleRecover(c) \/ StaleFail(c)
  \/ Dispatch(c)

\* The steps after which an upload is not counted yet.
Uncounting == {"save", "count"}
Others == {"idle", "retry", "heal", "sync", "lambda"} \cup
          (WithMeta \ Uncounting)

LEMMA TurnsWider ==
  ASSUME NEW c, NEW pcs, NEW more, pcs \subseteq more, Turns(c, pcs)
  PROVE  Turns(c, more)
  BY DEF Turns

\* What the handlers write of a row: a status, a key, an asset.
LEMMA RowForms ==
  ASSUME NEW r \in Row, NEW a \in Assets \cup {None},
         NEW st \in {"extracting", "uploaded", "processing", "completed",
                     "ready", "failed"}
  PROVE  \A new \in {AsReady(r, a), [AsReady(r, a) EXCEPT !.asset = a],
                     [r EXCEPT !.status = st], [r EXCEPT !.play = None],
                     [r EXCEPT !.s3 = TRUE, !.status = st],
                     [r EXCEPT !.status = st, !.s3 = TRUE],
                     [r EXCEPT !.asset = a, !.status = st],
                     [r EXCEPT !.status = st, !.asset = a, !.play = a],
                     [r EXCEPT !.status = st, !.asset = a, !.play = a,
                               !.s3 = TRUE]} :
           new \in Row /\ new.meta = r.meta
<1>1. ASSUME NEW new \in {AsReady(r, a), [AsReady(r, a) EXCEPT !.asset = a],
                        [r EXCEPT !.status = st], [r EXCEPT !.play = None]}
      PROVE  new \in Row /\ new.meta = r.meta
  BY ZenonT(60) DEF AsReady, Row
<1>2. ASSUME NEW new \in {[r EXCEPT !.s3 = TRUE, !.status = st],
                        [r EXCEPT !.status = st, !.s3 = TRUE],
                        [r EXCEPT !.asset = a, !.status = st]}
      PROVE  new \in Row /\ new.meta = r.meta
  BY DEF Row
<1>3. ASSUME NEW new \in {[r EXCEPT !.status = st, !.asset = a, !.play = a],
                        [r EXCEPT !.status = st, !.asset = a, !.play = a,
                                  !.s3 = TRUE]}
      PROVE  new \in Row /\ new.meta = r.meta
  BY ZenonT(60) DEF Row
<1> QED
  BY <1>1, <1>2, <1>3

LEMMA Written ==
  ASSUME Typed, NEW new \in Row, new.meta = row.meta, Write(new)
  PROVE  RowKept
  BY DEF Write, RowKept

LEMMA Unwritten ==
  ASSUME Typed, UNCHANGED <<row, old>>
  PROVE  RowKept
  BY DEF RowKept, Typed

LEMMA RetryReadTurns ==
  ASSUME Typed, NEW c \in Calls, RetryRead(c)
  PROVE  Turns(c, Others) /\ RowKept
<1>1. CASE Playable(row) \/ Exhausted(row)
  <2>1. /\ Return(c)
        /\ UNCHANGED <<row, old>> \/ Write([row EXCEPT !.status = "failed"])
    BY <1>1 DEF RetryRead
  <2>2. row \in Row
    BY DEF Typed
  <2>3. RowKept
    BY <2>1, <2>2, RowForms, Written, Unwritten
  <2> QED
    BY <2>1, <2>3, ReturnTurns, TurnsWider DEF Others
<1>2. CASE ~(Playable(row) \/ Exhausted(row))
  <2>1. PICK m \in Meta, a \in Assets \cup {None},
             pc \in {"poll", "pollUpload", "post"} :
          /\ m = row.meta /\ a = row.asset
          /\ pc = IF row.asset # None THEN "poll"
                  ELSE IF row.meta.upload # None THEN "pollUpload"
                  ELSE "post"
    BY DEF Typed, Row
  <2> DEFINE new == [Idle EXCEPT !.meta = m, !.asset = a, !.pc = pc]
  <2>2. Go(c, new)
    BY <1>2, <2>1 DEF RetryRead
  <2>3. new \in Call /\ new.pc = pc /\ new.meta = m
    BY Constants DEF Idle, Call, WithMeta
  <2> HIDE DEF new
  <2>4. Fits(c, new)
    BY <2>1, <2>3 DEF Fits
  <2>5. RowKept
    BY <1>2 DEF RetryRead, RowKept, Typed
  <2> QED
    BY <2>2, <2>3, <2>4, <2>5 DEF Turns, Others, WithMeta, Uncounting
<1> QED
  BY <1>1, <1>2

LEMMA HandlingTurns ==
  ASSUME Typed, NEW c \in Calls, Handling(c)
  PROVE  /\ Turns(c, Others) /\ RowKept
         /\ call[c].pc \notin Uncounting /\ call[c].pc # "idle"
         /\ UNCHANGED <<outside, history>>
<1>1. CASE RetryRead(c)
  BY <1>1, RetryReadTurns DEF RetryRead, Uncounting
<1>2. CASE \/ Poll(c) \/ PostBound(c) \/ LambdaSave(c) \/ StaleAsset(c)
           \/ Heal(c) \/ StatusSync(c)
  <2>1. Return(c)
    BY <1>2 DEF Poll, PostBound, LambdaSave, StaleAsset, Heal, StatusSync
  <2>2. call[c].asset \in Assets \cup {None}
    BY DEF Typed, CallsTyped, Call
  <2>3. row \in Row
    BY DEF Typed
  <2>4. \/ UNCHANGED <<row, old>>
        \/ Write(AsReady(row, call[c].asset))
        \/ Write([row EXCEPT !.play = None])
        \/ Write([row EXCEPT !.status = "completed", !.asset = call[c].asset,
                             !.play = call[c].asset, !.s3 = TRUE])
    BY <1>2 DEF Poll, PostBound, LambdaSave, StaleAsset, Heal, StatusSync
  <2>5. RowKept
    BY ZenonT(60), <2>2, <2>3, <2>4, RowForms, Written, Unwritten
  <2>6. Turns(c, Others)
    BY <2>1, ReturnTurns, TurnsWider DEF Others
  <2> QED
    BY <1>2, <2>5, <2>6 DEF Poll, PostBound, LambdaSave, StaleAsset, Heal,
       StatusSync, Uncounting
<1>3. CASE PollUpload(c)
  <2>1. PICK up : up = upload[call[c].meta.upload]
    OBVIOUS
  <2>6. row \in Row
    BY DEF Typed
  <2>7. \/ UNCHANGED <<row, old>>
        \/ up \in Assets /\ Write([row EXCEPT !.asset = up, !.status = "processing"])
    BY <1>3, <2>1 DEF PollUpload, UploadIsAsset
  <2>2. HoldsMeta(c)
    BY <1>3 DEF PollUpload, HoldsMeta, WithMeta
  <2>3. Turns(c, {"retry", "idle", "post"})
    BY <1>3, <2>2, ReturnTurns, RetryTurns, UploadTurns, TurnsWider
       DEF PollUpload
  <2>4. RowKept
    BY ZenonT(60), <2>6, <2>7, RowForms, Written, Unwritten
  <2>5. Turns(c, Others)
    BY <2>3, TurnsWider DEF Others, WithMeta, Uncounting
  <2> QED
    BY <1>3, <2>4, <2>5 DEF PollUpload, Uncounting
<1>4. CASE PollFails(c)
  <2>1. Turns(c, {"post"})
    BY <1>4, UploadTurns DEF PollFails, HoldsMeta, WithMeta
  <2>2. Turns(c, Others)
    BY <2>1, TurnsWider DEF Others, WithMeta, Uncounting
  <2> QED
    BY <1>4, <2>2 DEF PollFails, Uncounting, RowKept, Typed
<1> QED
  BY <1>1, <1>2, <1>3, <1>4 DEF Handling

Begun(c) ==
  /\ Turns(c, Others) /\ RowKept
  /\ call[c].pc = "idle"
  /\ AssetsStay /\ MuxTyped'
  /\ trigger' \in BOOLEAN /\ UNCHANGED <<stored, history>>
  /\ pi' \in [Jobs -> {"new", "running", "s3", "mux", "failed", "off"}]

LEMMA BeginningTurns ==
  ASSUME Typed, NEW c \in Calls, Beginning(c)
  PROVE  Begun(c)
<1>1. row \in Row
  BY DEF Typed
<1>2. CASE \E j \in Jobs : CallbackStored(c, j)
  <2>1. PICK j \in Jobs : CallbackStored(c, j)
    BY <1>2
  <2>2. RowKept
    BY <1>1, <2>1, RowForms, Written DEF CallbackStored
  <2>3. Turns(c, Others)
    BY <2>1, RetryTurns, TurnsWider DEF CallbackStored, BeginRetry, Others
  <2> QED
    BY <2>1, <2>2, <2>3
       DEF Begun, CallbackStored, BeginRetry, Typed, AssetsStay, MuxTyped
<1>3. CASE \E j \in Jobs : CallbackFailed(c, j)
  <2>1. PICK j \in Jobs : CallbackFailed(c, j)
    BY <1>3
  <2>2. Turns(c, {"failing"})
    BY <2>1, BeginTurns DEF CallbackFailed, WithMeta
  <2>3. Turns(c, Others)
    BY <2>2, TurnsWider DEF Others, WithMeta, Uncounting
  <2> QED
    BY <2>1, <2>3, Unwritten
       DEF Begun, CallbackFailed, Begin, Typed, AssetsStay, MuxTyped
<1>4. CASE LambdaPost(c)
  <2>1. PICK a \in Unused :
          /\ asset' = [asset EXCEPT ![a] = "preparing"]
          /\ Go(c, [Idle EXCEPT !.pc = "lambda", !.asset = a])
    BY <1>4 DEF LambdaPost
  <2> DEFINE new == [Idle EXCEPT !.pc = "lambda", !.asset = a]
  <2>2. a \in Assets /\ asset[a] = "none"
    BY DEF Unused
  <2>3. new \in Call /\ new.pc = "lambda" /\ new.asset = a
    BY <2>2, Constants DEF Idle, Call
  <2> HIDE DEF new
  <2>4. AssetsStay /\ MuxTyped' /\ asset'[a] = "preparing"
    BY <1>4, <2>1, <2>2 DEF LambdaPost, AssetsStay, Typed, MuxTyped
  <2>5. Fits(c, new)
    BY <2>2, <2>3, <2>4 DEF Fits, WithMeta
  <2>6. Go(c, new)
    BY <2>1 DEF new
  <2>7. Turns(c, Others)
    BY <2>3, <2>5, <2>6 DEF Turns, Others
  <2> QED
    BY <1>4, <2>4, <2>7, Unwritten DEF Begun, LambdaPost, Typed
<1>5. CASE StaleSweep(c)
  <2>1. Turns(c, {"stale"})
    BY <1>5, BeginTurns DEF StaleSweep, WithMeta
  <2>2. Turns(c, Others)
    BY <2>1, TurnsWider DEF Others, WithMeta, Uncounting
  <2> QED
    BY <1>5, <2>2, Unwritten
       DEF Begun, StaleSweep, Begin, Typed, AssetsStay, MuxTyped
<1>6. CASE StuckSweep(c) \/ IngestionCycle(c)
  <2>1. Turns(c, Others)
    BY <1>6, RetryTurns, TurnsWider
       DEF StuckSweep, IngestionCycle, BeginRetry, Others
  <2> QED
    BY <1>6, <2>1, Unwritten DEF Begun, StuckSweep, IngestionCycle, BeginRetry,
       Typed, AssetsStay, MuxTyped
<1>7. CASE RetryExtraction(c) \/ RetryExtractions(c)
  <2>1. BeginRetry(c) \/ Begin(c, "extract", WithoutAsset(row))
    BY <1>7 DEF RetryExtraction, RetryExtractions
  <2>2. Turns(c, {"retry", "extract"})
    <3>1. CASE BeginRetry(c)
      BY <3>1, RetryTurns, TurnsWider DEF BeginRetry
    <3>2. CASE Begin(c, "extract", WithoutAsset(row))
      BY ZenonT(60), <3>2, BeginTurns, TurnsWider DEF WithMeta
    <3> QED
      BY <2>1, <3>1, <3>2
  <2>3. Turns(c, Others)
    BY <2>2, TurnsWider DEF Others, WithMeta, Uncounting
  <2>4. UNCHANGED <<row, old, outside, history>>
    BY <1>7 DEF RetryExtraction, RetryExtractions
  <2> QED
    BY <2>1, <2>3, <2>4, Unwritten
       DEF Begun, Begin, BeginRetry, Typed, AssetsStay, MuxTyped
<1>8. CASE Read(c) \/ StatusPoll(c)
  <2>1. PICK pc \in {"heal", "sync"}, differs \in BOOLEAN :
          BeginReader(c, pc, differs)
    BY <1>8 DEF Read, StatusPoll
  <2>2. Turns(c, Others)
    BY <2>1, ReaderTurns, TurnsWider DEF Others
  <2> QED
    BY <1>8, <2>2, Unwritten
       DEF Begun, Read, StatusPoll, BeginReader, Typed, AssetsStay, MuxTyped
<1>9. \/ \E j \in Jobs : CallbackStored(c, j)
      \/ \E j \in Jobs : CallbackFailed(c, j)
      \/ LambdaPost(c) \/ StaleSweep(c)
      \/ StuckSweep(c) \/ IngestionCycle(c) \/ RetryExtractions(c)
      \/ RetryExtraction(c) \/ Read(c) \/ StatusPoll(c)
  BY DEF Beginning
<1> QED
  BY <1>2, <1>3, <1>4, <1>5, <1>6, <1>7, <1>8, <1>9

\* An upload from S3 begins, or fails: it is not counted yet.
LEMMA PostingTurns ==
  ASSUME Typed, NEW c \in Calls, Post(c) \/ PostFails(c)
  PROVE  /\ Turns(c, Uncounting) /\ RowKept
         /\ call[c].pc = "post" /\ HoldsMeta(c)
         /\ AssetsStay /\ MuxTyped'
         /\ posts < MaxPosts /\ posts' = posts + 1
         /\ UNCHANGED <<stored, pi, trigger, crashes, meddled, settled>>
<1>1. call[c] \in Call /\ call[c].pc = "post"
  BY DEF Typed, CallsTyped, Post, PostFails
<1>2. CASE Post(c)
  <2>1. PICK a \in Unused :
          /\ asset' = [asset EXCEPT ![a] = IF stored THEN "preparing" ELSE "broken"]
          /\ Go(c, [call[c] EXCEPT !.pc = "save", !.asset = a])
    BY <1>2 DEF Post
  <2> DEFINE new == [call[c] EXCEPT !.pc = "save", !.asset = a]
  <2>2. a \in Assets /\ asset[a] = "none"
    BY DEF Unused
  <2>3. new \in Call /\ new.pc = "save" /\ new.asset = a /\ new.meta = call[c].meta
    BY <1>1, <2>2 DEF Call, WithMeta
  <2> HIDE DEF new
  <2>4. AssetsStay /\ MuxTyped' /\ asset'[a] # "none"
    BY <1>2, <2>1, <2>2 DEF Post, AssetsStay, Typed, MuxTyped
  <2>5. Fits(c, new)
    BY <1>1, <2>2, <2>3, <2>4 DEF Fits, HoldsMeta, WithMeta
  <2>6. Go(c, new)
    BY <2>1 DEF new
  <2> QED
    BY <1>2, <2>3, <2>4, <2>5, <2>6, Unwritten
       DEF Turns, Uncounting, Post, HoldsMeta, WithMeta
<1>3. CASE PostFails(c)
  <2> DEFINE new == [call[c] EXCEPT !.pc = "count"]
  <2>1. new \in Call /\ new.pc = "count" /\ new.meta = call[c].meta
    BY <1>1 DEF Call, WithMeta
  <2>2. Go(c, new)
    BY <1>3 DEF PostFails
  <2> HIDE DEF new
  <2>3. Fits(c, new)
    BY <1>1, <2>1 DEF Fits, HoldsMeta, WithMeta
  <2>4. RowKept
    BY <1>3, RowForms, Written DEF PostFails, Typed
  <2> QED
    BY <1>1, <1>3, <2>1, <2>2, <2>3, <2>4
       DEF Turns, Uncounting, PostFails, HoldsMeta, WithMeta, AssetsStay,
           Typed, MuxTyped
<1> QED
  BY <1>2, <1>3

LEMMA SaveTurns ==
  ASSUME Typed, NEW c \in Calls, SaveAsset(c)
  PROVE  /\ Turns(c, Uncounting) /\ RowKept
         /\ call[c].pc = "save" /\ HoldsMeta(c)
         /\ UNCHANGED <<outside, history>>
<1>1. PICK m \in Meta : m = call[c].meta
  BY DEF Typed, CallsTyped, Call
<1> DEFINE new == [Idle EXCEPT !.pc = "count", !.meta = m]
<1>2. new \in Call /\ new.pc = "count" /\ new.meta = m
  BY Constants DEF Idle, Call, WithMeta
<1>3. Go(c, new)
  BY <1>1 DEF SaveAsset
<1> HIDE DEF new
<1>4. Fits(c, new)
  BY <1>1, <1>2 DEF Fits, SaveAsset, HoldsMeta, WithMeta
<1>5. call[c].asset \in Assets
  BY DEF SaveAsset, Typed, CallsTyped
<1>6. RowKept
  BY ZenonT(60), <1>5, RowForms, Written DEF SaveAsset, Typed
<1> QED
  BY <1>2, <1>3, <1>4, <1>6
     DEF Turns, Uncounting, SaveAsset, HoldsMeta, WithMeta

\* The handlers that write metadata write what they had in hand, and count
\* what they have to count.
LEMMA MetaTurns ==
  ASSUME Typed, NEW c \in Calls, MetaWriting(c)
  PROVE  /\ Turns(c, {"idle", "retry"})
         /\ HoldsMeta(c) /\ call[c].pc # "save"
         /\ row' \in Row /\ old' \in BOOLEAN
         /\ row'.meta.tries = IF call[c].pc = "count" THEN call[c].meta.tries + 1
                              ELSE call[c].meta.tries
         /\ meddled' = (meddled \/ \E d \in Calls \ {c} : HoldsMeta(d))
         /\ pi' \in [Jobs -> {"new", "running", "s3", "mux", "failed", "off"}]
         /\ MuxTyped' /\ asset' = asset
         /\ UNCHANGED <<stored, trigger, crashes, posts, settled>>
<1>1. PICK m \in Meta : m = call[c].meta
  BY DEF Typed, CallsTyped, Call
<1>2. PICK r \in Row : r = row
  BY DEF Typed
<1>3. HoldsMeta(c) /\ call[c].pc # "save" /\ (call[c].pc = "count" <=> CountRetry(c))
  BY DEF MetaWriting, CountRetry, FailureHandled, StaleRecover, StaleFail,
         Dispatch, HoldsMeta, WithMeta
<1>4. CASE CountRetry(c)
  <2> DEFINE n == Counted(m)
             new == [r EXCEPT !.s3 = TRUE, !.status = "uploaded", !.meta = n]
  <2>1. n \in Meta /\ n.tries = m.tries + 1
    BY DEF Counted, Meta
  <2> HIDE DEF n
  <2>2. new \in Row /\ new.meta = n
    BY <2>1 DEF Row
  <2>3. WriteMeta(c, new)
    BY <1>1, <1>2, <1>4 DEF CountRetry, n
  <2>4. Turns(c, {"idle", "retry"})
    BY <1>4, ReturnTurns, TurnsWider DEF CountRetry
  <2> QED
    BY <1>1, <1>3, <1>4, <2>1, <2>2, <2>3, <2>4
       DEF WriteMeta, Write, CountRetry, Typed, MuxTyped
<1>5. CASE FailureHandled(c) \/ StaleRecover(c) \/ StaleFail(c)
  <2>1. PICK new \in {[r EXCEPT !.status = "uploaded", !.s3 = TRUE, !.meta = m],
                      [r EXCEPT !.status = "failed", !.meta = m]} :
          WriteMeta(c, new)
    BY <1>1, <1>2, <1>5 DEF FailureHandled, StaleRecover, StaleFail
  <2>2. new \in Row /\ new.meta = m
    BY DEF Row
  <2>3. Turns(c, {"idle", "retry"})
    BY <1>5, ReturnTurns, RetryTurns, TurnsWider
       DEF FailureHandled, StaleRecover, StaleFail
  <2>4. UNCHANGED <<outside, crashes, posts, settled>> /\ call[c].pc # "count"
    BY <1>5 DEF FailureHandled, StaleRecover, StaleFail
  <2> QED
    BY <1>1, <1>3, <2>1, <2>2, <2>3, <2>4
       DEF WriteMeta, Write, Typed, MuxTyped
<1>6. CASE Dispatch(c)
  <2>1. PICK j \in Jobs, given \in BOOLEAN :
          /\ \E s \in {"running", "off"} : pi' = [pi EXCEPT ![j] = s]
          /\ upload' = [upload EXCEPT ![j] = IF given THEN "waiting" ELSE "none"]
          /\ WriteMeta(c, [NewRow EXCEPT
                             !.meta = [tries |-> call[c].meta.tries,
                                       upload |-> IF given THEN j ELSE None]])
    BY <1>6 DEF Dispatch
  <2> DEFINE n == [tries |-> m.tries, upload |-> IF given THEN j ELSE None]
             new == [NewRow EXCEPT !.meta = n]
  <2>2. n \in Meta /\ n.tries = m.tries
    BY DEF Meta
  <2>3. WriteMeta(c, new)
    BY <1>1, <2>1
  <2> HIDE DEF n
  <2>4. new \in Row /\ new.meta = n
    BY <2>2, Constants DEF Row, NewRow
  <2>5. Turns(c, {"idle", "retry"})
    BY <1>6, ReturnTurns, TurnsWider DEF Dispatch
  <2>6. /\ pi' \in [Jobs -> {"new", "running", "s3", "mux", "failed", "off"}]
        /\ upload' \in [Jobs -> {"none", "waiting", "timed_out"} \cup Assets]
    BY <2>1 DEF Typed, MuxTyped
  <2> QED
    BY <1>1, <1>3, <1>6, <2>2, <2>3, <2>4, <2>5, <2>6
       DEF WriteMeta, Write, Dispatch, Typed, MuxTyped
<1> QED
  BY <1>4, <1>5, <1>6 DEF MetaWriting

\* The steps of no handler: the Pi, Mux and its events, S3, time, and the
\* writes that read nothing beforehand.
World ==
  \/ \E j \in Jobs :
       \/ PiStores(j) \/ PiUploads(j) \/ PiFails(j) \/ PiSilent(j)
       \/ UploadTimesOut(j) \/ CallbackUploaded(j)
  \/ \E a \in Assets :
       \/ AssetSettles(a) \/ EventLost(a)
       \/ ReadyEvent(a) \/ ErroredEvent(a) \/ CompletedEvent(a)
  \/ Age \/ LambdaFail \/ Supersede \/ StatusFromS3 \/ Settle

LEMMA WorldKeeps ==
  ASSUME Typed, World
  PROVE  /\ RowKept /\ AssetsStay /\ MuxTyped'
         /\ stored' \in BOOLEAN /\ trigger' \in BOOLEAN /\ settled' \in BOOLEAN
         /\ pi' \in [Jobs -> {"new", "running", "s3", "mux", "failed", "off"}]
         /\ UNCHANGED <<call, crashes, posts, meddled>>
<1>1. row \in Row
  BY DEF Typed
<1>2. ASSUME NEW j \in Jobs,
             \/ PiStores(j) \/ PiUploads(j) \/ PiFails(j) \/ PiSilent(j)
             \/ UploadTimesOut(j) \/ CallbackUploaded(j)
      PROVE  /\ RowKept /\ AssetsStay /\ MuxTyped'
             /\ stored' \in BOOLEAN /\ trigger' \in BOOLEAN
             /\ pi' \in [Jobs -> {"new", "running", "s3", "mux", "failed", "off"}]
             /\ UNCHANGED <<call, history>>
  <2>1. CASE PiStores(j) \/ PiFails(j) \/ PiSilent(j)
    BY <2>1, Unwritten
       DEF PiStores, PiFails, PiSilent, AssetsStay, Typed, MuxTyped
  <2>2. CASE PiUploads(j)
    <3>1. PICK a \in Unused :
            /\ upload' = [upload EXCEPT ![j] = a]
            /\ asset' = [asset EXCEPT ![a] = "preparing"]
      BY <2>2 DEF PiUploads
    <3>2. a \in Assets /\ asset[a] = "none"
      BY DEF Unused
    <3> QED
      BY <2>2, <3>1, <3>2, Unwritten
         DEF PiUploads, AssetsStay, Typed, MuxTyped
  <2>3. CASE UploadTimesOut(j)
    BY <2>3, Unwritten DEF UploadTimesOut, AssetsStay, Typed, MuxTyped
  <2>4. CASE CallbackUploaded(j)
    <3>1. RowKept
      BY <1>1, <2>4, RowForms, Written DEF CallbackUploaded
    <3> QED
      BY <2>4, <3>1 DEF CallbackUploaded, AssetsStay, Typed, MuxTyped
  <2> QED
    BY <1>2, <2>1, <2>2, <2>3, <2>4
<1>3. ASSUME NEW a \in Assets,
             \/ AssetSettles(a) \/ EventLost(a)
             \/ ReadyEvent(a) \/ ErroredEvent(a) \/ CompletedEvent(a)
      PROVE  /\ RowKept /\ AssetsStay /\ MuxTyped'
             /\ UNCHANGED <<stored, trigger, pi, call, history>>
  <2>1. CASE AssetSettles(a)
    <3>1. /\ asset' = [asset EXCEPT ![a] = "ready"]
             \/ asset' = [asset EXCEPT ![a] = "errored"]
          /\ events' = events \cup {a}
      BY <2>1 DEF AssetSettles
    <3>2. AssetsStay /\ MuxTyped'
      BY <2>1, <3>1 DEF AssetSettles, AssetsStay, Typed, MuxTyped
    <3> QED
      BY <2>1, <3>2, Unwritten DEF AssetSettles
  <2>2. CASE EventLost(a)
    BY <2>2, Unwritten DEF EventLost, AssetsStay, Typed, MuxTyped
  <2>3. CASE ReadyEvent(a) \/ ErroredEvent(a) \/ CompletedEvent(a)
    <3>1. \/ UNCHANGED <<row, old>>
          \/ Write([AsReady(row, a) EXCEPT !.asset = a])
          \/ Write([row EXCEPT !.status = "failed"])
          \/ Write([row EXCEPT !.status = "completed", !.asset = a, !.play = a])
      BY <2>3 DEF ReadyEvent, ErroredEvent, CompletedEvent
    <3>2. RowKept
      BY ZenonT(60), <1>1, <3>1, RowForms, Written, Unwritten
    <3> QED
      BY <2>3, <3>2
         DEF ReadyEvent, ErroredEvent, CompletedEvent, AssetsStay, Typed, MuxTyped
  <2> QED
    BY <1>3, <2>1, <2>2, <2>3
<1>4. CASE Age
  <2>1. RowKept
    BY <1>4 DEF Age, RowKept, Typed
  <2> QED
    BY <1>4, <2>1 DEF Age, AssetsStay, Typed, MuxTyped
<1>5. CASE LambdaFail \/ Supersede \/ StatusFromS3
  <2>1. RowKept
    BY <1>1, <1>5, RowForms, Written DEF LambdaFail, Supersede, StatusFromS3
  <2> QED
    BY <1>5, <2>1
       DEF LambdaFail, Supersede, StatusFromS3, AssetsStay, Typed, MuxTyped
<1>6. CASE Settle
  BY <1>6, Unwritten DEF Settle, AssetsStay, Typed, MuxTyped
<1> QED
  BY <1>2, <1>3, <1>4, <1>5, <1>6 DEF World, Typed

LEMMA CrashTyped ==
  ASSUME Typed, Crash
  PROVE  Typed'
<1>1. CallsTyped'
  BY Constants DEF Crash, Typed, CallsTyped
<1>2. crashes' \in 0 .. MaxCrashes /\ meddled' \in BOOLEAN
  BY BoundsAssumption DEF Crash, Typed
<1> QED
  BY <1>1, <1>2 DEF Crash, Typed, MuxTyped

LEMMA StepCases ==
  ASSUME Next
  PROVE  \/ World \/ Crash
         \/ \E c \in Calls :
              \/ Handling(c) \/ Beginning(c) \/ Post(c) \/ PostFails(c)
              \/ SaveAsset(c) \/ MetaWriting(c)
  BY DEF Next, CallStep, World, Handling, Beginning, MetaWriting

LEMMA StepTyped ==
  ASSUME Typed, [Next]_vars
  PROVE  Typed'
<1>1. CASE UNCHANGED vars
  BY <1>1 DEF Typed, MuxTyped, CallsTyped
<1>2. CASE World
  BY <1>2, WorldKeeps DEF Typed, RowKept, CallsTyped, AssetsStay
<1>3. CASE Crash
  BY <1>3, CrashTyped
<1>4. ASSUME NEW c \in Calls, Handling(c)
      PROVE  Typed'
  <2>1. AssetsStay
    BY <1>4, HandlingTurns DEF AssetsStay
  <2> QED
    BY <1>4, <2>1, HandlingTurns, TurnsTyped DEF Typed, RowKept, MuxTyped
<1>5. ASSUME NEW c \in Calls, Beginning(c)
      PROVE  Typed'
  BY <1>5, BeginningTurns, TurnsTyped DEF Begun, Typed, RowKept
<1>6. ASSUME NEW c \in Calls, Post(c) \/ PostFails(c)
      PROVE  Typed'
  <2>1. posts' \in 0 .. MaxPosts
    BY <1>6, PostingTurns, BoundsAssumption DEF Typed
  <2> QED
    BY <1>6, <2>1, PostingTurns, TurnsTyped DEF Typed, RowKept
<1>7. ASSUME NEW c \in Calls, SaveAsset(c)
      PROVE  Typed'
  <2>1. AssetsStay
    BY <1>7, SaveTurns DEF AssetsStay
  <2> QED
    BY <1>7, <2>1, SaveTurns, TurnsTyped DEF Typed, RowKept, MuxTyped
<1>8. ASSUME NEW c \in Calls, MetaWriting(c)
      PROVE  Typed'
  <2>1. AssetsStay
    BY <1>8, MetaTurns DEF AssetsStay
  <2>2. meddled' \in BOOLEAN
    BY <1>8, MetaTurns
  <2> QED
    BY <1>8, <2>1, <2>2, MetaTurns, TurnsTyped DEF Typed
<1> QED
  BY <1>1, <1>2, <1>3, <1>4, <1>5, <1>6, <1>7, <1>8, StepCases

LEMMA InitTyped ==
  ASSUME Init
  PROVE  Typed
<1>1. PICK up \in {FirstJob, None} :
        \/ /\ row = [NewRow EXCEPT !.meta.upload = up]
           /\ pi = [j \in Jobs |-> IF j = FirstJob THEN "running" ELSE "new"]
           /\ upload = [j \in Jobs |-> IF j = up THEN "waiting" ELSE "none"]
           /\ stored = FALSE /\ trigger = FALSE
           /\ call = [c \in Calls |-> Idle]
        \/ /\ row = [NewRow EXCEPT !.status = "completed", !.s3 = TRUE]
           /\ pi = [j \in Jobs |-> IF j = FirstJob THEN "off" ELSE "new"]
           /\ upload = [j \in Jobs |-> "none"]
           /\ stored = TRUE /\ trigger = TRUE
           /\ \E c \in Calls :
                call = [d \in Calls |-> IF d = c THEN [Idle EXCEPT !.pc = "retry"]
                                        ELSE Idle]
  BY DEF Init
<1>2. row \in Row
  <2>1. [tries |-> 0, upload |-> up] \in Meta
    BY JobAssumption DEF Meta
  <2>2. [NewRow.meta EXCEPT !.upload = up] = [tries |-> 0, upload |-> up]
    BY DEF NewRow, NoMeta
  <2>3. [NewRow EXCEPT !.meta.upload = up] \in Row
    BY <2>1, <2>2, Constants DEF Row
  <2>4. [NewRow EXCEPT !.status = "completed", !.s3 = TRUE] \in Row
    BY Constants DEF Row
  <2> QED
    BY <1>1, <2>2, <2>3, <2>4
<1>3. CallsTyped
  <2> DEFINE new == [Idle EXCEPT !.pc = "retry"]
  <2>1. new \in Call /\ new.pc = "retry"
    BY Constants DEF Idle, Call
  <2>2. \/ call = [c \in Calls |-> Idle]
        \/ \E c \in Calls : call = [d \in Calls |-> IF d = c THEN new ELSE Idle]
    BY <1>1
  <2> HIDE DEF new
  <2> QED
    BY <2>1, <2>2, Constants DEF CallsTyped
<1>4. MuxTyped
  BY <1>1 DEF Init, MuxTyped
<1>5. /\ stored \in BOOLEAN /\ trigger \in BOOLEAN
      /\ pi \in [Jobs -> {"new", "running", "s3", "mux", "failed", "off"}]
  BY ZenonT(60), <1>1
<1>6. /\ old = FALSE /\ crashes = 0 /\ posts = 0
      /\ meddled = FALSE /\ settled = FALSE
  BY DEF Init
<1>7. crashes \in 0 .. MaxCrashes /\ posts \in 0 .. MaxPosts
  BY <1>6, BoundsAssumption
<1>8. old \in BOOLEAN /\ meddled \in BOOLEAN /\ settled \in BOOLEAN
  BY <1>6
<1> QED
  BY <1>2, <1>3, <1>4, <1>5, <1>7, <1>8 DEF Typed

\* The variables of an extraction have their types, and an asset that a
\* handler or the Lambda is about to store is one that Mux has made.
THEOREM ExtractionTyped == Spec => []TypeOK
<1>1. Init => Typed
  BY InitTyped
<1>2. Typed /\ [Next]_vars => Typed'
  BY StepTyped
<1>3. Typed => TypeOK
  BY DEF Typed, MuxTyped, CallsTyped, TypeOK
<1> QED
  BY <1>1, <1>2, <1>3, PTL DEF Spec

-----------------------------------------------------------------------------
(* What can be watched stays so.  When it settles, no handler runs, no     *)
(* extraction is under way and S3 owes the Lambda nothing; from then on    *)
(* nothing can begin, for all that begins wants a recording that cannot be *)
(* watched, has failed, or is still on its way.                            *)

SettledInv == settled => Watchable /\ Quiet

LEMMA NothingBegins ==
  ASSUME Typed, Watchable, Quiet, NEW c \in Calls
  PROVE  /\ ~Handling(c) /\ ~Beginning(c) /\ ~Post(c) /\ ~PostFails(c)
         /\ ~SaveAsset(c) /\ ~MetaWriting(c)
<1>1. call[c].pc = "idle"
  BY DEF Quiet
<1>2. /\ ~Handling(c) /\ ~Post(c) /\ ~PostFails(c) /\ ~SaveAsset(c)
      /\ ~MetaWriting(c)
  BY <1>1 DEF Handling, RetryRead, Poll, PollUpload, PollFails, PostBound,
     LambdaSave, StaleAsset, Heal, StatusSync, Post, PostFails, SaveAsset,
     MetaWriting, CountRetry, FailureHandled, StaleRecover, StaleFail, Dispatch
<1>3. /\ ~LambdaPost(c)
      /\ \A j \in Jobs : ~CallbackStored(c, j) /\ ~CallbackFailed(c, j)
  BY DEF Quiet, LambdaPost, CallbackStored, CallbackFailed
<1>4. /\ row.play # None /\ row.status \in {"ready", "completed"} /\ Playable(row)
  BY DEF Watchable, Playable
<1>5. /\ ~StaleSweep(c) /\ ~StuckSweep(c) /\ ~IngestionCycle(c)
      /\ ~RetryExtractions(c) /\ ~RetryExtraction(c) /\ ~Read(c) /\ ~StatusPoll(c)
  BY <1>4 DEF StaleSweep, StaleRow, StuckSweep, IngestionCycle,
     RetryExtractions, RetryExtraction, Read, StatusPoll
<1> QED
  BY <1>2, <1>3, <1>5 DEF Beginning

\* The events that still come name the asset that plays, or another that is
\* ready too.
LEMMA WorldSettled ==
  ASSUME Typed, Watchable, Quiet, World
  PROVE  Watchable' /\ Quiet'
<1>1. PICK r \in Row : r = row
  BY DEF Typed
<1>2. /\ r.status \in {"ready", "completed"} /\ r.play # None
      /\ r.asset = r.play /\ asset[r.play] = "ready" /\ r.play \in Assets
  BY <1>1 DEF Watchable, Row
<1>3. ASSUME NEW j \in Jobs
      PROVE  /\ ~PiStores(j) /\ ~PiUploads(j) /\ ~PiFails(j) /\ ~PiSilent(j)
             /\ ~CallbackUploaded(j)
  BY DEF Quiet, PiStores, PiUploads, PiFails, PiSilent, CallbackUploaded
<1>4. ASSUME NEW j \in Jobs, UploadTimesOut(j)
      PROVE  Watchable' /\ Quiet'
  BY <1>4 DEF UploadTimesOut, Watchable, Quiet
<1>5. ASSUME NEW a \in Assets, AssetSettles(a) \/ EventLost(a)
      PROVE  Watchable' /\ Quiet'
  <2>1. asset'[r.play] = "ready"
    BY <1>2, <1>5 DEF AssetSettles, EventLost, Typed, MuxTyped
  <2> QED
    BY <1>1, <1>5, <2>1 DEF AssetSettles, EventLost, Watchable, Quiet
<1>6. ASSUME NEW a \in Assets,
             ReadyEvent(a) \/ ErroredEvent(a) \/ CompletedEvent(a)
      PROVE  Watchable' /\ Quiet'
  <2>1. UNCHANGED <<asset, call, pi, trigger>>
    BY <1>6 DEF ReadyEvent, ErroredEvent, CompletedEvent
  <2>2. \/ row' = r
        \/ asset[a] = "ready" /\ row' = [AsReady(r, a) EXCEPT !.asset = a]
        \/ /\ asset[a] = "ready"
           /\ row' = [r EXCEPT !.status = "completed", !.asset = a, !.play = a]
    BY <1>1, <1>2, <1>6 DEF ReadyEvent, ErroredEvent, CompletedEvent, Write
  <2>3. a # None
    BY NoneAssumption
  <2>4. Watchable'
    <3>1. CASE row' = r
      BY <1>1, <2>1, <3>1 DEF Watchable
    <3>2. CASE row' = [AsReady(r, a) EXCEPT !.asset = a] /\ asset[a] = "ready"
      <4>1. row'.status = "ready" /\ row'.play = a /\ row'.asset = a
        BY <3>2 DEF AsReady, Row
      <4> QED
        BY <2>1, <2>3, <3>2, <4>1 DEF Watchable
    <3>3. CASE /\ row' = [r EXCEPT !.status = "completed", !.asset = a, !.play = a]
               /\ asset[a] = "ready"
      <4>1. row'.status = "completed" /\ row'.play = a /\ row'.asset = a
        BY <3>3 DEF Row
      <4> QED
        BY <2>1, <2>3, <3>3, <4>1 DEF Watchable
    <3> QED
      BY <2>2, <3>1, <3>2, <3>3
  <2> QED
    BY <2>1, <2>4 DEF Quiet
<1>7. CASE Age \/ Settle
  BY <1>7 DEF Age, Settle, Watchable, Quiet
<1>8. ~LambdaFail /\ ~Supersede
  BY <1>1, <1>2 DEF Quiet, LambdaFail, Supersede, StaleRow
<1>9. CASE StatusFromS3
  <2>1. row' = [r EXCEPT !.status = "ready"]
    BY <1>1, <1>9 DEF StatusFromS3, Write
  <2>2. row'.status = "ready" /\ row'.play = r.play /\ row'.asset = r.asset
    BY <2>1 DEF Row
  <2>3. UNCHANGED <<asset, call, pi, trigger>>
    BY <1>9 DEF StatusFromS3
  <2> QED
    BY <1>2, <2>2, <2>3 DEF Watchable, Quiet
<1> QED
  BY <1>3, <1>4, <1>5, <1>6, <1>7, <1>8, <1>9 DEF World

LEMMA StepSettled ==
  ASSUME Typed, SettledInv, [Next]_vars
  PROVE  SettledInv'
<1>1. CASE UNCHANGED vars
  BY <1>1 DEF SettledInv, Watchable, Quiet
<1>2. CASE Settle
  BY <1>2, WorldSettled DEF SettledInv, Settle, World
<1>3. CASE Next /\ ~Settle
  <2>1. settled' = settled
    BY ZenonT(60), <1>3 DEF Next, CallStep, PiStores, PiUploads, PiFails, PiSilent,
       UploadTimesOut, CallbackUploaded, CallbackStored, CallbackFailed,
       AssetSettles, EventLost, ReadyEvent, ErroredEvent, CompletedEvent, Age,
       Crash, LambdaFail, Supersede, StatusFromS3, RetryRead, Poll, PollUpload,
       PollFails, Post, PostFails, PostBound, SaveAsset, CountRetry,
       FailureHandled, LambdaSave, StaleRecover, StaleAsset, StaleFail,
       Dispatch, Heal, StatusSync, LambdaPost, StaleSweep, StuckSweep,
       IngestionCycle, RetryExtractions, RetryExtraction, Read, StatusPoll
  <2>2. ASSUME settled
        PROVE  Watchable' /\ Quiet'
    <3>1. Watchable /\ Quiet
      BY <2>2 DEF SettledInv
    <3>2. ~Crash
      BY <3>1 DEF Quiet, Crash
    <3> QED
      BY <1>3, <3>1, <3>2, StepCases, NothingBegins, WorldSettled
  <2> QED
    BY <2>1, <2>2 DEF SettledInv
<1> QED
  BY <1>1, <1>2, <1>3

\* A recording that can be watched, with no handler, extraction or Lambda run
\* under way, can be watched for ever: none of the two crons, the retries of
\* the admin, the readers that heal a row, the superseding claim or a late or
\* repeated event of either webhook endpoint takes the video away.
THEOREM WatchableForEver == Spec => []StaysWatchable
<1>1. Init => Typed /\ SettledInv
  <2>1. Init => SettledInv
    BY DEF Init, SettledInv
  <2> QED
    BY <2>1, InitTyped
<1>2. (Typed /\ SettledInv) /\ [Next]_vars => (Typed /\ SettledInv)'
  BY StepTyped, StepSettled
<1>3. SettledInv => StaysWatchable
  BY DEF SettledInv, StaysWatchable
<1> QED
  BY <1>1, <1>2, <1>3, PTL DEF Spec

-----------------------------------------------------------------------------
(* Retries are counted.  Until two calls have had the metadata in hand at  *)
(* once, what a call has in hand is what the row says, so that counting a  *)
(* retry adds one to the count of the row.                                 *)

\* The uploads from S3 that are begun and not counted.
Underway == {c \in Calls : call[c].pc \in Uncounting}

CountInv ==
  ~meddled =>
    /\ row.meta.tries + Cardinality(Underway) = posts
    /\ \A c \in Calls : HoldsMeta(c) => call[c].meta = row.meta

LEMMA UnderwayFinite ==
  IsFiniteSet(Underway) /\ Cardinality(Underway) \in Nat
<1>1. Underway \subseteq Calls
  BY DEF Underway
<1> QED
  BY <1>1, CallsAssumption, FS_Subset, FS_CardinalityType

LEMMA MetaTyped ==
  ASSUME Typed
  PROVE  /\ row.meta \in Meta /\ row.meta.tries \in Nat
         /\ \A c \in Calls : call[c].meta \in Meta /\ call[c].meta.tries \in Nat
  BY DEF Typed, CallsTyped, Row, Call, Meta

\* A step that writes no metadata, when as many uploads are begun as are done.
LEMMA CountKept ==
  ASSUME Typed, CountInv, NEW c \in Calls, row'.meta = row.meta,
         meddled' = meddled,
         \A d \in Calls \ {c} : call'[d] = call[d],
         call'[c].pc \in WithMeta =>
           \/ call'[c].meta = row.meta
           \/ HoldsMeta(c) /\ call'[c].meta = call[c].meta,
         \/ /\ posts' = posts
            /\ call[c].pc \in Uncounting <=> call'[c].pc \in Uncounting
         \/ /\ posts' = posts + 1
            /\ call[c].pc \notin Uncounting /\ call'[c].pc \in Uncounting
  PROVE  CountInv'
<1>1. \/ posts' = posts /\ Underway' = Underway
      \/ /\ posts' = posts + 1
         /\ Underway' = Underway \cup {c} /\ c \notin Underway
  BY DEF Underway
<1>2. posts \in Int
  BY DEF Typed
<1>3. /\ Cardinality(Underway') \in Nat
      /\ Cardinality(Underway') - Cardinality(Underway) = posts' - posts
  <2>1. CASE posts' = posts /\ Underway' = Underway
    BY <1>2, <2>1, UnderwayFinite
  <2>2. CASE /\ posts' = posts + 1
             /\ Underway' = Underway \cup {c} /\ c \notin Underway
    <3>1. Cardinality(Underway \cup {c}) = Cardinality(Underway) + 1
      BY <2>2, UnderwayFinite, FS_AddElement
    <3> QED
      BY <1>2, <2>2, <3>1, UnderwayFinite
  <2> QED
    BY <1>1, <2>1, <2>2
<1>4. ASSUME ~meddled
      PROVE  row'.meta.tries + Cardinality(Underway') = posts'
  BY <1>2, <1>3, <1>4, UnderwayFinite, MetaTyped DEF CountInv
<1>5. ASSUME ~meddled, NEW d \in Calls, HoldsMeta(d)'
      PROVE  call'[d].meta = row'.meta
  BY <1>5 DEF CountInv, HoldsMeta
<1> QED
  BY <1>4, <1>5 DEF CountInv

LEMMA WorldCount ==
  ASSUME Typed, CountInv, UNCHANGED <<call, posts, meddled>>,
         row'.meta = row.meta
  PROVE  CountInv'
  BY DEF CountInv, Underway, HoldsMeta

\* Whoever writes the metadata alone had the row's in hand.
LEMMA MetaCount ==
  ASSUME Typed, CountInv, NEW c \in Calls, MetaWriting(c)
  PROVE  CountInv'
<1>1. /\ HoldsMeta(c) /\ call[c].pc # "save"
      /\ row'.meta.tries = IF call[c].pc = "count" THEN call[c].meta.tries + 1
                           ELSE call[c].meta.tries
      /\ meddled' = (meddled \/ \E d \in Calls \ {c} : HoldsMeta(d))
      /\ posts' = posts /\ AssetsStay /\ Turns(c, {"idle", "retry"})
  BY MetaTurns DEF AssetsStay
<1>2. /\ call'[c].pc \in {"idle", "retry"}
      /\ \A d \in Calls \ {c} : call'[d] = call[d]
  BY <1>1, TurnsTyped
<1>3. SUFFICES ASSUME ~meddled'
               PROVE  /\ row'.meta.tries + Cardinality(Underway') = posts'
                      /\ \A d \in Calls : ~HoldsMeta(d)'
  BY DEF CountInv
<1>4. ~meddled /\ \A d \in Calls \ {c} : ~HoldsMeta(d)
  BY <1>1, <1>3
<1>5. \A d \in Calls : ~HoldsMeta(d)'
  BY <1>2, <1>4 DEF HoldsMeta, WithMeta
<1>6. Underway' = {} /\ Underway = IF call[c].pc = "count" THEN {c} ELSE {}
  BY <1>1, <1>4, <1>5 DEF Underway, Uncounting, HoldsMeta, WithMeta
<1>7. Cardinality(Underway') = 0
  BY <1>6, FS_EmptySet
<1>8. Cardinality(Underway) = IF call[c].pc = "count" THEN 1 ELSE 0
  BY <1>6, FS_EmptySet, FS_Singleton
<1>9. /\ row.meta.tries + Cardinality(Underway) = posts
      /\ call[c].meta = row.meta
  BY <1>1, <1>4 DEF CountInv
<1> QED
  BY <1>1, <1>5, <1>7, <1>8, <1>9, MetaTyped

LEMMA CrashCount ==
  ASSUME Typed, CountInv, Crash
  PROVE  CountInv'
<1>1. SUFFICES ASSUME ~meddled'
               PROVE  /\ row'.meta.tries + Cardinality(Underway') = posts'
                      /\ \A d \in Calls : ~HoldsMeta(d)'
  BY DEF CountInv
<1>2. ~meddled /\ \A d \in Calls : call[d].pc \notin Uncounting
  BY <1>1 DEF Crash, Uncounting
<1>3. \A d \in Calls : call'[d].pc \in {"idle", "lambda"}
  BY Constants DEF Crash
<1>4. Underway = {} /\ Underway' = {}
  BY <1>2, <1>3 DEF Underway, Uncounting
<1>5. \A d \in Calls : ~HoldsMeta(d)'
  BY <1>3 DEF HoldsMeta, WithMeta
<1> QED
  BY <1>2, <1>4, <1>5 DEF CountInv, Crash

LEMMA StepCount ==
  ASSUME Typed, CountInv, [Next]_vars
  PROVE  CountInv'
<1>1. CASE UNCHANGED vars
  BY <1>1, WorldCount
<1>2. CASE World
  BY <1>2, WorldKeeps, WorldCount DEF RowKept
<1>3. CASE Crash
  BY <1>3, CrashCount
<1>4. ASSUME NEW c \in Calls, Handling(c)
      PROVE  CountInv'
  <2>1. AssetsStay /\ Turns(c, Others) /\ call[c].pc \notin Uncounting
    BY <1>4, HandlingTurns DEF AssetsStay
  <2>2. call'[c].pc \notin Uncounting
    BY <2>1, TurnsTyped DEF Others, WithMeta, Uncounting
  <2>3. row'.meta = row.meta /\ posts' = posts /\ meddled' = meddled
    BY <1>4, HandlingTurns DEF RowKept
  <2> QED
    BY <2>1, <2>2, <2>3, TurnsTyped, CountKept
<1>5. ASSUME NEW c \in Calls, Beginning(c)
      PROVE  CountInv'
  <2>1. AssetsStay /\ Turns(c, Others) /\ call[c].pc \notin Uncounting
    BY <1>5, BeginningTurns DEF Begun, Uncounting
  <2>2. call'[c].pc \notin Uncounting
    BY <2>1, TurnsTyped DEF Others, WithMeta, Uncounting
  <2>3. row'.meta = row.meta /\ posts' = posts /\ meddled' = meddled
    BY <1>5, BeginningTurns DEF Begun, RowKept
  <2> QED
    BY <2>1, <2>2, <2>3, TurnsTyped, CountKept
<1>6. ASSUME NEW c \in Calls, Post(c) \/ PostFails(c)
      PROVE  CountInv'
  <2>1. /\ AssetsStay /\ Turns(c, Uncounting) /\ call[c].pc \notin Uncounting
        /\ row'.meta = row.meta /\ posts' = posts + 1 /\ meddled' = meddled
    BY <1>6, PostingTurns DEF RowKept, Uncounting
  <2> QED
    BY <2>1, TurnsTyped, CountKept
<1>7. ASSUME NEW c \in Calls, SaveAsset(c)
      PROVE  CountInv'
  <2>1. /\ AssetsStay /\ Turns(c, Uncounting) /\ call[c].pc \in Uncounting
        /\ row'.meta = row.meta /\ posts' = posts /\ meddled' = meddled
    BY <1>7, SaveTurns DEF RowKept, Uncounting, AssetsStay
  <2> QED
    BY <2>1, TurnsTyped, CountKept
<1> QED
  BY <1>1, <1>2, <1>3, <1>4, <1>5, <1>6, <1>7, MetaCount, StepCases

\* mux_retries counts the uploads from S3 that retryMuxIngestion has begun,
\* those under way apart, whatever the crons, the Pi's callback, the admin's
\* retries and the webhooks do to the row between an upload and its count:
\* until two of them have had the JSON column in hand at once, or the server
\* has died between an upload and its count.
THEOREM UploadsCounted == Spec => []RetriesCounted
<1>1. Init => Typed /\ CountInv
  <2> SUFFICES ASSUME Init
               PROVE  Typed /\ CountInv
    OBVIOUS
  <2>1. \A c \in Calls : call[c].pc \in {"idle", "retry"}
    BY Constants DEF Init, Idle
  <2>2. Underway = {}
    BY <2>1 DEF Underway, Uncounting
  <2>3. \A c \in Calls : ~HoldsMeta(c)
    BY <2>1 DEF HoldsMeta, WithMeta
  <2>4. posts = 0 /\ row.meta.tries = 0
    <3>1. \/ \E up : row = [NewRow EXCEPT !.meta.upload = up]
          \/ row = [NewRow EXCEPT !.status = "completed", !.s3 = TRUE]
      BY DEF Init
    <3>2. ASSUME NEW up, row = [NewRow EXCEPT !.meta.upload = up]
          PROVE  row.meta.tries = 0
      <4>1. row.meta = [NewRow.meta EXCEPT !.upload = up]
        BY <3>2 DEF NewRow
      <4>2. [NoMeta EXCEPT !.upload = up].tries = 0
        BY DEF NoMeta
      <4>3. NewRow.meta = NoMeta
        BY DEF NewRow
      <4> QED
        BY <4>1, <4>2, <4>3
    <3>3. row.meta.tries = 0
      <4>1. [NewRow EXCEPT !.status = "completed", !.s3 = TRUE].meta.tries = 0
        BY DEF NewRow, NoMeta
      <4> QED
        BY <3>1, <3>2, <4>1
    <3> QED
      BY <3>3 DEF Init
  <2> QED
    BY <2>2, <2>3, <2>4, FS_EmptySet, InitTyped DEF CountInv
<1>2. (Typed /\ CountInv) /\ [Next]_vars => (Typed /\ CountInv)'
  BY StepTyped, StepCount
<1>3. CountInv => RetriesCounted
  BY DEF CountInv, RetriesCounted, Underway, Uncounting
<1> QED
  BY <1>1, <1>2, <1>3, PTL DEF Spec
=============================================================================
