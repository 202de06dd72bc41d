----------------------------- MODULE UploadLambda -----------------------------
(***************************************************************************)
(* The Lambda that S3 runs for every new object of the bucket: it finds    *)
(* the recording the object belongs to, by a tag or by the object's name,  *)
(* has Mux make an asset of it with the watermark the object is tagged     *)
(* with, and writes both into the recording's row.                         *)
(***************************************************************************)
EXTENDS Naturals, FiniteSets

CONSTANTS
  Recs,       \* recordings
  Marks,      \* watermarks
  Calls,      \* slots for invocations in progress
  None,
  MaxAssets   \* bound: assets Mux makes

VARIABLES
  row,     \* recordings: the row of each
  assets,  \* Mux: the assets made, with what they were made of
  call,
  answer,  \* what the last invocation that ended said: None, or its success
  (* history: recordings two invocations worked on at once, or one that was  *)
  (* cut off or could not write the row                                      *)
  disturbed

vars == <<row, assets, call, answer, disturbed>>

Row == [status : {"uploaded", "completed", "ready", "failed"},
        asset : 0 .. MaxAssets, play : 0 .. MaxAssets, mark : Marks \cup {None}]
NewRow == [status |-> "uploaded", asset |-> 0, play |-> 0, mark |-> None]
Asset == [rec : Recs, mark : Marks]

Call == [pc : {"idle", "sign", "save", "fail", "mark"}, rec : Recs \cup {None},
         mark : Marks \cup {None}, asset : 0 .. MaxAssets, ok : BOOLEAN]
Idle == [pc |-> "idle", rec |-> None, mark |-> None, asset |-> 0, ok |-> FALSE]

TypeOK ==
  /\ row \in [Recs -> Row]
  /\ assets \in UNION {[1 .. n -> Asset] : n \in 0 .. MaxAssets}
  /\ call \in [Calls -> Call]
  /\ \A c \in Calls : call[c].asset \in DOMAIN assets \cup {0}
  /\ answer \in BOOLEAN \cup {None} /\ disturbed \subseteq Recs

Init ==
  /\ row = [r \in Recs |-> NewRow]
  /\ assets = <<>>
  /\ call = [c \in Calls |-> Idle]
  /\ answer = None /\ disturbed = {}

-----------------------------------------------------------------------------
(* Which recording an object belongs to.                                   *)

\* An identifier: the id of a recording, the Pi's id of one, or a text that is
\* neither, with the form of an id or not.
Ids == [is : {"id", "pi"}, of : Recs] \cup [is : {"unknown", "text"}, of : {None}]
NoId == [is |-> "none", of |-> None]

\* getS3ObjectTags: the identifier and the watermark, or nothing at all when
\* they cannot be read.
Tags == [id : Ids \cup {NoId}, mark : Marks \cup {None}]
NoTags == [id |-> NoId, mark |-> None]

\* extractRaspberryPiRecordingIdFromKey, where there is no tag.
Identifier(tags, name) == IF tags.id # NoId THEN tags.id ELSE name

\* findRecordingByRaspberryPiId: by the row's id, which must have the form of
\* one, then by the Pi's.
HasForm(id) == id.is \in {"id", "unknown"}
Found(id) ==
  {r \in Recs : \/ id.is = "id" /\ r = id.of
                \/ id.is = "pi" /\ r = id.of}

-----------------------------------------------------------------------------
Go(c, new) == call' = [call EXCEPT ![c] = new]
End(c, ok) == Go(c, Idle) /\ answer' = ok
Disturb(r) == disturbed' = disturbed \cup {r}

\* S3 runs main for an object, once or again, in any order.
Event(c, read, name) ==
  LET found == Found(Identifier(read, name))
  IN /\ call[c].pc = "idle"
     /\ \E r \in found :
          /\ Go(c, [Idle EXCEPT !.pc = "sign", !.rec = r, !.mark = read.mark])
          /\ disturbed' = IF \E d \in Calls : call[d].rec = r
                          THEN disturbed \cup {r} ELSE disturbed
     /\ UNCHANGED <<row, assets, answer>>

\* Nothing is found, or the name is empty: main answers so.
EventIgnored(c, read, name) ==
  /\ call[c].pc = "idle"
  /\ name = NoId \/ Found(Identifier(read, name)) = {}
  /\ End(c, FALSE)
  /\ UNCHANGED <<row, assets, disturbed>>

\* process: URLs of the object and of its watermark are signed, and Mux makes
\* the asset ...
CreateAsset(c) ==
  LET n == Cardinality(DOMAIN assets) + 1
  IN /\ call[c].pc = "sign" /\ call[c].mark # None /\ n <= MaxAssets
     /\ assets' = [a \in 1 .. n |->
                     IF a = n THEN [rec |-> call[c].rec, mark |-> call[c].mark]
                     ELSE assets[a]]
     /\ Go(c, [call[c] EXCEPT !.pc = "save", !.asset = n])
     /\ UNCHANGED <<row, answer, disturbed>>

\* ... or there is no watermark to sign a URL for, the bucket is not the
\* expected one, or Mux refuses.
CreateFails(c) ==
  /\ call[c].pc = "sign"
  /\ Go(c, [call[c] EXCEPT !.pc = "fail"])
  /\ UNCHANGED <<row, assets, answer, disturbed>>

\* updateRecordingWithMuxData.  (A mutant keeps the playback id that is there.)
FirstPlayback(r, n) ==
  [r EXCEPT !.status = "completed", !.asset = n, !.play = IF @ = 0 THEN n ELSE @]
WithAsset(r, n) == [r EXCEPT !.status = "completed", !.asset = n, !.play = n]

SaveAsset(c) ==
  /\ call[c].pc = "save"
  /\ row' = [row EXCEPT ![call[c].rec] = WithAsset(@, call[c].asset)]
  /\ Go(c, [call[c] EXCEPT !.pc = "mark", !.ok = TRUE])
  /\ UNCHANGED <<assets, answer, disturbed>>

SaveFails(c) ==
  /\ call[c].pc = "save"
  /\ Go(c, [call[c] EXCEPT !.pc = "fail"])
  /\ UNCHANGED <<row, assets, answer, disturbed>>

\* markRecordingAsFailed; what goes wrong in it is logged.  (A mutant: the row
\* stays as it was.)
AsItWas(r) == r
AsFailed(r) == [r EXCEPT !.status = "failed"]

MarkFailed(c) ==
  /\ call[c].pc = "fail"
  /\ row' = [row EXCEPT ![call[c].rec] = AsFailed(@)]
  /\ Go(c, [call[c] EXCEPT !.pc = "mark"])
  /\ UNCHANGED <<assets, answer, disturbed>>

MarkFailedFails(c) ==
  /\ call[c].pc = "fail"
  /\ Go(c, [call[c] EXCEPT !.pc = "mark"])
  /\ Disturb(call[c].rec)
  /\ UNCHANGED <<row, assets, answer>>

\* main stores where the watermark is, however process ended, and answers what
\* process said; with no watermark there is nothing to store, which TypeORM
\* refuses.
StoreMark(c) ==
  /\ call[c].pc = "mark" /\ call[c].mark # None
  /\ row' = [row EXCEPT ![call[c].rec].mark = call[c].mark]
  /\ End(c, call[c].ok)
  /\ UNCHANGED <<assets, disturbed>>

StoreMarkFails(c) ==
  /\ call[c].pc = "mark"
  /\ IF call[c].mark # None THEN Disturb(call[c].rec) ELSE UNCHANGED disturbed
  /\ End(c, FALSE)
  /\ UNCHANGED <<row, assets>>

\* The invocation takes too long.
CutOff(c) ==
  /\ call[c].pc # "idle"
  /\ Disturb(call[c].rec)
  /\ Go(c, Idle)
  /\ UNCHANGED <<row, assets, answer>>

\* handleAssetReady: Mux has an asset ready.
AssetReady(n) ==
  /\ n \in DOMAIN assets
  /\ row' = [row EXCEPT ![assets[n].rec] =
               [@ EXCEPT !.status = "ready", !.asset = n, !.play = n]]
  /\ UNCHANGED <<assets, call, answer, disturbed>>

Next ==
  \/ \E c \in Calls :
       \/ \E tags \in Tags \cup {NoTags}, name \in Ids \cup {NoId} :
            Event(c, tags, name) \/ EventIgnored(c, tags, name)
       \/ CreateAsset(c) \/ CreateFails(c) \/ SaveAsset(c) \/ SaveFails(c)
       \/ MarkFailed(c) \/ MarkFailedFails(c) \/ StoreMark(c) \/ StoreMarkFails(c)
       \/ CutOff(c)
  \/ \E n \in 1 .. MaxAssets : AssetReady(n)

-----------------------------------------------------------------------------
(* Properties.                                                             *)

\* A recording plays the asset it names; and unless invocations for it
\* overlapped, or one was cut off or could not write, the watermark in the row of
\* a recording that the Lambda has completed is that of its asset: an invocation
\* that stored another one after it has failed, and the row says so.
AssetTold ==
  \A r \in Recs :
    /\ row[r].play = row[r].asset
    /\ (/\ row[r].status = "completed" /\ r \notin disturbed
        /\ \A c \in Calls : call[c].rec # r)
       => row[r].mark = assets[row[r].asset].mark

\* What it rests on: of a recording that is not disturbed one invocation is at
\* work; until it stores the watermark, the row has the one of its asset, and then
\* the row is completed only with the asset that was made with that watermark.
Making(c) == call[c].pc = "save" \/ (call[c].pc = "mark" /\ call[c].ok)

OneWatermark ==
  /\ \A c \in Calls : Making(c) =>
       /\ call[c].asset \in DOMAIN assets
       /\ assets[call[c].asset].mark = call[c].mark
  /\ \A r \in Recs \ disturbed :
       /\ \A c, d \in Calls : call[c].rec = r /\ call[d].rec = r => c = d
       /\ row[r].status = "completed" =>
            /\ row[r].asset \in DOMAIN assets
            /\ \A c \in Calls : call[c].rec = r /\ call[c].pc = "mark" =>
                 call[c].ok /\ row[r].asset = call[c].asset
            /\ (\A c \in Calls : call[c].rec = r => call[c].pc # "mark") =>
                 row[r].mark = assets[row[r].asset].mark
=============================================================================
