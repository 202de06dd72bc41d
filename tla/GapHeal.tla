------------------------------- MODULE GapHeal -------------------------------
(***************************************************************************)
(* The gap heal: every three hours, or when an admin asks, each server     *)
(* reads the recordings of two weeks, clears away what is left of those    *)
(* that have failed (files, what the row says of Mux, highlights that wait *)
(* for a clip), and then attaches files of highlights to the others.  It   *)
(* works through that list one recording after the other, while failed     *)
(* recordings are retried, stored late by the Pi, and become ready.  Of a  *)
(* recording one highlight is followed.                                    *)
(***************************************************************************)
EXTENDS Naturals, FiniteSets

CONSTANTS Recs, Servers

VARIABLES
  rec,      \* the rows; video is what s3Path and the columns of Mux name,
            \* upload what the metadata says is awaited
  bucket,   \* recordings with a file recordings/<id>_...
  clip,     \* the highlight: none, one that waits, or one with a clip
  heal,     \* the run of each server
  (* history: recordings that came back, or were retried, while a heal had *)
  (* still to clear them; recordings whose finished highlight was deleted  *)
  revived, lost

vars == <<rec, bucket, clip, heal, revived, lost>>

Row == [status : {"extracting", "failed", "ready"}, video : BOOLEAN, upload : BOOLEAN]
Heal == [pc : {"idle", "list", "clear", "find", "remove", "attach"},
         failed : SUBSET Recs,  \* those it has read as failed
         todo : SUBSET Recs,
         orphan : BOOLEAN,      \* the highlight it found waiting
         since : SUBSET Recs]   \* history: what changed after it was read
Idle == [pc |-> "idle", failed |-> {}, todo |-> {}, orphan |-> FALSE, since |-> {}]

TypeOK ==
  /\ rec \in [Recs -> Row]
  /\ bucket \subseteq Recs
  /\ clip \in [Recs -> {"none", "waiting", "made"}]
  /\ heal \in [Servers -> Heal]
  /\ \A c \in Servers : heal[c].pc \in {"clear", "find", "remove"} => heal[c].todo # {}
  /\ revived \subseteq Recs /\ lost \subseteq Recs

Init ==
  /\ rec = [r \in Recs |-> [status |-> "extracting", video |-> FALSE, upload |-> TRUE]]
  /\ bucket = {} /\ clip = [r \in Recs |-> "none"]
  /\ heal = [c \in Servers |-> Idle]
  /\ revived = {} /\ lost = {}

-----------------------------------------------------------------------------
Go(c, new) == heal' = [heal EXCEPT ![c] = new]
Clears(k) == k.pc \in {"list", "clear", "find", "remove"}
Clearing(c) == Clears(heal[c])
Latest(recs) == CHOOSE r \in recs : \A s \in recs : s <= r
At(c) == Latest(heal[c].todo)

Playable(row) == row.status = "ready" /\ row.video

\* (A mutant: whatever cannot be played.)
NotPlayable == {r \in Recs : ~Playable(rec[r])}
Failed == {r \in Recs : rec[r].status = "failed" /\ ~Playable(rec[r])}

\* One run at a time in a server; each server has its own.
Start(c) ==
  /\ heal[c].pc = "idle"
  /\ Go(c, [Idle EXCEPT !.pc = "list", !.failed = Failed, !.todo = Failed])
  /\ UNCHANGED <<rec, bucket, clip, revived, lost>>

\* cleanupFailedPartialExtract: a file that cannot be deleted is left.
DeleteFiles(c) ==
  /\ heal[c].pc = "list" /\ heal[c].todo # {}
  /\ bucket' \in {bucket, bucket \ {At(c)}}
  /\ Go(c, [heal[c] EXCEPT !.pc = "clear"])
  /\ UNCHANGED <<rec, clip, revived, lost>>

ClearRow(c) ==
  /\ heal[c].pc = "clear"
  /\ rec' = [rec EXCEPT ![At(c)].video = FALSE, ![At(c)].upload = FALSE]
  /\ Go(c, [heal[c] EXCEPT !.pc = "find"])
  /\ UNCHANGED <<bucket, clip, revived, lost>>

FindOrphans(c) ==
  /\ heal[c].pc = "find"
  /\ Go(c, [heal[c] EXCEPT !.pc = "remove", !.orphan = clip[At(c)] = "waiting"])
  /\ UNCHANGED <<rec, bucket, clip, revived, lost>>

\* The rows that were found are deleted by id, whatever they have become; one
\* that another server has found too is not there any more.
RemoveOrphans(c) ==
  LET r == At(c)
      gone == heal[c].orphan
      found(d) == heal[d].pc = "remove" /\ At(d) = r
  IN /\ heal[c].pc = "remove"
     /\ clip' = [clip EXCEPT ![r] = IF gone THEN "none" ELSE @]
     /\ lost' = IF gone /\ clip[r] = "made" THEN lost \cup {r} ELSE lost
     /\ heal' = [d \in Servers |->
                   IF d = c THEN [heal[c] EXCEPT !.pc = "list", !.todo = @ \ {r},
                                                 !.orphan = FALSE]
                   ELSE IF gone /\ found(d) THEN [heal[d] EXCEPT !.orphan = FALSE]
                   ELSE heal[d]]
     /\ UNCHANGED <<rec, bucket, revived>>

\* The others, as they were read: the files are listed once for all of them.
Others(c) ==
  /\ heal[c].pc = "list" /\ heal[c].todo = {}
  /\ Go(c, [heal[c] EXCEPT !.pc = "attach", !.todo = Recs \ heal[c].failed])
  /\ UNCHANGED <<rec, bucket, clip, revived, lost>>

\* What is attached is HighlightAttach's; a call that fails is passed over.
AttachNext(c) ==
  LET r == At(c)
  IN /\ heal[c].pc = "attach" /\ heal[c].todo # {}
     /\ \/ UNCHANGED clip
        \/ clip[r] = "none" /\ clip' = [clip EXCEPT ![r] = "made"]
     /\ Go(c, [heal[c] EXCEPT !.todo = @ \ {r}])
     /\ UNCHANGED <<rec, bucket, revived, lost>>

\* The run is over; or the bucket or the database fails, or the server restarts.
End(c) ==
  /\ heal[c].pc = "attach" /\ heal[c].todo = {}
  /\ Go(c, Idle)
  /\ UNCHANGED <<rec, bucket, clip, revived, lost>>

Fail(c) ==
  /\ heal[c].pc # "idle"
  /\ Go(c, Idle)
  /\ UNCHANGED <<rec, bucket, clip, revived, lost>>

-----------------------------------------------------------------------------
(* What goes on meanwhile (Extraction, ClipPipeline).                      *)

Changed(r) ==
  heal' = [c \in Servers |-> IF heal[c].pc = "idle" THEN heal[c]
                             ELSE [heal[c] EXCEPT !.since = @ \cup {r}]]
Revives(r) ==
  revived' = IF \E c \in Servers : Clearing(c) /\ r \in heal[c].todo
             THEN revived \cup {r} ELSE revived

\* retryFailedExtraction.
Retry(r) ==
  /\ rec[r].status = "failed"
  /\ rec' = [rec EXCEPT ![r] = [status |-> "extracting", video |-> FALSE, upload |-> TRUE]]
  /\ Changed(r) /\ Revives(r)
  /\ UNCHANGED <<bucket, clip, lost>>

\* The Pi stores the file, perhaps after the recording was given up.
Store(r) ==
  /\ rec[r].status # "ready"
  /\ bucket' = bucket \cup {r}
  /\ UNCHANGED <<rec, clip, heal, revived, lost>>

\* Mux has been given the video, by the Pi or from the bucket: a late callback
\* takes a failed recording up again.
Ingest(r) ==
  /\ rec[r].status # "ready" /\ ~rec[r].video
  /\ r \in bucket \/ (rec[r].status = "extracting" /\ rec[r].upload)
  /\ rec' = [rec EXCEPT ![r].status = "extracting", ![r].video = TRUE]
  /\ Changed(r)
  /\ IF rec[r].status = "failed" THEN Revives(r) ELSE UNCHANGED revived
  /\ UNCHANGED <<bucket, clip, lost>>

\* Mux's ready event, whatever the row said.
Ready(r) ==
  /\ rec[r].status # "ready" /\ rec[r].video
  /\ rec' = [rec EXCEPT ![r].status = "ready"]
  /\ Changed(r)
  /\ IF rec[r].status = "failed" THEN Revives(r) ELSE UNCHANGED revived
  /\ UNCHANGED <<bucket, clip, lost>>

GiveUp(r) ==
  /\ rec[r].status = "extracting"
  /\ rec' = [rec EXCEPT ![r].status = "failed"]
  /\ Changed(r)
  /\ UNCHANGED <<bucket, clip, revived, lost>>

Press(r) ==
  /\ clip[r] = "none"
  /\ clip' = [clip EXCEPT ![r] = "waiting"]
  /\ Changed(r)
  /\ UNCHANGED <<rec, bucket, revived, lost>>

Make(r) ==
  /\ clip[r] = "waiting" /\ Playable(rec[r])
  /\ clip' = [clip EXCEPT ![r] = "made"]
  /\ UNCHANGED <<rec, bucket, heal, revived, lost>>

Next ==
  \/ \E c \in Servers :
       \/ Start(c) \/ DeleteFiles(c) \/ ClearRow(c) \/ FindOrphans(c)
       \/ RemoveOrphans(c) \/ Others(c) \/ AttachNext(c) \/ End(c) \/ Fail(c)
  \/ \E r \in Recs :
       \/ Retry(r) \/ Store(r) \/ Ingest(r) \/ Ready(r) \/ GiveUp(r)
       \/ Press(r) \/ Make(r)

-----------------------------------------------------------------------------
\* What a heal has read as failed, and nobody has touched since, is cleared when
\* it is done with it.
Spares(k) ==
  k.pc # "idle" =>
    \A r \in k.failed \ k.since :
      (Clears(k) => r \notin k.todo) =>
        ~rec[r].video /\ ~rec[r].upload /\ clip[r] # "waiting"

\* Unless a recording came back while a heal that had read it as failed had
\* still to clear it: one that is ready can be watched, one that is extracted
\* keeps the upload it waits for, and no finished highlight is deleted.  And
\* what a heal has cleared, and nobody has touched since it was read, names no
\* video and no upload and has no highlight that would wait for ever.
HealSpares ==
  /\ lost \subseteq revived
  /\ \A r \in Recs \ revived :
       /\ rec[r].status = "ready" => rec[r].video
       /\ rec[r].status = "extracting" => rec[r].upload \/ rec[r].video
  /\ \A c \in Servers : Spares(heal[c])

\* What it rests on: a recording that a heal has still to clear has failed; the
\* highlight it found there waits, or was made of a recording that came back; and
\* what it has cleared of the one it is at stays cleared.
FailedStill(k) ==
  LET at == Latest(k.todo) IN
  Clears(k) =>
    /\ k.todo \subseteq k.failed
    /\ \A r \in k.todo \ revived : rec[r].status = "failed"
    /\ k.pc \in {"find", "remove"} /\ at \notin k.since =>
         ~rec[at].video /\ ~rec[at].upload
    /\ k.pc = "remove" =>
         /\ k.orphan => clip[at] = "waiting" \/ (clip[at] = "made" /\ at \in revived)
         /\ at \notin k.since /\ clip[at] = "waiting" => k.orphan
HealsFailed == \A c \in Servers : FailedStill(heal[c])
=============================================================================
