----------------------------- MODULE ClipExport -----------------------------
(***************************************************************************)
(* What leaves the system as a highlight: the MP4 that is exported and the *)
(* stream that is played.  An export reads the row once and then talks to  *)
(* Mux, or to the converter Lambda, for as long as that takes; meanwhile   *)
(* the clip becomes ready, is lost at Mux and cut again, and readers heal  *)
(* the row from what Mux said of the clip they had read.  One highlight.   *)
(***************************************************************************)
EXTENDS Naturals, FiniteSets

CONSTANTS
  Clips,      \* bound: clips of the highlight that Mux may ever have
  Old,        \* the one cut before MP4s were asked for at once
  Calls,      \* slots for requests in progress
  None,
  Uploads,    \* bound: files the converter may store
  Strategies  \* HIGHLIGHT_MP4_EXPORT_STRATEGY, or the constant that overrides it

VARIABLES
  row,        \* recording_highlights: the row
  strategy,   \* of MP4 exports
  paid,       \* somebody has a completed payment for the recording
  clip, mp4,  \* Mux: each clip, and the static rendition of it
  bucket,     \* the files in S3
  call,
  overwritten \* history: a heal wrote over a clip it had not asked about

vars == <<row, strategy, paid, clip, mp4, bucket, call, overwritten>>

Stored == "stored"      \* the file of a row that came from the Pi's bucket
Odd == "odd"            \* a path that is no .mp4
Files == Uploads \cup {Stored, Odd}
Row == [asset : Clips \cup {None}, playback : Clips \cup {None},
        path : Files \cup {None},
        status : {"pending", "clip_created", "ready", "failed"}]
Pressed == [asset |-> None, playback |-> None, path |-> None, status |-> "pending"]
FromBucket(f) == [Pressed EXCEPT !.path = f, !.status = "ready"]
OldClip == [asset |-> Old, playback |-> Old, path |-> None, status |-> "ready"]

Url == [kind : {"mp4", "file", "stream"}, of : Clips \cup Files]
Call == [pc : {"idle", "start", "asset", "request", "again", "sign", "convert",
               "keep", "play", "heal", "answered"},
         read : Row, file : Uploads \cup {None}, url : Url \cup {None},
         gone : SUBSET Clips]
Idle == [pc |-> "idle", read |-> Pressed, file |-> None, url |-> None,
         gone |-> {}]

TypeOK ==
  /\ row \in Row
  /\ strategy \in Strategies
  /\ paid \in BOOLEAN /\ overwritten \in BOOLEAN
  /\ clip \in [Clips -> {"none", "preparing", "ready", "gone"}]
  /\ mp4 \in [Clips -> {"none", "preparing", "ready", "errored", "skipped"}]
  /\ bucket \subseteq Files
  /\ call \in [Calls -> Call]

Init ==
  /\ row \in {Pressed, FromBucket(Stored), FromBucket(Odd), OldClip}
  /\ strategy \in Strategies
  /\ paid \in BOOLEAN /\ overwritten = FALSE
  /\ clip = [m \in Clips |-> IF row.asset = m THEN "ready" ELSE "none"]
  /\ mp4 = [m \in Clips |-> "none"]
  /\ bucket = {row.path} \ {None}
  /\ call = [c \in Calls |-> Idle]

-----------------------------------------------------------------------------
Go(c, new) == call' = [call EXCEPT ![c] = new]
At(c, pc) == [call[c] EXCEPT !.pc = pc]
Answer(c, kind, of) ==
  Go(c, [Idle EXCEPT !.pc = "answered", !.url = [kind |-> kind, of |-> of],
                     !.gone = call[c].gone])
Quiet == UNCHANGED <<row, strategy, paid, clip, mp4, bucket, overwritten>>

\* A request reads the row.  (The clips that are lost by now are noted.)
Begin(c, pc) ==
  /\ call[c].pc \in {"idle", "answered"}
  /\ Go(c, [Idle EXCEPT !.pc = pc, !.read = row,
                        !.gone = IF pc = "start" THEN {m \in Clips : clip[m] = "gone"}
                                 ELSE {}])
  /\ Quiet

\* isProgressiveMp4ExportUrl (and coerceHighlightShareProcessResult): a file
\* to download, not a playlist.
Progressive(f) == f # Odd

\* processHighlight: the unlock, then a file that is stored already, then what
\* the strategy says.
Export(c) ==
  LET r == call[c].read IN
  /\ call[c].pc = "start"
  /\ CASE ~paid -> Go(c, Idle)
       [] paid /\ r.path # None ->
            IF Progressive(r.path) THEN Answer(c, "file", r.path) ELSE Go(c, Idle)
       [] OTHER -> Go(c, At(c, IF strategy = "lambda" THEN "convert" ELSE "asset"))
  /\ Quiet

\* tryMuxStaticMp4SignedUrl says "err": the export ends there, or the converter
\* is tried.
NoMp4(c) ==
  Go(c, IF strategy = "mux_static" THEN Idle ELSE At(c, "convert"))

\* resolveFromRenditions: the files of the asset, or the state of its bucket
\* when it lists none yet.  (The mutant: a file that is listed is taken for ready.)
ListedIsReady(s) ==
  CASE s \in {"ready", "preparing"} -> "ready"
    [] s = "errored" -> "dead"
    [] OTHER -> "need_request"
Decision(s) ==
  CASE s = "ready" -> "ready"
    [] s = "preparing" -> "preparing"
    [] s = "errored" -> "dead"
    [] OTHER -> "need_request"

\* The asset is read; its playback id is the row's.
ReadAsset(c) ==
  LET r == call[c].read
      d == Decision(mp4[r.asset])
  IN /\ call[c].pc = "asset"
     /\ \/ NoMp4(c)   \* no clip, or Mux does not answer
        \/ /\ None \notin {r.asset, r.playback} /\ clip[r.asset] # "gone"
           /\ CASE d = "ready" -> Go(c, At(c, "sign"))
                [] d = "need_request" -> Go(c, At(c, "request"))
                [] OTHER -> NoMp4(c)
     /\ Quiet

\* requestMuxHighestStaticRendition: one that is defined already counts as
\* accepted; a clip may also be refused.
Request(c) ==
  LET a == call[c].read.asset IN
  /\ call[c].pc = "request"
  /\ \/ NoMp4(c) /\ UNCHANGED mp4
     \/ /\ clip[a] # "gone"
        /\ mp4' = [mp4 EXCEPT ![a] = IF @ = "none" THEN "preparing" ELSE @]
        /\ Go(c, At(c, "again"))
  /\ UNCHANGED <<row, strategy, paid, clip, bucket, overwritten>>

\* The asset is read again: only a file that is ready by then is exported.
ReadAgain(c) ==
  LET a == call[c].read.asset IN
  /\ call[c].pc = "again"
  /\ \/ NoMp4(c)
     \/ clip[a] # "gone" /\ Decision(mp4[a]) = "ready" /\ Go(c, At(c, "sign"))
  /\ Quiet

\* The URL of the file, signed when there is a key.
Sign(c) ==
  /\ call[c].pc = "sign"
  /\ Answer(c, "mp4", call[c].read.playback)
  /\ Quiet

\* The converter: ffmpeg over HTTPS, or else over a copy of the playlist, then
\* the upload under a name of its own.
Convert(c) ==
  LET p == call[c].read.playback IN
  /\ call[c].pc = "convert" /\ p # None /\ clip[p] = "ready"
  /\ \E f \in Uploads \ bucket :
       /\ bucket' = bucket \cup {f}
       /\ Go(c, [At(c, "keep") EXCEPT !.file = f])
  /\ UNCHANGED <<row, strategy, paid, clip, mp4, overwritten>>

\* The highlight is given the path of its file, whatever it has now.
Keep(c) ==
  /\ call[c].pc = "keep"
  /\ row' = [row EXCEPT !.path = call[c].file]
  /\ Answer(c, "file", call[c].file)
  /\ UNCHANGED <<strategy, paid, clip, mp4, bucket, overwritten>>

\* The converter raises an error, its answer is lost, or the process stops.
ExportFails(c) ==
  /\ call[c].pc \in {"convert", "keep", "sign", "start"}
  /\ Go(c, Idle)
  /\ Quiet

-----------------------------------------------------------------------------
(* Reading a highlight to play it.                                         *)

\* syncHighlightClipFromMux asks about a clip that is not known to be ready.
NeedsHeal(r) == r.asset # None /\ ~(r.status = "ready" /\ r.playback # None)

AskMux(c) ==
  LET r == call[c].read IN
  /\ call[c].pc = "play" /\ NeedsHeal(r) /\ clip[r.asset] = "ready"
  /\ Go(c, At(c, "heal"))
  /\ Quiet

\* The row is updated by id, whichever clip it has by now.
Heal(c) ==
  LET m == call[c].read.asset IN
  /\ call[c].pc = "heal"
  /\ row' = [row EXCEPT !.status = "ready", !.playback = m]
  /\ overwritten' = (overwritten \/ row.asset # m)
  /\ Go(c, [At(c, "play") EXCEPT !.read.status = "ready", !.read.playback = m])
  /\ UNCHANGED <<strategy, paid, clip, mp4, bucket>>

\* resolveHighlightStreamUrl: Mux before S3.
Play(c) ==
  LET r == call[c].read IN
  /\ call[c].pc = "play"
  /\ CASE r.status = "failed" \/ (r.playback = None /\ r.path = None) -> Go(c, Idle)
       [] r.status # "failed" /\ r.playback # None -> Answer(c, "stream", r.playback)
       [] OTHER -> Answer(c, "stream", r.path)
  /\ Quiet

-----------------------------------------------------------------------------
(* The consumers and Mux.                                                   *)

\* A consumer posts a clip, with its MP4, and records it.
Cut(m) ==
  /\ row.asset = None /\ row.path \notin {Stored, Odd}
  /\ clip[m] = "none"
  /\ clip' = [clip EXCEPT ![m] = "preparing"]
  /\ mp4' = [mp4 EXCEPT ![m] = "preparing"]
  /\ row' = [row EXCEPT !.asset = m, !.playback = m, !.status = "clip_created"]
  /\ UNCHANGED <<strategy, paid, bucket, call, overwritten>>

\* A consumer finds that Mux has lost the clip.
Reset ==
  /\ row.asset # None /\ clip[row.asset] = "gone"
  /\ row' = [row EXCEPT !.asset = None, !.playback = None, !.status = "failed"]
  /\ UNCHANGED <<strategy, paid, clip, mp4, bucket, call, overwritten>>

ClipReady(m) ==
  /\ clip[m] = "preparing"
  /\ clip' = [clip EXCEPT ![m] = "ready"]
  /\ UNCHANGED <<row, strategy, paid, mp4, bucket, call, overwritten>>

ClipGone(m) ==
  /\ clip[m] \in {"preparing", "ready"}
  /\ clip' = [clip EXCEPT ![m] = "gone"]
  /\ mp4' = [mp4 EXCEPT ![m] = "none"]
  /\ UNCHANGED <<row, strategy, paid, bucket, call, overwritten>>

Mp4Moves(m) ==
  /\ mp4[m] = "preparing" /\ clip[m] = "ready"
  /\ \E s \in {"ready", "errored", "skipped"} : mp4' = [mp4 EXCEPT ![m] = s]
  /\ UNCHANGED <<row, strategy, paid, clip, bucket, call, overwritten>>

\* Mux's ready event: the row of the clip, if there is one.
ReadyEvent(m) ==
  /\ clip[m] = "ready" /\ row.asset = m /\ row.status # "ready"
  /\ row' = [row EXCEPT !.status = "ready", !.playback = m]
  /\ UNCHANGED <<strategy, paid, clip, mp4, bucket, call, overwritten>>

CallStep(c) ==
  \/ Begin(c, "start") \/ Begin(c, "play")
  \/ Export(c) \/ ReadAsset(c) \/ Request(c) \/ ReadAgain(c) \/ Sign(c)
  \/ Convert(c) \/ Keep(c) \/ ExportFails(c) \/ AskMux(c) \/ Heal(c) \/ Play(c)

Next ==
  \/ Reset
  \/ \E m \in Clips : \/ Cut(m) \/ ClipReady(m) \/ ClipGone(m) \/ Mp4Moves(m)
                      \/ ReadyEvent(m)
  \/ \E c \in Calls : CallStep(c)

-----------------------------------------------------------------------------
(* Properties.                                                             *)

\* What is answered to an export.
Serves(k) ==
  (k.url # None /\ k.url.kind # "stream") =>
    /\ paid
    /\ k.url.kind = "file" => k.url.of \in bucket
    /\ k.url.kind = "mp4" =>
         \/ overwritten
         \/ /\ k.url.of \notin k.gone
            /\ clip[k.url.of] = "gone" \/ mp4[k.url.of] = "ready"

\* An export that succeeds gives a file that is there to be downloaded: one in
\* the bucket, or the finished MP4 of a clip that Mux still had when the
\* export began; unless a heal had written over a newer clip.  And nothing is
\* exported before somebody has paid.
ExportServes == \A c \in Calls : Serves(call[c])

\* What it rests on.  A row, also as a request has read it, names a clip that
\* Mux was asked for and a file that was stored, and plays the clip it names,
\* but for what a heal has written over.
Known(r) ==
  /\ r.asset # None => clip[r.asset] # "none"
  /\ r.path # None => r.path \in bucket
  /\ r.playback = r.asset \/ overwritten

\* An export that is past the unlock was paid for; one that has found the clip
\* at Mux found it there after it began; and the file it is about to sign or to
\* keep is there, unless the clip is lost by now.
OnCourse(k) ==
  /\ Known(k.read)
  /\ k.pc \in {"asset", "request", "again", "sign", "convert", "keep"} => paid
  /\ k.pc = "keep" => k.file \in bucket
  /\ k.pc \in {"request", "again", "sign"} =>
       /\ None \notin {k.read.asset, k.read.playback}
       /\ k.read.asset \notin k.gone
  /\ k.pc = "sign" => clip[k.read.asset] = "gone" \/ mp4[k.read.asset] = "ready"
  /\ \A m \in k.gone : clip[m] = "gone"
  /\ k.url # None /\ k.url.kind = "mp4" => k.url.of \in Clips
  /\ Serves(k)

ExportsOnCourse ==
  /\ Known(row)
  /\ \A m \in Clips : mp4[m] # "none" => clip[m] # "none"
  /\ \A c \in Calls : OnCourse(call[c])
=============================================================================
