----------------------------- MODULE MatchRows ------------------------------
(***************************************************************************)
(* The administrators' ledger of extractions: one row for each match, made *)
(* of the recordings of its channels and of their highlights.  The list    *)
(* first asks Mux about what is not yet playable and mends the rows, while *)
(* extractions and clips go on.                                            *)
(***************************************************************************)
EXTENDS Naturals, FiniteSets, FiniteSetsExt

CONSTANTS
  Recs,      \* the recordings, numbered by their channel
  Clips,     \* their highlights
  Match,     \* the match of each recording: its session key, or court and time
  ClipOf,    \* the recording of each highlight
  None

VARIABLES
  rec,       \* the recordings' rows
  mux,       \* what has come of each recording's asset at Mux
  clip,      \* the highlights' rows
  list,      \* the listing in progress: what it read, and has mended
  told       \* the rows it has just given

vars == <<rec, mux, clip, list, told>>

Rec == [status : {"extracting", "uploaded", "ready", "failed"}, s3 : BOOLEAN, play : BOOLEAN]
Clip == [status : {"queued", "clip_created", "ready", "failed"}, asset : BOOLEAN]
Muxes == {"none", "preparing", "ready", "errored"}
NoList == [on |-> FALSE, rec |-> None, asset |-> {}, clip |-> None, recs |-> {}, clips |-> {}]

Counts == [total : Nat, ready : Nat, processing : Nat, pending : Nat, failed : Nat, without : Nat]
Row == [recs : SUBSET Recs, status : {"extracting", "uploaded", "ready", "failed"},
        hl : Counts, summary : {"none", "ready", "processing", "pending", "partial", "failed"},
        seen : [Recs -> Rec], healed : [Clips -> Clip]]

TypeOK ==
  /\ rec \in [Recs -> Rec] /\ mux \in [Recs -> Muxes]
  /\ clip \in [Clips -> Clip]
  /\ list = NoList \/ /\ list.rec \in [Recs -> Rec] /\ list.clip \in [Clips -> Clip]
                      /\ list.recs \subseteq Recs /\ list.clips \subseteq Clips
  /\ told \subseteq Row

Init ==
  /\ rec = [r \in Recs |-> [status |-> "extracting", s3 |-> FALSE, play |-> FALSE]]
  /\ mux = [r \in Recs |-> "none"]
  /\ clip = [h \in Clips |-> [status |-> "queued", asset |-> FALSE]]
  /\ list = NoList /\ told = {}

-----------------------------------------------------------------------------
(* What goes on meanwhile: the extraction (Extraction) and the clips       *)
(* (ClipPipeline), as far as the list can tell.                            *)

Outside == UNCHANGED list /\ told' = {}

\* The video is in S3, and can be played from there, or Mux has it.
Store(r) ==
  /\ rec[r].status = "extracting"
  /\ rec' = [rec EXCEPT ![r].status = "ready", ![r].s3 = TRUE]
  /\ UNCHANGED <<mux, clip>> /\ Outside
Ingest(r) ==
  /\ mux[r] = "none"
  /\ mux' = [mux EXCEPT ![r] = "preparing"]
  /\ rec' = [rec EXCEPT ![r].status = IF @ = "extracting" THEN "uploaded" ELSE @]
  /\ UNCHANGED clip /\ Outside
Encode(r) ==
  /\ mux[r] = "preparing"
  /\ \E m \in {"ready", "errored"} : mux' = [mux EXCEPT ![r] = m]
  /\ UNCHANGED <<rec, clip>> /\ Outside
Event(r) ==
  /\ mux[r] \in {"ready", "errored"} /\ ~rec[r].play
  /\ rec' = [rec EXCEPT ![r] =
               IF mux[r] = "ready" THEN [@ EXCEPT !.status = "ready", !.play = TRUE]
               ELSE [@ EXCEPT !.status = "failed"]]
  /\ UNCHANGED <<mux, clip>> /\ Outside
Fail(r) ==
  /\ rec[r].status = "extracting"
  /\ rec' = [rec EXCEPT ![r].status = "failed"]
  /\ UNCHANGED <<mux, clip>> /\ Outside

CutClip(h) ==
  /\ clip[h].status = "queued"
  /\ clip' = [clip EXCEPT ![h] = [status |-> "clip_created", asset |-> TRUE]]
  /\ UNCHANGED <<rec, mux>> /\ Outside
FailClip(h) ==
  /\ clip[h].status \in {"queued", "clip_created"}
  /\ clip' = [clip EXCEPT ![h].status = "failed"]
  /\ UNCHANGED <<rec, mux>> /\ Outside

-----------------------------------------------------------------------------
(* listExtractionRequests of a date.                                       *)

\* isRecordingMuxPlayable.  ("completed" does as well as "ready".)
MuxPlayable(r) == r.status = "ready" /\ r.play

Read ==
  /\ ~list.on
  /\ list' = [on |-> TRUE, rec |-> rec, clip |-> clip,
              asset |-> {r \in Recs : mux[r] # "none"},
              recs |-> {r \in Recs : mux[r] # "none" /\ ~MuxPlayable(rec[r])},
              clips |-> {h \in Clips : clip[h].asset /\ clip[h].status # "ready"}]
  /\ told' = {} /\ UNCHANGED <<rec, mux, clip>>

\* syncMuxReadyStatus of a recording: the status it answers replaces the one
\* that was read, and so does the playback id where there is one.
Synced(r) ==
  IF rec[r].s3 /\ rec[r].status # "failed" THEN [rec[r] EXCEPT !.status = "ready"]
  ELSE IF mux[r] = "ready" THEN [rec[r] EXCEPT !.status = "ready", !.play = TRUE]
  ELSE rec[r]

SyncRec(r) ==
  /\ list.on /\ r \in list.recs
  /\ rec' = [rec EXCEPT ![r] = Synced(r)]
  /\ list' = [list EXCEPT !.recs = @ \ {r},
                          !.rec[r] = [@ EXCEPT !.status = Synced(r).status,
                                               !.play = @ \/ Synced(r).play]]
  /\ told' = {} /\ UNCHANGED <<mux, clip>>

\* syncHighlightClipFromMux of a highlight, after the recordings: Mux may have
\* finished its asset.
HealClip(h) ==
  /\ list.on /\ list.recs = {} /\ h \in list.clips
  /\ \/ /\ clip' = [clip EXCEPT ![h].status = "ready"]
        /\ list' = [list EXCEPT !.clips = @ \ {h}, !.clip[h].status = "ready"]
     \/ /\ list' = [list EXCEPT !.clips = @ \ {h}]
        /\ UNCHANGED clip
  /\ told' = {} /\ UNCHANGED <<rec, mux>>

-----------------------------------------------------------------------------
(* The rows.                                                               *)

\* A channel: what is said of it.
Status(r) == IF list.rec[r].s3 THEN "ready" ELSE list.rec[r].status
HasMux(r) == Status(r) = "ready" /\ list.rec[r].play
HasS3(r) == list.rec[r].s3
Processing(r) == r \in list.asset /\ ~HasMux(r) /\ Status(r) # "failed"

Rank(s) == CASE s = "ready" -> 100 [] s = "uploaded" -> 50 [] s = "extracting" -> 40 [] s = "failed" -> 10
\* (The mutant keeps the worst.)
PickWorst(S) == CHOOSE s \in S : \A t \in S : Rank(s) <= Rank(t)
PickBest(S) == CHOOSE s \in S : \A t \in S : Rank(s) >= Rank(t)

\* A match: what is said of all its channels.
MatchStatus(rs) ==
  CASE \A r \in rs : HasMux(r) \/ HasS3(r) -> "ready"
    [] \E r \in rs : Status(r) = "extracting" \/ (Processing(r) /\ ~HasS3(r)) -> "extracting"
    [] OTHER -> PickBest({Status(r) : r \in rs})

\* buildHighlightMuxSummary counts the highlights of a recording ...
OfStatus(hs, states) == {h \in hs : list.clip[h].status \in states}
Count(hs) ==
  LET bare == {h \in OfStatus(hs, {"queued", "clip_created"}) : ~list.clip[h].asset}
  IN [total |-> Cardinality(hs),
      ready |-> Cardinality(OfStatus(hs, {"ready"})),
      processing |-> Cardinality(OfStatus(hs, {"clip_created", "queued"}) \ bare),
      pending |-> Cardinality(bare),
      failed |-> Cardinality(OfStatus(hs, {"failed"})),
      without |-> Cardinality(bare)]

\* ... and the ledger adds the counts of the channels, and says for the sum what
\* the summary says for one recording.
Sum2(a, b) == [f \in DOMAIN a |-> a[f] + b[f]]
NoClips == [total |-> 0, ready |-> 0, processing |-> 0, pending |-> 0, failed |-> 0, without |-> 0]
Merged(rs) ==
  FoldSet(LAMBDA r, sum : Sum2(Count({h \in Clips : ClipOf[h] = r}), sum), NoClips, rs)
Summary(n) ==
  CASE n.total = 0 -> "none"
    [] n.failed = n.total -> "failed"
    [] n.ready = n.total - n.failed -> "ready"
    [] n.ready > 0 /\ n.ready # n.total - n.failed -> "partial"
    [] n.ready = 0 /\ n.processing > 0 -> "processing"
    [] OTHER -> "pending"

Matches == {Match[r] : r \in Recs}
MatchRow(m) ==
  LET rs == {r \in Recs : Match[r] = m}
  IN [recs |-> rs, status |-> MatchStatus(rs), hl |-> Merged(rs), summary |-> Summary(Merged(rs)),
      seen |-> list.rec, healed |-> list.clip]

Tell ==
  /\ list.on /\ list.recs = {} /\ list.clips = {}
  /\ told' = {MatchRow(m) : m \in Matches}
  /\ list' = NoList
  /\ UNCHANGED <<rec, mux, clip>>

Next ==
  \/ \E r \in Recs : Store(r) \/ Ingest(r) \/ Encode(r) \/ Event(r) \/ Fail(r) \/ SyncRec(r)
  \/ \E h \in Clips : CutClip(h) \/ FailClip(h) \/ HealClip(h)
  \/ Read \/ Tell

-----------------------------------------------------------------------------
(* Properties.                                                             *)

\* Bound: what is told of the recordings has nothing to do with what is told of
\* their highlights: the ones or the others are followed.
Apart ==
  \/ \A r \in Recs : rec[r].status = "extracting" /\ mux[r] = "none"
  \/ \A h \in Clips : clip[h].status = "queued"

Watchable(r) == rec[r].s3 \/ mux[r] = "ready"
Finished(h, row) == row.healed[h].status = "ready"

\* What the ledger says of a match, whatever went on while it was asked: a match
\* that is ready can be watched on every channel that has not failed, and on
\* one; one that has failed had nothing to watch; and its highlights are ready
\* when those that have not failed are, and there is one.
MatchTold ==
  \A row \in told :
    LET hs == {h \in Clips : ClipOf[h] \in row.recs}
    IN /\ row.status = "ready" =>
            /\ \A r \in row.recs : Watchable(r) \/ row.seen[r].status = "failed"
            /\ \E r \in row.recs : Watchable(r)
       /\ row.status = "failed" => \A r \in row.recs : ~row.seen[r].s3 /\ ~row.seen[r].play
       /\ row.summary = "ready" <=>
            /\ \E h \in hs : Finished(h, row)
            /\ \A h \in hs : Finished(h, row) \/ row.healed[h].status = "failed"
=============================================================================
