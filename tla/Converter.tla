------------------------------ MODULE Converter ------------------------------
(***************************************************************************)
(* The Lambda that makes an MP4 of an HLS playlist: ffmpeg reads the       *)
(* playlist over HTTPS, or, when that crashes, one whose keys and segments *)
(* were fetched into a directory of /tmp and whose lines were rewritten to *)
(* name the files.  The result goes into the bucket.  A container serves   *)
(* one event after another, and keeps its /tmp.                            *)
(***************************************************************************)
EXTENDS Naturals, Sequences, FiniteSets, SequencesExt

CONSTANTS
  MaxLines,     \* bound: lines of a media playlist
  MaxFailed,    \* bound: localizations of one container that fail
  None

VARIABLES
  phase,     \* of the invocation in progress
  list,      \* the playlist it was given; once resolved, the media playlist
  work,      \* the localization in progress
  output,    \* the MP4 in /tmp
  left,      \* how many directories of localizations are in /tmp
  object,    \* what this invocation has put into the bucket
  answer,    \* of the last invocation: None, or whether it succeeded
  asked,     \* history: the playlist that was asked for
  failed     \* history: localizations that failed in this container

vars == <<phase, list, work, output, left, object, answer, asked, failed>>

\* A line of a media playlist: a key that holds from here on, or none; a
\* segment; or the initialization section, with the URI it names.
Lines == [is : {"key"}, uri : {"k"}] \cup [is : {"seg"}, uri : {"a", "b"}]
         \cup [is : {"nokey", "map"}, uri : {"i"}]
Media == [master : {FALSE}, lines : BoundedSeq(Lines, MaxLines)]

\* A variant of a master playlist: its bandwidth (0 where none is said) and the
\* media playlist, or None where a comment follows.
Variants == [bandwidth : 0 .. 2, uri : {"a", "b", None}]
Masters == [master : {TRUE}, lines : BoundedSeq(Variants, 2) \ {<<>>}]
MediaOf(uri) == [master |-> FALSE, lines |-> <<[is |-> "seg", uri |-> uri]>>]

NoWork == [made |-> 0, pos |-> 0, seq |-> 0, out |-> <<>>, dir |-> <<>>]

\* A file, or an object: nothing, part of a video, or a video, whose segments
\* each have a key and an initialization section or not.
Nothing == [is |-> "nothing", plays |-> <<>>]
Part == [is |-> "part", plays |-> <<>>]
Video(plays) == [is |-> "video", plays |-> plays]

TypeOK ==
  /\ phase \in {"idle", "direct", "resolve", "fetch", "local", "upload"}
  /\ list \in Media \cup Masters /\ asked \in Media \cup Masters
  /\ work.pos \in 0 .. MaxLines /\ work.seq \in 0 .. MaxLines /\ Len(work.out) = work.pos
  /\ output.is \in {"nothing", "part", "video"} /\ object.is \in {"nothing", "video"}
  /\ left \in 0 .. MaxFailed + 1 /\ failed \in 0 .. MaxFailed
  /\ answer \in BOOLEAN \cup {None}

NoList == [master |-> FALSE, lines |-> <<>>]
Init ==
  /\ phase = "idle" /\ list = NoList /\ work = NoWork
  /\ output = Nothing /\ left = 0 /\ failed = 0
  /\ object = Nothing /\ answer = None /\ asked = NoList

-----------------------------------------------------------------------------
(* What a media playlist plays: its segments, each with the key and the    *)
(* initialization section that hold.                                       *)

Plays(lines) ==
  LET Held(i, kinds) == LET before == {j \in 1 .. i : lines[j].is \in kinds}
                        IN IF before = {} THEN <<"nokey", None>>
                           ELSE LET j == CHOOSE j \in before : \A k \in before : k <= j
                                IN <<lines[j].is, lines[j].uri>>
      segs == SetToSortSeq({i \in DOMAIN lines : lines[i].is = "seg"}, <)
  IN [n \in DOMAIN segs |->
        [seg |-> lines[segs[n]].uri, key |-> Held(segs[n], {"key", "nokey"}),
         section |-> Held(segs[n], {"map"})]]

\* resolveMediaPlaylist: the first variant of the highest bandwidth.  (The
\* mutant takes the last of all.)
Usable(m) == {i \in DOMAIN m.lines : m.lines[i].uri # None}
LatestOf(m) == CHOOSE i \in Usable(m) : \A j \in Usable(m) : j <= i
BestOf(m) ==
  CHOOSE i \in Usable(m) :
    \A j \in Usable(m) : /\ m.lines[j].bandwidth <= m.lines[i].bandwidth
                         /\ j < i => m.lines[j].bandwidth < m.lines[i].bandwidth

Playable(m) == m.master => Usable(m) # {}

-----------------------------------------------------------------------------
\* handle and processConversion: the event lacks a field, or ffmpeg is not there;
\* ...
Refuse ==
  /\ phase = "idle" /\ answer = None
  /\ answer' = FALSE /\ object' = Nothing
  /\ UNCHANGED <<phase, list, work, output, left, asked, failed>>

\* ... or all is there.
Invoke(m, forceLocalize) ==
  /\ phase = "idle" /\ answer = None
  /\ phase' = IF forceLocalize THEN "resolve" ELSE "direct"
  /\ list' = m /\ asked' = m
  /\ answer' = None /\ object' = Nothing /\ work' = NoWork
  /\ UNCHANGED <<output, left, failed>>

\* The invocation ends, and what it knows of in /tmp is removed.
End(ok) ==
  /\ answer' = ok /\ phase' = "idle"
  /\ output' = Nothing /\ left' = left - work.made
  /\ UNCHANGED <<list, work, asked, failed>>

\* ffmpeg opens what the playlist names by URL: of a master, a variant of the
\* highest bandwidth.  It makes the video, or ends halfway.
DirectOpens(m) ==
  IF m.master
  THEN {MediaOf(m.lines[i].uri) : i \in {j \in Usable(m) :
          \A k \in Usable(m) : m.lines[k].bandwidth <= m.lines[j].bandwidth}}
  ELSE {m}

Direct ==
  /\ phase = "direct"
  /\ \/ /\ \E m \in DirectOpens(list) : output' = Video(Plays(m.lines))
        /\ phase' = "upload"
     \/ output' \in {Nothing, Part} /\ phase' = "resolve"
  /\ UNCHANGED <<list, work, left, object, answer, asked, failed>>

\* A directory is made, and the media playlist is fetched: ...
Resolve ==
  /\ phase = "resolve" /\ Playable(list)
  /\ phase' = "fetch" /\ left' = left + 1
  /\ work' = [work EXCEPT !.made = 1]
  /\ list' = IF list.master THEN MediaOf(list.lines[BestOf(list)].uri) ELSE list
  /\ UNCHANGED <<output, object, answer, asked, failed>>

\* ... then its lines, one by one.  A key and a segment go into a file of the
\* next number; every other line stays as it is.  (The mutant counts the keys
\* only.)
KeysOnly(l) == IF l.is = "key" THEN work.seq + 1 ELSE work.seq
Counted(l) == IF l.is \in {"key", "seg"} THEN work.seq + 1 ELSE work.seq

FetchLine ==
  LET l == list.lines[work.pos + 1]
      file == <<l.is, work.seq>>
      fetched == l.is \in {"key", "seg"}
  IN /\ phase = "fetch" /\ work.pos < Len(list.lines)
     /\ work' = [made |-> 1, pos |-> work.pos + 1, seq |-> Counted(l),
                 out |-> Append(work.out, IF fetched THEN [l EXCEPT !.uri = file] ELSE l),
                 dir |-> IF fetched
                         THEN [f \in DOMAIN work.dir \cup {file} |->
                                 IF f = file THEN l.uri ELSE work.dir[f]]
                         ELSE work.dir]
     /\ UNCHANGED <<phase, list, output, left, object, answer, asked, failed>>

\* The rewritten playlist is written into the directory.
Localized ==
  /\ phase = "fetch" /\ work.pos = Len(list.lines)
  /\ phase' = "local"
  /\ UNCHANGED <<list, work, output, left, object, answer, asked, failed>>

\* The master names no variant, or something cannot be fetched: the directory,
\* of which the handler is told with the result only, stays.
LocalizeFails ==
  /\ phase \in {"resolve", "fetch"} /\ failed < MaxFailed
  /\ failed' = failed + 1
  /\ left' = IF phase = "resolve" THEN left + 1 ELSE left
  /\ answer' = FALSE /\ phase' = "idle" /\ output' = Nothing
  /\ UNCHANGED <<list, work, object, asked>>

\* ffmpeg opens files only, and an initialization section is not one.
LocalOpens(lines) == \A i \in DOMAIN lines : lines[i].is # "map"
Files ==
  [i \in DOMAIN work.out |->
     IF work.out[i].is \in {"key", "seg"}
     THEN [work.out[i] EXCEPT !.uri = work.dir[@]] ELSE work.out[i]]

Local ==
  /\ phase = "local" /\ LocalOpens(work.out)
  /\ output' = Video(Plays(Files)) /\ phase' = "upload"
  /\ UNCHANGED <<list, work, left, object, answer, asked, failed>>

\* The directory is known now.
LocalFails ==
  /\ phase = "local"
  /\ End(FALSE) /\ UNCHANGED object

\* uploadFile: the object, and a URL for it.
Upload ==
  /\ phase = "upload"
  /\ object' = output
  /\ End(TRUE)

UploadFails ==
  /\ phase = "upload"
  /\ object' \in {object, output}
  /\ End(FALSE)

\* The answer is returned; of the invocation only /tmp stays.
Return ==
  /\ phase = "idle" /\ answer # None
  /\ list' = NoList /\ work' = NoWork /\ asked' = NoList
  /\ object' = Nothing /\ answer' = None
  /\ UNCHANGED <<phase, output, left, failed>>

\* The container ends, in an invocation that takes too long or after one.
Recycle ==
  /\ phase' = "idle" /\ output' = Nothing /\ left' = 0 /\ failed' = 0
  /\ list' = NoList /\ work' = NoWork /\ asked' = NoList
  /\ object' = Nothing /\ answer' = None

Next ==
  \/ \E m \in Media \cup Masters, force \in BOOLEAN : Invoke(m, force)
  \/ Refuse \/ Return \/ Direct \/ Resolve \/ FetchLine \/ Localized \/ LocalizeFails
  \/ Local \/ LocalFails \/ Upload \/ UploadFails \/ Recycle

-----------------------------------------------------------------------------
(* Properties.                                                             *)

\* What is in the bucket, however it was made and also when the answer is an
\* error, is the whole video of the best variant, each segment with its key;
\* and between two events /tmp has nothing but the directories of localizations
\* that failed.
ConvertedWhole ==
  /\ object # Nothing =>
       \E m \in DirectOpens(asked) : object = Video(Plays(m.lines))
  /\ answer = TRUE => object # Nothing
  /\ phase = "idle" => output = Nothing /\ left = failed

\* What it rests on: what an invocation is making is one of the playlists that
\* ffmpeg would have opened, and each of its lines that was fetched is in a file
\* of its own, with what the line named.
Fetched(i) ==
  LET l == list.lines[i]
      out == work.out[i]
  IN IF l.is \in {"key", "seg"}
     THEN \E n \in 0 .. work.seq - 1 :
            /\ out = [l EXCEPT !.uri = <<l.is, n>>]
            /\ <<l.is, n>> \in DOMAIN work.dir /\ work.dir[<<l.is, n>>] = l.uri
     ELSE out = l

InTheMaking ==
  /\ phase # "idle" => object = Nothing /\ answer = None
  /\ phase \in {"direct", "resolve"} => list = asked /\ work = NoWork
  /\ phase \in {"fetch", "local"} => list \in DirectOpens(asked) /\ work.made = 1
  /\ phase \in {"fetch", "local"} =>
       /\ work.pos <= Len(list.lines) /\ (phase = "local" => work.pos = Len(list.lines))
       /\ DOMAIN work.out = 1 .. work.pos /\ \A i \in 1 .. work.pos : Fetched(i)
       /\ \A f \in DOMAIN work.dir : f[2] < work.seq
  /\ phase = "upload" => \E m \in DirectOpens(asked) : output = Video(Plays(m.lines))
  /\ phase # "idle" => left = failed + work.made
=============================================================================
