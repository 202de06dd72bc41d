--------------------------- MODULE HighlightAttach ---------------------------
(***************************************************************************)
(* attachHighlightsInTimeWindow: the button presses that fall in the window*)
(* of an extracted recording become highlights of it, first the files the  *)
(* gateway has put into the bucket, one camera after the other, then the   *)
(* rows that other recordings of the same court hold.  It is called by a   *)
(* claim, by the healing of one recording, by the gap heal and by an admin,*)
(* and nothing keeps two calls for one recording apart.                    *)
(*                                                                         *)
(* One recording is followed; it starts at time 0.                         *)
(***************************************************************************)
EXTENDS Naturals, Sequences, FiniteSets

CONSTANTS
  MaxTime,    \* bound: the moments of presses, 0 .. MaxTime
  Windows,    \* the windows that are asked for, as <<first, last>>
  MinWindow,  \* a shorter one is left alone: five seconds
  Cams,       \* how many cameras film the court
  Calls,
  None,
  MaxRows     \* bound: rows of the recording

VARIABLES
  numbered,   \* whether the court has a number: without one no file is looked for
  bucket,     \* the files the gateway has uploaded
  elsewhere,  \* the moments of the rows of the court's other recordings
  rows,       \* recording_highlights of the recording
  video,      \* the recording has its asset and isVideoCreated
  call,
  meddled     \* history: two calls were under way at once

vars == <<numbered, bucket, elsewhere, rows, video, call, meddled>>

Times == 0 .. MaxTime
Files == [cam : 1 .. Cams, time : Times]

Row == [key : Files \cup {None}, time : Times, order : 1 .. MaxRows,
        status : {"pending", "queued", "ready"}]

Call == [pc : {"idle", "list", "file", "again", "copy", "press"},
         window : Windows, cam : 1 .. Cams + 1,
         cache : SUBSET Files,   \* the files listed before (gap heal)
         cached : BOOLEAN,
         files : SUBSET Files,   \* still to be attached
         known : SUBSET Files, times : SUBSET Times,
         order : 0 .. MaxRows, video : BOOLEAN, attached : BOOLEAN]

Idle == [pc |-> "idle", window |-> CHOOSE w \in Windows : TRUE, cam |-> 1,
         cache |-> {}, cached |-> FALSE, files |-> {}, known |-> {},
         times |-> {}, order |-> 0, video |-> FALSE, attached |-> FALSE]

TypeOK ==
  /\ numbered \in BOOLEAN /\ video \in BOOLEAN /\ meddled \in BOOLEAN
  /\ bucket \subseteq Files /\ elsewhere \subseteq Times
  /\ rows \in Seq(Row) /\ Len(rows) <= MaxRows
  /\ call \in [Calls -> Call]
  /\ \A c \in Calls : call[c].cam > Cams => call[c].pc \in {"again", "copy"}

Init ==
  /\ numbered \in BOOLEAN
  /\ bucket = {} /\ elsewhere = {} /\ rows = <<>>
  /\ video \in BOOLEAN
  /\ call = [c \in Calls |-> Idle]
  /\ meddled = FALSE

-----------------------------------------------------------------------------
Go(c, new) == call' = [call EXCEPT ![c] = new]
Return(c) == Go(c, Idle)
Active(c) == call[c].pc # "idle"
Meddles(c) == meddled' = (meddled \/ \E d \in Calls \ {c} : Active(d))

Greatest(orders) ==
  CHOOSE n \in 0 .. MaxRows : n \in orders \cup {0} /\ \A m \in orders : m <= n

\* The number of the last row.  (A mutant: of the last that is a file.)
LastFile == Greatest({rows[i].order : i \in {j \in DOMAIN rows : rows[j].key # None}})
LastOrder == Greatest({rows[i].order : i \in DOMAIN rows})

\* In the window, and not further into the recording than the window is long.
InWindow(w, t) == w[1] <= t /\ t <= w[2] /\ t <= w[2] - w[1]

RowFor(key, time, order, status) ==
  [key |-> key, time |-> time, order |-> order, status |-> status]

\* The two files of one press: the lower camera first, the earlier first.
First(files) ==
  CHOOSE f \in files : \A g \in files :
    f.cam < g.cam \/ (f.cam = g.cam /\ f.time <= g.time)

\* A call that heals many recordings lists the bucket once, before all else.
Attach(c, w, heals) ==
  /\ call[c].pc = "idle"
  /\ w[2] - w[1] >= MinWindow
  /\ Meddles(c)
  /\ Go(c, [Idle EXCEPT !.window = w,
              !.cam = IF numbered THEN 1 ELSE Cams + 1,
              !.pc = IF numbered THEN "list" ELSE "again",
              !.cached = heals, !.cache = IF heals THEN bucket ELSE {},
              !.known = {rows[i].key : i \in DOMAIN rows} \ {None},
              !.order = LastOrder, !.video = video])
  /\ UNCHANGED <<numbered, bucket, elsewhere, rows, video>>

List(c) ==
  LET k == call[c]
      listed == IF k.cached THEN k.cache ELSE bucket
      found == {f \in listed : /\ f.cam = k.cam
                               /\ InWindow(k.window, f.time)
                               /\ f \notin k.known}
  IN /\ k.pc = "list"
     /\ Go(c, IF found # {}
              THEN [k EXCEPT !.pc = "file", !.files = found]
              ELSE [k EXCEPT !.cam = @ + 1,
                             !.pc = IF k.cam = Cams THEN "again" ELSE "list"])
     /\ UNCHANGED <<numbered, bucket, elsewhere, rows, video, meddled>>

AttachFile(c) ==
  LET k == call[c]
      f == First(k.files)
      last == k.files = {f}
  IN /\ k.pc = "file"
     /\ Len(rows) < MaxRows
     /\ rows' = Append(rows, RowFor(f, f.time, k.order + 1, "ready"))
     /\ Go(c, [k EXCEPT !.files = @ \ {f}, !.known = @ \cup {f},
                 !.order = @ + 1, !.attached = TRUE,
                 !.cam = IF last THEN @ + 1 ELSE @,
                 !.pc = IF ~last THEN "file"
                        ELSE IF k.cam = Cams THEN "again" ELSE "list"])
     /\ UNCHANGED <<numbered, bucket, elsewhere, video, meddled>>

\* The presses the recording has: one of them is not copied again.  (A mutant:
\* those it had before the files were attached.)
ExistingBefore(c) ==
  {rows[i].time : i \in DOMAIN rows} \ {f.time : f \in call[c].known}
Existing(c) == {rows[i].time : i \in DOMAIN rows}

\* The rows are read again, then those of the other recordings.
ReadElsewhere(c) ==
  LET k == call[c]
  IN /\ k.pc = "again"
     /\ Go(c, [k EXCEPT !.pc = "copy", !.order = LastOrder,
                 !.times = {t \in elsewhere : InWindow(k.window, t)}
                             \ Existing(c)])
     /\ UNCHANGED <<numbered, bucket, elsewhere, rows, video, meddled>>

Copy(c) ==
  LET k == call[c]
      t == CHOOSE x \in k.times : \A y \in k.times : x <= y
  IN /\ k.pc = "copy"
     /\ k.times # {}
     /\ Len(rows) < MaxRows
     /\ rows' = Append(rows, RowFor(None, t, k.order + 1, "pending"))
     /\ Go(c, [k EXCEPT !.times = @ \ {t}, !.order = @ + 1, !.attached = TRUE])
     /\ UNCHANGED <<numbered, bucket, elsewhere, video, meddled>>

\* What was attached is queued, when the recording that was read at the
\* beginning had its video.
Queue(c) ==
  LET k == call[c]
  IN /\ k.pc = "copy"
     /\ k.times = {}
     /\ rows' = [i \in DOMAIN rows |->
                   IF k.attached /\ k.video /\ rows[i].status = "pending"
                   THEN [rows[i] EXCEPT !.status = "queued"] ELSE rows[i]]
     /\ Return(c)
     /\ UNCHANGED <<numbered, bucket, elsewhere, video, meddled>>

\* The bucket or the database fails, or the server restarts: what has been
\* attached stays.
Fail(c) ==
  /\ Active(c)
  /\ Return(c)
  /\ UNCHANGED <<numbered, bucket, elsewhere, rows, video, meddled>>

-----------------------------------------------------------------------------
(* Presses of the button.  Each has a moment of its own.                   *)

Fresh(t) ==
  /\ t \notin elsewhere
  /\ \A f \in bucket : f.time # t
  /\ \A i \in DOMAIN rows : rows[i].time # t

\* createActiveHighlight for this recording: a transaction that locks nothing.
Press(c) ==
  /\ call[c].pc = "idle"
  /\ Meddles(c)
  /\ Go(c, [Idle EXCEPT !.pc = "press", !.order = LastOrder, !.video = video])
  /\ UNCHANGED <<numbered, bucket, elsewhere, rows, video>>

Pressed(c) ==
  LET k == call[c]
  IN /\ k.pc = "press"
     /\ Len(rows) < MaxRows
     /\ \E t \in Times :
          /\ Fresh(t)
          /\ rows' = Append(rows, RowFor(None, t, k.order + 1,
                              IF k.video THEN "queued" ELSE "pending"))
     /\ Return(c)
     /\ UNCHANGED <<numbered, bucket, elsewhere, video, meddled>>

PressElsewhere(t) ==
  /\ Fresh(t)
  /\ elsewhere' = elsewhere \cup {t}
  /\ UNCHANGED <<numbered, bucket, rows, video, call, meddled>>

\* The gateway uploads the clip that one camera has of a press; the other
\* camera's may follow.
Upload(f) ==
  /\ f \notin bucket
  /\ Fresh(f.time) \/ \E g \in bucket : g.time = f.time
  /\ bucket' = bucket \cup {f}
  /\ UNCHANGED <<numbered, elsewhere, rows, video, call, meddled>>

\* Another recording of the court gets the file attached.
AttachedElsewhere(f) ==
  /\ numbered
  /\ f \in bucket /\ f.time \notin elsewhere
  /\ elsewhere' = elsewhere \cup {f.time}
  /\ meddled' = (meddled \/ \E c \in Calls : Active(c))
  /\ UNCHANGED <<numbered, bucket, rows, video, call>>

VideoReady ==
  /\ ~video
  /\ video' = TRUE
  /\ UNCHANGED <<numbered, bucket, elsewhere, rows, call, meddled>>

CallStep(c) ==
  \/ List(c) \/ AttachFile(c) \/ ReadElsewhere(c) \/ Copy(c) \/ Queue(c)
  \/ Fail(c) \/ Press(c) \/ Pressed(c)
  \/ \E w \in Windows, heals \in BOOLEAN : Attach(c, w, heals)

\* Of overlapping calls nothing is promised: the recording is followed no
\* further (a bound).
Next ==
  /\ ~meddled
  /\ \/ VideoReady
     \/ \E t \in Times : PressElsewhere(t)
     \/ \E f \in Files : Upload(f) \/ AttachedElsewhere(f)
     \/ \E c \in Calls : CallStep(c)

-----------------------------------------------------------------------------
(* Properties.                                                             *)

\* However often the window is attached, and wherever a call failed, a file
\* is one row, a press that reached the recording as a file is not copied from
\* another recording as well, nor copied twice, and no two rows have the number
\* that orders the clips; unless two calls for the court overlap.
AttachedOnce ==
  ~meddled =>
    \A i, j \in DOMAIN rows : i # j =>
      /\ rows[i].order # rows[j].order
      /\ rows[i].time = rows[j].time => /\ None \notin {rows[i].key, rows[j].key}
                                        /\ rows[i].key # rows[j].key

\* What it rests on.  While no two calls overlap, the rows are numbered as they
\* came, a row of a file tells that file's time, and no file tells the time of
\* any other row; and a press that another recording has although there is a file
\* of it was attached there, to a court that has a number.
Filmed(t) == \E f \in bucket : f.time = t
Keys == {rows[i].key : i \in DOMAIN rows} \ {None}

RowsInOrder ==
  /\ \A i \in DOMAIN rows :
       /\ rows[i].order = i
       /\ IF rows[i].key = None THEN ~Filmed(rows[i].time)
          ELSE rows[i].key \in bucket /\ rows[i].time = rows[i].key.time
  /\ \A t \in elsewhere : Filmed(t) => numbered

\* The call has the file, or will come to it.
Comes(k, f) ==
  \/ f \in k.known
  \/ k.pc = "file" /\ f \in k.files
  \/ /\ \/ k.pc = "list" /\ f.cam >= k.cam
        \/ k.pc = "file" /\ f.cam > k.cam
     /\ k.cached => f \in k.cache

\* A call knows the last number and the files that are rows; of each filmed press
\* that could be copied as well it comes to a file before; and what it copies is
\* no row yet, and has no file.
InStep(k) ==
  /\ k.order = Len(rows)
  /\ k.cache \subseteq bucket
  /\ k.pc \in {"list", "file"} => k.cam <= Cams
  /\ k.pc \in {"list", "file", "again"} =>
       /\ k.known = Keys
       /\ \A t \in elsewhere : InWindow(k.window, t) /\ Filmed(t) =>
            \E f \in bucket : f.time = t /\ Comes(k, f)
  /\ k.pc = "file" =>
       k.files # {} /\ \A f \in k.files : f \in bucket \ k.known /\ f.cam = k.cam
  /\ k.pc = "copy" =>
       /\ k.times \subseteq elsewhere
       /\ \A t \in k.times : ~Filmed(t) /\ \A i \in DOMAIN rows : rows[i].time # t

AttachInStep ==
  ~meddled =>
    /\ RowsInOrder
    /\ \A c, d \in Calls : Active(c) /\ Active(d) => c = d
    /\ \A c \in Calls : Active(c) => InStep(call[c])

\* What was excused stays so: what comes after need not be looked at.
Telling == ~meddled
=============================================================================
