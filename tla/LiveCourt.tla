------------------------------ MODULE LiveCourt ------------------------------
(***************************************************************************)
(* The live recording of one court's camera: startRecording, stopRecording *)
(* and its background half, the cron that stops what has run over its      *)
(* planned time, and the row left in progress for two hours that the next  *)
(* start abandons.  A row is named by the session of the Pi it stands for; *)
(* a session may have no row.                                              *)
(*                                                                         *)
(* A read of the row and the save of it are two statements with nothing    *)
(* that keeps others out, so they are two steps.                           *)
(***************************************************************************)
EXTENDS Naturals, FiniteSets

CONSTANTS
  Sessions,  \* bound: sessions the Pi can be asked for
  Calls,     \* slots for starts and stops in progress
  None,
  Tries      \* how often the Pi is asked to start or to stop: 3

VARIABLES
  row,       \* recordings: the status of each session's row
  age,       \* 0; 1 once its planned time is over; 2 after two hours
  planned,   \* whether its metadata has a planned duration
  pi,        \* the Pi: what has become of each session
  stopping,  \* abandoned sessions the Pi is being asked to stop
  call,
  (* history: two starts were under way at once; sessions that two calls   *)
  (* have read as in progress at once; something failed or was lost;       *)
  (* sessions that were once completed                                     *)
  together, doubled, faulty, done

history == <<together, doubled, faulty, done>>
vars == <<row, age, planned, pi, stopping, call, history>>

Call == [pc : {"idle", "abandon", "begin", "insert", "save", "background"},
         session : Sessions \cup {None},
         tries : 0 .. Tries,
         auto : BOOLEAN]    \* the cron waits for it

Idle == [pc |-> "idle", session |-> None, tries |-> 0, auto |-> FALSE]

TypeOK ==
  /\ row \in [Sessions -> {"none", "in_progress", "interrupted", "processing",
                           "completed", "failed"}]
  /\ age \in [Sessions -> 0 .. 2]
  /\ planned \subseteq {s \in Sessions : row[s] # "none"}
  /\ pi \in [Sessions -> {"none", "recording", "stopped"}]
  /\ stopping \subseteq {s \in Sessions : row[s] # "none"}
  /\ call \in [Calls -> Call]
  /\ \A c \in Calls :
       /\ call[c].pc \in {"insert", "abandon", "save", "background"} <=>
            call[c].session # None
       /\ call[c].pc \in {"abandon", "save", "background"} =>
            row[call[c].session] # "none"
  /\ together \in BOOLEAN /\ faulty \in BOOLEAN
  /\ doubled \subseteq Sessions /\ done \subseteq Sessions

Init ==
  /\ row = [s \in Sessions |-> "none"]
  /\ age = [s \in Sessions |-> 0]
  /\ planned = {}
  /\ pi = [s \in Sessions |-> "none"]
  /\ stopping = {}
  /\ call = [c \in Calls |-> Idle]
  /\ together = FALSE /\ doubled = {} /\ faulty = FALSE /\ done = {}

-----------------------------------------------------------------------------
Go(c, new) == call' = [call EXCEPT ![c] = new]
Return(c) == Go(c, Idle)
InProgress(s) == row[s] = "in_progress"
Live == {s \in Sessions : InProgress(s)}

\* isInProgressRecordingStale.
Stale(s) == age[s] = 2

\* The call c has read the row of s, which another may hold as well.
Reads(c, s) ==
  doubled' = IF \E d \in Calls \ {c} : call[d].pc \in {"abandon", "save"}
                                        /\ call[d].session = s
             THEN doubled \cup {s} ELSE doubled

\* The call c starts, while another may be starting.
Starts(c) ==
  together' = (together \/ \E d \in Calls \ {c} :
                             call[d].pc \in {"abandon", "begin", "insert"})
Ask(c) == Go(c, [Idle EXCEPT !.pc = "begin", !.tries = Tries])

\* A row in progress that is not stale refuses the start.  (A mutant: a start
\* goes on whatever is in progress.)
Anyway == TRUE
Vacant == Live = {}

StartFree(c) ==
  /\ call[c].pc = "idle"
  /\ Vacant
  /\ Starts(c)
  /\ Ask(c)
  /\ UNCHANGED <<row, age, planned, pi, stopping, doubled, faulty, done>>

StartStale(c) ==
  /\ call[c].pc = "idle"
  /\ \E s \in Live :
       /\ Stale(s)
       /\ Go(c, [Idle EXCEPT !.pc = "abandon", !.session = s])
       /\ Reads(c, s)
  /\ Starts(c)
  /\ UNCHANGED <<row, age, planned, pi, stopping, faulty, done>>

\* The Pi is asked to stop what has been abandoned; nobody waits for it.  (A
\* mutant: it is not asked.)
Forget(s) == {}
ToStop(s) == {s}

Abandon(c) ==
  LET s == call[c].session
  IN /\ call[c].pc = "abandon"
     /\ row' = [row EXCEPT ![s] = "interrupted"]
     /\ stopping' = stopping \cup ToStop(s)
     /\ Ask(c)
     /\ UNCHANGED <<age, planned, pi, history>>

StopAbandoned(s) ==
  /\ s \in stopping
  /\ stopping' = stopping \ {s}
  /\ \/ pi' = [pi EXCEPT ![s] = "stopped"] /\ UNCHANGED faulty
     \/ pi[s] = "recording" /\ faulty' = TRUE /\ UNCHANGED pi
  /\ UNCHANGED <<row, age, planned, call, together, doubled, done>>

StartPi(c) ==
  /\ call[c].pc = "begin"
  /\ \E s \in Sessions :
       /\ pi[s] = "none"
       /\ pi' = [pi EXCEPT ![s] = "recording"]
       /\ Go(c, [Idle EXCEPT !.pc = "insert", !.session = s])
  /\ UNCHANGED <<row, age, planned, stopping, history>>

\* The Pi refuses, or it starts and its answer is lost.
StartPiFails(c) ==
  /\ call[c].pc = "begin"
  /\ \/ UNCHANGED <<pi, faulty>>
     \/ /\ \E s \in Sessions :
             /\ pi[s] = "none"
             /\ pi' = [pi EXCEPT ![s] = "recording"]
        /\ faulty' = TRUE
  /\ IF call[c].tries = 1 THEN Return(c)
     ELSE Go(c, [call[c] EXCEPT !.tries = @ - 1])
  /\ UNCHANGED <<row, age, planned, stopping, together, doubled, done>>

Insert(c) ==
  LET s == call[c].session
  IN /\ call[c].pc = "insert"
     /\ row' = [row EXCEPT ![s] = "in_progress"]
     /\ planned' \in {planned, planned \cup {s}}
     /\ Return(c)
     /\ UNCHANGED <<age, pi, stopping, history>>

\* A notification fails and takes the row with it.
InsertFails(c) ==
  /\ call[c].pc = "insert"
  /\ faulty' = TRUE
  /\ Return(c)
  /\ UNCHANGED <<row, age, planned, pi, stopping, together, doubled, done>>

-----------------------------------------------------------------------------
(* Stops.                                                                  *)

\* Only what is in progress is stopped.  (A mutant: what is known.)
Known(s) == row[s] # "none"
Stoppable(s) == InProgress(s)

StopRead(c, s, auto) ==
  /\ call[c].pc = "idle"
  /\ Stoppable(s)
  /\ Go(c, [Idle EXCEPT !.pc = "save", !.session = s, !.auto = auto])
  /\ Reads(c, s)
  /\ UNCHANGED <<row, age, planned, pi, stopping, together, faulty, done>>

\* autoStopExpiredRecordings takes one row after the other.
Due(s) == s \in planned /\ age[s] > 0

AutoStop(c, s) ==
  /\ Due(s)
  /\ ~\E d \in Calls : call[d].auto
  /\ StopRead(c, s, TRUE)

Stop(c, s) == StopRead(c, s, FALSE)

StopSave(c) ==
  LET s == call[c].session
  IN /\ call[c].pc = "save"
     /\ row' = [row EXCEPT ![s] = "processing"]
     /\ Go(c, [Idle EXCEPT !.pc = "background", !.session = s, !.tries = Tries])
     /\ UNCHANGED <<age, planned, pi, stopping, history>>

\* processStopRecordingInBackground, up to the ingestion by Mux.
Stopped(c) ==
  LET s == call[c].session
  IN /\ call[c].pc = "background"
     /\ pi[s] = "recording"
     /\ pi' = [pi EXCEPT ![s] = "stopped"]
     /\ row' = [row EXCEPT ![s] = "completed"]
     /\ done' = done \cup {s}
     /\ Return(c)
     /\ UNCHANGED <<age, planned, stopping, together, doubled, faulty>>

\* The session has been stopped, and a notification fails.
StoppedUnsaid(c) ==
  LET s == call[c].session
  IN /\ call[c].pc = "background"
     /\ pi[s] = "recording"
     /\ pi' = [pi EXCEPT ![s] = "stopped"]
     /\ row' = [row EXCEPT ![s] = "failed"]
     /\ faulty' = TRUE
     /\ Return(c)
     /\ UNCHANGED <<age, planned, stopping, together, doubled, done>>

\* The Pi cannot be reached, its answer is lost, or it no longer knows the
\* session.
StopPiFails(c) ==
  LET s == call[c].session
  IN /\ call[c].pc = "background"
     /\ pi' \in {pi, [pi EXCEPT ![s] = "stopped"]}
     /\ faulty' = TRUE
     /\ IF call[c].tries = 1
        THEN Return(c) /\ row' = [row EXCEPT ![s] = "failed"]
        ELSE Go(c, [call[c] EXCEPT !.tries = @ - 1]) /\ UNCHANGED row
     /\ UNCHANGED <<age, planned, stopping, together, doubled, done>>

-----------------------------------------------------------------------------
Ages(s) ==
  /\ InProgress(s)
  /\ age[s] < 2
  /\ age' = [age EXCEPT ![s] = @ + 1]
  /\ UNCHANGED <<row, planned, pi, stopping, call, history>>

\* The server restarts: nothing of this is resumed.
Crash ==
  /\ \/ stopping # {}
     \/ \E c \in Calls : call[c].pc \in {"insert", "background"}
  /\ call' = [c \in Calls |-> Idle]
  /\ stopping' = {}
  /\ faulty' = TRUE
  /\ UNCHANGED <<row, age, planned, pi, together, doubled, done>>

CallStep(c) ==
  \/ Abandon(c) \/ StartPi(c) \/ StartPiFails(c) \/ Insert(c) \/ InsertFails(c)
  \/ StopSave(c) \/ Stopped(c) \/ StoppedUnsaid(c) \/ StopPiFails(c)

Next ==
  \/ Crash
  \/ \E s \in Sessions : Ages(s) \/ StopAbandoned(s)
  \/ \E c \in Calls :
       \/ CallStep(c) \/ StartFree(c) \/ StartStale(c)
       \/ \E s \in Sessions : Stop(c, s) \/ AutoStop(c, s)

-----------------------------------------------------------------------------
(* Properties.                                                             *)

\* One recording at a time is in progress on a camera, unless two starts were
\* under way at once, each told before the other was done that there is none.
OneLive == ~together => Cardinality(Live) <= 1

\* When everything is at rest and nothing has failed, every session that the
\* Pi still records is one that can be stopped: its row is in progress.
NoStraySession ==
  (~faulty /\ stopping = {} /\ \A c \in Calls : call[c].pc = "idle") =>
    \A s \in Sessions : pi[s] = "recording" => InProgress(s)

\* A recording that is completed stays so, unless two calls have read it as
\* in progress before either saved it (the second then stops it again).
CompletedStays == \A s \in done \ doubled : row[s] = "completed"

(* What makes them so.                                                     *)

\* A session that is inserted is of one call, runs at the Pi and has no row.
Begun ==
  /\ \A s \in Sessions : row[s] # "none" => pi[s] # "none"
  /\ \A s \in doubled : row[s] # "none"
  /\ \A c \in Calls : call[c].pc = "insert" =>
       row[call[c].session] = "none" /\ pi[call[c].session] # "none"

\* The calls that have a session in hand.
Holders == {c \in Calls : call[c].pc \in {"insert", "abandon", "save", "background"}}

\* A session that two calls have not read at once is of one call at most, which
\* finds its row as it left it.
OfOne ==
  /\ \A c, d \in Holders : call[c].session = call[d].session
                            /\ call[c].session \notin doubled => c = d
  /\ \A c \in Holders : call[c].session \notin doubled =>
       /\ call[c].pc \in {"abandon", "save"} => InProgress(call[c].session)
       /\ call[c].pc = "background" => row[call[c].session] = "processing"

\* Unless two starts were under way at once one is at most, and what is in
\* progress then is the row that it abandons.
OneStart ==
  ~together =>
    /\ \A c, d \in Calls : call[c].pc \in {"abandon", "begin", "insert"}
                            /\ call[d].pc \in {"abandon", "begin", "insert"} => c = d
    /\ \A c \in Calls : call[c].pc = "abandon" => Live \subseteq {call[c].session}
    /\ \A c \in Calls : call[c].pc \in {"begin", "insert"} => Live = {}
    /\ \A s, t \in Live : s = t

\* Unless something failed, what the Pi records is in progress, or somebody is
\* about to insert or to stop it.
InSomeHand ==
  ~faulty => \A s \in Sessions : pi[s] = "recording" =>
    \/ InProgress(s) \/ s \in stopping
    \/ \E c \in Calls : call[c].session = s /\ call[c].pc \in {"insert", "background"}
=============================================================================
