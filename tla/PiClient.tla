------------------------------ MODULE PiClient ------------------------------
(***************************************************************************)
(* The client of the courts' Raspberry Pis (RaspberryPiApiService): how a  *)
(* host name becomes an address, and what each endpoint makes of the       *)
(* answer.  The name servers are a setting of the whole process, which a   *)
(* lookup that fails changes while it tries again; the commands to a court *)
(* are answered from what the Pi said, or from its silence.                *)
(***************************************************************************)
EXTENDS Naturals

CONSTANTS Calls, None

VARIABLES
  servers,   \* the process's name servers
  live,      \* whether the Pi streams the court's channel
  told,      \* what was called last, and what it answered
  call,
  (* history: two lookups tried the public servers at once; a command was  *)
  (* begun while another was under way                                     *)
  crossed, crowded

vars == <<servers, live, told, call, crossed, crowded>>

Servers == {"own", "public"}
Commands == {"start", "stop"}
Ops == Commands \cup {"health", "status", "extract", "record"}

\* What comes back: the request was done, it was refused with 409 or 404 as
\* the Pi was in that state already, refused otherwise, or nothing came, the
\* request having been done or not.
Replies == {"done", "conflict", "missing", "refused", "silence"}
Answers == {"ok", "started", "stopped", "assumed", "failed", "unreachable", "none"}

Call == [pc : {"idle", "lookup", "retry", "send"},
         op : Ops \cup {None},
         prior : Servers \cup {None}]
Idle == [pc |-> "idle", op |-> None, prior |-> None]

TypeOK ==
  /\ servers \in Servers /\ live \in BOOLEAN
  /\ told \in [op : Ops \cup {None}, answer : Answers]
  /\ call \in [Calls -> Call]
  /\ \A c \in Calls : /\ call[c].pc # "idle" => call[c].op \in Ops
                      /\ call[c].pc = "retry" => call[c].prior \in Servers
  /\ crossed \in BOOLEAN /\ crowded \in BOOLEAN

Init ==
  /\ servers = "own" /\ live = FALSE
  /\ told = [op |-> None, answer |-> "none"]
  /\ call = [c \in Calls |-> Idle]
  /\ crossed = FALSE /\ crowded = FALSE

-----------------------------------------------------------------------------
Go(c, new) == call' = [call EXCEPT ![c] = new]
Others(c) == Calls \ {c}

\* piGet and piPost first look the host up; starting and stopping a recording
\* leave that to the library.
Begin(c, op) ==
  /\ call[c].pc = "idle"
  /\ Go(c, [Idle EXCEPT !.pc = IF op = "record" THEN "send" ELSE "lookup", !.op = op])
  /\ crowded' = (crowded \/ /\ op \in Commands
                            /\ \E d \in Others(c) : call[d].op \in Commands)
  /\ UNCHANGED <<servers, live, told, crossed>>

\* resolvePiHostname: the name is found, ...
Found(c) ==
  /\ call[c].pc = "lookup"
  /\ Go(c, [call[c] EXCEPT !.pc = "send"])
  /\ UNCHANGED <<servers, live, told, crossed, crowded>>

\* ... or the servers of the process are remembered and replaced, ...
GoPublic(c) ==
  /\ call[c].pc = "lookup"
  /\ Go(c, [call[c] EXCEPT !.pc = "retry", !.prior = servers])
  /\ servers' = "public"
  /\ crossed' = (crossed \/ \E d \in Others(c) : call[d].pc = "retry")
  /\ UNCHANGED <<live, told, crowded>>

\* ... and put back, whether the name was found, is in the table of last
\* resort, or neither.  (The mutant: only when it was found.)
WhenFound(c, found) == IF found THEN call[c].prior ELSE servers
PutBack(c, found) == call[c].prior

Retried(c) ==
  /\ call[c].pc = "retry"
  /\ \E found \in BOOLEAN : servers' = PutBack(c, found)
  /\ Go(c, [call[c] EXCEPT !.pc = "send", !.prior = None])
  /\ UNCHANGED <<live, told, crossed, crowded>>

-----------------------------------------------------------------------------
(* The endpoints, each with what it answers.                               *)

Health(r) == IF r = "done" THEN "ok" ELSE "unreachable"
\* No answer reads as no stream.
Status(r) == IF r = "done" /\ live THEN "started" ELSE "stopped"
Extract(r) == IF r = "done" THEN "ok" ELSE "failed"
Record(r) == IF r = "done" THEN "ok" ELSE "failed"

\* A channel that streams already counts as started.
StartLive(r) == IF r \in {"done", "conflict"} THEN "started" ELSE "failed"

\* A channel that does not stream is stopped; where the Pi says nothing it is
\* only assumed so.  (The mutant does not tell the two apart.)
SilentIsStopped(r) ==
  CASE r \in {"done", "missing", "silence"} -> "stopped"
    [] OTHER -> "failed"
StopLive(r) ==
  CASE r \in {"done", "missing"} -> "stopped"
    [] r = "silence" -> "assumed"
    [] OTHER -> "failed"

\* The Pi: what it may say to op, and whether the channel streams then.
Says(op) ==
  CASE op = "start" -> {IF live THEN "conflict" ELSE "done", "refused", "silence"}
    [] op = "stop" -> {IF live THEN "done" ELSE "missing", "refused", "silence"}
    [] OTHER -> {"done", "refused", "silence"}
Then(op, r) ==
  CASE r = "done" /\ op = "start" -> {TRUE}
    [] r = "done" /\ op = "stop" -> {FALSE}
    [] r = "silence" /\ op = "start" -> {live, TRUE}
    [] r = "silence" /\ op = "stop" -> {live, FALSE}
    [] OTHER -> {live}

Answered(op, r) ==
  CASE op = "health" -> Health(r)
    [] op = "status" -> Status(r)
    [] op = "extract" -> Extract(r)
    [] op = "record" -> Record(r)
    [] op = "start" -> StartLive(r)
    [] op = "stop" -> StopLive(r)

Send(c) ==
  LET op == call[c].op
  IN /\ call[c].pc = "send"
     /\ \E r \in Says(op) :
          /\ live' \in Then(op, r)
          /\ told' = [op |-> op, answer |-> Answered(op, r)]
     /\ Go(c, Idle)
     /\ UNCHANGED <<servers, crossed, crowded>>

Next ==
  \E c \in Calls :
    \/ Found(c) \/ GoPublic(c) \/ Retried(c) \/ Send(c)
    \/ \E op \in Ops : Begin(c, op)

-----------------------------------------------------------------------------
(* Properties.                                                             *)

\* The process looks names up with its own servers whenever no lookup is at
\* its second attempt, unless two lookups ever were at it together: then the
\* one that came second remembered the public servers as the process's own.
ServersRestored ==
  ~crossed /\ (\A c \in Calls : call[c].pc # "retry") => servers = "own"

\* What a command for a court's stream was just answered is so at the Pi,
\* when no two commands were under way at once: started is live, stopped is
\* not; of assumed and failed nothing is known.
CommandsTold ==
  ~crowded /\ told.op \in Commands =>
    /\ told.answer = "started" => live
    /\ told.answer = "stopped" => ~live

\* What makes the servers come back: unless two lookups were at their second
\* attempt at once, one at most is, and it remembers the process's own.
Remembered ==
  ~crossed =>
    /\ \A c, d \in Calls : call[c].pc = "retry" /\ call[d].pc = "retry" => c = d
    /\ \A c \in Calls : call[c].pc = "retry" => call[c].prior = "own"
    /\ ServersRestored
=============================================================================
