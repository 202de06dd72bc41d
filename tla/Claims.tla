-------------------------------- MODULE Claims --------------------------------
(***************************************************************************)
(* requestOnDemandExtraction: users claim the match of one court and time  *)
(* window.  The court's NVR has one or two channels, each to be extracted  *)
(* into a recording of its own; a claim looks for a recording of each      *)
(* channel that exists already and shares it, else it makes one, waiting   *)
(* for Mux in between.  What becomes of a recording is Extraction's; how   *)
(* often a share is stored is Sharing's.                                   *)
(***************************************************************************)
EXTENDS Integers, Sequences, FiniteSets

CONSTANTS
  Users,
  Calls,     \* slots for claims in progress
  None,
  Channels,  \* NVR channels of the court, 1 .. how many
  MaxRows    \* bound: recordings made for the window

VARIABLES
  rows,    \* recordings of the camera and window
  shares,  \* shared_recordings
  call,
  answer,  \* the recordings a claim last gave each user, one for each channel
  (* history: two claims were under way at once, a row that had failed came *)
  (* back, or a claim looked for a recording that was uploaded, which is    *)
  (* neither complete nor in flight                                         *)
  excused

vars == <<rows, shares, call, answer, excused>>

Row == [owner : Users, channel : 1 .. Channels,
        status : {"extracting", "processing", "uploaded", "ready", "failed"},
        play : BOOLEAN,
        old : BOOLEAN]  \* not updated for twenty minutes
Call == [pc : {"idle", "look", "share", "make"},
         user : Users \cup {None},
         got : Seq(1 .. MaxRows),  \* the recordings of the channels so far
         found : 0 .. MaxRows]

Idle == [pc |-> "idle", user |-> None, got |-> <<>>, found |-> 0]

Ids == 1 .. Len(rows)

TypeOK ==
  /\ rows \in Seq(Row) /\ Len(rows) <= MaxRows
  /\ shares \subseteq (Ids \X Users)
  /\ call \in [Calls -> Call]
  /\ \A c \in Calls :
       /\ call[c].found \in Ids \cup {0}
       /\ \A n \in 1 .. Len(call[c].got) :
            call[c].got[n] \in Ids /\ rows[call[c].got[n]].channel = n
  /\ answer \in [Users -> Seq(Ids)]
  /\ excused \in BOOLEAN

Init ==
  /\ rows = <<>> /\ shares = {}
  /\ call = [c \in Calls |-> Idle]
  /\ answer = [u \in Users |-> <<>>]
  /\ excused = FALSE

-----------------------------------------------------------------------------
Go(c, new) == call' = [call EXCEPT ![c] = new]
Channel(c) == Len(call[c].got) + 1

\* The claim c has the recording r for its channel, and turns to the next.
Has(c, r) ==
  LET got == Append(call[c].got, r)
  IN IF Len(got) = Channels
     THEN /\ Go(c, Idle)
          /\ answer' = [answer EXCEPT ![call[c].user] = got]
     ELSE /\ Go(c, [call[c] EXCEPT !.pc = "look", !.got = got, !.found = 0])
          /\ UNCHANGED answer

\* Claims of the user that have not failed; one of them counts, whichever.
Prior(u) == {r \in Ids : rows[r].owner = u /\ rows[r].status # "failed"}
Stalled(r) ==
  ~rows[r].play /\ rows[r].status \in {"extracting", "uploaded"} /\ rows[r].old

Begin(c, u) ==
  /\ Go(c, [Idle EXCEPT !.pc = "look", !.user = u])
  /\ excused' = (excused \/ \E d \in Calls : call[d].pc # "idle")

Claim(c, u) ==
  /\ call[c].pc = "idle"
  /\ Prior(u) = {}
  /\ Begin(c, u)
  /\ UNCHANGED <<rows, shares, answer>>

ClaimAgain(c, u) ==
  /\ call[c].pc = "idle"
  /\ \E r \in Prior(u) :
       /\ Stalled(r)
       /\ rows' = [rows EXCEPT ![r].status = "failed", ![r].old = FALSE]
  /\ Begin(c, u)
  /\ UNCHANGED <<shares, answer>>

-----------------------------------------------------------------------------
OfChannel(n) == {r \in Ids : rows[r].channel = n}
Complete(r) == rows[r].status = "ready" /\ rows[r].play
\* (A mutant: once the Pi is done the recording is not looked for.)
Extracting(r) == rows[r].status = "extracting"
InFlight(r) == rows[r].status \in {"extracting", "processing"}

\* The rows a claim would share: the complete ones, else those in flight.
Matches(n) ==
  LET complete == {r \in OfChannel(n) : Complete(r)}
  IN IF complete # {} THEN complete ELSE {r \in OfChannel(n) : InFlight(r)}

\* The owner needs no share.  (A mutant: the one who asks first for a
\* recording still being extracted is thought to see it.)
OwnedOrInFlight(r, u) == rows[r].owner = u \/ InFlight(r)
Owned(r, u) == rows[r].owner = u

LookFound(c) ==
  /\ call[c].pc = "look"
  /\ \E r \in Matches(Channel(c)) :
       IF Owned(r, call[c].user) THEN Has(c, r)
       ELSE /\ Go(c, [call[c] EXCEPT !.pc = "share", !.found = r])
            /\ UNCHANGED answer
  /\ UNCHANGED <<rows, shares, excused>>

LookMissed(c) ==
  /\ call[c].pc = "look"
  /\ Matches(Channel(c)) = {}
  /\ Go(c, [call[c] EXCEPT !.pc = "make"])
  /\ excused' = (excused \/ \E r \in OfChannel(Channel(c)) : rows[r].status = "uploaded")
  /\ UNCHANGED <<rows, shares, answer>>

Share(c) ==
  /\ call[c].pc = "share"
  /\ shares' = shares \cup {<<call[c].found, call[c].user>>}
  /\ Has(c, call[c].found)
  /\ UNCHANGED <<rows, excused>>

\* Mux has given a direct upload, or not; the Pi is told, and may not hear.
Make(c) ==
  /\ call[c].pc = "make"
  /\ Len(rows) < MaxRows
  /\ rows' = Append(rows, [owner |-> call[c].user, channel |-> Channel(c),
                           status |-> "extracting", play |-> FALSE,
                           old |-> FALSE])
  /\ Has(c, Len(rows) + 1)
  /\ UNCHANGED <<shares, excused>>

\* The claim fails at the database; what it has made stays.
Fail(c) ==
  /\ call[c].pc # "idle"
  /\ Go(c, Idle)
  /\ UNCHANGED <<rows, shares, answer, excused>>

-----------------------------------------------------------------------------
(* Extraction, as the claims see it.                                       *)

Moves(s) ==
  CASE s = "extracting" -> {"processing", "uploaded", "ready", "failed"}
    [] s = "processing" -> {"uploaded", "ready", "failed"}
    [] s = "uploaded" -> {"processing", "ready", "failed"}
    [] s = "ready" -> {}
    [] s = "failed" -> {"ready"}

Moved(r) ==
  /\ \E s \in Moves(rows[r].status) :
       rows' = [rows EXCEPT ![r].status = s, ![r].play = (s = "ready"),
                            ![r].old = FALSE]
  /\ excused' = (excused \/ rows[r].status = "failed")
  /\ UNCHANGED <<shares, call, answer>>

\* Twenty minutes pass, in which no claim is under way.
Age(r) ==
  /\ ~rows[r].old
  /\ rows[r].status \in {"extracting", "uploaded"}
  /\ \A c \in Calls : call[c].pc = "idle"
  /\ rows' = [rows EXCEPT ![r].old = TRUE]
  /\ UNCHANGED <<shares, call, answer, excused>>

Next ==
  \/ \E r \in Ids : Moved(r) \/ Age(r)
  \/ \E c \in Calls :
       \/ LookFound(c) \/ LookMissed(c) \/ Share(c) \/ Make(c) \/ Fail(c)
       \/ \E u \in Users : Claim(c, u) \/ ClaimAgain(c, u)

-----------------------------------------------------------------------------
(* Properties.                                                             *)

\* Whatever other claims do meanwhile, each recording a claim has answered
\* with is one the user owns or that is shared with them.
AnswerIsVisible ==
  \A u \in Users : \A n \in 1 .. Len(answer[u]) :
    LET r == answer[u][n] IN rows[r].owner = u \/ <<r, u>> \in shares

\* A match is extracted once: two recordings of a channel that have not failed
\* come only from claims that overlap, from a failure taken back, or from a
\* claim made just when the video was waiting for Mux.
ExtractedOnce ==
  ~excused =>
    \A n \in 1 .. Channels :
      Cardinality({r \in OfChannel(n) : rows[r].status # "failed"}) <= 1

\* What makes them so: what a claim has found so far the user can see, ...
Seen(r, u) == r \in Ids /\ (rows[r].owner = u \/ <<r, u>> \in shares)
FoundSeen ==
  /\ \A u \in Users : \A n \in 1 .. Len(answer[u]) : Seen(answer[u][n], u)
  /\ \A c \in Calls : call[c].pc # "idle" =>
       \A n \in 1 .. Len(call[c].got) : Seen(call[c].got[n], call[c].user)

\* ... and unless excused there is one claim at most, which makes a recording
\* only where all that there are have failed.
OneClaim ==
  ~excused =>
    /\ \A c, d \in Calls : call[c].pc # "idle" /\ call[d].pc # "idle" => c = d
    /\ \A c \in Calls : call[c].pc = "make" =>
         \A r \in OfChannel(Channel(c)) : rows[r].status = "failed"
    /\ \A n \in 1 .. Channels : \A r, s \in OfChannel(n) :
         rows[r].status # "failed" /\ rows[s].status # "failed" => r = s
=============================================================================
