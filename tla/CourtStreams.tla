---------------------------- MODULE CourtStreams ----------------------------
(***************************************************************************)
(* Live streams of a court's two camera slots: startCourtLiveStream makes  *)
(* a stream at Mux, asks the Pi to feed it and enters it into the          *)
(* tournaments that show the camera; stopCourtLiveStream stops the Pi,     *)
(* finds the stream, disables it and marks the slot offline.  A            *)
(* tournament's list is one JSON column, read and written back as a whole. *)
(***************************************************************************)
EXTENDS Naturals, FiniteSets

CONSTANTS
  Streams,      \* bound: live streams Mux can make
  Slots,        \* camera slots: _ch1, _ch2
  Tournaments,
  Calls,        \* slots for handlers in progress
  None

VARIABLES
  lists,   \* tournaments.liveStreams: for each slot its stream, and whether live
  open,    \* tournaments that are Upcoming or Live
  mux,     \* Mux: the state of each stream
  fed,     \* the stream the Pi feeds from each slot
  call,
  (* history: two handlers were under way at once, a tournament has changed *)
  (* or something failed                                                    *)
  disturbed

vars == <<lists, open, mux, fed, call, disturbed>>

Entry == [stream : Streams \cup {None}, live : BOOLEAN]
NoEntry == [stream |-> None, live |-> FALSE]
Call == [pc : {"idle", "feed", "enter", "find", "disable", "offline"},
         slot : Slots \cup {None},
         stream : Streams \cup {None},
         \* the lists of the open tournaments as read, once some are written
         read : [Tournaments -> [Slots -> Entry]],
         todo : SUBSET Tournaments]
NoLists == [t \in Tournaments |-> [s \in Slots |-> NoEntry]]
Idle == [pc |-> "idle", slot |-> None, stream |-> None, read |-> NoLists,
         todo |-> {}]

Made == {m \in Streams : mux[m] # "none"}

TypeOK ==
  /\ lists \in [Tournaments -> [Slots -> Entry]]
  /\ \A t \in Tournaments, s \in Slots :
       lists[t][s].live => lists[t][s].stream \in Made
  /\ open \subseteq Tournaments
  /\ mux \in [Streams -> {"none", "enabled", "disabled"}]
  /\ fed \in [Slots -> Streams \cup {None}]
  /\ call \in [Calls -> Call]
  /\ disturbed \in BOOLEAN

Init ==
  /\ lists = NoLists
  /\ open = Tournaments
  /\ mux = [m \in Streams |-> "none"]
  /\ fed = [s \in Slots |-> None]
  /\ call = [c \in Calls |-> Idle]
  /\ disturbed = FALSE

-----------------------------------------------------------------------------
Go(c, new) == call' = [call EXCEPT ![c] = new]

Begin(c, s, pc, m) ==
  /\ call[c].pc = "idle"
  /\ Go(c, [Idle EXCEPT !.pc = pc, !.slot = s, !.stream = m])
  /\ disturbed' = (disturbed \/ \E d \in Calls : call[d].pc # "idle")

\* Go on with the tournaments, as they are read now.
Enter(c, pc, m) ==
  Go(c, [call[c] EXCEPT !.pc = IF open = {} THEN "idle" ELSE pc, !.stream = m,
                        !.slot = IF open = {} THEN None ELSE @,
                        !.read = IF open = {} THEN NoLists ELSE lists,
                        !.todo = open])

\* One tournament's list is written back, with the slot's entry changed.
WriteBack(c, Entered(_)) ==
  \E t \in call[c].todo :
    LET todo == call[c].todo \ {t}
    IN /\ lists' = [lists EXCEPT
                      ![t] = [call[c].read[t] EXCEPT
                                ![call[c].slot] = Entered(@)]]
       /\ Go(c, IF todo = {} THEN Idle ELSE [call[c] EXCEPT !.todo = todo])

Start(c, s) ==
  /\ \E m \in Streams :
       /\ mux[m] = "none"
       /\ mux' = [mux EXCEPT ![m] = "enabled"]
       /\ Begin(c, s, "feed", m)
  /\ UNCHANGED <<lists, open, fed>>

\* The Pi feeds the stream; without it the stream is shown all the same.
Feed(c) ==
  /\ call[c].pc = "feed"
  /\ fed' \in {fed, [fed EXCEPT ![call[c].slot] = call[c].stream]}
  /\ Enter(c, "enter", call[c].stream)
  /\ UNCHANGED <<lists, open, mux, disturbed>>

\* upsertTournamentLiveStream.
UpsertStream(c) ==
  /\ call[c].pc = "enter"
  /\ LET Live(e) == [stream |-> call[c].stream, live |-> TRUE]
     IN WriteBack(c, Live)
  /\ UNCHANGED <<open, mux, fed, disturbed>>

-----------------------------------------------------------------------------
\* The admin may name the stream that is shown.
Stop(c, s) ==
  /\ \E m \in {None} \cup {lists[t][s].stream : t \in open} :
       Begin(c, s, "find", m)
  /\ UNCHANGED <<lists, open, mux, fed>>

\* resolveStoredLiveStreamId: whichever open tournament comes first.  (A
\* mutant: the camera's other slot will do.)
OfCamera(s) == {lists[t][r].stream : t \in open, r \in Slots} \ {None}
Stored(s) == {lists[t][s].stream : t \in open} \ {None}

StopFeed(c) ==
  LET s == call[c].slot
  IN /\ call[c].pc = "find"
     /\ fed' = [fed EXCEPT ![s] = None]
     /\ IF call[c].stream # None
        THEN Go(c, [call[c] EXCEPT !.pc = "disable"])
        ELSE IF Stored(s) = {} THEN Enter(c, "offline", None)
        ELSE \E m \in Stored(s) :
               Go(c, [call[c] EXCEPT !.pc = "disable", !.stream = m])
     /\ UNCHANGED <<lists, open, mux, disturbed>>

\* The Pi does not answer: nothing else is done.
StopFails(c) ==
  /\ call[c].pc = "find"
  /\ Go(c, Idle)
  /\ UNCHANGED <<lists, open, mux, fed, disturbed>>

\* Mux may refuse.
Disable(c) ==
  /\ call[c].pc = "disable"
  /\ mux' \in {mux, [mux EXCEPT ![call[c].stream] = "disabled"]}
  /\ Enter(c, "offline", call[c].stream)
  /\ UNCHANGED <<lists, open, fed, disturbed>>

\* markTournamentLiveStreamOffline.  (A mutant: only the stream is forgotten.)
Forgotten(e) == [e EXCEPT !.stream = None]
Offline(e) == [e EXCEPT !.live = FALSE]

MarkOffline(c) ==
  /\ call[c].pc = "offline"
  /\ WriteBack(c, Offline)
  /\ UNCHANGED <<open, mux, fed, disturbed>>

\* A tournament ends, or is opened again.
Change(t) ==
  /\ open' = IF t \in open THEN open \ {t} ELSE open \cup {t}
  /\ disturbed' = TRUE
  /\ UNCHANGED <<lists, mux, fed, call>>

\* The handler fails at the database, or the server restarts.
Fail(c) ==
  /\ call[c].pc # "idle"
  /\ Go(c, Idle)
  /\ disturbed' = TRUE
  /\ UNCHANGED <<lists, open, mux, fed>>

Next ==
  \/ \E t \in Tournaments : Change(t)
  \/ \E c \in Calls :
       \/ Feed(c) \/ UpsertStream(c) \/ StopFeed(c) \/ StopFails(c)
       \/ Disable(c) \/ MarkOffline(c) \/ Fail(c)
       \/ \E s \in Slots : Start(c, s) \/ Stop(c, s)

-----------------------------------------------------------------------------
(* Properties.                                                             *)

\* Unless handlers overlap or tournaments come and go, a stream that a
\* tournament shows as live is one that Mux still serves, once its slot is
\* not being stopped.
ShownIsServed ==
  ~disturbed =>
    \A t \in open, s \in Slots :
      (lists[t][s].live /\ ~\E c \in Calls : call[c].pc = "offline")
        => mux[lists[t][s].stream] = "enabled"

\* What it rests on: a stream is one slot's, in the lists ...
StreamOfSlot ==
  \A t \in Tournaments, s \in Slots :
    /\ lists[t][s].stream \in Made \cup {None}
    /\ lists[t][s].live => lists[t][s].stream \in Made
    /\ \A u \in Tournaments, r \in Slots :
         lists[t][s].stream = lists[u][r].stream /\ lists[t][s].stream # None => s = r

\* ... and in the handler's hand, which has the lists as they are ...
InHand(k) ==
  /\ k.pc # "idle" =>
       /\ k.stream \in Made \cup {None}
       /\ k.stream # None =>
            \A t \in Tournaments, s \in Slots : lists[t][s].stream = k.stream => s = k.slot
       /\ k.pc = "disable" => k.stream # None
       /\ k.pc \in {"feed", "enter"} =>
            k.stream # None /\ mux[k.stream] = "enabled"
  /\ k.pc \in {"enter", "offline"} => \A t \in k.todo : k.read[t] = lists[t]

\* ... and only the entries it has still to mark offline may show a stream that
\* is disabled.
ToMark(k, t, s) == k.pc = "offline" /\ s = k.slot /\ t \in k.todo
ShownAt(t, s) == lists[t][s].live => mux[lists[t][s].stream] = "enabled"

OneHandler ==
  ~disturbed =>
    /\ StreamOfSlot
    /\ \A c, d \in Calls : call[c].pc # "idle" /\ call[d].pc # "idle" => c = d
    /\ \A c \in Calls : InHand(call[c])
    /\ \A t \in open, s \in Slots : ShownAt(t, s) \/ \E c \in Calls : ToMark(call[c], t, s)
=============================================================================
