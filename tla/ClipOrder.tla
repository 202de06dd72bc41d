------------------------------ MODULE ClipOrder ------------------------------
(***************************************************************************)
(* processing_order: the order in which the clips of one recording are cut.*)
(* A press of the button appends its highlight with MAX + 1, read by one   *)
(* statement of its transaction and written by a later one, without a lock.*)
(* The asset-ready event numbers anew, by the time of the press, whatever  *)
(* has not failed; a highlight that fails leaves the chain and the rest is *)
(* closed up; the sweep Lambda takes out the failed ones others have left  *)
(* in it.  The transactions run READ COMMITTED: a statement sees what had  *)
(* been committed when it began.                                           *)
(***************************************************************************)
EXTENDS Naturals, Sequences, FiniteSets, FiniteSetsExt

CONSTANTS
  Presses,   \* requests that press the button
  MaxTime,   \* bound: moments, 0 .. MaxTime, at which the button is pressed
  MinGap,    \* thirty seconds between two presses of the player's own button
  MaxRows    \* bound: highlights of the recording

VARIABLES
  rows,      \* recording_highlights of the recording, as they were inserted
  press,
  event,     \* the transaction of the asset-ready event
  worker,    \* the processor, which holds the recording's advisory lock
  sweep,
  meddled,   \* history: a number was read, and others changed before its use
  unsorted   \* history: a press was told late, and nothing sorted since

vars == <<rows, press, event, worker, sweep, meddled, unsorted>>

Times == 0 .. MaxTime
Ids == 1 .. MaxRows

\* order 0 stands for NULL; status waiting: pending, queued or processing.
Row == [at : Times, order : 0 .. MaxRows + 1, asset : BOOLEAN,
        status : {"waiting", "done", "failed"}]

TypeOK ==
  /\ rows \in Seq(Row) /\ Len(rows) <= MaxRows
  /\ press \in [Presses -> [kind : {"none", "clip", "file"},
                            at : Times, last : 0 .. MaxRows + 1]]
  /\ event \in [pc : {"idle", "found", "ordered"}, queue : SUBSET Ids,
                of : 0 .. MaxRows]
  /\ worker \in {"idle", "reorder"}
  /\ sweep \in [pc : {"idle", "clear"}, left : SUBSET Ids, cleared : BOOLEAN]
  /\ meddled \in BOOLEAN /\ unsorted \in BOOLEAN

Free == [kind |-> "none", at |-> 0, last |-> 0]
NoEvent == [pc |-> "idle", queue |-> {}, of |-> 0]
Asleep == [pc |-> "idle", left |-> {}, cleared |-> FALSE]

Init ==
  /\ rows = <<>>
  /\ press = [p \in Presses |-> Free]
  /\ event = NoEvent /\ worker = "idle" /\ sweep = Asleep
  /\ meddled = FALSE /\ unsorted = FALSE

-----------------------------------------------------------------------------
Failed(r) == r.status = "failed"
Numbered(r) == r.order # 0
Sooner(i, j) == rows[i].at < rows[j].at \/ (rows[i].at = rows[j].at /\ i < j)

\* The rows of a set, numbered from 1 by the moment of the press, then by
\* created_at.  (The mutant: as they were inserted.)
Inserted(set) ==
  [i \in DOMAIN rows |-> IF i \in set THEN Cardinality({j \in set : j <= i})
                                      ELSE rows[i].order]
Ordered(set) ==
  [i \in DOMAIN rows |-> IF i \in set
                         THEN 1 + Cardinality({j \in set : Sooner(j, i)})
                         ELSE rows[i].order]

\* What the chain is after a failure: whoever has a number.
InChain == {i \in DOMAIN rows : Numbered(rows[i])}

\* COALESCE(MAX(processing_order), 0).
LastOrder ==
  Max({rows[i].order : i \in DOMAIN rows} \cup {0})

InHand(p) == press[p] # Free
SomeInHand == \E p \in Presses : InHand(p)
Meddle(now) == meddled' = (meddled \/ now)

\* The rows the event's transaction has updated are locked until it commits.
Unlocked(i) == event.pc # "ordered" \/ i > event.of

-----------------------------------------------------------------------------
(* The press. *)

\* The player's own button is refused within thirty seconds of the last press;
\* the court's button tells its own moment, and may tell it late.  The highest
\* number is read.
Press(p, t, kind) ==
  /\ ~InHand(p)
  /\ Len(rows) + Cardinality({q \in Presses : InHand(q)}) < MaxRows   \* bound
  /\ kind = "own" => \A i \in DOMAIN rows : t >= rows[i].at + MinGap
  /\ press' = [press EXCEPT ![p] = [kind |-> IF kind = "file" THEN "file" ELSE "clip",
                                   at |-> t, last |-> LastOrder]]
  /\ UNCHANGED <<rows, event, worker, sweep, meddled, unsorted>>

\* What comes with a file needs no clip.
Insert(p) ==
  LET file == press[p].kind = "file"
      r == [at |-> press[p].at, order |-> press[p].last + 1, asset |-> file,
            status |-> IF file THEN "done" ELSE "waiting"]
  IN /\ InHand(p)
     /\ press[p].last < MaxRows + 1   \* bound
     /\ rows' = Append(rows, r)
     /\ press' = [press EXCEPT ![p] = Free]
     /\ Meddle(event.pc = "ordered" \/ \E q \in Presses \ {p} : InHand(q))
     /\ unsorted' = (unsorted \/ \E i \in InChain : rows[i].at > r.at)
     /\ UNCHANGED <<event, worker, sweep>>

\* The clip's own asset-ready event.
Done(i) ==
  /\ rows[i].status = "waiting" /\ rows[i].asset
  /\ Unlocked(i)
  /\ rows' = [rows EXCEPT ![i].status = "done"]
  /\ UNCHANGED <<press, event, worker, sweep, meddled, unsorted>>

-----------------------------------------------------------------------------
(* The asset of the recording. *)

Find ==
  /\ event.pc = "idle"
  /\ event' = [pc |-> "found", of |-> 0,
               queue |-> {i \in DOMAIN rows : ~rows[i].asset}]
  /\ UNCHANGED <<rows, press, worker, sweep, meddled, unsorted>>

\* The rows it found wait again, the failed ones too, and whatever has not
\* failed is numbered; nobody sees it yet.
Number ==
  /\ event.pc = "found"
  /\ event' = [event EXCEPT !.pc = "ordered", !.of = Len(rows)]
  /\ UNCHANGED <<rows, press, worker, sweep, meddled, unsorted>>

Queued(i) == IF i \in event.queue THEN "waiting" ELSE rows[i].status

\* Whoever is numbered by the event: the rows there were at its statement that
\* have not failed.
ToNumber == {i \in 1 .. event.of : Queued(i) # "failed"}

Commit ==
  /\ event.pc = "ordered"
  /\ LET order == Ordered(ToNumber)
     IN rows' = [i \in DOMAIN rows |->
                   [rows[i] EXCEPT !.status = Queued(i), !.order = order[i]]]
  /\ event' = NoEvent
  /\ Meddle(SomeInHand \/ sweep.pc # "idle")
  /\ unsorted' = FALSE
  /\ UNCHANGED <<press, worker, sweep>>

Abort ==
  /\ event.pc = "ordered"
  /\ event' = NoEvent
  /\ UNCHANGED <<rows, press, worker, sweep, meddled, unsorted>>

\* The recording's own asset cannot be made: every highlight has failed, and
\* keeps its number.
SourceErrored ==
  /\ event.pc = "idle"
  /\ rows' = [i \in DOMAIN rows |-> [rows[i] EXCEPT !.status = "failed"]]
  /\ UNCHANGED <<press, event, worker, sweep, meddled, unsorted>>

-----------------------------------------------------------------------------
(* The processor. *)

Cut(i) ==
  /\ worker = "idle"
  /\ rows[i].status = "waiting" /\ ~rows[i].asset /\ Unlocked(i)
  /\ rows' = [rows EXCEPT ![i].asset = TRUE]
  /\ UNCHANGED <<press, event, worker, sweep, meddled, unsorted>>

\* markFailed, markPermanentlyFailed: out of the chain, which is closed up by
\* the next statement.
Fail(i) ==
  /\ worker = "idle"
  /\ rows[i].status = "waiting" /\ Unlocked(i)
  /\ rows' = [rows EXCEPT ![i].status = "failed", ![i].order = 0]
  /\ worker' = "reorder"
  /\ Meddle(SomeInHand)
  /\ UNCHANGED <<press, event, sweep, unsorted>>

Renumbered ==
  LET order == Ordered(InChain)
  IN [i \in DOMAIN rows |-> [rows[i] EXCEPT !.order = order[i]]]

CloseUp ==
  /\ worker = "reorder"
  /\ \A i \in DOMAIN rows : Unlocked(i)
  /\ rows' = Renumbered
  /\ worker' = "idle"
  /\ Meddle(SomeInHand)
  /\ unsorted' = FALSE
  /\ UNCHANGED <<press, event, sweep>>

\* A failure of the second statement is only logged; a crash leaves it out too.
NotClosedUp ==
  /\ worker = "reorder"
  /\ worker' = "idle"
  /\ UNCHANGED <<rows, press, event, sweep, meddled, unsorted>>

\* Mux has lost the clip's asset: the row fails and keeps its number.
Gone(i) ==
  /\ worker = "idle"
  /\ rows[i].status = "waiting" /\ rows[i].asset /\ Unlocked(i)
  /\ rows' = [rows EXCEPT ![i].status = "failed", ![i].asset = FALSE]
  /\ UNCHANGED <<press, event, worker, sweep, meddled, unsorted>>

-----------------------------------------------------------------------------
(* The sweep. *)

\* Failed rows that are still in the chain.
Leftover == {i \in InChain : Failed(rows[i])}

SweepFind ==
  /\ sweep.pc = "idle"
  /\ Leftover # {}
  /\ sweep' = [pc |-> "clear", left |-> Leftover, cleared |-> FALSE]
  /\ UNCHANGED <<rows, press, event, worker, meddled, unsorted>>

SweepClear(i) ==
  /\ sweep.pc = "clear" /\ i \in sweep.left
  /\ Unlocked(i)
  /\ rows' = [rows EXCEPT ![i].order = 0]
  /\ sweep' = [sweep EXCEPT !.left = @ \ {i}, !.cleared = TRUE]
  /\ Meddle(SomeInHand)
  /\ UNCHANGED <<press, event, worker, unsorted>>

SweepMisses(i) ==
  /\ sweep.pc = "clear" /\ i \in sweep.left
  /\ sweep' = [sweep EXCEPT !.left = @ \ {i}]
  /\ UNCHANGED <<rows, press, event, worker, meddled, unsorted>>

SweepCloses ==
  /\ sweep.pc = "clear" /\ sweep.left = {}
  /\ sweep.cleared => \A i \in DOMAIN rows : Unlocked(i)
  /\ \/ rows' = (IF sweep.cleared THEN Renumbered ELSE rows)
        /\ unsorted' = (unsorted /\ ~sweep.cleared)
     \/ UNCHANGED <<rows, unsorted>>
  /\ Meddle(SomeInHand)
  /\ sweep' = Asleep
  /\ UNCHANGED <<press, event, worker>>

-----------------------------------------------------------------------------
Next ==
  \/ \E p \in Presses :
       \/ \E t \in Times, kind \in {"own", "court", "file"} : Press(p, t, kind)
       \/ Insert(p)
  \/ \E i \in DOMAIN rows :
       \/ Done(i)
       \/ Cut(i)
       \/ Fail(i)
       \/ Gone(i)
       \/ SweepClear(i)
       \/ SweepMisses(i)
  \/ Find \/ Number \/ Commit \/ Abort \/ SourceErrored
  \/ CloseUp \/ NotClosedUp
  \/ SweepFind \/ SweepCloses

Alive == {i \in DOMAIN rows : ~Failed(rows[i])}

\* Unless the numbers changed between the moment one was read and the moment
\* it was used, no highlight that still waits is out of the chain (the processor
\* would take it last and nothing but another asset-ready event would put it
\* back), no two highlights hold one number, and the numbers follow the match:
\* a press told in time is cut before a later one.
OrderKept ==
  ~meddled =>
    /\ \A i \in Alive : Numbered(rows[i])
    /\ \A i, j \in Alive : i # j => rows[i].order # rows[j].order
    /\ ~unsorted => \A i, j \in Alive :
                      rows[i].at < rows[j].at => rows[i].order < rows[j].order

\* What was excused stays so: what comes after need not be looked at.
Telling == ~meddled
=============================================================================
