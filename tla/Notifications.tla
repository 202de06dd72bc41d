---------------------------- MODULE Notifications ----------------------------
(***************************************************************************)
(* What one player is told: the pushes to the phones registered for the    *)
(* account, and the rows of the list in the app (NotificationList).  Four callers tell it:    *)
(* an award of points, after its commit and with nobody waiting; the start *)
(* or the end of a recording, inside its transaction; the webhook that     *)
(* finds the match playable, inside its own, once per delivery; and the    *)
(* administrator's broadcast.                                              *)
(***************************************************************************)
EXTENDS Naturals, Sequences, FiniteSets, Functions

CONSTANTS
  Phones,    \* tokens of devices
  Calls,
  Events,    \* point events
  Matches,   \* recordings, and broadcasts
  MaxRows    \* bound: what the player is told

VARIABLES
  device,    \* user_devices_token, unique by token: none, mine or another's
  known,     \* external: the tokens Firebase still serves
  total,     \* the points the cache holds; every award is one point
  rows,      \* the player's notifications, as they are committed
  call,
  happened,  \* history: how often each has been committed
  silent,    \* history: what could not be told
  odd        \* history: awards whose tellings overlapped; rings at another's

vars == <<device, known, total, rows, call, happened, silent, odd>>

Kinds == {"award", "match", "ready", "broadcast"}
InTransaction == {"match", "ready"}
Topics == ({"award"} \X Events) \cup ((Kinds \ {"award"}) \X Matches)
Row == [topic : Topics, total : 0 .. MaxRows]
Idle == [pc |-> "idle", topic |-> <<>>, todo |-> {}, total |-> 0, row |-> FALSE]

TypeOK ==
  /\ device \in [Phones -> {"none", "mine", "other"}] /\ known \subseteq Phones
  /\ total \in 0 .. MaxRows
  /\ rows \in Seq(Row) /\ Len(rows) <= MaxRows
  /\ call \in [Calls -> [pc : {"idle", "devices", "total", "push", "end"},
                         topic : Topics \cup {<<>>}, todo : SUBSET Phones,
                         total : 0 .. MaxRows, row : BOOLEAN]]
  /\ happened \in [Topics -> 0 .. MaxRows]
  /\ silent \subseteq Topics
  /\ odd \in [crossed : BOOLEAN, strange : BOOLEAN]

Init ==
  /\ device = [p \in Phones |-> "none"] /\ known = Phones
  /\ total = 0 /\ rows = <<>>
  /\ call = [c \in Calls |-> Idle]
  /\ happened = [t \in Topics |-> 0]
  /\ silent = {}
  /\ odd = [crossed |-> FALSE, strange |-> FALSE]

-----------------------------------------------------------------------------
Mine == {p \in Phones : device[p] = "mine"}
NewRow(c) == [topic |-> call[c].topic, total |-> call[c].total]
Inside(c) == call[c].topic[1] \in InTransaction

Count(t) == happened' = [happened EXCEPT ![t] = @ + 1]
Silent(t) == silent' = silent \cup {t}
Room ==   \* bound
  SumFunction(happened)
    + Cardinality({c \in Calls : call[c].pc # "idle" /\ Inside(c)}) < MaxRows
Begun(c, t) == call' = [call EXCEPT ![c] = [Idle EXCEPT !.pc = "devices", !.topic = t]]
Shut(c) == call' = [call EXCEPT ![c] = Idle]

-----------------------------------------------------------------------------
(* The callers. *)

\* An award counts once for its key; nothing is told of one that did not count.
Award(c, e) ==
  /\ call[c].pc = "idle" /\ Room
  /\ happened[<<"award", e>>] = 0
  /\ total' = total + 1
  /\ Count(<<"award", e>>)
  /\ Begun(c, <<"award", e>>)
  /\ UNCHANGED <<device, known, rows, silent, odd>>

\* The transaction of a recording that starts, or that ends.
StartOrStop(c, m) ==
  LET t == <<"match", m>>
  IN /\ call[c].pc = "idle" /\ Room
     /\ happened[t] = 0 /\ \A d \in Calls : call[d].topic # t
     /\ Begun(c, t)
     /\ UNCHANGED <<device, known, total, rows, happened, silent, odd>>

\* The webhook's, every time it is delivered.
Ready(c, m) ==
  /\ call[c].pc = "idle" /\ Room
  /\ Begun(c, <<"ready", m>>)
  /\ UNCHANGED <<device, known, total, rows, happened, silent, odd>>

\* The broadcast, to this player among others.
Broadcast(c, m) ==
  LET t == <<"broadcast", m>>
  IN /\ call[c].pc = "idle" /\ Room
     /\ Count(t) /\ Begun(c, t)
     /\ UNCHANGED <<device, known, total, rows, silent, odd>>

\* The user with the tokens.  Without one, a recording tells nothing at all;
\* an award and a broadcast still leave their row.
ReadDevices(c) ==
  LET next == IF call[c].topic[1] = "award" THEN "total"
              ELSE IF Inside(c) /\ Mine = {} THEN "end" ELSE "push"
  IN /\ call[c].pc = "devices"
     /\ call' = [call EXCEPT ![c].pc = next, ![c].todo = Mine]
     /\ IF next = "end" THEN Silent(call[c].topic) ELSE UNCHANGED silent
     /\ UNCHANGED <<device, known, total, rows, happened, odd>>

\* The award's sentence: you now have so many points.
ReadTotal(c) ==
  /\ call[c].pc = "total"
  /\ call' = [call EXCEPT ![c].pc = "push", ![c].total = total]
  /\ odd' = [odd EXCEPT !.crossed = @ \/ \E d \in Calls \ {c} : call[d].total # 0]
  /\ UNCHANGED <<device, known, total, rows, happened, silent>>

-----------------------------------------------------------------------------
(* Firebase. *)

\* What becomes of a registration when the push is refused: a token that is no
\* longer registered goes; any other refusal is written to the log.  (The
\* mutant: every refusal costs the registration.)
Removed(p) == [device EXCEPT ![p] = IF @ = "mine" THEN "none" ELSE @]
AnyRefused(p) == Removed(p)
Refused(p) == IF p \in known THEN device ELSE Removed(p)

Told(c, p) == call' = [call EXCEPT ![c].todo = @ \ {p}]

Ring(c, p) ==
  /\ call[c].pc = "push" /\ p \in call[c].todo /\ p \in known
  /\ odd' = [odd EXCEPT !.strange = @ \/ device[p] = "other"]
  /\ Told(c, p)
  /\ UNCHANGED <<device, known, total, rows, happened, silent>>

Refuse(c, p) ==
  /\ call[c].pc = "push" /\ p \in call[c].todo
  /\ device' = Refused(p)
  /\ Told(c, p)
  /\ UNCHANGED <<known, total, rows, happened, silent, odd>>

\* A refusal whose handling fails.  The award and the broadcast go on to the next
\* device, the webhook goes on without a row, the recording is rolled back.
Pushing(c, p) == call[c].pc = "push" /\ p \in call[c].todo

ThrowOutside(c, p) ==
  /\ Pushing(c, p) /\ ~Inside(c) /\ Told(c, p)
  /\ UNCHANGED <<device, known, total, rows, happened, silent, odd>>
ThrowReady(c, p) ==
  /\ Pushing(c, p) /\ call[c].topic[1] = "ready"
  /\ call' = [call EXCEPT ![c].pc = "end", ![c].todo = {}]
  /\ Silent(call[c].topic)
  /\ UNCHANGED <<device, known, total, rows, happened, odd>>
ThrowMatch(c, p) ==
  /\ Pushing(c, p) /\ call[c].topic[1] = "match" /\ Shut(c)
  /\ UNCHANGED <<device, known, total, rows, happened, silent, odd>>

-----------------------------------------------------------------------------
(* The row. *)

Listed(c) == call[c].pc = "push" /\ call[c].todo = {}

\* Inside a transaction nobody sees it yet.
Saved(c) == call' = [call EXCEPT ![c].pc = "end", ![c].row = TRUE]
SaveMatch(c) ==
  /\ Listed(c) /\ call[c].topic[1] = "match" /\ Saved(c)
  /\ UNCHANGED <<device, known, total, rows, happened, silent, odd>>
SaveReady(c) ==
  /\ Listed(c) /\ call[c].topic[1] = "ready" /\ Saved(c)
  /\ UNCHANGED <<device, known, total, rows, happened, silent, odd>>

SaveAlone(c) ==
  /\ Listed(c) /\ ~Inside(c)
  /\ rows' = Append(rows, NewRow(c))
  /\ Shut(c)
  /\ UNCHANGED <<device, known, total, happened, silent, odd>>

\* The award and the broadcast log it; a transaction is over with its failure.
SaveFails(c) ==
  /\ Listed(c)
  /\ IF Inside(c) THEN UNCHANGED silent ELSE Silent(call[c].topic)
  /\ Shut(c)
  /\ UNCHANGED <<device, known, total, rows, happened, odd>>

Commit(c) ==
  /\ call[c].pc = "end"
  /\ rows' = IF call[c].row THEN Append(rows, NewRow(c)) ELSE rows
  /\ Count(call[c].topic)
  /\ Shut(c)
  /\ UNCHANGED <<device, known, total, silent, odd>>

\* The rest of the recording's or the webhook's transaction fails.
RollBack(c) ==
  /\ call[c].pc = "end" \/ (Listed(c) /\ Inside(c))
  /\ Shut(c)
  /\ UNCHANGED <<device, known, total, rows, happened, silent, odd>>

-----------------------------------------------------------------------------
(* The phones. *)

\* The app tells its token whenever it opens; the token of another account is
\* refused by the unique index.
Register(p, who) ==
  /\ device[p] = "none"
  /\ device' = [device EXCEPT ![p] = who]
  /\ UNCHANGED <<known, total, rows, call, happened, silent, odd>>

\* External: the app is removed, or given a new token.
Expire(p) ==
  /\ p \in known
  /\ known' = known \ {p}
  /\ UNCHANGED <<device, total, rows, call, happened, silent, odd>>

-----------------------------------------------------------------------------
Next ==
  \/ \E c \in Calls :
       \/ \E e \in Events : Award(c, e)
       \/ \E m \in Matches : StartOrStop(c, m) \/ Ready(c, m) \/ Broadcast(c, m)
       \/ ReadDevices(c) \/ ReadTotal(c)
       \/ \E p \in Phones : \/ Ring(c, p) \/ Refuse(c, p) \/ ThrowOutside(c, p)
                            \/ ThrowReady(c, p) \/ ThrowMatch(c, p)
       \/ SaveMatch(c) \/ SaveReady(c) \/ SaveAlone(c) \/ SaveFails(c)
       \/ Commit(c) \/ RollBack(c)
  \/ \E p \in Phones : Expire(p) \/ \E who \in {"mine", "other"} : Register(p, who)

-----------------------------------------------------------------------------
Of(t) == {i \in DOMAIN rows : rows[i].topic = t}
AwardRow(i) == rows[i].topic[1] = "award"

\* What has been committed is in the player's list as often as it has been
\* committed, and what was rolled back is not, although the phones may have rung
\* for it: an award and a broadcast unless their row could not be saved, a
\* recording unless there was no phone to tell.  The total an award's row tells
\* counts the points of every award told before it, unless two were told at once.
\* No phone rings for an account it is not registered to.
PlayerIsTold ==
  /\ \A t \in Topics : (\A c \in Calls : call[c].topic # t) =>
       /\ Cardinality(Of(t)) <= happened[t]
       /\ t \notin silent => Cardinality(Of(t)) = happened[t]
  /\ odd.crossed \/ \A i \in DOMAIN rows : AwardRow(i) =>
       rows[i].total >= Cardinality({j \in 1 .. i : AwardRow(j)})
  /\ ~odd.strange

\* What is committed is in the list or, outside of transactions, still in hand.
Hand(t) == {c \in Calls : call[c].topic = t}
Accounted(t) == Cardinality(Of(t)) + IF t[1] \in InTransaction THEN 0 ELSE Cardinality(Hand(t))
ToldOrInHand ==
  \A t \in Topics : /\ Accounted(t) <= happened[t]
                    /\ t \notin silent => Accounted(t) = happened[t]
\* A transaction that ends without a row has had its reason.
EndsTold == \A c \in Calls : call[c].pc = "end" =>
              Inside(c) /\ (call[c].row \/ call[c].topic \in silent)

\* Every award that has a row, or will have one, is in the total; and unless two
\* were told at once, the total about to be told is above those of the rows.
AwardRows == {i \in DOMAIN rows : AwardRow(i)}
AwardsInHand == {c \in Calls : \E e \in Events : call[c].topic = <<"award", e>>}
TotalsAhead ==
  /\ total >= Cardinality(AwardRows) + Cardinality(AwardsInHand)
  /\ ~odd.crossed =>
       /\ \A c, d \in Calls : call[c].total # 0 /\ call[d].total # 0 => d = c
       /\ \A c \in AwardsInHand : call[c].pc = "push" => call[c].total > Cardinality(AwardRows)
\* A phone that is still to ring, and can, is the player's.
RingsMine == \A c \in Calls : \A p \in call[c].todo \cap known : device[p] = "mine"
=============================================================================
