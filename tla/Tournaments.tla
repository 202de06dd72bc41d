----------------------------- MODULE Tournaments -----------------------------
(***************************************************************************)
(* Enrolment in one tournament.  enrollTournament reads the tournament,    *)
(* looks for an enrolment of the user and for the payment, saves the       *)
(* enrolment, and saves the tournament with one participant more than it   *)
(* read: separate statements without a transaction.  The admin's handlers  *)
(* (updateTournament, setTournamentStatus, updateLiveStreams) save all of  *)
(* what they read as well, and a save puts back a tournament deleted       *)
(* meanwhile.                                                              *)
(***************************************************************************)
EXTENDS Naturals, Sequences, FiniteSets

CONSTANTS
  Users, Calls, None,
  Max,        \* maxParticipants
  MaxSeats    \* bound: enrolments

VARIABLES
  fee,        \* whether there is an entry fee
  exists,     \* the tournament has its row
  count,      \* participantsCount
  enrolled,   \* tournament_enrollments, one user each
  paid,       \* users with a completed payment for this tournament
  call,
  disturbed   \* history: two calls overlapped, or an enrolment was not counted

vars == <<fee, exists, count, enrolled, paid, call, disturbed>>

Call == [pc : {"idle", "ask", "enrol", "count", "edit"},
         user : Users \cup {None}, count : 0 .. MaxSeats]
Idle == [pc |-> "idle", user |-> None, count |-> 0]

TypeOK ==
  /\ fee \in BOOLEAN /\ exists \in BOOLEAN /\ disturbed \in BOOLEAN
  /\ count \in 0 .. MaxSeats
  /\ enrolled \in Seq(Users) /\ Len(enrolled) <= MaxSeats
  /\ paid \subseteq Users
  /\ call \in [Calls -> Call]
  /\ \A c \in Calls : call[c].pc \in {"ask", "enrol", "count"} <=> call[c].user # None

Init ==
  /\ fee \in BOOLEAN
  /\ exists = TRUE /\ count = 0 /\ enrolled = <<>> /\ paid = {}
  /\ call = [c \in Calls |-> Idle]
  /\ disturbed = FALSE

-----------------------------------------------------------------------------
Go(c, new) == call' = [call EXCEPT ![c] = new]
Starts(c) ==
  disturbed' = (disturbed \/ \E d \in Calls \ {c} : call[d].pc # "idle")
In(u) == \E i \in DOMAIN enrolled : enrolled[i] = u

Ask(c, u) ==
  /\ call[c].pc = "idle"
  /\ exists
  /\ Starts(c)
  /\ Go(c, [pc |-> "ask", user |-> u, count |-> count])
  /\ UNCHANGED <<fee, exists, count, enrolled, paid>>

\* (A mutant: one more than there are places.)
Over(n) == n > Max
Full(n) == n >= Max

\* A user is enrolled once, while there are places, and after the payment.
Admit(c) ==
  LET k == call[c]
  IN /\ k.pc = "ask"
     /\ IF ~In(k.user) /\ ~Full(k.count) /\ (fee => k.user \in paid)
        THEN Go(c, [k EXCEPT !.pc = "enrol"])
        ELSE Go(c, Idle)
     /\ UNCHANGED <<fee, exists, count, enrolled, paid, disturbed>>

Enrol(c) ==
  /\ call[c].pc = "enrol"
  /\ Len(enrolled) < MaxSeats
  /\ enrolled' = Append(enrolled, call[c].user)
  /\ Go(c, [call[c] EXCEPT !.pc = "count"])
  /\ UNCHANGED <<fee, exists, count, paid, disturbed>>

Count(c) ==
  /\ call[c].pc = "count"
  /\ call[c].count < MaxSeats
  /\ count' = call[c].count + 1
  /\ exists' = TRUE
  /\ Go(c, Idle)
  /\ UNCHANGED <<fee, enrolled, paid, disturbed>>

\* The database fails or the server restarts: an enrolment may stay uncounted.
Fail(c) ==
  /\ call[c].pc # "idle"
  /\ disturbed' = (disturbed \/ call[c].pc = "count")
  /\ Go(c, Idle)
  /\ UNCHANGED <<fee, exists, count, enrolled, paid>>

\* An admin's handler that leaves the count to itself.
Edit(c) ==
  /\ call[c].pc = "idle"
  /\ exists
  /\ Starts(c)
  /\ Go(c, [pc |-> "edit", user |-> None, count |-> count])
  /\ UNCHANGED <<fee, exists, count, enrolled, paid>>

Edited(c) ==
  /\ call[c].pc = "edit"
  /\ count' = call[c].count
  /\ exists' = TRUE
  /\ Go(c, Idle)
  /\ UNCHANGED <<fee, enrolled, paid, disturbed>>

Delete ==
  /\ exists
  /\ exists' = FALSE
  /\ disturbed' = (disturbed \/ \E c \in Calls : call[c].pc # "idle")
  /\ UNCHANGED <<fee, count, enrolled, paid, call>>

\* An order is made for a user who is not enrolled, and is paid later.
Pay(u) ==
  /\ fee /\ u \notin paid
  /\ paid' = paid \cup {u}
  /\ UNCHANGED <<fee, exists, count, enrolled, call, disturbed>>

Next ==
  \/ Delete
  \/ \E u \in Users : Pay(u)
  \/ \E c \in Calls :
       \/ Admit(c) \/ Enrol(c) \/ Count(c) \/ Fail(c) \/ Edit(c) \/ Edited(c)
       \/ \E u \in Users : Ask(c, u)

-----------------------------------------------------------------------------
\* Unless two calls overlapped or one failed between its two saves, the count
\* that closes a tournament is the number of its enrolments (but for the one
\* in progress), nobody holds two places, and no more are given than there are.
SeatsAgree ==
  ~disturbed =>
    /\ count = Cardinality({i \in DOMAIN enrolled :
                 \A c \in Calls : call[c].pc = "count" => i # Len(enrolled)})
    /\ Len(enrolled) <= Max
    /\ \A i, j \in DOMAIN enrolled : enrolled[i] = enrolled[j] => i = j

\* What makes them so: unless disturbed there is one call at most, which holds
\* the count there is; the enrolment it is to count is the last one.
OneCall ==
  ~disturbed =>
    /\ \A c, d \in Calls : call[c].pc # "idle" /\ call[d].pc # "idle" => c = d
    /\ \A c \in Calls : call[c].pc # "idle" => call[c].count = count
    /\ \A c \in Calls : call[c].pc = "enrol" => ~In(call[c].user) /\ count < Max
    /\ \A c \in Calls : call[c].pc = "count" => Len(enrolled) = count + 1
    /\ (\A c \in Calls : call[c].pc # "count") => Len(enrolled) = count
    /\ Len(enrolled) <= Max
    /\ \A i, j \in DOMAIN enrolled : enrolled[i] = enrolled[j] => i = j
=============================================================================
