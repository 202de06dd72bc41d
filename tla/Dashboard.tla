------------------------------ MODULE Dashboard ------------------------------
(***************************************************************************)
(* What the app's home screen and its analytics tell a user of the matches *)
(* played: the recordings the user has unlocked and can watch, those of    *)
(* the cameras of one match taken together, counted by week and by day.    *)
(***************************************************************************)
EXTENDS Integers, FiniteSets, FiniteSetsExt

CONSTANTS
  Recs,      \* recordings
  Of,        \* the match each was made of
  Minutes,   \* the minutes at which matches start
  Days       \* the days on which the user looks

MinutesPerDay == 2

VARIABLES
  rec,       \* recordings: start, session key (or 0), turf, whether ready, playback id
  unlocked,  \* the ones the user, or someone of the match, has paid for
  today

vars == <<rec, unlocked, today>>

Rec == [start : Minutes, key : {0} \cup {Of[r] : r \in Recs}, turf : {1, 2},
        ready : BOOLEAN, play : BOOLEAN]

TypeOK ==
  rec \in [Recs -> Rec] /\ unlocked \subseteq Recs /\ today \in Days

\* The cameras of a match are those of one turf, and start within a minute of
\* one another; its key is on every recording, or, where the metadata was lost
\* or never had it, on some or none.  (Turfs are interchangeable: that of the
\* first recording is called 1.)
Init ==
  /\ rec \in [Recs -> {r \in Rec : ~r.ready /\ ~r.play}]
  /\ \A r \in Recs : rec[r].key \in {0, Of[r]}
  /\ \A r, q \in Recs : Of[r] = Of[q] =>
       rec[r].turf = rec[q].turf /\ rec[r].start - rec[q].start \in {-1, 0, 1}
  /\ rec[Min(Recs)].turf = 1
  /\ unlocked = {}
  /\ today \in Days

\* Someone pays; Mux has the video ready; and the extraction is tried again and
\* fails.
Unlock(r) ==
  /\ unlocked' = unlocked \cup {r}
  /\ UNCHANGED <<rec, today>>

Ready(r) ==
  /\ rec' = [rec EXCEPT ![r].ready = TRUE, ![r].play = TRUE]
  /\ UNCHANGED <<unlocked, today>>

Fail(r) ==
  /\ rec' = [rec EXCEPT ![r].ready = FALSE]
  /\ UNCHANGED <<unlocked, today>>

Later ==
  /\ today' \in {d \in Days : d > today}
  /\ UNCHANGED <<rec, unlocked>>

Next == Later \/ \E r \in Recs : Unlock(r) \/ Ready(r) \/ Fail(r)

-----------------------------------------------------------------------------
\* getUserPaidRecordings.
Paid == {r \in unlocked : rec[r].ready \/ rec[r].play}

\* getDistinctMatchSessions, newest first: the latest recording with a key
\* stands for all that have it.
KeyOf(r) ==
  IF rec[r].key # 0 THEN <<"session", rec[r].key>>
  ELSE <<"turf", rec[r].turf, rec[r].start>>
Sessions ==
  {[key |-> k, start |-> Max({rec[r].start : r \in {q \in Paid : KeyOf(q) = k}})] :
     k \in {KeyOf(r) : r \in Paid}}

\* getStartOfWeekMonday; day 0 is a Monday, and getDay says 0 of a Sunday.  (A
\* mutant takes the next Monday on a Sunday.)
Weekday(d) == (d + 1) % 7
NextMonday(d) == d - Weekday(d) + 1
Monday(d) == d - Weekday(d) + (IF Weekday(d) = 0 THEN -6 ELSE 1)

Between(S, first, last) ==
  {s \in S : s.start >= first * MinutesPerDay
                    /\ s.start < (last + 1) * MinutesPerDay}

\* getHomeDashboard, of the sessions S.
ThisWeek(S) == Between(S, Monday(today), Monday(today) + 6)
PrevWeek(S) == Between(S, Monday(today) - 7, Monday(today) - 1)
Improving(S) ==
  LET new == Cardinality(ThisWeek(S))
      old == Cardinality(PrevWeek(S))
      rounded == (200 * (new - old) + old) \div (2 * old)
  IN IF old > 0 THEN Max({0, rounded}) ELSE IF new > 0 THEN 100 ELSE 0

Home(S) == [sessions |-> Cardinality(S), week |-> Cardinality(ThisWeek(S)),
            improving |-> Improving(S)]

\* getAnalytics: the sessions of each day of the week, and the first day of
\* those with the most (-1 where there are none).
OnDay(S, i) == Cardinality(Between(S, Monday(today) + i, Monday(today) + i))
MostActive(days) ==
  LET most == Max({days[i] : i \in 0 .. 6})
  IN IF most = 0 THEN -1 ELSE Min({i \in 0 .. 6 : days[i] = most})

Analytics(S) ==
  LET days == [i \in 0 .. 6 |-> OnDay(S, i)]
  IN [sessions |-> Cardinality(S), days |-> days, most |-> MostActive(days)]

-----------------------------------------------------------------------------
(* Properties.                                                             *)

\* The home screen and the analytics agree on the week, in which today lies,
\* and which differs from the one the week before is compared with; the
\* comparison is positive exactly when there is more than there was; and a match
\* is counted once, unless some of its recordings lack the key of others, or
\* all lack it and do not start in the same minute.
DashboardAgrees ==
  \E S \in {Sessions} :
    \E home \in {Home(S)}, told \in {Analytics(S)} :
      /\ home.week = MapThenSumSet(LAMBDA i : told.days[i], 0 .. 6)
      /\ today - Monday(today) \in 0 .. 6
      /\ (home.improving > 0) <=> home.week > Cardinality(PrevWeek(S))
      /\ (told.most = -1) <=> home.week = 0
      /\ (\A r, q \in Paid : Of[r] = Of[q] =>
            rec[r].key = rec[q].key /\ (rec[r].key = 0 => rec[r].start = rec[q].start))
         => home.sessions <= Cardinality({Of[r] : r \in Paid})
=============================================================================
