---------------------------- MODULE Leaderboard -----------------------------
(***************************************************************************)
(* The leaderboard of a period and the levels.  A user is shown the first  *)
(* rows, and a line of his own that is looked up, when he is not among     *)
(* them, by two more queries; awards, a new period and levels that the     *)
(* administrators edit may come between.                                   *)
(***************************************************************************)
EXTENDS Naturals, FiniteSets, FiniteSetsExt, SequencesExt

CONSTANTS Users, Limit, MaxPoints, Levels, Marks, None

VARIABLES
  points,    \* point_events: each user's sum in the current period
  level,     \* level_configs: minPoints of each level, None where there is none
  call,      \* the leaderboard that is being made
  told       \* the one just given

vars == <<points, level, call, told>>

Total == 0 .. MaxPoints
Rank == 1 .. Cardinality(Users) + 1
Line == [user : Users, points : Total, rank : Rank]
Call == [me : Users, rows : Seq(Line), points : Total \cup {None},
         seen : [Users -> Total], late : BOOLEAN]
Told == [me : Users, rows : Seq(Line), rank : Rank \cup {None},
         seen : [Users -> Total], late : BOOLEAN]

TypeOK ==
  /\ points \in [Users -> Total]
  /\ level \in [Levels -> Marks \cup {None}]
  /\ call = None \/ call \in Call
  /\ told = None \/ told \in Told

Init ==
  /\ points = [u \in Users |-> 0]
  /\ level = [l \in Levels |-> None]
  /\ call = None /\ told = None

-----------------------------------------------------------------------------
(* What goes on meanwhile.  A leaderboard that is being made is late then. *)

Late == call' = IF call = None THEN None ELSE [call EXCEPT !.late = TRUE]

Award(u) ==
  /\ points[u] < MaxPoints
  /\ points' = [points EXCEPT ![u] = @ + 1]
  /\ Late /\ told' = None /\ UNCHANGED level

\* An account is deleted, and its events with it.
Leave(u) ==
  /\ points[u] > 0
  /\ points' = [points EXCEPT ![u] = 0]
  /\ Late /\ told' = None /\ UNCHANGED level

\* periodWindow: the day, week or month has another beginning.
NewPeriod ==
  /\ \E u \in Users : points[u] > 0
  /\ points' = [u \in Users |-> 0]
  /\ Late /\ told' = None /\ UNCHANGED level

-----------------------------------------------------------------------------
(* getLeaderboard and getUserPeriodRank.                                   *)

\* The users with events, by points, cut off at the limit.
Board ==
  LET with == {u \in Users : points[u] > 0}
      n == Min({Limit, Cardinality(with)})
  IN {s \in [1 .. n -> with] :
        /\ \A i \in 1 .. n - 1 : points[s[i]] >= points[s[i + 1]]
        /\ IsInjective(s)
        /\ \A u \in with \ Range(s) : \A i \in 1 .. n : points[u] <= points[s[i]]}

\* Equal points share a rank, and the next is counted from the first row.
\* (The mutant gives each the number of its row.)
Places(s) == [i \in 1 .. Len(s) |-> i]
Ranks(s) ==
  LET rank[i \in 1 .. Len(s)] ==
        IF i > 1 /\ points[s[i]] = points[s[i - 1]] THEN rank[i - 1] ELSE i
  IN [i \in 1 .. Len(s) |-> rank[i]]
Rows(s) ==
  LET ranks == Ranks(s)
  IN [i \in 1 .. Len(s) |-> [user |-> s[i], points |-> points[s[i]], rank |-> ranks[i]]]

Answer(me, rows, rank, seen, late) ==
  told' = [me |-> me, rows |-> rows, rank |-> rank, seen |-> seen, late |-> late]

\* The rows; the caller's own may be one of them.
ReadRows(me) ==
  /\ call = None
  /\ \E s \in Board :
       IF me \in Range(s)
       THEN LET i == CHOOSE j \in 1 .. Len(s) : s[j] = me
            IN Answer(me, Rows(s), Ranks(s)[i], points, FALSE) /\ UNCHANGED call
       ELSE /\ call' = [me |-> me, rows |-> Rows(s), points |-> None,
                        seen |-> points, late |-> FALSE]
            /\ told' = None
  /\ UNCHANGED <<points, level>>

\* The caller's points; there is no rank without any.
ReadPoints ==
  /\ call # None /\ call.points = None
  /\ IF points[call.me] = 0
     THEN Answer(call.me, call.rows, None, call.seen, call.late) /\ call' = None
     ELSE call' = [call EXCEPT !.points = points[call.me]] /\ told' = None
  /\ UNCHANGED <<points, level>>

\* Those who have more.
ReadHigher ==
  /\ call # None /\ call.points # None
  /\ Answer(call.me, call.rows, 1 + Cardinality({u \in Users : points[u] > call.points}),
            call.seen, call.late)
  /\ call' = None
  /\ UNCHANGED <<points, level>>

-----------------------------------------------------------------------------
(* Levels.                                                                 *)

Configured == {l \in Levels : level[l] # None}

\* createOrUpdateLevel, whatever the other levels need; deleteLevel; and the
\* defaults at a start that finds none.
EditLevel(l, m) ==
  /\ level[l] # m
  /\ level' = [level EXCEPT ![l] = m]
  /\ told' = None /\ UNCHANGED <<points, call>>
SeedLevels ==
  /\ Configured = {}
  /\ \E new \in [Levels -> Marks] :
       /\ \A k, l \in Levels : k < l => new[k] < new[l]
       /\ level' = new
  /\ told' = None /\ UNCHANGED <<points, call>>

\* calculateLevel: the last level whose minPoints are reached, the one after it
\* in the order of minPoints, and whether the bar is full: so it is at the last
\* level, and below the first.  (The mutant wants more than minPoints.)
Exceeded(n) == {l \in Configured : level[l] < n}
Reached(n) == {l \in Configured : level[l] <= n}
Highest(S) == {l \in S : \A k \in S : level[k] <= level[l]}
Lowest(S) == {l \in S : \A k \in S : level[k] >= level[l]}
LevelsOf(n) ==
  IF Reached(n) = {} THEN [is : Lowest(Configured), next : {None}, full : {TRUE}]
  ELSE LET above == Configured \ Reached(n)
       IN [is : Highest(Reached(n)),
           next : IF above = {} THEN {None} ELSE {level[l] : l \in Lowest(above)},
           full : {above = {}}]

Next ==
  \/ \E u \in Users : Award(u) \/ Leave(u) \/ ReadRows(u)
  \/ NewPeriod \/ ReadPoints \/ ReadHigher
  \/ \E l \in Levels, m \in Marks \cup {None} : EditLevel(l, m)
  \/ SeedLevels

-----------------------------------------------------------------------------
(* Properties.                                                             *)

\* The points and the levels as they are configured have nothing to do with one
\* another (LevelsAgree speaks of any points): one at a time is followed.
Apart == Configured = {} \/ \A u \in Users : points[u] = 0

RankIn(sums, u) == 1 + Cardinality({v \in Users : sums[v] > sums[u]})

\* Every rank of the rows is one more than the number of users who have more
\* points, and so is the caller's own, listed or not, unless something was
\* awarded, deleted or begun anew while the leaderboard was made.
RanksAgree ==
  told # None =>
    /\ \A i \in DOMAIN told.rows : told.rows[i].rank = RankIn(told.seen, told.rows[i].user)
    /\ ~told.late =>
         told.rank = IF told.seen[told.me] = 0 THEN None ELSE RankIn(told.seen, told.me)

\* However the levels are edited, a user who has reached one is told the highest
\* whose points he has, the least he lacks, and that nothing is left when there
\* is nothing.
LevelsAgree ==
  \A n \in Total : \A l \in LevelsOf(n) :
    Reached(n) # {} =>
      /\ level[l.is] <= n
      /\ \A k \in Configured : level[k] <= n => level[k] <= level[l.is]
      /\ l.next # None => l.next > n /\ \A k \in Configured : level[k] > n => level[k] >= l.next
      /\ l.full <=> \A k \in Configured : level[k] <= n
=============================================================================
