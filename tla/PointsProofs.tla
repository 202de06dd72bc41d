---------------------------- MODULE PointsProofs ----------------------------
(***************************************************************************)
(* Points, proved for every number of users, sessions and calls: its types,*)
(* that the cached total of a user is the sum of the user's events unless  *)
(* an award overlapped a call that overwrites the total, and that sessions *)
(* and streaks are counted right for a user whose row no two calls had in  *)
(* hand at once.                                                           *)
(***************************************************************************)
EXTENDS Points, FiniteSetTheorems, TLAPS

USE DEF vars, tables, history

-----------------------------------------------------------------------------
(* Types.  To the types of the variables the invariant adds that an award  *)
(* knows its user, and that the reports done and under way fit the bound.  *)

Fits(k) ==
  /\ k.pc = "award" => k.ref \in Refs /\ k.worth > 0 /\ k.user \in Users
  /\ k.pc \in {"streak", "save", "write", "sum"} => k.user \in Users

CallsFit == call \in [Calls -> Call] /\ \A c \in Calls : Fits(call[c])

TablesTyped ==
  /\ credited \subseteq Refs
  /\ earned \in [Users -> Nat]
  /\ has \subseteq Users
  /\ row \in [Users -> Row]

HistoryTyped ==
  /\ dirty \subseteq Users /\ clashed \subseteq Users
  /\ reported \in [Users -> Nat]
  /\ active \in [Users -> SUBSET (1 .. MaxDay)]

Typed ==
  /\ session \in [Sessions -> {"none", "live", "closed", "ready"}]
  /\ worth \in 0 .. MaxWorth
  /\ today \in 1 .. MaxDay
  /\ TablesTyped
  /\ CallsFit
  /\ HistoryTyped

\* The calls about to save a reported session of u.
Reporting(u) == {d \in Calls : /\ call[d].pc \in {"save", "write"}
                               /\ call[d].day = 0
                               /\ call[d].user = u}

Counted ==
  \A u \in Users : reported[u] + Cardinality(Reporting(u)) <= MaxStats

LEMMA Constants ==
  /\ Idle \in Call /\ Fits(Idle)
  /\ NoSums \in [Users -> Nat]
  /\ Defaults \in Row
  /\ \A ref \in Refs : OwnerOf(ref) \in Users
<1>1. Defaults \in Row
  BY BoundsAssumption DEF Defaults, Row
<1>2. NoSums \in [Users -> Nat]
  BY DEF NoSums
<1>3. Idle \in Call
  BY <1>1, <1>2, BoundsAssumption DEF Idle, Call
<1>4. Fits(Idle)
  BY DEF Fits, Idle
<1>5. ASSUME NEW ref \in Refs
      PROVE  OwnerOf(ref) \in Users
  BY OwnerAssumption DEF Refs, OwnerOf
<1> QED
  BY <1>1, <1>2, <1>3, <1>4, <1>5

LEMMA GoFits ==
  ASSUME CallsFit, NEW c \in Calls, NEW new \in Call, Fits(new), Go(c, new)
  PROVE  CallsFit' /\ call'[c] = new /\ \A d \in Others(c) : call'[d] = call[d]
  BY DEF CallsFit, Fits, Go, Others

LEMMA ReturnFits ==
  ASSUME CallsFit, NEW c \in Calls, Return(c)
  PROVE  CallsFit' /\ call'[c] = Idle /\ \A d \in Others(c) : call'[d] = call[d]
  BY GoFits, Constants DEF Return

\* Beginning an award leaves the calls typed, and holds no user's row.
LEMMA BeginFits ==
  ASSUME Typed, NEW c \in Calls, NEW ref \in Refs, BeginAward(c, ref)
  PROVE  /\ CallsFit'
         /\ call'[c] = call[c] \/ call'[c].pc = "award"
         /\ \A d \in Others(c) : call'[d] = call[d]
<1> DEFINE new == [Idle EXCEPT !.pc = "award", !.user = OwnerOf(ref),
                               !.ref = ref, !.worth = worth]
<1>1. CASE Disabled
  BY <1>1 DEF BeginAward, Typed, CallsFit, Fits
<1>2. CASE ~Disabled
  <2>1. /\ new.pc = "award" /\ new.user \in Users
        /\ new.ref \in Refs /\ new.worth > 0
    BY <1>2, Constants, BoundsAssumption DEF Disabled, Typed, Idle
  <2>3. new \in Call
    BY Constants DEF Call, Typed
  <2>4. Fits(new)
    BY <2>1 DEF Fits
  <2>2. Go(c, new)
    BY <1>2 DEF BeginAward
  <2> HIDE DEF new
  <2> QED
    BY <2>1, <2>2, <2>3, <2>4, GoFits DEF Typed
<1> QED
  BY <1>1, <1>2

-----------------------------------------------------------------------------
(* What each action of a call does to the calls.                           *)

LEMMA StatsReadFits ==
  ASSUME Typed, NEW c \in Calls, NEW s \in Sessions, StatsRead(c, s)
  PROVE  /\ CallsFit'
         /\ call'[c].pc = "save" /\ call'[c].user = Owner[s]
         /\ call'[c].day = 0
         /\ call'[c].ent = [row[Owner[s]] EXCEPT !.sessions = @ + 1]
         /\ \A d \in Others(c) : call'[d] = call[d]
<1> DEFINE ent == [row[Owner[s]] EXCEPT !.sessions = @ + 1]
           new == [Idle EXCEPT !.pc = "save", !.user = Owner[s], !.ent = ent]
<1>1. Owner[s] \in Users
  BY OwnerAssumption
<1>2. ent \in Row
  BY <1>1 DEF Typed, TablesTyped, Row
<1>3. Go(c, new)
  BY DEF StatsRead
<1> HIDE DEF ent
<1>4. new.pc = "save" /\ new.user = Owner[s] /\ new.day = 0 /\ new.ent = ent
  BY DEF Idle
<1>5. new \in Call
  BY <1>1, <1>2, Constants DEF Call
<1>6. Fits(new)
  BY <1>1, <1>4 DEF Fits
<1> HIDE DEF new
<1>7. /\ CallsFit' /\ call'[c] = new
      /\ \A d \in Others(c) : call'[d] = call[d]
  BY <1>3, <1>5, <1>6, GoFits DEF Typed
<1> QED
  BY <1>4, <1>7 DEF ent

LEMMA AlreadyFits ==
  ASSUME Typed, NEW c \in Calls, AlreadyAwarded(c)
  PROVE  /\ CallsFit'
         /\ call'[c].pc \in {"idle", "backfill"}
         /\ \A d \in Others(c) : call'[d] = call[d]
<1> DEFINE new == [call[c] EXCEPT !.pc = "backfill"]
<1>1. CASE call[c].back
  <2>1. Go(c, new)
    BY <1>1 DEF AlreadyAwarded
  <2>2. new \in Call /\ new.pc = "backfill"
    BY ZenonT(60) DEF Call, Typed, CallsFit
  <2>3. Fits(new)
    BY <2>2 DEF Fits
  <2> HIDE DEF new
  <2> QED
    BY <2>1, <2>2, <2>3, GoFits DEF Typed
<1>2. CASE ~call[c].back
  <2>1. Return(c)
    BY <1>2 DEF AlreadyAwarded, Return
  <2>2. Idle.pc = "idle"
    BY DEF Idle
  <2> QED
    BY <2>1, <2>2, ReturnFits DEF Typed
<1> QED
  BY <1>1, <1>2

LEMMA AwardFits ==
  ASSUME Typed, NEW c \in Calls, AwardCommit(c)
  PROVE  /\ CallsFit'
         /\ call'[c].pc \in {"idle", "backfill", "streak"}
         /\ \A d \in Others(c) : call'[d] = call[d]
<1> DEFINE new == AfterAward(c)
           next == [call[c] EXCEPT !.pc = "backfill"]
           count == [Idle EXCEPT !.pc = "streak", !.user = call[c].user]
<1>1. Go(c, new)
  BY DEF AwardCommit
<1>2. call[c] \in Call /\ call[c].user \in Users
  BY DEF Typed, CallsFit, Fits, AwardCommit
<1>3. next \in Call /\ next.pc = "backfill"
  BY <1>2 DEF Call
<1>4. count \in Call
  BY <1>2, Constants DEF Call
<1>5. count.pc = "streak" /\ count.user \in Users /\ Idle.pc = "idle"
  BY <1>2 DEF Idle
<1>6. new \in {next, count, Idle}
  BY DEF AfterAward
<1> HIDE DEF new, next, count
<1>7. Fits(next) /\ Fits(count)
  BY <1>3, <1>5 DEF Fits
<1>8. new \in Call /\ Fits(new) /\ new.pc \in {"idle", "backfill", "streak"}
  BY <1>3, <1>4, <1>5, <1>6, <1>7, Constants
<1> QED
  BY <1>1, <1>8, GoFits DEF Typed

LEMMA StreakOfTyped ==
  ASSUME Typed, NEW old \in Row
  PROVE  /\ StreakOf(old) \in Row
         /\ StreakOf(old).total = old.total
         /\ StreakOf(old).sessions = old.sessions
         /\ StreakOf(old).last = today
         /\ StreakOf(old).streak =
              IF ActiveYesterday(old) THEN old.streak + 1 ELSE 1
<1>1. today \in 0 .. MaxDay
  BY BoundsAssumption DEF Typed
<1>2. CASE ActiveYesterday(old)
  <2> DEFINE more == old.streak + 1
             long == IF more > old.longest THEN more ELSE old.longest
             new == [total |-> old.total, streak |-> more, longest |-> long,
                     last |-> today, sessions |-> old.sessions]
  <2>1. more \in Nat /\ long \in Nat
    BY DEF Row
  <2>2. StreakOf(old) = new
    BY <1>2 DEF StreakOf, Row
  <2> HIDE DEF more, long
  <2>3. new \in Row
    BY <1>1, <2>1 DEF Row
  <2> QED
    BY <1>2, <2>2, <2>3 DEF more
<1>3. CASE ~ActiveYesterday(old)
  BY <1>1, <1>3 DEF StreakOf, Row
<1> QED
  BY <1>2, <1>3

LEMMA StreakFits ==
  ASSUME Typed, NEW c \in Calls, StreakRead(c)
  PROVE  /\ CallsFit'
         /\ \A d \in Others(c) : call'[d] = call[d]
         /\ call[c].user \in Users
         /\ \/ call'[c].pc = "idle"
            \/ /\ row[call[c].user].last # today
               /\ call'[c].pc = "save" /\ call'[c].user = call[c].user
               /\ call'[c].ent = StreakOf(row[call[c].user])
               /\ call'[c].day = today
<1> DEFINE u == call[c].user
           ent == StreakOf(row[u])
           new == [call[c] EXCEPT !.pc = "save", !.ent = ent, !.day = today]
<1>1. call[c] \in Call /\ u \in Users
  BY DEF Typed, CallsFit, Fits, StreakRead
<1>2. CASE row[u].last = today
  <2>1. Return(c) /\ Idle.pc = "idle"
    BY <1>2 DEF StreakRead, Idle
  <2> QED
    BY <1>1, <2>1, ReturnFits DEF Typed
<1>3. CASE row[u].last # today
  <2>1. Go(c, new)
    BY <1>3 DEF StreakRead
  <2>2. ent \in Row
    BY <1>1, StreakOfTyped DEF Typed, TablesTyped
  <2>3. today \in 0 .. MaxDay
    BY BoundsAssumption DEF Typed
  <2> HIDE DEF ent
  <2>4. new \in Call /\ new.pc = "save" /\ new.user = u /\ new.ent = ent
        /\ new.day = today
    BY <1>1, <2>2, <2>3 DEF Call
  <2> HIDE DEF new
  <2>5. Fits(new)
    BY <1>1, <2>4 DEF Fits
  <2>6. /\ CallsFit' /\ call'[c] = new
        /\ \A d \in Others(c) : call'[d] = call[d]
    BY <2>1, <2>4, <2>5, GoFits DEF Typed
  <2> QED
    BY <1>1, <1>3, <2>4, <2>6 DEF ent
<1> QED
  BY <1>2, <1>3

LEMMA CompareFits ==
  ASSUME Typed, NEW c \in Calls, SaveCompare(c)
  PROVE  /\ CallsFit'
         /\ \A d \in Others(c) : call'[d] = call[d]
         /\ call[c].user \in Users
         /\ call'[c].pc = "write" /\ call'[c].user = call[c].user
         /\ call'[c].day = call[c].day /\ call'[c].ent = call[c].ent
         /\ call'[c].new = (call[c].user \notin has)
         /\ call'[c].cols =
              {f \in Columns : call[c].ent[f] # row[call[c].user][f]}
<1> DEFINE u == call[c].user
           cols == {f \in Columns : call[c].ent[f] # row[u][f]}
           absent == u \notin has
           new == [call[c] EXCEPT !.pc = "write", !.new = absent,
                                  !.cols = cols]
<1>1. call[c] \in Call /\ u \in Users
  BY DEF Typed, CallsFit, Fits, SaveCompare
<1>2. Go(c, new)
  BY DEF SaveCompare
<1>3. cols \in SUBSET Columns /\ absent \in BOOLEAN
  OBVIOUS
<1> HIDE DEF cols, absent
<1>4. new \in Call /\ new.pc = "write" /\ new.user = u /\ new.ent = call[c].ent
      /\ new.day = call[c].day /\ new.cols = cols
  BY <1>1, <1>3 DEF Call
<1>5. new.new = absent
  BY <1>1, <1>3 DEF Call
<1> HIDE DEF new
<1>6. Fits(new)
  BY <1>1, <1>4 DEF Fits
<1>7. /\ CallsFit' /\ call'[c] = new
      /\ \A d \in Others(c) : call'[d] = call[d]
  BY <1>2, <1>4, <1>6, GoFits DEF Typed
<1> QED
  BY <1>1, <1>4, <1>5, <1>7 DEF cols, absent

LEMMA TotalsReadFits ==
  ASSUME Typed, NEW c \in Calls, NEW u \in Users, TotalsRead(c, u)
  PROVE  /\ CallsFit'
         /\ call'[c].pc = "sum" /\ call'[c].user = u
         /\ call'[c].sums[u] = earned[u]
         /\ \A d \in Others(c) : call'[d] = call[d]
<1> DEFINE sums == [NoSums EXCEPT ![u] = earned[u]]
           new == [Idle EXCEPT !.pc = "sum", !.user = u, !.sums = sums]
<1>1. sums \in [Users -> Nat] /\ sums[u] = earned[u]
  BY Constants DEF Typed, TablesTyped
<1>2. Go(c, new)
  BY DEF TotalsRead
<1> HIDE DEF sums
<1>3. new.pc = "sum" /\ new.user = u /\ new.sums = sums
  BY DEF Idle
<1>4. new \in Call
  BY <1>1, Constants DEF Call
<1>5. Fits(new)
  BY <1>3 DEF Fits
<1> HIDE DEF new
<1> QED
  BY <1>1, <1>2, <1>3, <1>4, <1>5, GoFits DEF Typed

LEMMA ListFits ==
  ASSUME Typed, NEW c \in Calls, BackfillList(c)
  PROVE  /\ CallsFit' /\ call'[c].pc = "backfill"
         /\ \A d \in Others(c) : call'[d] = call[d]
<1> DEFINE todo == {BackfillRef(s) : s \in {t \in Sessions :
                                              session[t] # "none"}}
           new == [Idle EXCEPT !.pc = "backfill", !.back = TRUE, !.todo = todo]
<1>1. todo \in SUBSET Refs
  BY DEF BackfillRef, Refs, Kinds
<1>2. Go(c, new)
  BY DEF BackfillList
<1> HIDE DEF todo
<1>3. new \in Call
  BY <1>1, Constants DEF Call
<1>4. new.pc = "backfill"
  BY DEF Idle
<1>5. Fits(new)
  BY <1>4 DEF Fits
<1> HIDE DEF new
<1> QED
  BY <1>2, <1>3, <1>4, <1>5, GoFits DEF Typed

LEMMA NextFits ==
  ASSUME Typed, NEW c \in Calls, BackfillNext(c)
  PROVE  /\ CallsFit' /\ call'[c].pc \in {"backfill", "award"}
         /\ \A d \in Others(c) : call'[d] = call[d]
<1>1. PICK ref \in call[c].todo :
        Go(c, IF ref \in credited \/ Disabled
              THEN [call[c] EXCEPT !.todo = @ \ {ref}]
              ELSE [[call[c] EXCEPT !.todo = @ \ {ref}]
                      EXCEPT !.pc = "award", !.ref = ref,
                             !.user = OwnerOf(ref), !.worth = worth])
  BY DEF BackfillNext
<1> DEFINE rest == [call[c] EXCEPT !.todo = @ \ {ref}]
           new == [rest EXCEPT !.pc = "award", !.ref = ref,
                               !.user = OwnerOf(ref), !.worth = worth]
<1>2. call[c] \in Call /\ call[c].pc = "backfill"
  BY DEF Typed, CallsFit, BackfillNext
<1>3. ref \in Refs /\ OwnerOf(ref) \in Users
  BY <1>1, <1>2, Constants DEF Call
<1>4. rest \in Call /\ rest.pc = "backfill"
  BY <1>2 DEF Call
<1> HIDE DEF rest
<1>5. Fits(rest)
  BY <1>4 DEF Fits
<1>6. CASE ref \in credited \/ Disabled
  <2>1. Go(c, rest)
    BY <1>1, <1>6 DEF rest
  <2> QED
    BY <2>1, <1>4, <1>5, GoFits DEF Typed
<1>7. CASE ~(ref \in credited \/ Disabled)
  <2>1. Go(c, new)
    BY <1>1, <1>7 DEF rest
  <2>2. new \in Call /\ new.pc = "award" /\ new.ref = ref
        /\ new.user = OwnerOf(ref) /\ new.worth = worth
    BY <1>3, <1>4 DEF Call, Typed
  <2>3. worth > 0
    BY <1>7, BoundsAssumption DEF Disabled, Typed
  <2> HIDE DEF new
  <2>4. Fits(new)
    BY <1>3, <2>2, <2>3 DEF Fits
  <2> QED
    BY <2>1, <2>2, <2>4, GoFits DEF Typed
<1> QED
  BY <1>6, <1>7

LEMMA SumFits ==
  ASSUME Typed, NEW c \in Calls, BackfillSum(c)
  PROVE  /\ CallsFit' /\ call'[c].pc = "sums" /\ call'[c].sums = earned
         /\ \A d \in Others(c) : call'[d] = call[d]
<1> DEFINE new == [Idle EXCEPT !.pc = "sums", !.sums = earned]
<1>1. Go(c, new)
  BY DEF BackfillSum
<1>2. new.pc = "sums" /\ new.sums = earned
  BY DEF Idle
<1>3. new \in Call
  BY Constants DEF Call, Typed, TablesTyped
<1>4. Fits(new)
  BY <1>2 DEF Fits
<1> HIDE DEF new
<1> QED
  BY <1>1, <1>2, <1>3, <1>4, GoFits DEF Typed

LEMMA FixFits ==
  ASSUME Typed, NEW c \in Calls, BackfillFix(c)
  PROVE  /\ CallsFit' /\ call'[c].pc = "insert"
         /\ \A d \in Others(c) : call'[d] = call[d]
<1> DEFINE new == [Idle EXCEPT !.pc = "insert"]
<1>1. Go(c, new)
  BY DEF BackfillFix
<1>2. new.pc = "insert"
  BY DEF Idle
<1>3. new \in Call
  BY Constants DEF Call
<1>4. Fits(new)
  BY <1>2 DEF Fits
<1> HIDE DEF new
<1> QED
  BY <1>1, <1>2, <1>3, <1>4, GoFits DEF Typed

-----------------------------------------------------------------------------
(* Every step keeps the types.                                             *)

\* What a save writes: the columns that differed, of the entity.
LEMMA WrittenFields ==
  ASSUME Typed, NEW c \in Calls, call[c].user \in Users
  PROVE  /\ Written(c) \in Row
         /\ \A f \in Columns :
              Written(c)[f] = IF f \in call[c].cols THEN call[c].ent[f]
                              ELSE row[call[c].user][f]
<1>1. call[c].ent \in Row /\ row[call[c].user] \in Row
  BY DEF Typed, CallsFit, TablesTyped, Call
<1>2. Written(c) \in Row
  BY <1>1 DEF Written, Row, Columns
<1>3. ASSUME NEW f \in Columns
      PROVE  Written(c)[f] = IF f \in call[c].cols THEN call[c].ent[f]
                             ELSE row[call[c].user][f]
  BY DEF Written
<1> QED
  BY <1>2, <1>3

\* The actions that begin or move on a call and write nothing.
QuietStep(c) ==
  \/ \E s \in Sessions : \/ StartLive(c, s) \/ Extract(c, s)
                         \/ PolledReady(c, s) \/ Shared(c, s)
                         \/ StatsRead(c, s)
  \/ AlreadyAwarded(c) \/ StreakRead(c) \/ SaveCompare(c) \/ SaveRefused(c)
  \/ \E u \in Users : TotalsRead(c, u)
  \/ BackfillList(c) \/ BackfillNext(c) \/ BackfillSum(c)

\* A session's call that may award: the session moves on, and the award
\* begins or the event is disabled.
BeginStep(c) ==
  \E s \in Sessions : \/ StartLive(c, s) \/ Extract(c, s)
                      \/ PolledReady(c, s) \/ Shared(c, s)

LEMMA BeginStepFits ==
  ASSUME Typed, NEW c \in Calls, BeginStep(c)
  PROVE  /\ CallsFit'
         /\ call'[c] = call[c] \/ call'[c].pc = "award"
         /\ \A d \in Others(c) : call'[d] = call[d]
         /\ UNCHANGED <<worth, tables, today, history>>
         /\ session' \in [Sessions -> {"none", "live", "closed", "ready"}]
<1>1. PICK s \in Sessions : \/ StartLive(c, s) \/ Extract(c, s)
                            \/ PolledReady(c, s) \/ Shared(c, s)
  BY DEF BeginStep
<1>2. PICK ref \in Refs : BeginAward(c, ref)
  BY <1>1 DEF StartLive, Extract, PolledReady, Shared, Refs, Kinds
<1>3. session' \in [Sessions -> {"none", "live", "closed", "ready"}]
  BY <1>1 DEF StartLive, Extract, PolledReady, Shared, Typed
<1> QED
  BY <1>2, <1>3, BeginFits DEF BeginAward

LEMMA QuietTyped ==
  ASSUME Typed, NEW c \in Calls, QuietStep(c)
  PROVE  /\ Typed' /\ UNCHANGED <<tables, history, today>>
         /\ \A d \in Others(c) : call'[d] = call[d]
<1>1. /\ CallsFit' /\ UNCHANGED <<tables, history, today, worth>>
      /\ \A d \in Others(c) : call'[d] = call[d]
      /\ session' \in [Sessions -> {"none", "live", "closed", "ready"}]
  <2>1. CASE BeginStep(c)
    BY <2>1, BeginStepFits
  <2>2. CASE \E s \in Sessions : StatsRead(c, s)
    BY <2>2, StatsReadFits DEF StatsRead, Typed
  <2>3. CASE AlreadyAwarded(c)
    BY <2>3, AlreadyFits DEF AlreadyAwarded, Typed
  <2>4. CASE StreakRead(c)
    BY <2>4, StreakFits DEF StreakRead, Typed
  <2>5. CASE SaveCompare(c)
    BY <2>5, CompareFits DEF SaveCompare, Typed
  <2>6. CASE SaveRefused(c)
    BY <2>6, ReturnFits DEF SaveRefused, Typed
  <2>7. CASE \E u \in Users : TotalsRead(c, u)
    BY <2>7, TotalsReadFits DEF TotalsRead, Typed
  <2>8. CASE BackfillList(c)
    BY <2>8, ListFits DEF BackfillList, Typed
  <2>9. CASE BackfillNext(c)
    BY <2>9, NextFits DEF BackfillNext, Typed
  <2>10. CASE BackfillSum(c)
    BY <2>10, SumFits DEF BackfillSum, Typed
  <2> QED
    BY <2>1, <2>2, <2>3, <2>4, <2>5, <2>6, <2>7, <2>8, <2>9, <2>10
       DEF QuietStep, BeginStep
<1> QED
  BY <1>1 DEF Typed, TablesTyped, HistoryTyped

\* The actions that write a table, and what of the tables they write.
LEMMA AwardTyped ==
  ASSUME Typed, NEW c \in Calls, AwardCommit(c)
  PROVE  Typed'
<1>1. call[c].user \in Users /\ call[c].worth \in Nat /\ call[c].ref \in Refs
  BY BoundsAssumption DEF Typed, CallsFit, Fits, Call, AwardCommit
<1>2. [row[call[c].user] EXCEPT !.total = @ + call[c].worth] \in Row
  BY <1>1 DEF Typed, TablesTyped, Row
<1>3. row' \in [Users -> Row]
  BY <1>1, <1>2 DEF Typed, TablesTyped, AwardCommit
<1>4. TablesTyped'
  BY <1>1, <1>3 DEF Typed, TablesTyped, AwardCommit
<1>5. HistoryTyped'
  BY <1>1 DEF Typed, HistoryTyped, AwardCommit
<1> QED
  BY <1>4, <1>5, AwardFits DEF Typed, AwardCommit

LEMMA WriteTyped ==
  ASSUME Typed, NEW c \in Calls, SaveWrite(c)
  PROVE  Typed'
<1>1. /\ call[c].user \in Users
      /\ call[c].day \in 0 .. MaxDay
  BY DEF Typed, CallsFit, Fits, Call, SaveWrite
<1>2. Written(c) \in Row
  BY <1>1, WrittenFields
<1>3. TablesTyped'
  BY <1>1, <1>2 DEF Typed, TablesTyped, SaveWrite
<1>4. CASE call[c].day = 0
  <2>1. HistoryTyped'
    BY <1>1, <1>4 DEF Typed, HistoryTyped, SaveWrite
  <2> QED
    BY <1>3, <2>1, ReturnFits DEF Typed, SaveWrite
<1>5. CASE call[c].day # 0
  <2>1. call[c].day \in 1 .. MaxDay
    BY <1>1, <1>5, BoundsAssumption
  <2>2. HistoryTyped'
    BY <1>1, <1>5, <2>1 DEF Typed, HistoryTyped, SaveWrite
  <2> QED
    BY <1>3, <2>2, ReturnFits DEF Typed, SaveWrite
<1> QED
  BY <1>4, <1>5

LEMMA ReconcileTyped ==
  ASSUME Typed, NEW c \in Calls, Reconcile(c)
  PROVE  Typed'
<1>1. call[c].user \in Users /\ call[c].sums \in [Users -> Nat]
  BY DEF Typed, CallsFit, Fits, Call, Reconcile
<1>2. [row[call[c].user] EXCEPT !.total = call[c].sums[call[c].user]] \in Row
  BY <1>1 DEF Typed, TablesTyped, Row
<1>3. TablesTyped'
  BY <1>1, <1>2 DEF Typed, TablesTyped, Reconcile
<1>4. HistoryTyped'
  BY DEF Typed, HistoryTyped, Reconcile
<1> QED
  BY <1>3, <1>4, ReturnFits DEF Typed, Reconcile

LEMMA FixTyped ==
  ASSUME Typed, NEW c \in Calls, BackfillFix(c)
  PROVE  Typed'
<1>1. call[c].sums \in [Users -> Nat]
  BY DEF Typed, CallsFit, Call
<1>2. ASSUME NEW u \in Users
      PROVE  [row[u] EXCEPT !.total = call[c].sums[u]] \in Row
  BY <1>1 DEF Typed, TablesTyped, Row
<1>3. row' \in [Users -> Row]
  BY <1>2 DEF Typed, TablesTyped, BackfillFix
<1>4. TablesTyped'
  BY <1>3 DEF Typed, TablesTyped, BackfillFix
<1>5. HistoryTyped'
  BY DEF Typed, HistoryTyped, BackfillFix
<1> QED
  BY <1>4, <1>5, FixFits DEF Typed, BackfillFix

LEMMA InsertTyped ==
  ASSUME Typed, NEW c \in Calls, BackfillInsert(c)
  PROVE  Typed'
<1>1. ASSUME NEW u \in Users
      PROVE  [Defaults EXCEPT !.total = earned[u]] \in Row
  BY Constants DEF Typed, TablesTyped, Row
<1>2. row' \in [Users -> Row]
  BY <1>1 DEF Typed, TablesTyped, BackfillInsert
<1>3. TablesTyped'
  BY <1>2 DEF Typed, TablesTyped, BackfillInsert
<1> QED
  BY <1>3, ReturnFits DEF Typed, HistoryTyped, BackfillInsert

\* The steps of no call.
WorldStep == NextDay \/ EditConfig \/ \E s \in Sessions : Stop(s)

LEMMA WorldTyped ==
  ASSUME Typed, WorldStep
  PROVE  /\ Typed' /\ UNCHANGED <<tables, history, call>>
<1>1. /\ today' \in 1 .. MaxDay /\ worth' \in 0 .. MaxWorth
      /\ session' \in [Sessions -> {"none", "live", "closed", "ready"}]
      /\ UNCHANGED <<tables, history, call>>
  BY BoundsAssumption DEF Typed, WorldStep, NextDay, EditConfig, Stop
<1> QED
  BY <1>1 DEF Typed, TablesTyped, HistoryTyped, CallsFit, Fits

LEMMA StepCases ==
  ASSUME Next
  PROVE  \/ WorldStep
         \/ \E c \in Calls : \/ QuietStep(c) \/ AwardCommit(c) \/ SaveWrite(c)
                             \/ Reconcile(c) \/ BackfillFix(c)
                             \/ BackfillInsert(c)
  BY DEF Next, WorldStep, QuietStep

LEMMA StepTyped ==
  ASSUME Typed, [Next]_vars
  PROVE  Typed'
<1>1. CASE UNCHANGED vars
  BY <1>1 DEF Typed, TablesTyped, HistoryTyped, CallsFit, Fits
<1>2. CASE Next
  BY <1>2, StepCases, WorldTyped, QuietTyped, AwardTyped, WriteTyped,
     ReconcileTyped, FixTyped, InsertTyped
<1> QED
  BY <1>1, <1>2

LEMMA InitTyped ==
  ASSUME Init
  PROVE  Typed
<1>1. CallsFit
  BY Constants DEF Init, CallsFit
<1>2. TablesTyped /\ HistoryTyped
  BY Constants DEF Init, TablesTyped, HistoryTyped
<1> QED
  BY <1>1, <1>2, BoundsAssumption DEF Init, Typed

-----------------------------------------------------------------------------
(* No more reports are done and under way than the bound allows.           *)

LEMMA ReportingFinite ==
  ASSUME NEW u
  PROVE  /\ IsFiniteSet(Reporting(u)) /\ Cardinality(Reporting(u)) \in Nat
         /\ IsFiniteSet(Reporting(u)') /\ Cardinality(Reporting(u)') \in Nat
<1>1. Reporting(u) \subseteq Calls /\ Reporting(u)' \subseteq Calls
  BY DEF Reporting
<1> QED
  BY <1>1, CallsAssumption, FS_Subset, FS_CardinalityType

LEMMA CountedKept ==
  ASSUME Typed, Counted, UNCHANGED reported,
         \A u \in Users : Reporting(u)' \subseteq Reporting(u)
  PROVE  Counted'
<1>1. ASSUME NEW u \in Users
      PROVE  reported'[u] + Cardinality(Reporting(u)') <= MaxStats
  <2>1. Cardinality(Reporting(u)') <= Cardinality(Reporting(u))
    BY ReportingFinite, FS_Subset
  <2>2. reported[u] \in Nat
    BY DEF Typed, HistoryTyped
  <2> QED
    BY <2>1, <2>2, ReportingFinite, BoundsAssumption DEF Counted
<1> QED
  BY <1>1 DEF Counted

LEMMA StatsCounted ==
  ASSUME Typed, Counted, NEW c \in Calls, NEW s \in Sessions, StatsRead(c, s)
  PROVE  Counted'
<1> DEFINE all == {d \in Calls : /\ call[d].pc \in {"save", "write"}
                                 /\ call[d].day = 0}
<1>1. /\ reported' = reported
      /\ call'[c].user = Owner[s]
      /\ \A d \in Others(c) : call'[d] = call[d]
      /\ Owner[s] \in Users
  BY StatsReadFits, OwnerAssumption DEF StatsRead
<1>2. reported[Owner[s]] + Cardinality(all) < MaxStats
  BY DEF StatsRead
<1>3. ASSUME NEW u \in Users
      PROVE  reported'[u] + Cardinality(Reporting(u)') <= MaxStats
  <2>1. reported[u] \in Nat
    BY DEF Typed, HistoryTyped
  <2>2. CASE u = Owner[s]
    <3>1. Reporting(u)' \subseteq all \cup {c}
      BY <1>1 DEF Reporting, Others
    <3>2. IsFiniteSet(all) /\ Cardinality(all) \in Nat
      BY CallsAssumption, FS_Subset, FS_CardinalityType
    <3>3. /\ IsFiniteSet(all \cup {c})
          /\ Cardinality(all \cup {c}) <= Cardinality(all) + 1
          /\ Cardinality(all \cup {c}) \in Nat
      <4> HIDE DEF all
      <4>1. /\ IsFiniteSet(all \cup {c})
            /\ \/ Cardinality(all \cup {c}) = Cardinality(all)
               \/ Cardinality(all \cup {c}) = Cardinality(all) + 1
        BY <3>2, FS_AddElement
      <4> QED
        BY <4>1, <3>2
    <3>4. Cardinality(Reporting(u)') <= Cardinality(all \cup {c})
      BY <3>1, <3>3, FS_Subset
    <3> QED
      BY <1>1, <1>2, <2>1, <2>2, <3>2, <3>3, <3>4, ReportingFinite,
         BoundsAssumption
  <2>3. CASE u # Owner[s]
    <3>1. Reporting(u)' \subseteq Reporting(u)
      BY <1>1, <2>3 DEF Reporting, Others
    <3>2. Cardinality(Reporting(u)') <= Cardinality(Reporting(u))
      BY <3>1, ReportingFinite, FS_Subset
    <3> QED
      BY <1>1, <2>1, <3>2, ReportingFinite, BoundsAssumption DEF Counted
  <2> QED
    BY <2>2, <2>3
<1> QED
  BY <1>3 DEF Counted

LEMMA WriteCounted ==
  ASSUME Typed, Counted, NEW c \in Calls, SaveWrite(c)
  PROVE  Counted'
<1>1. /\ call[c].user \in Users
      /\ call'[c] = Idle /\ Idle.pc = "idle"
      /\ \A d \in Others(c) : call'[d] = call[d]
  BY ReturnFits DEF Typed, CallsFit, Fits, SaveWrite, Idle
<1>2. \A u \in Users : Reporting(u)' \subseteq Reporting(u) \ {c}
  BY <1>1 DEF Reporting, Others
<1>3. CASE call[c].day # 0
  BY <1>2, <1>3, CountedKept DEF SaveWrite
<1>4. CASE call[c].day = 0
  <2>1. reported' = [reported EXCEPT ![call[c].user] = @ + 1]
    BY <1>4 DEF SaveWrite
  <2>2. ASSUME NEW u \in Users
        PROVE  reported'[u] + Cardinality(Reporting(u)') <= MaxStats
    <3>1. reported[u] \in Nat
      BY DEF Typed, HistoryTyped
    <3>2. CASE u = call[c].user
      <4>1. c \in Reporting(u)
        BY <1>4, <3>2 DEF Reporting, SaveWrite
      <4>2. /\ IsFiniteSet(Reporting(u) \ {c})
            /\ Cardinality(Reporting(u) \ {c}) = Cardinality(Reporting(u)) - 1
        BY <4>1, ReportingFinite, FS_RemoveElement
      <4>3. Cardinality(Reporting(u)') <= Cardinality(Reporting(u) \ {c})
        BY <1>2, <4>2, FS_Subset
      <4>4. reported'[u] = reported[u] + 1
        BY <2>1, <3>2 DEF Typed, HistoryTyped
      <4> QED
        BY <3>1, <4>2, <4>3, <4>4, ReportingFinite, BoundsAssumption
           DEF Counted
    <3>3. CASE u # call[c].user
      <4>1. Cardinality(Reporting(u)') <= Cardinality(Reporting(u))
        BY <1>2, ReportingFinite, FS_Subset
      <4>2. reported'[u] = reported[u]
        BY <2>1, <3>3 DEF Typed, HistoryTyped
      <4> QED
        BY <3>1, <4>1, <4>2, ReportingFinite, BoundsAssumption DEF Counted
    <3> QED
      BY <3>2, <3>3
  <2> QED
    BY <2>2 DEF Counted
<1> QED
  BY <1>3, <1>4

\* No other action begins a report, and none but a save ends one.
LEMMA QuietCounted ==
  ASSUME Typed, Counted, NEW c \in Calls, QuietStep(c)
  PROVE  Counted'
<1>1. CASE \E s \in Sessions : StatsRead(c, s)
  BY <1>1, StatsCounted
<1>2. CASE StreakRead(c)
  <2>1. call'[c].pc = "idle" \/ call'[c].day # 0
    BY <1>2, StreakFits, BoundsAssumption DEF Typed
  <2>2. \A u \in Users : Reporting(u)' \subseteq Reporting(u)
    BY <1>2, <2>1, StreakFits DEF Reporting, Others
  <2> QED
    BY <1>2, <2>2, CountedKept DEF StreakRead
<1>3. CASE SaveCompare(c)
  <2>1. \A u \in Users : Reporting(u)' \subseteq Reporting(u)
    BY <1>3, CompareFits DEF Reporting, Others, SaveCompare
  <2> QED
    BY <1>3, <2>1, CountedKept DEF SaveCompare
<1>4. CASE BeginStep(c)
  <2>1. \A u \in Users : Reporting(u)' \subseteq Reporting(u)
    BY <1>4, BeginStepFits DEF Reporting, Others
  <2> QED
    BY <1>4, <2>1, CountedKept, BeginStepFits
<1>5. CASE \/ AlreadyAwarded(c) \/ SaveRefused(c)
           \/ \E u \in Users : TotalsRead(c, u)
           \/ BackfillList(c) \/ BackfillNext(c) \/ BackfillSum(c)
  <2>1. call'[c].pc \notin {"save", "write"}
    BY <1>5, Constants, AlreadyFits, ReturnFits, TotalsReadFits, ListFits,
       NextFits, SumFits DEF Typed, SaveRefused, Idle
  <2>2. \A d \in Others(c) : call'[d] = call[d]
    BY <1>5, QuietTyped DEF QuietStep
  <2>3. \A u \in Users : Reporting(u)' \subseteq Reporting(u)
    BY <2>1, <2>2 DEF Reporting, Others
  <2> QED
    BY <1>5, <2>3, CountedKept, QuietTyped DEF QuietStep
<1> QED
  BY <1>1, <1>2, <1>3, <1>4, <1>5 DEF QuietStep, BeginStep

LEMMA StepCounted ==
  ASSUME Typed, Counted, [Next]_vars
  PROVE  Counted'
<1>1. CASE UNCHANGED vars \/ WorldStep
  <2>1. \A u \in Users : Reporting(u)' \subseteq Reporting(u)
    BY <1>1, WorldTyped DEF Reporting
  <2> QED
    BY <1>1, <2>1, CountedKept, WorldTyped
<1>2. ASSUME NEW c \in Calls,
             \/ AwardCommit(c) \/ Reconcile(c) \/ BackfillFix(c)
             \/ BackfillInsert(c)
      PROVE  Counted'
  <2>1. /\ call'[c].pc \notin {"save", "write"}
        /\ \A d \in Others(c) : call'[d] = call[d]
    BY <1>2, AwardFits, FixFits, ReturnFits
       DEF Typed, Reconcile, BackfillInsert, Idle
  <2>2. \A u \in Users : Reporting(u)' \subseteq Reporting(u)
    BY <2>1 DEF Reporting, Others
  <2> QED
    BY <1>2, <2>2, CountedKept
       DEF AwardCommit, Reconcile, BackfillFix, BackfillInsert
<1> QED
  BY <1>1, <1>2, QuietCounted, WriteCounted, StepCases

LEMMA InitCounted ==
  ASSUME Init
  PROVE  Counted
<1>1. ASSUME NEW u \in Users
      PROVE  Reporting(u) = {} /\ reported[u] = 0
  BY <1>1 DEF Init, Reporting, Idle
<1> QED
  BY <1>1, FS_EmptySet, BoundsAssumption DEF Counted

\* The points' variables have their types, and no more completions are
\* reported than the bound lets the Mux webhook report.
THEOREM PointsTyped == Spec => []TypeOK
<1>1. Init => Typed /\ Counted
  BY InitTyped, InitCounted
<1>2. (Typed /\ Counted) /\ [Next]_vars => (Typed /\ Counted)'
  BY StepTyped, StepCounted
<1>3. Typed /\ Counted => TypeOK
  <2> SUFFICES ASSUME Typed, Counted
               PROVE  TypeOK
    OBVIOUS
  <2>1. reported \in [Users -> 0 .. MaxStats]
    BY ReportingFinite, BoundsAssumption DEF Typed, HistoryTyped, Counted
  <2> QED
    BY <2>1 DEF TypeOK, Typed, TablesTyped, HistoryTyped, CallsFit, Fits
<1> QED
  BY <1>1, <1>2, <1>3, PTL DEF Spec

-----------------------------------------------------------------------------
(* The cached total.  While a user is not dirty, whatever total of the user*)
(* a call has in hand and may write is the total in the row: the entity of *)
(* a save, the column a save has decided to write, the sum of a view, and  *)
(* the sums of a backfill, which leave out a user whose sum is 0.          *)

Held(c, u) ==
  /\ call[c].pc = "save" /\ call[c].user = u =>
       call[c].ent.total = row[u].total
  /\ call[c].pc = "write" /\ call[c].user = u /\ "total" \in call[c].cols =>
       call[c].ent.total = row[u].total
  /\ call[c].pc = "sum" /\ call[c].user = u => call[c].sums[u] = earned[u]
  /\ call[c].pc = "sums" => call[c].sums[u] \in {0, earned[u]}

\* The sums of a backfill leave out the users who have no row yet.
NewcomersOut(c) ==
  call[c].pc = "sums" => \A u \in Users \ has : call[c].sums[u] = 0

\* A user without a row has earned nothing.
NoRowNoPoints ==
  \A u \in Users \ has : row[u] = Defaults /\ earned[u] = 0

TotalInv ==
  /\ CacheAgrees
  /\ NoRowNoPoints
  /\ \A c \in Calls : NewcomersOut(c) /\ \A u \in Users \ dirty : Held(c, u)

\* A call that holds nothing of the kind.
LEMMA HoldsNothing ==
  ASSUME NEW c \in Calls, call[c].pc \notin {"save", "write", "sum", "sums"}
  PROVE  NewcomersOut(c) /\ \A u \in Users : Held(c, u)
  BY DEF NewcomersOut, Held

\* What a call that did nothing holds, when the tables stay as well.
LEMMA HeldKept ==
  ASSUME TotalInv, NEW d \in Calls, call'[d] = call[d],
         UNCHANGED <<tables, dirty>>
  PROVE  NewcomersOut(d)' /\ \A u \in Users \ dirty' : Held(d, u)'
  BY DEF TotalInv, NewcomersOut, Held

LEMMA QuietTotal ==
  ASSUME Typed, TotalInv, NEW c \in Calls, QuietStep(c)
  PROVE  TotalInv'
<1>1. /\ UNCHANGED <<tables, dirty>>
      /\ \A d \in Others(c) : call'[d] = call[d]
  BY QuietTyped
<1>2. NewcomersOut(c)' /\ \A u \in Users \ dirty' : Held(c, u)'
  <2>1. CASE BeginStep(c)
    <3>1. CASE call'[c] = call[c]
      BY <1>1, <3>1, HeldKept
    <3>2. CASE call'[c].pc = "award"
      BY <3>2 DEF NewcomersOut, Held
    <3> QED
      BY <2>1, <3>1, <3>2, BeginStepFits
  <2>2. CASE \E s \in Sessions : StatsRead(c, s)
    <3>1. PICK s \in Sessions : StatsRead(c, s)
      BY <2>2
    <3>2. PICK r \in Row : r = row[Owner[s]]
      BY OwnerAssumption DEF Typed, TablesTyped
    <3>3. call'[c].ent = [r EXCEPT !.sessions = @ + 1]
      BY <3>1, <3>2, StatsReadFits
    <3>4. call'[c].ent.total = r.total
      BY <3>3 DEF Row
    <3> QED
      BY <1>1, <3>1, <3>2, <3>4, StatsReadFits DEF NewcomersOut, Held
  <2>3. CASE StreakRead(c)
    <3>1. row[call[c].user] \in Row
      BY <2>3, StreakFits DEF Typed, TablesTyped
    <3> QED
      BY <1>1, <2>3, <3>1, StreakFits, StreakOfTyped DEF NewcomersOut, Held
  <2>4. CASE SaveCompare(c)
    <3>1. "total" \in call'[c].cols =>
            call[c].ent.total # row[call[c].user].total
      BY <2>4, CompareFits
    <3>2. call[c].user \notin dirty =>
            call[c].ent.total = row[call[c].user].total
      BY <2>4, CompareFits DEF TotalInv, Held, SaveCompare
    <3> QED
      BY <1>1, <2>4, <3>1, <3>2, CompareFits DEF NewcomersOut, Held
  <2>5. CASE \E u \in Users : TotalsRead(c, u)
    BY <1>1, <2>5, TotalsReadFits DEF NewcomersOut, Held
  <2>6. CASE BackfillSum(c)
    BY <1>1, <2>6, SumFits DEF TotalInv, NoRowNoPoints, NewcomersOut, Held
  <2>7. CASE \/ AlreadyAwarded(c) \/ SaveRefused(c)
             \/ BackfillList(c) \/ BackfillNext(c)
    <3>1. call'[c].pc \notin {"save", "write", "sum", "sums"}
      BY <2>7, AlreadyFits, ReturnFits, ListFits, NextFits
         DEF Typed, SaveRefused, Idle
    <3> QED
      BY <3>1 DEF NewcomersOut, Held
  <2> QED
    BY <2>1, <2>2, <2>3, <2>4, <2>5, <2>6, <2>7 DEF QuietStep, BeginStep
<1>3. \A d \in Others(c) : NewcomersOut(d)' /\ \A u \in Users \ dirty' : Held(d, u)'
  BY <1>1, HeldKept DEF Others
<1> QED
  BY <1>1, <1>2, <1>3 DEF TotalInv, CacheAgrees, NoRowNoPoints, Others

\* An award that finds the total of its user in nobody's hand adds to both
\* sides.
LEMMA AwardTotal ==
  ASSUME Typed, TotalInv, NEW c \in Calls, AwardCommit(c)
  PROVE  TotalInv'
<1>1. PICK u \in Users : u = call[c].user
  BY DEF Typed, CallsFit, Fits, AwardCommit
<1> DEFINE w == call[c].worth
<1>2. w \in Nat
  BY BoundsAssumption DEF Typed, CallsFit, Call
<1>3. /\ earned[u] \in Nat /\ row[u] \in Row
      /\ \A v \in Users : row[v] \in Row
  BY DEF Typed, TablesTyped
<1>4. /\ earned' = [earned EXCEPT ![u] = @ + w]
      /\ row' = [row EXCEPT ![u].total = @ + w]
      /\ has' = has \cup {u}
      /\ dirty' = dirty \cup {v \in {u} : \E d \in Others(c) : HoldsTotal(d, v)}
  BY <1>1 DEF AwardCommit
<1>5. /\ earned'[u] = earned[u] + w
      /\ row'[u].total = row[u].total + w
      /\ \A v \in Users \ {u} : row'[v] = row[v] /\ earned'[v] = earned[v]
  BY <1>3, <1>4, <1>2 DEF Typed, TablesTyped, Row
<1>6. NewcomersOut(c)' /\ \A v \in Users \ dirty' : Held(c, v)'
  BY AwardFits DEF NewcomersOut, Held
<1>7. ASSUME NEW d \in Others(c)
      PROVE  NewcomersOut(d)' /\ \A v \in Users \ dirty' : Held(d, v)'
  <2>1. call'[d] = call[d] /\ d \in Calls
    BY AwardFits DEF Others
  <2>2. NewcomersOut(d)'
    BY <1>4, <2>1 DEF TotalInv, NewcomersOut
  <2>3. ASSUME NEW v \in Users \ dirty', v # u
        PROVE  Held(d, v)'
    BY <1>4, <1>5, <2>1, <2>3 DEF TotalInv, Held
  <2>4. ASSUME u \notin dirty'
        PROVE  Held(d, u)'
    <3>1. ~HoldsTotal(d, u)
      BY <1>4, <2>4
    <3>2. call[d].pc = "sums" => call[d].sums[u] = 0
      BY <2>1, <3>1 DEF HoldsTotal, TotalInv, NewcomersOut
    <3> QED
      BY <2>1, <3>1, <3>2 DEF HoldsTotal, Held
  <2> QED
    BY <2>2, <2>3, <2>4
<1>8. CacheAgrees'
  BY <1>4, <1>5 DEF TotalInv, CacheAgrees
<1>9. NoRowNoPoints'
  BY <1>4, <1>5 DEF TotalInv, NoRowNoPoints
<1> QED
  BY <1>6, <1>7, <1>8, <1>9 DEF TotalInv, Others

\* A save writes the total only when it is the row's already, or the user is
\* dirty.
LEMMA WriteTotal ==
  ASSUME Typed, TotalInv, NEW c \in Calls, SaveWrite(c)
  PROVE  TotalInv'
<1> DEFINE u == call[c].user
<1>1. u \in Users
  BY DEF Typed, CallsFit, Fits, SaveWrite
<1>2. /\ row' = [row EXCEPT ![u] = Written(c)]
      /\ has' = has \cup {u}
      /\ UNCHANGED <<earned, dirty>>
  BY DEF SaveWrite
<1>3. /\ row'[u] = Written(c)
      /\ \A v \in Users \ {u} : row'[v] = row[v]
  BY <1>1, <1>2 DEF Typed, TablesTyped
<1>4. Written(c).total = IF "total" \in call[c].cols THEN call[c].ent.total
                         ELSE row[u].total
  BY <1>1, WrittenFields DEF Columns
<1>5. \A v \in Users \ dirty : row'[v].total = row[v].total
  BY <1>1, <1>3, <1>4 DEF TotalInv, Held, SaveWrite
<1>6. call'[c] = Idle /\ \A d \in Others(c) : call'[d] = call[d]
  BY ReturnFits DEF Typed, SaveWrite
<1>7. ASSUME NEW d \in Others(c)
      PROVE  NewcomersOut(d)' /\ \A v \in Users \ dirty' : Held(d, v)'
  BY <1>2, <1>5, <1>6 DEF TotalInv, NewcomersOut, Held, Others
<1>8. NewcomersOut(c)' /\ \A v \in Users \ dirty' : Held(c, v)'
  BY <1>6 DEF NewcomersOut, Held, Idle
<1>9. CacheAgrees'
  BY <1>2, <1>5 DEF TotalInv, CacheAgrees
<1>10. NoRowNoPoints'
  BY <1>2, <1>3 DEF TotalInv, NoRowNoPoints
<1> QED
  BY <1>7, <1>8, <1>9, <1>10 DEF TotalInv, Others

\* A user is clean again when the sum written is the sum of the events and
\* nobody else has an older total in hand.
LEMMA HealedHeld ==
  ASSUME Typed, TotalInv, NEW c \in Calls, NEW u \in Users, Healed(c, u),
         NEW d \in Others(c), call'[d] = call[d], earned' = earned
  PROVE  Held(d, u)'
<1>1. ~HoldsTotal(d, u) /\ d \in Calls
  BY DEF Healed, Others
<1>2. call[d].pc = "sums" => call[d].sums[u] = 0
  BY <1>1 DEF HoldsTotal, TotalInv, NewcomersOut
<1> QED
  BY <1>1, <1>2 DEF HoldsTotal, Held

LEMMA ReconcileTotal ==
  ASSUME Typed, TotalInv, NEW c \in Calls, Reconcile(c)
  PROVE  TotalInv'
<1> DEFINE u == call[c].user
           sum == call[c].sums[u]
<1>1. u \in Users /\ row[u] \in Row
  BY DEF Typed, TablesTyped, CallsFit, Fits, Reconcile
<1>2. /\ row' = [row EXCEPT ![u].total = sum]
      /\ has' = has \cup {u}
      /\ dirty' = dirty \ {v \in {u} : Healed(c, v)}
      /\ earned' = earned
  BY DEF Reconcile
<1>3. /\ row'[u].total = sum
      /\ \A v \in Users \ {u} : row'[v] = row[v]
  BY <1>1, <1>2 DEF Typed, TablesTyped, Row
<1>4. u \notin dirty => sum = earned[u] /\ sum = row[u].total
  BY <1>1 DEF TotalInv, Held, CacheAgrees, Reconcile
<1>5. u \in dirty /\ u \notin dirty' => Healed(c, u)
  BY <1>2
<1>6. CacheAgrees'
  BY <1>2, <1>3, <1>4, <1>5 DEF TotalInv, CacheAgrees, Healed
<1>7. NoRowNoPoints'
  BY <1>2, <1>3 DEF TotalInv, NoRowNoPoints
<1>8. call'[c] = Idle /\ \A d \in Others(c) : call'[d] = call[d]
  BY ReturnFits DEF Typed, Reconcile
<1>9. ASSUME NEW d \in Others(c)
      PROVE  NewcomersOut(d)' /\ \A v \in Users \ dirty' : Held(d, v)'
  <2>1. call'[d] = call[d] /\ d \in Calls
    BY <1>8 DEF Others
  <2>2. NewcomersOut(d)'
    BY <1>2, <2>1 DEF TotalInv, NewcomersOut
  <2>3. ASSUME NEW v \in Users \ dirty'
        PROVE  Held(d, v)'
    <3>1. CASE v \notin dirty
      BY <1>2, <1>3, <1>4, <2>1, <3>1 DEF TotalInv, Held
    <3>2. CASE v \in dirty
      BY <1>2, <2>1, <3>2, HealedHeld
    <3> QED
      BY <3>1, <3>2
  <2> QED
    BY <2>2, <2>3
<1>10. NewcomersOut(c)' /\ \A v \in Users \ dirty' : Held(c, v)'
  BY <1>8 DEF NewcomersOut, Held, Idle
<1> QED
  BY <1>6, <1>7, <1>9, <1>10 DEF TotalInv, Others

LEMMA FixTotal ==
  ASSUME Typed, TotalInv, NEW c \in Calls, BackfillFix(c)
  PROVE  TotalInv'
<1> DEFINE sums == call[c].sums
           fixed == {u \in has : sums[u] # 0}
<1>1. /\ row' = [u \in Users |->
                   IF u \in fixed THEN [row[u] EXCEPT !.total = sums[u]]
                   ELSE row[u]]
      /\ dirty' = dirty \ {u \in fixed : Healed(c, u)}
      /\ UNCHANGED <<has, earned>>
      /\ call[c].pc = "sums"
  BY DEF BackfillFix
<1>2. ASSUME NEW u \in Users
      PROVE  /\ u \in fixed => row'[u].total = sums[u]
             /\ u \notin fixed => row'[u] = row[u]
  <2>1. row[u] \in Row
    BY DEF Typed, TablesTyped
  <2>2. row'[u] = IF u \in fixed THEN [row[u] EXCEPT !.total = sums[u]]
                  ELSE row[u]
    BY <1>1
  <2> HIDE DEF fixed, sums
  <2> QED
    BY <2>1, <2>2 DEF Row
<1>3. ASSUME NEW u \in Users \ dirty, u \in fixed
      PROVE  sums[u] = earned[u] /\ sums[u] = row[u].total
  BY <1>1, <1>3 DEF TotalInv, Held, CacheAgrees
<1>4. ASSUME NEW u \in Users \ dirty', u \in dirty
      PROVE  Healed(c, u) /\ u \in fixed
  BY <1>1, <1>4
<1>5. CacheAgrees'
  BY <1>1, <1>2, <1>3, <1>4 DEF TotalInv, CacheAgrees, Healed
<1>6. NoRowNoPoints'
  BY <1>1, <1>2 DEF TotalInv, NoRowNoPoints
<1>7. call'[c].pc = "insert" /\ \A d \in Others(c) : call'[d] = call[d]
  BY FixFits
<1>8. ASSUME NEW d \in Others(c)
      PROVE  NewcomersOut(d)' /\ \A v \in Users \ dirty' : Held(d, v)'
  <2>1. call'[d] = call[d] /\ d \in Calls
    BY <1>7 DEF Others
  <2>2. NewcomersOut(d)'
    BY <1>1, <2>1 DEF TotalInv, NewcomersOut
  <2>3. ASSUME NEW v \in Users \ dirty'
        PROVE  Held(d, v)'
    <3>1. CASE v \notin dirty
      <4>1. row'[v].total = row[v].total
        BY <1>2, <1>3, <3>1
      <4> QED
        BY <1>1, <2>1, <3>1, <4>1 DEF TotalInv, Held
    <3>2. CASE v \in dirty
      BY <1>1, <1>4, <2>1, <3>2, HealedHeld
    <3> QED
      BY <3>1, <3>2
  <2> QED
    BY <2>2, <2>3
<1>9. NewcomersOut(c)' /\ \A v \in Users \ dirty' : Held(c, v)'
  BY <1>7 DEF NewcomersOut, Held
<1> QED
  BY <1>5, <1>6, <1>8, <1>9 DEF TotalInv, Others

\* Whoever has earned points has a row, so the backfill's INSERT makes none.
LEMMA InsertNothing ==
  ASSUME Typed, TotalInv, NEW c \in Calls, BackfillInsert(c)
  PROVE  UNCHANGED <<tables, history>>
<1>1. {u \in Users \ has : earned[u] # 0} = {}
  BY DEF TotalInv, NoRowNoPoints
<1>2. has' = has /\ row' = [u \in Users |-> row[u]]
  BY <1>1 DEF BackfillInsert
<1> QED
  BY <1>2 DEF Typed, TablesTyped, BackfillInsert

LEMMA InsertTotal ==
  ASSUME Typed, TotalInv, NEW c \in Calls, BackfillInsert(c)
  PROVE  TotalInv'
<1>1. UNCHANGED <<tables, dirty>>
  BY InsertNothing
<1>2. call'[c] = Idle /\ \A d \in Others(c) : call'[d] = call[d]
  BY ReturnFits DEF Typed, BackfillInsert
<1>3. NewcomersOut(c)' /\ \A v \in Users \ dirty' : Held(c, v)'
  BY <1>2 DEF NewcomersOut, Held, Idle
<1>4. \A d \in Others(c) : NewcomersOut(d)' /\ \A v \in Users \ dirty' : Held(d, v)'
  BY <1>1, <1>2, HeldKept DEF Others
<1> QED
  BY <1>1, <1>3, <1>4 DEF TotalInv, CacheAgrees, NoRowNoPoints, Others

LEMMA StepTotal ==
  ASSUME Typed, TotalInv, [Next]_vars
  PROVE  TotalInv'
<1>1. CASE UNCHANGED vars \/ WorldStep
  <2>1. UNCHANGED <<tables, dirty, call>>
    BY <1>1, WorldTyped
  <2>2. \A d \in Calls : NewcomersOut(d)' /\ \A v \in Users \ dirty' : Held(d, v)'
    BY <2>1, HeldKept
  <2> QED
    BY <2>1, <2>2 DEF TotalInv, CacheAgrees, NoRowNoPoints
<1> QED
  BY <1>1, StepCases, QuietTotal, AwardTotal, WriteTotal, ReconcileTotal,
     FixTotal, InsertTotal

LEMMA InitTotal ==
  ASSUME Init
  PROVE  TotalInv
  BY DEF Init, TotalInv, CacheAgrees, NoRowNoPoints, NewcomersOut, Held, Idle,
         Defaults

\* The cached total of a user is the sum of the user's events: the award's
\* increment, TypeORM's save of the columns that differ, the view's
\* reconciliation and the backfill's UPDATE keep it so, whatever they overlap,
\* until an award grows the total another call is about to overwrite; and a
\* reconciliation that nobody overlaps makes it so again.
THEOREM CachedTotals == Spec => []CacheAgrees
<1>1. Init => Typed /\ TotalInv
  BY InitTyped, InitTotal
<1>2. (Typed /\ TotalInv) /\ [Next]_vars => (Typed /\ TotalInv)'
  BY StepTyped, StepTotal
<1>3. TotalInv => CacheAgrees
  BY DEF TotalInv
<1> QED
  BY <1>1, <1>2, <1>3, PTL DEF Spec

-----------------------------------------------------------------------------
(* Sessions and streaks.  While no save of a user's row overlapped another *)
(* call that had the row in hand, the entity a call has in hand is one step*)
(* ahead of the row: one more session, or the streak after one more day.   *)

\* The streak on a day, after the last active one.
NextStreak(old, day) ==
  IF old.last # 0 /\ old.last = day - 1 THEN old.streak + 1 ELSE 1

Ahead(c, u) ==
  IF call[c].day = 0
  THEN /\ call[c].ent.sessions = row[u].sessions + 1
       /\ call[c].ent.last = row[u].last
       /\ call[c].ent.streak = row[u].streak
  ELSE /\ call[c].ent.sessions = row[u].sessions
       /\ call[c].ent.last = call[c].day
       /\ call[c].ent.streak = NextStreak(row[u], call[c].day)
       /\ row[u].last < call[c].day /\ call[c].day <= today

\* What a write leaves out is in the row already.
LeftOut(c, u) ==
  call[c].pc = "write" =>
    \A f \in {"sessions", "last", "streak"} :
      f \notin call[c].cols => call[c].ent[f] = row[u][f]

InHand(c, u) == HoldsRow(c, u) => Ahead(c, u) /\ LeftOut(c, u)

\* The last active day of the row is the last day credited.
DaysAgree(u) ==
  /\ active[u] \subseteq 1 .. row[u].last
  /\ row[u].last # 0 => row[u].last \in active[u]
  /\ row[u].last <= today

StatInv ==
  /\ UndisturbedStats
  /\ \A u \in Users \ clashed : /\ DaysAgree(u)
                                /\ \A c \in Calls : InHand(c, u)

\* The run of days grows by a day that follows the last one.
LEMMA RunGrows ==
  ASSUME NEW last \in Nat, last # 0, NEW days \in SUBSET (1 .. last)
  PROVE  RunOf(days \cup {last + 1}, last + 1) = RunOf(days, last) + 1
<1> DEFINE day == last + 1
           run == {d \in days : \A e \in d .. last : e \in days}
           more == {d \in days \cup {day} :
                      \A e \in d .. day : e \in days \cup {day}}
<1>1. IsFiniteSet(run) /\ day \notin run
  <2>1. IsFiniteSet(1 .. last)
    BY FS_Interval
  <2>2. run \subseteq 1 .. last
    OBVIOUS
  <2> QED
    BY <2>1, <2>2, FS_Subset
<1>2. ASSUME NEW d \in run
      PROVE  d \in more
  <2>1. ASSUME NEW e \in d .. day
        PROVE  e \in days \cup {day}
    <3>1. e = day \/ e \in d .. last
      BY <2>1
    <3> QED
      BY <3>1
  <2> QED
    BY <2>1
<1>3. day \in more
  OBVIOUS
<1>4. ASSUME NEW d \in more, d # day
      PROVE  d \in run
  <2>1. d \in days /\ d \in 1 .. last
    BY <1>4
  <2>2. ASSUME NEW e \in d .. last
        PROVE  e \in days
    <3>1. e \in d .. day /\ e # day
      BY <2>1, <2>2
    <3> QED
      BY <3>1
  <2> QED
    BY <2>1, <2>2
<1>5. more = run \cup {day}
  BY <1>2, <1>3, <1>4
<1> HIDE DEF run, more
<1>6. Cardinality(run \cup {day}) = Cardinality(run) + 1
  BY <1>1, FS_AddElement
<1>7. Cardinality(more) = Cardinality(run) + 1
  BY <1>5, <1>6
<1> QED
  BY <1>7 DEF RunOf, run, more

\* A run begins anew after a gap.
LEMMA RunBegins ==
  ASSUME NEW last \in Nat, NEW day \in Nat, last < day,
         last = 0 \/ last # day - 1, NEW days \in SUBSET (1 .. last)
  PROVE  RunOf(days \cup {day}, day) = 1
<1> DEFINE run == {d \in days \cup {day} :
                     \A e \in d .. day : e \in days \cup {day}}
<1>1. day \in run
  OBVIOUS
<1>2. ASSUME NEW d \in run, d # day
      PROVE  FALSE
  <2>1. d \in 1 .. last /\ last # 0 /\ last < day - 1
    BY <1>2
  <2>2. day - 1 \in d .. day /\ day - 1 \notin days /\ day - 1 # day
    BY <2>1
  <2> QED
    BY <2>2
<1>3. run = {day}
  BY <1>1, <1>2
<1> HIDE DEF run
<1>4. Cardinality(run) = 1
  BY <1>3, FS_Singleton
<1> QED
  BY <1>4 DEF RunOf, run

\* What a call that did nothing has in hand, when the rows differ in nothing
\* but their totals.
LEMMA InHandKept ==
  ASSUME Typed, NEW u \in Users, NEW d \in Calls, InHand(d, u),
         call'[d] = call[d], today' = today \/ today' = today + 1,
         row'[u].sessions = row[u].sessions, row'[u].last = row[u].last,
         row'[u].streak = row[u].streak
  PROVE  InHand(d, u)'
<1> SUFFICES ASSUME HoldsRow(d, u)
             PROVE  Ahead(d, u)' /\ LeftOut(d, u)'
  BY DEF InHand, HoldsRow
<1>1. call[d].day \in Int /\ today \in Int
  BY BoundsAssumption DEF Typed, CallsFit, Call
<1>2. Ahead(d, u)'
  BY <1>1 DEF InHand, Ahead, NextStreak
<1>3. LeftOut(d, u)'
  BY DEF InHand, LeftOut
<1> QED
  BY <1>2, <1>3

\* A step that may change the totals, and no other column, and no call that
\* has a row in hand.
LEMMA StatKept ==
  ASSUME Typed, StatInv, UNCHANGED <<clashed, reported, active>>,
         today' = today \/ today' = today + 1,
         \A u \in Users : /\ row'[u].sessions = row[u].sessions
                          /\ row'[u].last = row[u].last
                          /\ row'[u].streak = row[u].streak,
         \A d \in Calls : \/ call'[d] = call[d]
                          \/ \A u \in Users \ clashed : InHand(d, u)'
  PROVE  StatInv'
<1>1. today \in Int /\ \A u \in Users : row[u].last \in Int
  BY BoundsAssumption DEF Typed, TablesTyped, Row
<1>2. UndisturbedStats'
  BY DEF StatInv, UndisturbedStats, RunOf
<1>3. ASSUME NEW u \in Users \ clashed'
      PROVE  DaysAgree(u)'
  BY <1>1 DEF StatInv, DaysAgree
<1>4. ASSUME NEW u \in Users \ clashed', NEW d \in Calls
      PROVE  InHand(d, u)'
  BY InHandKept DEF StatInv
<1> QED
  BY <1>2, <1>3, <1>4 DEF StatInv

LEMMA NothingInHand ==
  ASSUME NEW c \in Calls, call[c].pc \notin {"save", "write"}
  PROVE  \A u \in Users : InHand(c, u)
  BY DEF InHand, HoldsRow

LEMMA QuietStats ==
  ASSUME Typed, StatInv, NEW c \in Calls, QuietStep(c)
  PROVE  StatInv'
<1>1. /\ UNCHANGED <<tables, history, today>>
      /\ \A d \in Others(c) : call'[d] = call[d]
  BY QuietTyped
<1>2. \/ call'[c] = call[c]
      \/ \A u \in Users \ clashed : InHand(c, u)'
  <2>1. CASE BeginStep(c)
    BY <2>1, BeginStepFits DEF InHand, HoldsRow
  <2>2. CASE \E s \in Sessions : StatsRead(c, s)
    <3>1. PICK s \in Sessions : StatsRead(c, s)
      BY <2>2
    <3>2. PICK r \in Row : r = row[Owner[s]]
      BY OwnerAssumption DEF Typed, TablesTyped
    <3>3. call'[c].ent = [r EXCEPT !.sessions = @ + 1]
      BY <3>1, <3>2, StatsReadFits
    <3>4. /\ call'[c].ent.sessions = r.sessions + 1
          /\ call'[c].ent.last = r.last /\ call'[c].ent.streak = r.streak
      BY <3>3 DEF Row
    <3> QED
      BY <1>1, <3>1, <3>2, <3>4, StatsReadFits
         DEF InHand, HoldsRow, Ahead, LeftOut
  <2>3. CASE StreakRead(c)
    <3>1. PICK u \in Users : u = call[c].user
      BY <2>3, StreakFits
    <3>2. PICK old \in Row : old = row[u]
      BY DEF Typed, TablesTyped
    <3>3. today # 0 /\ today \in Int /\ old.last \in Int
      BY BoundsAssumption DEF Typed, Row
    <3>4. CASE call'[c].pc = "idle"
      BY <3>4 DEF InHand, HoldsRow
    <3>5. CASE /\ row[u].last # today
               /\ call'[c].pc = "save" /\ call'[c].user = u
               /\ call'[c].ent = StreakOf(row[u])
               /\ call'[c].day = today
      <4>1. ASSUME u \notin clashed
            PROVE  Ahead(c, u)' /\ LeftOut(c, u)'
        <5>1. old.last < today
          BY <3>2, <3>3, <3>5, <4>1 DEF StatInv, DaysAgree
        <5>2. /\ StreakOf(old).sessions = old.sessions
              /\ StreakOf(old).last = today
              /\ StreakOf(old).streak = NextStreak(old, today)
          BY StreakOfTyped DEF ActiveYesterday, NextStreak
        <5> QED
          BY <1>1, <3>2, <3>3, <3>5, <5>1, <5>2 DEF Ahead, LeftOut, NextStreak
      <4> QED
        BY <3>5, <4>1 DEF InHand, HoldsRow
    <3> QED
      BY <2>3, <3>1, <3>4, <3>5, StreakFits
  <2>4. CASE SaveCompare(c)
    <3>1. PICK u \in Users : u = call[c].user
      BY <2>4, CompareFits
    <3>2. ASSUME u \notin clashed
          PROVE  Ahead(c, u)' /\ LeftOut(c, u)'
      <4>1. Ahead(c, u)
        BY <2>4, <3>1, <3>2 DEF StatInv, InHand, HoldsRow, SaveCompare
      <4>2. Ahead(c, u)'
        BY <1>1, <2>4, <4>1, CompareFits DEF Ahead, NextStreak
      <4>3. LeftOut(c, u)'
        BY <1>1, <2>4, <3>1, CompareFits DEF LeftOut, Columns
      <4> QED
        BY <4>2, <4>3
    <3> QED
      BY <2>4, <3>1, <3>2, CompareFits DEF InHand, HoldsRow
  <2>5. CASE \/ AlreadyAwarded(c) \/ SaveRefused(c)
             \/ \E u \in Users : TotalsRead(c, u)
             \/ BackfillList(c) \/ BackfillNext(c) \/ BackfillSum(c)
    <3>1. call'[c].pc \notin {"save", "write"}
      BY <2>5, AlreadyFits, ReturnFits, TotalsReadFits, ListFits, NextFits,
         SumFits DEF Typed, SaveRefused, Idle
    <3> QED
      BY <3>1 DEF InHand, HoldsRow
  <2> QED
    BY <2>1, <2>2, <2>3, <2>4, <2>5 DEF QuietStep, BeginStep
<1> QED
  BY <1>1, <1>2, StatKept DEF Others

\* Awards and reconciliations write the total alone.
LEMMA TotalStats ==
  ASSUME Typed, TotalInv, StatInv, NEW c \in Calls,
         \/ AwardCommit(c) \/ Reconcile(c) \/ BackfillFix(c)
         \/ BackfillInsert(c)
  PROVE  StatInv'
<1>1. /\ call'[c].pc \notin {"save", "write"}
      /\ \A d \in Others(c) : call'[d] = call[d]
  BY AwardFits, FixFits, ReturnFits
     DEF Typed, Reconcile, BackfillInsert, Idle
<1>2. \A u \in Users : InHand(c, u)'
  BY <1>1 DEF InHand, HoldsRow
<1>3. UNCHANGED <<clashed, reported, active, today>>
  BY DEF AwardCommit, Reconcile, BackfillFix, BackfillInsert
<1>4. ASSUME NEW u \in Users
      PROVE  /\ row'[u].sessions = row[u].sessions
             /\ row'[u].last = row[u].last
             /\ row'[u].streak = row[u].streak
  <2>1. PICK r \in Row : r = row[u]
    BY DEF Typed, TablesTyped
  <2>2. row'[u] = r \/ \E n : row'[u] = [r EXCEPT !.total = n]
    <3>1. CASE AwardCommit(c) \/ Reconcile(c)
      <4>1. CASE u # call[c].user
        BY <2>1, <3>1, <4>1 DEF AwardCommit, Reconcile, Typed, TablesTyped
      <4>2. CASE u = call[c].user /\ AwardCommit(c)
        <5>1. row'[u] = [r EXCEPT !.total = r.total + call[c].worth]
          BY <2>1, <4>2 DEF AwardCommit, Typed, TablesTyped
        <5> QED
          BY <5>1
      <4>3. CASE u = call[c].user /\ Reconcile(c)
        <5>1. row'[u] = [r EXCEPT !.total = call[c].sums[u]]
          BY <2>1, <4>3 DEF Reconcile, Typed, TablesTyped
        <5> QED
          BY <5>1
      <4> QED
        BY <3>1, <4>1, <4>2, <4>3
    <3>2. CASE BackfillFix(c)
      BY <2>1, <3>2 DEF BackfillFix
    <3>3. CASE BackfillInsert(c)
      BY <2>1, <3>3, InsertNothing
    <3> QED
      BY <3>1, <3>2, <3>3
  <2> QED
    BY <2>1, <2>2 DEF Row
<1> QED
  BY <1>1, <1>2, <1>3, <1>4, StatKept DEF Others

\* A save that nobody else's overlaps writes what the call had in hand.
LEMMA WriteStats ==
  ASSUME Typed, StatInv, NEW c \in Calls, SaveWrite(c)
  PROVE  StatInv'
<1>1. PICK u \in Users : u = call[c].user
  BY DEF Typed, CallsFit, Fits, SaveWrite
<1>2. /\ row' = [row EXCEPT ![u] = Written(c)]
      /\ clashed' = clashed \cup {v \in {u} : \E d \in Others(c) : HoldsRow(d, v)}
      /\ today' = today
      /\ call'[c] = Idle /\ Idle.pc = "idle"
      /\ \A d \in Others(c) : call'[d] = call[d]
  BY <1>1, ReturnFits DEF SaveWrite, Typed, Idle
<1>3. /\ row'[u] = Written(c)
      /\ \A v \in Users \ {u} : /\ row'[v] = row[v]
                                /\ reported'[v] = reported[v]
                                /\ active'[v] = active[v]
  <2>1. CASE call[c].day = 0
    BY <1>1, <1>2, <2>1 DEF Typed, TablesTyped, HistoryTyped, SaveWrite
  <2>2. CASE call[c].day # 0
    BY <1>1, <1>2, <2>2 DEF Typed, TablesTyped, HistoryTyped, SaveWrite
  <2> QED
    BY <2>1, <2>2
<1>4. ASSUME NEW v \in Users \ clashed', v # u
      PROVE  /\ row'[v].sessions = reported'[v]
             /\ row'[v].streak = RunOf(active'[v], row'[v].last)
             /\ DaysAgree(v)'
             /\ \A d \in Calls : InHand(d, v)'
  <2>1. /\ row'[v] = row[v] /\ reported'[v] = reported[v]
        /\ active'[v] = active[v] /\ v \notin clashed
    BY <1>2, <1>3, <1>4
  <2>2. /\ row'[v].sessions = reported'[v]
        /\ row'[v].streak = RunOf(active'[v], row'[v].last)
        /\ DaysAgree(v)'
    BY <1>2, <2>1 DEF StatInv, UndisturbedStats, DaysAgree
  <2>3. \A d \in Calls : InHand(d, v)'
    BY <1>2, <2>1, InHandKept DEF StatInv, InHand, HoldsRow, Others
  <2> QED
    BY <2>2, <2>3
<1>5. ASSUME u \notin clashed'
      PROVE  /\ row'[u].sessions = reported'[u]
             /\ row'[u].streak = RunOf(active'[u], row'[u].last)
             /\ DaysAgree(u)'
             /\ \A d \in Calls : InHand(d, u)'
  <2>1. u \notin clashed /\ \A d \in Others(c) : ~HoldsRow(d, u)
    BY <1>2, <1>5
  <2>2. Ahead(c, u) /\ LeftOut(c, u) /\ DaysAgree(u)
    BY <1>1, <2>1 DEF StatInv, InHand, HoldsRow, SaveWrite
  <2>3. /\ row'[u].sessions = call[c].ent.sessions
        /\ row'[u].last = call[c].ent.last
        /\ row'[u].streak = call[c].ent.streak
    BY <1>1, <1>3, <2>2, WrittenFields DEF LeftOut, Columns, SaveWrite
  <2>4. /\ row[u].sessions = reported[u]
        /\ row[u].streak = RunOf(active[u], row[u].last)
    BY <2>1 DEF StatInv, UndisturbedStats
  <2>5. \A d \in Calls : InHand(d, u)'
    BY <1>2, <2>1 DEF InHand, HoldsRow, Others
  <2>6. CASE call[c].day = 0
    <3>1. reported'[u] = reported[u] + 1 /\ active'[u] = active[u]
      BY <1>1, <2>6 DEF SaveWrite, Typed, HistoryTyped
    <3> QED
      BY <1>2, <2>2, <2>3, <2>4, <2>5, <2>6, <3>1 DEF Ahead, DaysAgree
  <2>7. CASE call[c].day # 0
    <3> DEFINE day == call[c].day
               last == row[u].last
    <3>1. reported'[u] = reported[u] /\ active'[u] = active[u] \cup {day}
      BY <1>1, <2>7 DEF SaveWrite, Typed, HistoryTyped
    <3>2. /\ row'[u].sessions = row[u].sessions /\ row'[u].last = day
          /\ row'[u].streak = NextStreak(row[u], day)
          /\ last < day /\ day <= today
      BY <2>2, <2>3, <2>7 DEF Ahead
    <3>3. last \in Nat /\ day \in Nat /\ today \in Nat
      BY BoundsAssumption DEF Typed, TablesTyped, CallsFit, Call, Row
    <3>4. active[u] \in SUBSET (1 .. last)
      BY <2>2 DEF DaysAgree
    <3>5. row'[u].streak = RunOf(active'[u], day)
      <4>1. CASE last # 0 /\ last = day - 1
        <5>1. RunOf(active[u] \cup {last + 1}, last + 1) = RunOf(active[u], last) + 1
          BY <3>3, <3>4, <4>1, RunGrows
        <5>2. day = last + 1
          BY <3>3, <4>1
        <5> QED
          BY <2>4, <3>1, <3>2, <4>1, <5>1, <5>2 DEF NextStreak
      <4>2. CASE ~(last # 0 /\ last = day - 1)
        <5>1. RunOf(active[u] \cup {day}, day) = 1
          BY <3>2, <3>3, <3>4, <4>2, RunBegins
        <5>2. NextStreak(row[u], day) = 1
          BY <4>2 DEF NextStreak
        <5> QED
          BY <3>1, <3>2, <5>1, <5>2
      <4> QED
        BY <4>1, <4>2
    <3>6. DaysAgree(u)'
      <4>1. active'[u] \subseteq 1 .. day
        BY <3>1, <3>2, <3>3, <3>4
      <4> QED
        BY <1>2, <3>1, <3>2, <4>1 DEF DaysAgree
    <3> QED
      BY <2>4, <2>5, <3>1, <3>2, <3>5, <3>6
  <2> QED
    BY <2>6, <2>7
<1>6. UndisturbedStats'
  BY <1>4, <1>5 DEF UndisturbedStats
<1> QED
  BY <1>4, <1>5, <1>6 DEF StatInv

LEMMA StepStats ==
  ASSUME Typed, TotalInv, StatInv, [Next]_vars
  PROVE  StatInv'
<1>1. CASE UNCHANGED vars \/ WorldStep
  <2>1. /\ UNCHANGED <<tables, history, call>>
        /\ today' = today \/ today' = today + 1
    BY <1>1, WorldTyped DEF WorldStep, NextDay, EditConfig, Stop
  <2> QED
    BY <2>1, StatKept
<1> QED
  BY <1>1, StepCases, QuietStats, TotalStats, WriteStats

LEMMA InitStats ==
  ASSUME Init
  PROVE  StatInv
<1>1. ASSUME NEW u \in Users
      PROVE  /\ row[u].sessions = reported[u]
             /\ row[u].streak = RunOf(active[u], row[u].last)
             /\ DaysAgree(u)
             /\ \A c \in Calls : InHand(c, u)
  <2>1. RunOf({}, 0) = 0
    BY FS_EmptySet DEF RunOf
  <2>2. row[u] = Defaults /\ active[u] = {} /\ reported[u] = 0 /\ today = 1
    BY DEF Init
  <2>3. \A c \in Calls : InHand(c, u)
    BY DEF Init, InHand, HoldsRow, Idle
  <2> QED
    BY <2>1, <2>2, <2>3 DEF Defaults, DaysAgree
<1> QED
  BY <1>1 DEF StatInv, UndisturbedStats

\* The statistics of a user none of whose saves overlapped another call with
\* the row in hand: every session the webhook reported is counted, and the
\* streak is the number of consecutive days up to the last one credited,
\* whatever awards, reconciliations and backfills came between reading the row
\* and saving it.
THEOREM StatsCountedRight == Spec => []UndisturbedStats
<1>1. Init => Typed /\ TotalInv /\ StatInv
  BY InitTyped, InitTotal, InitStats
<1>2. (Typed /\ TotalInv /\ StatInv) /\ [Next]_vars
        => (Typed /\ TotalInv /\ StatInv)'
  BY StepTyped, StepTotal, StepStats
<1>3. StatInv => UndisturbedStats
  BY DEF StatInv
<1> QED
  BY <1>1, <1>2, <1>3, PTL DEF Spec
=============================================================================
