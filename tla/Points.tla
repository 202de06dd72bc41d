------------------------------- MODULE Points -------------------------------
(***************************************************************************)
(* Points: the append-only table point_events, the cached row per user in  *)
(* user_points, and the code that writes that row in three ways: an        *)
(* increment inside the transaction of an award, an overwrite with a sum   *)
(* read before, and TypeORM's save of a whole entity.  A save reads the    *)
(* row again, finds the columns in which the entity differs, and writes    *)
(* those; so it is a step that reads, a step that compares, a step that    *)
(* writes, and other calls may come between any two of them.               *)
(*                                                                         *)
(* One number is the value of every event (an admin edits it, 0 disables   *)
(* it).  successful_sessions and accuracy_percent are left out: the only   *)
(* caller passes true, so the first equals total_sessions.                 *)
(***************************************************************************)
EXTENDS Integers, FiniteSets

CONSTANTS
  Users,
  Sessions,  \* court sessions: a camera, a start and an end
  Owner,     \* the user of each session
  Calls,     \* slots for calls in progress
  None,
  MaxWorth,  \* bound: the largest value of an event
  MaxDay,    \* bound: days
  MaxStats   \* bound: completions of sessions reported

ASSUME OwnerAssumption == Owner \in [Sessions -> Users]
ASSUME CallsAssumption == IsFiniteSet(Calls)
ASSUME NoneAssumption == None \notin Users
ASSUME BoundsAssumption ==
  MaxWorth \in Nat /\ MaxDay \in Nat \ {0} /\ MaxStats \in Nat

(* What an event is credited for.  A session may be named by its recording *)
(* ("id"), by its camera, start and end ("window"), or, by a backfill that *)
(* finds it still in progress, by the window with no end ("open").  "share"*)
(* stands for the events that are not about recording a session.           *)
Kinds == {"id", "window", "open", "share"}
Refs == Sessions \X Kinds
NoRef == <<>>
OwnerOf(ref) == Owner[ref[1]]

VARIABLES
  session,   \* recordings: whether the session runs, has ended, is playable
  worth,     \* point_configs: the points of an event, 0 when disabled
  credited,  \* point_events: the idempotency keys
  earned,    \* point_events: SUM(points) of each user
  has,       \* user_points: the users with a row
  row,       \* user_points: the rows, the defaults where there is none
  today,
  call,      \* what each call is doing and has read
  (* history: users whose total another call had read when it grew; users  *)
  (* whose row was saved while another call had read it; reports done      *)
  dirty, clashed, reported, active

tables == <<credited, earned, has, row>>
history == <<dirty, clashed, reported, active>>
vars == <<session, worth, tables, today, call, history>>

Row == [total : Nat, streak : Nat, longest : Nat, last : 0 .. MaxDay,
        sessions : Nat]
Columns == {"total", "streak", "longest", "last", "sessions"}
Defaults == [total |-> 0, streak |-> 0, longest |-> 0, last |-> 0,
             sessions |-> 0]

Call == [pc : {"idle", "award", "streak", "save", "write", "sum",
               "backfill", "sums", "insert"},
         user : Users \cup {None},
         ref : Refs \cup {NoRef},
         worth : 0 .. MaxWorth,
         ent : Row,            \* the entity in memory
         new : BOOLEAN,        \* the save found no row
         cols : SUBSET Columns,
         sums : [Users -> Nat],
         todo : SUBSET Refs,   \* a backfill's list
         back : BOOLEAN,       \* the award belongs to a backfill
         day : 0 .. MaxDay]    \* the day a streak is being counted for
NoSums == [u \in Users |-> 0]
Idle == [pc |-> "idle", user |-> None, ref |-> NoRef, worth |-> 0,
         ent |-> Defaults, new |-> FALSE, cols |-> {}, sums |-> NoSums,
         todo |-> {}, back |-> FALSE, day |-> 0]

TypeOK ==
  /\ session \in [Sessions -> {"none", "live", "closed", "ready"}]
  /\ worth \in 0 .. MaxWorth
  /\ credited \subseteq Refs
  /\ earned \in [Users -> Nat]
  /\ has \subseteq Users
  /\ row \in [Users -> Row]
  /\ today \in 1 .. MaxDay
  /\ call \in [Calls -> Call]
  /\ \A c \in Calls :
       /\ call[c].pc = "award" => call[c].ref \in Refs /\ call[c].worth > 0
       /\ call[c].pc \in {"streak", "save", "write", "sum"} =>
            call[c].user \in Users
  /\ dirty \subseteq Users /\ clashed \subseteq Users
  /\ reported \in [Users -> 0 .. MaxStats]
  /\ active \in [Users -> SUBSET (1 .. MaxDay)]

Init ==
  /\ session = [s \in Sessions |-> "none"]
  /\ worth = MaxWorth
  /\ credited = {}
  /\ earned = [u \in Users |-> 0]
  /\ has = {}
  /\ row = [u \in Users |-> Defaults]
  /\ today = 1
  /\ call = [c \in Calls |-> Idle]
  /\ dirty = {} /\ clashed = {}
  /\ reported = [u \in Users |-> 0]
  /\ active = [u \in Users |-> {}]

-----------------------------------------------------------------------------
(* Helpers.                                                                *)

Go(c, new) == call' = [call EXCEPT ![c] = new]
Return(c) == Go(c, Idle)

\* The call c will overwrite the total of u with what it has read.
HoldsTotal(c, u) ==
  \/ call[c].user = u /\ call[c].pc \in {"save", "sum"}
  \/ call[c].user = u /\ call[c].pc = "write" /\ "total" \in call[c].cols
  \/ call[c].pc = "sums" /\ u \in has

\* The call c will save the row of u that it has read.
HoldsRow(c, u) == call[c].user = u /\ call[c].pc \in {"save", "write"}

Others(c) == Calls \ {c}

\* An event worth nothing is disabled.  (A mutant: the configuration is not
\* looked at.)
NeverDisabled == FALSE
Disabled == worth = 0

\* The call c begins to award points for ref: it has read the configuration.
\* Nothing is awarded when the event is disabled.
BeginAward(c, ref) ==
  /\ call[c].pc = "idle"
  /\ IF Disabled
     THEN UNCHANGED call
     ELSE Go(c, [Idle EXCEPT !.pc = "award", !.user = OwnerOf(ref),
                             !.ref = ref, !.worth = worth])
  /\ UNCHANGED <<worth, tables, today, history>>

-----------------------------------------------------------------------------
(* Sessions, and the calls that follow them.                               *)

\* A live recording is started, and is credited by its id.
StartLive(c, s) ==
  /\ session[s] = "none"
  /\ session' = [session EXCEPT ![s] = "live"]
  /\ BeginAward(c, <<s, "id">>)

\* A session is extracted afterwards, and is credited by its window.
Extract(c, s) ==
  /\ session[s] = "none"
  /\ session' = [session EXCEPT ![s] = "closed"]
  /\ BeginAward(c, <<s, "window">>)

Stop(s) ==
  /\ session[s] = "live"
  /\ session' = [session EXCEPT ![s] = "closed"]
  /\ UNCHANGED <<worth, tables, today, call, history>>

\* A poll of Mux finds the recording playable.
PolledReady(c, s) ==
  /\ session[s] \in {"closed", "ready"}
  /\ session' = [session EXCEPT ![s] = "ready"]
  /\ BeginAward(c, <<s, "window">>)

\* The session is shared, claimed, paid for or approved as a flick short.
Shared(c, s) ==
  /\ session[s] # "none"
  /\ BeginAward(c, <<s, "share">>)
  /\ UNCHANGED session

\* The Mux webhook reports the session complete, and reads the user's row on
\* a connection of its own.  An event that is delivered again after the
\* webhook's transaction has failed is reported again.
StatsRead(c, s) ==
  LET u == Owner[s]
  IN /\ call[c].pc = "idle"
     /\ session[s] \in {"closed", "ready"}
     /\ reported[u] + Cardinality({d \in Calls : call[d].pc \in {"save", "write"}
                                                 /\ call[d].day = 0})
          < MaxStats
     /\ session' = [session EXCEPT ![s] = "ready"]
     /\ Go(c, [Idle EXCEPT !.pc = "save", !.user = u,
                           !.ent = [row[u] EXCEPT !.sessions = @ + 1]])
     /\ UNCHANGED <<worth, tables, today, history>>

-----------------------------------------------------------------------------
(* An award: one transaction inserts the event and adds to the total.      *)

\* The event exists, or its insertion fails on the unique index.
AlreadyAwarded(c) ==
  /\ call[c].pc = "award"
  /\ call[c].ref \in credited
  /\ Go(c, IF call[c].back THEN [call[c] EXCEPT !.pc = "backfill"] ELSE Idle)
  /\ UNCHANGED <<session, worth, tables, today, history>>

\* The caller counts the streak when the award was for recording a session.
AfterAward(c) ==
  IF call[c].back THEN [call[c] EXCEPT !.pc = "backfill"]
  ELSE IF call[c].ref[2] = "share" THEN Idle
  ELSE [Idle EXCEPT !.pc = "streak", !.user = call[c].user]

AwardCommit(c) ==
  LET u == call[c].user
  IN /\ call[c].pc = "award"
     /\ call[c].ref \notin credited
     /\ credited' = credited \cup {call[c].ref}
     /\ earned' = [earned EXCEPT ![u] = @ + call[c].worth]
     /\ has' = has \cup {u}
     /\ row' = [row EXCEPT ![u].total = @ + call[c].worth]
     /\ dirty' = dirty \cup
          {v \in {u} : \E d \in Others(c) : HoldsTotal(d, v)}
     /\ Go(c, AfterAward(c))
     /\ UNCHANGED <<session, worth, today, clashed, reported, active>>

-----------------------------------------------------------------------------
(* The streak: read, decide, save.                                         *)

\* (A mutant: a gap of some days is not noticed.)
ActiveBefore(old) == old.last # 0
ActiveYesterday(old) == old.last # 0 /\ old.last = today - 1

StreakOf(old) ==
  IF ActiveYesterday(old)
  THEN [old EXCEPT !.streak = @ + 1,
                   !.longest = IF old.streak + 1 > @ THEN old.streak + 1 ELSE @,
                   !.last = today]
  ELSE [old EXCEPT !.streak = 1, !.last = today]

\* The award has just made a row, so the branch that creates one with a
\* longest streak of 1 is not taken here.
StreakRead(c) ==
  LET u == call[c].user
  IN /\ call[c].pc = "streak"
     /\ IF row[u].last = today
        THEN Return(c)
        ELSE Go(c, [call[c] EXCEPT !.pc = "save", !.ent = StreakOf(row[u]),
                                   !.day = today])
     /\ UNCHANGED <<session, worth, tables, today, history>>

-----------------------------------------------------------------------------
(* TypeORM's save of the entity.                                           *)

SaveCompare(c) ==
  LET u == call[c].user
  IN /\ call[c].pc = "save"
     /\ Go(c, [call[c] EXCEPT
                 !.pc = "write",
                 !.new = u \notin has,
                 !.cols = {f \in Columns : call[c].ent[f] # row[u][f]}])
     /\ UNCHANGED <<session, worth, tables, today, history>>

\* An INSERT fails when the row has been made meanwhile.
SaveRefused(c) ==
  /\ call[c].pc = "write"
  /\ call[c].new
  /\ call[c].user \in has
  /\ Return(c)
  /\ UNCHANGED <<session, worth, tables, today, history>>

\* Only the columns that differed are written.  (A mutant: the row becomes
\* the entity.)
WholeEntity(c) == call[c].ent
Written(c) ==
  [f \in Columns |-> IF f \in call[c].cols THEN call[c].ent[f]
                     ELSE row[call[c].user][f]]

SaveWrite(c) ==
  LET u == call[c].user
  IN /\ call[c].pc = "write"
     /\ ~(call[c].new /\ u \in has)
     /\ has' = has \cup {u}
     /\ row' = [row EXCEPT ![u] = Written(c)]
     /\ clashed' = clashed \cup
          {v \in {u} : \E d \in Others(c) : HoldsRow(d, v)}
     /\ IF call[c].day = 0
        THEN /\ reported' = [reported EXCEPT ![u] = @ + 1]
             /\ UNCHANGED active
        ELSE /\ active' = [active EXCEPT ![u] = @ \cup {call[c].day}]
             /\ UNCHANGED reported
     /\ Return(c)
     /\ UNCHANGED <<session, worth, credited, earned, today, dirty>>

-----------------------------------------------------------------------------
(* The cached total is made equal to the ledger.                           *)

\* A user looks at the points: the events are summed.
TotalsRead(c, u) ==
  /\ call[c].pc = "idle"
  /\ Go(c, [Idle EXCEPT !.pc = "sum", !.user = u,
                        !.sums = [NoSums EXCEPT ![u] = earned[u]]])
  /\ UNCHANGED <<session, worth, tables, today, history>>

\* The users whose totals agree again: nobody still holds an old one.
Healed(c, u) ==
  /\ call[c].sums[u] = earned[u]
  /\ \A d \in Others(c) : ~HoldsTotal(d, u)

Reconcile(c) ==
  LET u == call[c].user
  IN /\ call[c].pc = "sum"
     /\ has' = has \cup {u}
     /\ row' = [row EXCEPT ![u].total = call[c].sums[u]]
     /\ dirty' = dirty \ {v \in {u} : Healed(c, v)}
     /\ Return(c)
     /\ UNCHANGED <<session, worth, credited, earned, today, clashed,
                    reported, active>>

-----------------------------------------------------------------------------
(* The backfill of events for sessions, by an admin.                       *)

BackfillRef(s) == <<s, IF session[s] = "live" THEN "open" ELSE "window">>

BackfillList(c) ==
  /\ call[c].pc = "idle"
  /\ \E s \in Sessions : session[s] # "none"
  /\ Go(c, [Idle EXCEPT
              !.pc = "backfill", !.back = TRUE,
              !.todo = {BackfillRef(s) : s \in {t \in Sessions :
                                                  session[t] # "none"}}])
  /\ UNCHANGED <<session, worth, tables, today, history>>

\* The next session is skipped when it has been credited or events are
\* disabled, and is awarded as any other otherwise.
BackfillNext(c) ==
  /\ call[c].pc = "backfill"
  /\ \E ref \in call[c].todo :
       LET rest == [call[c] EXCEPT !.todo = @ \ {ref}]
       IN Go(c, IF ref \in credited \/ Disabled THEN rest
                ELSE [rest EXCEPT !.pc = "award", !.ref = ref,
                                  !.user = OwnerOf(ref), !.worth = worth])
  /\ UNCHANGED <<session, worth, tables, today, history>>

\* UPDATE ... FROM (SELECT SUM ...): the sums are of the statement's
\* snapshot, which may be old when the statement had to wait for a row.
BackfillSum(c) ==
  /\ call[c].pc = "backfill"
  /\ call[c].todo = {}
  /\ Go(c, [Idle EXCEPT !.pc = "sums", !.sums = earned])
  /\ UNCHANGED <<session, worth, tables, today, history>>

\* Users without an event are not in the sums.
BackfillFix(c) ==
  LET fixed == {u \in has : call[c].sums[u] # 0}
  IN /\ call[c].pc = "sums"
     /\ row' = [u \in Users |->
                  IF u \in fixed THEN [row[u] EXCEPT !.total = call[c].sums[u]]
                  ELSE row[u]]
     /\ dirty' = dirty \ {u \in fixed : Healed(c, u)}
     /\ Go(c, [Idle EXCEPT !.pc = "insert"])
     /\ UNCHANGED <<session, worth, credited, earned, has, today, clashed,
                    reported, active>>

BackfillInsert(c) ==
  LET missing == {u \in Users \ has : earned[u] # 0}
  IN /\ call[c].pc = "insert"
     /\ has' = has \cup missing
     /\ row' = [u \in Users |->
                  IF u \in missing THEN [Defaults EXCEPT !.total = earned[u]]
                  ELSE row[u]]
     /\ Return(c)
     /\ UNCHANGED <<session, worth, credited, earned, today, history>>

-----------------------------------------------------------------------------
(* Time, and the admin's edits.                                            *)

NextDay ==
  /\ today < MaxDay
  /\ today' = today + 1
  /\ UNCHANGED <<session, worth, tables, call, history>>

EditConfig ==
  /\ worth' \in 0 .. MaxWorth
  /\ worth' # worth
  /\ UNCHANGED <<session, tables, today, call, history>>

Next ==
  \/ NextDay
  \/ EditConfig
  \/ \E s \in Sessions : Stop(s)
  \/ \E c \in Calls :
       \/ \E s \in Sessions :
            \/ StartLive(c, s) \/ Extract(c, s) \/ PolledReady(c, s)
            \/ Shared(c, s) \/ StatsRead(c, s)
       \/ AlreadyAwarded(c) \/ AwardCommit(c) \/ StreakRead(c)
       \/ SaveCompare(c) \/ SaveRefused(c) \/ SaveWrite(c)
       \/ \E u \in Users : TotalsRead(c, u)
       \/ Reconcile(c)
       \/ BackfillList(c) \/ BackfillNext(c) \/ BackfillSum(c)
       \/ BackfillFix(c) \/ BackfillInsert(c)

Spec == Init /\ [][Next]_vars

-----------------------------------------------------------------------------
(* Properties.                                                             *)

\* The cached total of a user is the sum of the user's events, unless an
\* award has overlapped a call that was about to overwrite the total with
\* what it had read; a later reconciliation that nobody overlaps repairs it.
CacheAgrees == \A u \in Users \ dirty : row[u].total = earned[u]

\* The number of days without a gap up to the last active one.
RunOf(days, last) ==
  Cardinality({d \in days : \A e \in d .. last : e \in days})

\* While no two calls had the row of a user in hand at once, every report of
\* a session is counted, and the streak is the number of consecutive days up
\* to the last one on which a session was credited.
UndisturbedStats ==
  \A u \in Users \ clashed :
    /\ row[u].sessions = reported[u]
    /\ row[u].streak = RunOf(active[u], row[u].last)

\* What the code says of a session's key: one award per session.  A live
\* recording is credited by its id when it starts, and by its window when it
\* becomes playable.
OneAwardPerSession ==
  \A s \in Sessions :
    Cardinality({ref \in credited : ref[1] = s /\ ref[2] # "share"}) <= 1
=============================================================================
