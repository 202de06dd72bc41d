-------------------------- MODULE NotificationList --------------------------
(***************************************************************************)
(* The list of one player's notifications, paged through while rows come   *)
(* (Notifications), are read and are deleted.  It is ordered by created_at,*)
(* which Postgres takes from the beginning of the transaction: a row that  *)
(* is committed late comes in below others.                                *)
(***************************************************************************)
EXTENDS Naturals, FiniteSets

CONSTANTS
  MaxRows,   \* bound: rows
  Limit,     \* rows on a page
  Types      \* notification_type

VARIABLES
  clock,     \* the last created_at
  coming,    \* rows of transactions that have not committed
  rows,      \* by created_at: their type, whether read and whether deleted
  screen     \* the pages the app has asked for, and what they showed

vars == <<clock, coming, rows, screen>>

Stamps == 1 .. MaxRows
Filters == {"all", "unread"} \cup Types
Closed == [page |-> 0, filter |-> "all", there |-> {}, seen |-> {},
           went |-> FALSE, ended |-> FALSE]

TypeOK ==
  /\ clock \in 0 .. MaxRows /\ coming \subseteq Stamps
  /\ DOMAIN rows \subseteq Stamps
  /\ \A s \in DOMAIN rows :
       rows[s] \in [type : Types, read : BOOLEAN, gone : BOOLEAN]
  /\ screen \in [page : 0 .. MaxRows + 1, filter : Filters, there : SUBSET Stamps,
                 seen : SUBSET Stamps, went : BOOLEAN, ended : BOOLEAN]

Init ==
  /\ clock = 0 /\ coming = {} /\ rows = [s \in {} |-> 0]
  /\ screen = Closed

-----------------------------------------------------------------------------
\* What is counted as unread is what reading all would mark.
Visible == {s \in DOMAIN rows : ~rows[s].gone}
Unread == {s \in Visible : ~rows[s].read}
Matching(filter) ==
  CASE filter = "all" -> Visible
    [] filter = "unread" -> Unread
    [] OTHER -> {s \in Visible : rows[s].type = filter}

\* A transaction begins that will save a row.
Begin ==
  /\ clock < MaxRows
  /\ clock' = clock + 1 /\ coming' = coming \cup {clock + 1}
  /\ UNCHANGED <<rows, screen>>
Abort(s) ==
  /\ s \in coming /\ coming' = coming \ {s}
  /\ UNCHANGED <<clock, rows, screen>>
Commit(s, type) ==
  /\ s \in coming /\ coming' = coming \ {s}
  /\ rows' = [t \in DOMAIN rows \cup {s} |->
                IF t = s THEN [type |-> type, read |-> FALSE, gone |-> FALSE] ELSE rows[t]]
  /\ UNCHANGED <<clock, screen>>

-----------------------------------------------------------------------------
\* What an update takes off the pages that are still to be read.
Changed(new, lost) ==
  /\ rows' = new
  /\ screen' = [screen EXCEPT !.went = screen.page # 0 /\ (@ \/ lost)]
  /\ UNCHANGED <<clock, coming>>

\* Reading one marks it; reading all marks whatever is there by then; whoever
\* knows its id deletes one.
Open(s) ==
  s \in Visible /\ Changed([rows EXCEPT ![s].read = TRUE], screen.filter = "unread")
ReadAll ==
  /\ Unread # {}
  /\ Changed([s \in DOMAIN rows |-> [rows[s] EXCEPT !.read = @ \/ s \in Unread]],
             screen.filter = "unread")
SoftDelete(s) == s \in Visible /\ Changed([rows EXCEPT ![s].gone = TRUE], TRUE)

\* The newest first, past those of the pages before it.
Skip(n) == (n - 1) * Limit
Newer(s, all) == Cardinality({t \in all : t > s})
Page(n, filter) ==
  LET all == Matching(filter)
  IN {s \in all : Newer(s, all) >= Skip(n) /\ Newer(s, all) < Skip(n) + Limit}

FirstPage(filter) ==
  /\ screen.page = 0
  /\ screen' = [Closed EXCEPT !.page = 1, !.filter = filter, !.there = Matching(filter),
                  !.seen = Page(1, filter), !.ended = Cardinality(Page(1, filter)) < Limit]
  /\ UNCHANGED <<clock, coming, rows>>
NextPage ==
  LET page == Page(screen.page + 1, screen.filter)
  IN /\ screen.page # 0 /\ ~screen.ended
     /\ screen' = [screen EXCEPT !.page = @ + 1, !.seen = @ \cup page,
                     !.ended = Cardinality(page) < Limit]
     /\ UNCHANGED <<clock, coming, rows>>
CloseList ==
  /\ screen.page # 0 /\ screen' = Closed
  /\ UNCHANGED <<clock, coming, rows>>

Next ==
  \/ Begin \/ ReadAll \/ NextPage \/ CloseList
  \/ \E s \in Stamps :
       Abort(s) \/ Open(s) \/ SoftDelete(s) \/ \E t \in Types : Commit(s, t)
  \/ \E f \in Filters : FirstPage(f)

-----------------------------------------------------------------------------
\* Pages read one after the other miss no row that was there at the first and
\* has not been deleted or read since, whatever came in between.
PagesWhole == screen.ended /\ ~screen.went => screen.there \subseteq screen.seen

\* What a page has left out is on those that are still to be read.
StillToCome ==
  screen.page # 0 /\ ~screen.went =>
    \A s \in screen.there \ screen.seen :
      /\ s \in Matching(screen.filter)
      /\ Newer(s, Matching(screen.filter)) >= Skip(screen.page + 1)

\* What comes in is new.
ComesOnce == /\ coming \subseteq 1 .. clock /\ DOMAIN rows \subseteq 1 .. clock
             /\ coming \cap DOMAIN rows = {}
=============================================================================
