----------------------------- MODULE FlickShorts -----------------------------
(***************************************************************************)
(* Short clips of the public feed: a highlight is submitted by a user who  *)
(* has access to its recording, an admin approves it, withdraws it or      *)
(* deletes what is not approved, and the public likes, views and comments  *)
(* it.  Every handler reads the row, changes it in memory and saves all of *)
(* it; a save puts a row back that was deleted meanwhile.                  *)
(*                                                                         *)
(* One highlight and the shorts made of it are followed.                   *)
(***************************************************************************)
EXTENDS Naturals, FiniteSets

CONSTANTS
  Shorts,   \* bound: identifiers of rows
  Users, Calls, None,
  Max       \* bound: views, and comments, of a short

VARIABLES
  row,        \* flick_shorts: each short's row, or None
  access,     \* users with access to the recording, which is playable
  call,
  used,       \* identifiers that have been given
  crowded,    \* history: two submissions were under way at once
  meddled     \* history: shorts that another call saved between a read and its save

vars == <<row, access, call, used, crowded, meddled>>

Row == [approved : BOOLEAN, likedBy : SUBSET Users, views : 0 .. Max,
        comments : 0 .. Max]
Call == [pc : {"idle", "insert", "save", "remove"},
         short : Shorts \cup {None}, row : Row]

NewRow == [approved |-> FALSE, likedBy |-> {}, views |-> 0, comments |-> 0]
Idle == [pc |-> "idle", short |-> None, row |-> NewRow]
Rows == {s \in Shorts : row[s] # None}

TypeOK ==
  /\ row \in [Shorts -> Row \cup {None}]
  /\ access \subseteq Users
  /\ call \in [Calls -> Call]
  /\ \A c \in Calls : call[c].pc \in {"save", "remove"} <=> call[c].short # None
  /\ Rows \subseteq used /\ used \subseteq Shorts
  /\ crowded \in BOOLEAN /\ meddled \subseteq Shorts

Init ==
  /\ row = [s \in Shorts |-> None]
  /\ access \in SUBSET Users
  /\ call = [c \in Calls |-> Idle]
  /\ used = {} /\ crowded = FALSE /\ meddled = {}

-----------------------------------------------------------------------------
Go(c, new) == call' = [call EXCEPT ![c] = new]
Others(c) == {d \in Calls \ {c} : call[d].pc # "idle"}

\* createFromHighlight: a highlight is submitted once.  (A mutant: until it is
\* approved.)
AnyApproved == \E s \in Rows : row[s].approved
Submitted == Rows # {}

Submit(c, u) ==
  /\ call[c].pc = "idle"
  /\ ~Submitted
  /\ u \in access
  /\ Go(c, [Idle EXCEPT !.pc = "insert"])
  /\ crowded' = (crowded \/ \E d \in Others(c) : call[d].pc = "insert")
  /\ UNCHANGED <<row, access, used, meddled>>

\* The index on the highlight is not unique: the insert conflicts with nothing.
Insert(c) ==
  /\ call[c].pc = "insert"
  /\ \E s \in Shorts \ used :
       /\ row' = [row EXCEPT ![s] = NewRow]
       /\ used' = used \cup {s}
  /\ Go(c, Idle)
  /\ UNCHANGED <<access, crowded, meddled>>

\* What a handler read, as it will save it.
Keep(c, s, new) == Go(c, [pc |-> "save", short |-> s, row |-> new])

SetApproved(c, s, approved) ==
  /\ call[c].pc = "idle" /\ row[s] # None
  /\ Keep(c, s, [row[s] EXCEPT !.approved = approved])
  /\ UNCHANGED <<row, access, used, crowded, meddled>>

\* The public sees what is approved.
Public(s) == row[s] # None /\ row[s].approved

AddLike(c, s, u) ==
  /\ call[c].pc = "idle" /\ Public(s)
  /\ LET by == row[s].likedBy
     IN  Keep(c, s, [row[s] EXCEPT
                       !.likedBy = IF u \in by THEN by \ {u} ELSE by \cup {u}])
  /\ UNCHANGED <<row, access, used, crowded, meddled>>

AddView(c, s) ==
  /\ call[c].pc = "idle" /\ Public(s)
  /\ row[s].views < Max
  /\ Keep(c, s, [row[s] EXCEPT !.views = @ + 1])
  /\ UNCHANGED <<row, access, used, crowded, meddled>>

AddComment(c, s) ==
  /\ call[c].pc = "idle" /\ Public(s)
  /\ row[s].comments < Max
  /\ Keep(c, s, [row[s] EXCEPT !.comments = @ + 1])
  /\ UNCHANGED <<row, access, used, crowded, meddled>>

\* The calls that hold an older row of s.
Holders(c, s) == {d \in Others(c) : call[d].short = s}

Save(c) ==
  LET s == call[c].short
  IN /\ call[c].pc = "save"
     /\ row' = [row EXCEPT ![s] = call[c].row]
     /\ meddled' = IF Holders(c, s) # {} THEN meddled \cup {s} ELSE meddled
     /\ Go(c, Idle)
     /\ UNCHANGED <<access, used, crowded>>

\* deleteAsAdmin: an approved short is not deleted.
Deletable(s) == row[s] # None /\ ~row[s].approved

Delete(c, s) ==
  /\ call[c].pc = "idle" /\ Deletable(s)
  /\ Go(c, [pc |-> "remove", short |-> s, row |-> row[s]])
  /\ UNCHANGED <<row, access, used, crowded, meddled>>

Remove(c) ==
  LET s == call[c].short
  IN /\ call[c].pc = "remove"
     /\ row' = [row EXCEPT ![s] = None]
     /\ meddled' = IF Holders(c, s) # {} THEN meddled \cup {s} ELSE meddled
     /\ Go(c, Idle)
     /\ UNCHANGED <<access, used, crowded>>

\* The database fails, or the server restarts.
Fail(c) ==
  /\ call[c].pc # "idle"
  /\ Go(c, Idle)
  /\ UNCHANGED <<row, access, used, crowded, meddled>>

CallStep(c) ==
  \/ Insert(c) \/ Save(c) \/ Remove(c) \/ Fail(c)
  \/ \E u \in Users : Submit(c, u)
  \/ \E s \in Shorts :
       \/ AddView(c, s) \/ AddComment(c, s) \/ Delete(c, s)
       \/ \E u \in Users : AddLike(c, s, u)
       \/ \E approved \in BOOLEAN : SetApproved(c, s, approved)

\* After two calls have disturbed each other nothing is promised, and the
\* highlight is followed no further (a bound).
Next == ~crowded /\ meddled = {} /\ \E c \in Calls : CallStep(c)

-----------------------------------------------------------------------------
\* A highlight has one short: a second one is made only by a submission that
\* overlapped another, or by a save that put back a row deleted meanwhile.
OneShort == ~crowded /\ meddled = {} => Cardinality(Rows) <= 1

\* What makes it one: unless two calls disturbed each other, an insert is the
\* only one and there is no short, and who holds a row holds one that is there.
Alone ==
  ~crowded /\ meddled = {} =>
    /\ \A c, d \in Calls : call[c].pc = "insert" /\ call[d].pc = "insert" => c = d
    /\ \A c \in Calls : call[c].pc = "insert" => Rows = {}
    /\ \A c \in Calls : call[c].pc \in {"save", "remove"} => call[c].short \in Rows
    /\ \A s, t \in Rows : s = t
=============================================================================
