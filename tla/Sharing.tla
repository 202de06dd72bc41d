------------------------------- MODULE Sharing -------------------------------
(***************************************************************************)
(* Who else sees a recording: its share token, the shares it is given by   *)
(* its owner, by a claim or by following a link, and the owner's mark as a *)
(* favourite.  The token and the mark are saved with the whole row as it   *)
(* was read; a share is looked for and then stored, with no constraint     *)
(* that would refuse a second one.  One recording.                         *)
(***************************************************************************)
EXTENDS Naturals, FiniteSets, Sequences

CONSTANTS
  Owner, Others,  \* users
  Calls,          \* slots for handlers in progress
  None,
  Tokens,         \* bound: tokens that can be drawn
  MaxVideo        \* bound: writes of single columns

VARIABLES
  row,     \* recordings: the row
  shares,  \* shared_recordings: how many rows each user has
  paid,    \* users with a completed payment for it
  call,
  given,   \* history: tokens that were given out
  (* history: two calls had the row in hand at once, or a column was        *)
  (* written meanwhile; users for whom two calls looked for a share at      *)
  (* once; writes of single columns                                         *)
  meddled, doubled, written

vars == <<row, shares, paid, call, given, meddled, doubled, written>>

Users == {Owner} \cup Others
Row == [token : Tokens \cup {None}, favourite : BOOLEAN, video : 0 .. MaxVideo]
NewRow == [token |-> None, favourite |-> FALSE, video |-> 0]

Call == [pc : {"idle", "link", "favourite", "stamp"},
         user : Users \cup {None},
         read : Row]
Idle == [pc |-> "idle", user |-> None, read |-> NewRow]

TypeOK ==
  /\ row \in Row
  /\ shares \in [Users -> 0 .. Cardinality(Calls)]
  /\ paid \subseteq Others
  /\ call \in [Calls -> Call]
  /\ \A c \in Calls : call[c].pc # "idle" => call[c].user # None
  /\ given \subseteq Tokens
  /\ meddled \in BOOLEAN /\ doubled \subseteq Users
  /\ written \in 0 .. MaxVideo

Init ==
  /\ row = NewRow
  /\ shares = [u \in Users |-> 0]
  /\ paid = {}
  /\ call = [c \in Calls |-> Idle]
  /\ given = {} /\ meddled = FALSE /\ doubled = {} /\ written = 0

-----------------------------------------------------------------------------
Go(c, new) == call' = [call EXCEPT ![c] = new]
HasRow(c) == call[c].pc \in {"link", "favourite"}

Read(c, u, pc) ==
  /\ call[c].pc = "idle"
  /\ Go(c, [pc |-> pc, user |-> u, read |-> row])
  /\ UNCHANGED <<row, shares, paid, meddled, doubled, written>>

\* The row is saved as it was read, changed.
Save(c, new) ==
  /\ row' = new
  /\ meddled' = (meddled \/ \E d \in Calls \ {c} : HasRow(d))
  /\ Go(c, Idle)
  /\ UNCHANGED <<shares, paid, doubled, written>>

\* generateShareLink: for the owner, or whoever has paid.  A token is drawn
\* once.  (A mutant: each time.)
MayShare(u) == u = Owner \/ u \in paid
NoToken(r) == TRUE
NeedsToken(r) == r.token = None

ShareLink(c, u) ==
  /\ MayShare(u)
  /\ NeedsToken(row)
  /\ Read(c, u, "link")
  /\ UNCHANGED given

ShareLinkAgain(u) ==
  /\ MayShare(u)
  /\ ~NeedsToken(row)
  /\ given' = given \cup {row.token}
  /\ UNCHANGED <<row, shares, paid, call, meddled, doubled, written>>

SaveToken(c) ==
  /\ call[c].pc = "link"
  /\ \E t \in Tokens \ given :
       /\ t # row.token
       /\ Save(c, [call[c].read EXCEPT !.token = t])
       /\ given' = given \cup {t}

Favourite(c) == Read(c, Owner, "favourite") /\ UNCHANGED given

SaveFavourite(c) ==
  /\ call[c].pc = "favourite"
  /\ Save(c, [call[c].read EXCEPT !.favourite = ~@])
  /\ UNCHANGED given

\* A column is written by itself.
WriteColumn ==
  /\ written < MaxVideo
  /\ written' = written + 1
  /\ row' = [row EXCEPT !.video = written + 1]
  /\ meddled' = (meddled \/ \E c \in Calls : HasRow(c))
  /\ UNCHANGED <<shares, paid, call, given, doubled>>

\* Extraction writes the columns of the video; the owner gives the recording
\* another name (updateRecordingName).
Extracted == WriteColumn
Rename(u) == u = Owner /\ WriteColumn

Pay(u) ==
  /\ u \notin paid
  /\ paid' = paid \cup {u}
  /\ UNCHANGED <<row, shares, call, given, meddled, doubled, written>>

-----------------------------------------------------------------------------
(* Shares.                                                                 *)

\* A share of the user is looked for.  (A mutant: it is not.)
Whatever(u) == TRUE
NoShare(u) == shares[u] = 0

Stamp(c, u) ==
  /\ call[c].pc = "idle"
  /\ NoShare(u)
  /\ Go(c, [Idle EXCEPT !.pc = "stamp", !.user = u])
  /\ doubled' = IF \E d \in Calls : call[d].pc = "stamp" /\ call[d].user = u
                THEN doubled \cup {u} ELSE doubled
  /\ UNCHANGED <<row, shares, paid, given, meddled, written>>

\* createSharedRecording: the owner shares it with another user, unless that has
\* been done.  claimRecording and findAndClaimRecording: whoever played gets it.
CreateShare(c, u) == u # Owner /\ Stamp(c, u)
Claim(c, u) == u # Owner /\ Stamp(c, u)

\* resolveShareToken: who is signed in gets a share, unless it is the owner, and
\* everyone gets what the link shows.
FollowLink(c, u) == row.token \in given /\ u # Owner /\ Stamp(c, u)

\* getMediaByShareToken and getOrCreateSharedRecording do not.
OpenLink(c, u) == row.token \in given /\ Stamp(c, u)
Open(c, u) == Stamp(c, u)

InsertShare(c) ==
  /\ call[c].pc = "stamp"
  /\ shares' = [shares EXCEPT ![call[c].user] = @ + 1]
  /\ Go(c, Idle)
  /\ UNCHANGED <<row, paid, given, meddled, doubled, written>>

\* getSharedRecordings and getRecordingsSharedByMe: a line for each share of the
\* user, and one for each share of the user's recording, with the recording as
\* it is now.
Line(u) == [with |-> u, owner |-> Owner, video |-> row.video]
SharedWithMe(u) == [n \in 1 .. shares[u] |-> Line(u)]
SharedByMe(me) ==
  IF me = Owner
  THEN {<<x[1], Line(x[2])>> :
          x \in {y \in (1 .. Cardinality(Calls)) \X Users : y[1] <= shares[y[2]]}}
  ELSE {}

Next ==
  \/ Extracted
  \/ \E u \in Users : ShareLinkAgain(u) \/ Rename(u)
  \/ \E u \in Others : Pay(u)
  \/ \E c \in Calls :
       \/ SaveToken(c) \/ Favourite(c) \/ SaveFavourite(c) \/ InsertShare(c)
       \/ \E u \in Users :
            \/ ShareLink(c, u)
            \/ CreateShare(c, u) \/ Claim(c, u)
            \/ FollowLink(c, u) \/ OpenLink(c, u) \/ Open(c, u)

-----------------------------------------------------------------------------
(* Properties.                                                             *)

\* Unless the row was written between a handler's read and its save, every
\* link that was given out still opens the recording, and nothing extraction
\* or a new name has written is lost.
RowKept == ~meddled => given \subseteq {row.token} /\ row.video = written

\* The recording is in a user's list once, and the user in the owner's list
\* once, unless two of the user's requests looked for the share at the same
\* time.
SharedOnce ==
  \A u \in Users \ doubled :
    /\ Len(SharedWithMe(u)) <= 1
    /\ \A x, y \in SharedByMe(Owner) : x[2].with = u /\ y[2].with = u => x = y

\* What they rest on: a handler that has the row in hand has it as it is, and for
\* each user one call at most is about to store the first share.
RowInHand ==
  ~meddled => \A c \in Calls :
    /\ HasRow(c) => call[c].read = row
    /\ call[c].pc = "link" => row.token = None

OneStamp ==
  \A u \in Users \ doubled :
    /\ shares[u] <= 1
    /\ \A c \in Calls : call[c].pc = "stamp" /\ call[c].user = u =>
         /\ shares[u] = 0
         /\ \A d \in Calls : call[d].pc = "stamp" /\ call[d].user = u => d = c
=============================================================================
