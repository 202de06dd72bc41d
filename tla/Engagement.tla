----------------------------- MODULE Engagement -----------------------------
(***************************************************************************)
(* Likes and saves of one highlight: toggleLike and toggleSave keep a row  *)
(* per user, which exists only while the user likes or saves it, and       *)
(* likes_count beside it.  A transaction locks nothing when it reads: its  *)
(* read and its commit are two steps.                                      *)
(***************************************************************************)
EXTENDS Integers, FiniteSets

CONSTANTS
  Users, Calls, None,
  MaxLikes    \* bound: likes_count, which an overlap can drive past the users

VARIABLES
  alive,     \* the highlight exists
  likedBy,   \* users whose row says liked
  savedBy,   \* users whose row says saved
  likes,     \* likes_count
  call,
  raced      \* history: users of whom two toggles overlapped

vars == <<alive, likedBy, savedBy, likes, call, raced>>

Call == [pc : {"idle", "write"}, kind : {"like", "save"},
         user : Users \cup {None}, liked : BOOLEAN, saved : BOOLEAN,
         likes : 0 .. MaxLikes]

Idle == [pc |-> "idle", kind |-> "like", user |-> None, liked |-> FALSE,
         saved |-> FALSE, likes |-> 0]

TypeOK ==
  /\ alive \in BOOLEAN
  /\ likedBy \subseteq Users /\ savedBy \subseteq Users /\ raced \subseteq Users
  /\ likes \in 0 .. MaxLikes
  /\ call \in [Calls -> Call]
  /\ \A c \in Calls : call[c].pc = "idle" <=> call[c].user = None
  /\ ~alive => likedBy = {} /\ savedBy = {}

Init ==
  /\ alive = TRUE
  /\ likedBy = {} /\ savedBy = {} /\ likes = 0 /\ raced = {}
  /\ call = [c \in Calls |-> Idle]

-----------------------------------------------------------------------------
Go(c, new) == call' = [call EXCEPT ![c] = new]
HasRow(u) == u \in likedBy \cup savedBy

\* ensureHighlightExists, and the read of the user's row.
Read(c, u, kind) ==
  /\ call[c].pc = "idle"
  /\ alive
  /\ Go(c, [pc |-> "write", kind |-> kind, user |-> u,
            liked |-> u \in likedBy, saved |-> u \in savedBy, likes |-> likes])
  /\ raced' = IF \E d \in Calls \ {c} : call[d].user = u
              THEN raced \cup {u} ELSE raced
  /\ UNCHANGED <<alive, likedBy, savedBy, likes>>

Put(set, u, in) == IF in THEN set \cup {u} ELSE set \ {u}

\* likes_count is changed where it is, and not below zero.  (A mutant: it is
\* computed from what was read.)
Larger(n) == IF n < 0 THEN 0 ELSE n
FromRead(delta, seen) == Larger(seen + delta)
Counted(delta, seen) == Larger(likes + delta)

Settled(k) == [liked |-> IF k.kind = "like" THEN ~k.liked ELSE k.liked,
               saved |-> IF k.kind = "save" THEN ~k.saved ELSE k.saved]

\* The row is inserted, saved as a whole, or removed when nothing is left of
\* it.  Two first rows of one user conflict, and the second rolls back.
Write(c) ==
  LET k == call[c]
      new == Settled(k)
      delta == IF k.kind = "save" THEN 0 ELSE IF new.liked THEN 1 ELSE -1
      first == ~k.liked /\ ~k.saved
  IN /\ k.pc = "write"
     /\ alive
     /\ ~(first /\ HasRow(k.user))
     /\ Counted(delta, k.likes) <= MaxLikes
     /\ likedBy' = Put(likedBy, k.user, new.liked)
     /\ savedBy' = Put(savedBy, k.user, new.saved)
     /\ likes' = Counted(delta, k.likes)
     /\ Go(c, Idle)
     /\ UNCHANGED <<alive, raced>>

\* A conflict, a highlight deleted meanwhile, or the database: all is undone.
Rollback(c) ==
  /\ call[c].pc = "write"
  /\ Go(c, Idle)
  /\ UNCHANGED <<alive, likedBy, savedBy, likes, raced>>

\* The rows go with their highlight.
Delete ==
  /\ alive
  /\ alive' = FALSE
  /\ likedBy' = {} /\ savedBy' = {} /\ likes' = 0
  /\ UNCHANGED <<call, raced>>

Next ==
  \/ Delete
  \/ \E c \in Calls :
       \/ Write(c) \/ Rollback(c)
       \/ \E u \in Users, kind \in {"like", "save"} : Read(c, u, kind)

-----------------------------------------------------------------------------
\* likes_count is the number of users whose row says they like the highlight,
\* whatever other users do at the same time, as long as no user's own toggles
\* overlap.
LikesAgree == raced = {} => likes = Cardinality(likedBy)

\* What makes them so: as long as no user's toggles overlap, a user has one
\* toggle at most, and the row it read is the row there is.
RowsRead ==
  raced = {} =>
    /\ \A c, d \in Calls : /\ call[c].pc = "write" /\ call[d].pc = "write"
                            /\ call[c].user = call[d].user
                            => c = d
    /\ alive => \A c \in Calls : call[c].pc = "write" =>
                  /\ call[c].liked <=> call[c].user \in likedBy
                  /\ call[c].saved <=> call[c].user \in savedBy
=============================================================================
