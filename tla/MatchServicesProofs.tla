------------------------ MODULE MatchServicesProofs -------------------------
(***************************************************************************)
(* The services of a match once recorded, proved for every number of calls,*)
(* users, highlights, links and rows: its shorts, its likes, the claims on *)
(* it, and the highlights attached to it and healed.  As in                *)
(* CourtServicesProofs, each theorem is about one service's Init and Next, *)
(* and the invariants stand in the services' modules.                      *)
(***************************************************************************)
EXTENDS MCServices, FiniteSetTheorems, WellFoundedInduction, TLAPS

LEMMA NotLess ==
  ASSUME NEW j \in Nat, NEW k \in Nat, ~(j < k)
  PROVE  k <= j
OBVIOUS

\* A set of naturals that has a bound has a greatest member, and any has a least.
LEMMA Greatest ==
  ASSUME NEW bound \in Nat, NEW set \in SUBSET (1 .. bound), set # {}
  PROVE  \E n \in set : \A m \in set : m <= n
<1> DEFINE above == {k \in Nat : \E n \in set : k = bound - n}
<1>1. above \in SUBSET Nat /\ above # {}
  <2> PICK n \in set : TRUE
    OBVIOUS
  <2>1. n \in Nat /\ n <= bound
    OBVIOUS
  <2>2. bound - n \in Nat
    BY <2>1
  <2> QED BY <2>2
<1> HIDE DEF above
<1>2. \E k \in above : \A j \in above : k <= j
  <2> PICK k \in above : \A j \in above : ~(<<j, k>> \in OpToRel(<, Nat))
    BY <1>1, NatLessThanWellFounded, WFMin
  <2>1. ASSUME NEW j \in above PROVE k <= j
    <3>1. j \in Nat /\ k \in Nat
      BY <1>1
    <3>2. ~(j < k)
      BY <3>1 DEF OpToRel
    <3> QED BY <3>1, <3>2, NotLess, Zenon
  <2> QED BY <2>1
<1> PICK k \in above : \A j \in above : k <= j
  BY <1>2
<1> PICK n \in set : k = bound - n
  BY DEF above
<1>3. ASSUME NEW m \in set PROVE m <= n
  <2>1. m \in Nat /\ n \in Nat /\ m <= bound
    OBVIOUS
  <2>2. bound - m \in above
    BY <2>1 DEF above
  <2>3. k <= bound - m
    BY <2>2
  <2> QED BY <2>1, <2>3
<1> QED BY <1>3

LEMMA Least ==
  ASSUME NEW set \in SUBSET Nat, set # {}
  PROVE  \E n \in set : \A m \in set : n <= m
<1> PICK n \in set : \A m \in set : ~(<<m, n>> \in OpToRel(<, Nat))
  BY NatLessThanWellFounded, WFMin
<1>1. ASSUME NEW m \in set PROVE n <= m
  <2>1. m \in Nat /\ n \in Nat
    OBVIOUS
  <2>2. ~(m < n)
    BY <2>1 DEF OpToRel
  <2> QED BY <2>1, <2>2, NotLess, Zenon
<1> QED BY <1>1

\* A set whose members are all one has one at most.
LEMMA AtMostOne ==
  ASSUME NEW members, \A s, t \in members : s = t
  PROVE  Cardinality(members) <= 1
<1>1. CASE members = {}
  <2>1. Cardinality(members) = 0
    BY <1>1, FS_EmptySet
  <2> QED BY <2>1
<1>2. CASE members # {}
  <2> PICK s \in members : TRUE
    BY <1>2
  <2>1. members = {s}
    OBVIOUS
  <2>2. Cardinality(members) = 1
    BY <2>1, FS_Singleton
  <2> QED BY <2>2
<1> QED BY <1>1, <1>2

-----------------------------------------------------------------------------
(* The shorts of a highlight: row, access, call, used, crowded and meddled *)
(* are v1 to v6.                                                           *)

ShortsTyped ==
  /\ v1 \in [Cuts -> F!Row \cup {None}]
  /\ v3 \in [CallsOf -> F!Call]
  /\ v4 \subseteq Cuts /\ v6 \subseteq Cuts
  /\ \A c \in CallsOf : v3[c].pc \in {"save", "remove"} => v3[c].short \in Cuts
  /\ F!Rows \subseteq v4

ShortsInv == ShortsTyped /\ F!Alone

LEMMA IdleCall == F!Idle \in F!Call /\ F!Idle.pc = "idle" /\ F!NewRow \in F!Row
BY ServicesAssumption DEF F!Call, F!Idle, F!NewRow, F!Row

LEMMA ShortsBegin == F!Init => ShortsInv
<1> USE IdleCall
<1> SUFFICES ASSUME F!Init PROVE ShortsInv
  OBVIOUS
<1>1. F!Rows = {} /\ \A c \in CallsOf : v3[c].pc = "idle"
  BY DEF F!Init, F!Rows
<1>2. ShortsTyped
  BY <1>1 DEF F!Init, ShortsTyped
<1>3. F!Alone
  BY <1>1 DEF F!Alone
<1> QED BY <1>2, <1>3 DEF ShortsInv

\* A call that does nothing, or that will save or remove a row it has just read.
LEMMA ShortsRead ==
  ASSUME ShortsInv, NEW c \in CallsOf, NEW new \in F!Call, F!Go(c, new),
         new.pc \in {"save", "remove"} => new.short \in F!Rows,
         new.pc # "insert", UNCHANGED <<v1, v2, v4, v5, v6>>
  PROVE  ShortsInv'
<1>1. /\ v3' \in [CallsOf -> F!Call] /\ v3'[c] = new
      /\ \A d \in CallsOf \ {c} : v3'[d] = v3[d]
  BY DEF ShortsInv, ShortsTyped, F!Go
<1>2. F!Rows' = F!Rows /\ F!Rows \subseteq Cuts
  BY DEF F!Rows
<1>3. ShortsTyped'
  BY <1>1, <1>2 DEF ShortsInv, ShortsTyped
<1>4. F!Alone'
  BY <1>1, <1>2 DEF ShortsInv, F!Alone
<1> QED BY <1>3, <1>4 DEF ShortsInv

LEMMA ShortsSubmit ==
  ASSUME ShortsInv, NEW c \in CallsOf, NEW u \in UsersOf, F!Submit(c, u)
  PROVE  ShortsInv'
<1> DEFINE new == [F!Idle EXCEPT !.pc = "insert"]
<1>1. new \in F!Call /\ new.pc = "insert"
  BY IdleCall DEF F!Call, F!Idle
<1>2. F!Go(c, new) /\ F!Rows = {} /\ UNCHANGED <<v1, v2, v4, v6>>
      /\ v5' = (v5 \/ \E d \in F!Others(c) : v3[d].pc = "insert")
  BY DEF F!Submit, F!Submitted
<1> HIDE DEF new
<1>3. /\ v3' \in [CallsOf -> F!Call] /\ v3'[c] = new
      /\ \A d \in CallsOf \ {c} : v3'[d] = v3[d]
  BY <1>1, <1>2 DEF ShortsInv, ShortsTyped, F!Go
<1>4. F!Rows' = {}
  BY <1>2 DEF F!Rows
<1>5. ShortsTyped'
  BY <1>1, <1>2, <1>3, <1>4 DEF ShortsInv, ShortsTyped
<1>6. ASSUME ~v5' PROVE ~v5 /\ \A d \in CallsOf \ {c} : v3[d].pc # "insert"
  BY <1>2, <1>6 DEF F!Others
<1>7. F!Alone'
  BY <1>1, <1>2, <1>3, <1>4, <1>6 DEF ShortsInv, F!Alone
<1> QED BY <1>5, <1>7 DEF ShortsInv

LEMMA ShortsInsert ==
  ASSUME ShortsInv, NEW c \in CallsOf, F!Insert(c)
  PROVE  ShortsInv'
<1> USE IdleCall
<1>1. /\ v3' \in [CallsOf -> F!Call] /\ v3'[c] = F!Idle
      /\ \A d \in CallsOf \ {c} : v3'[d] = v3[d]
  BY DEF ShortsInv, ShortsTyped, F!Go, F!Insert
<1> PICK s \in Cuts \ v4 : v1' = [v1 EXCEPT ![s] = F!NewRow] /\ v4' = v4 \cup {s}
  BY DEF F!Insert
<1>2. F!Rows' \subseteq F!Rows \cup {s} /\ F!Rows \subseteq F!Rows' \cup {s}
  BY DEF F!Rows, ShortsInv, ShortsTyped
<1>3. ShortsTyped'
  BY <1>1, <1>2 DEF ShortsInv, ShortsTyped, F!Insert
<1>4. ASSUME ~v5, v6 = {}
      PROVE  /\ F!Rows = {}
             /\ \A d \in CallsOf \ {c} : v3[d].pc \notin {"insert", "save", "remove"}
  BY <1>4 DEF ShortsInv, F!Alone, F!Insert
<1>5. F!Alone'
  BY <1>1, <1>2, <1>4 DEF F!Alone, F!Insert
<1> QED BY <1>3, <1>5 DEF ShortsInv

\* Saving or removing the row of s, which leaves no other call with a row of it.
LEMMA ShortsPut ==
  ASSUME ShortsInv, NEW c \in CallsOf, v3[c].pc \in {"save", "remove"},
         NEW r \in F!Row \cup {None},
         v1' = [v1 EXCEPT ![v3[c].short] = r], F!Go(c, F!Idle),
         v6' = IF F!Holders(c, v3[c].short) # {} THEN v6 \cup {v3[c].short} ELSE v6,
         UNCHANGED <<v2, v4, v5>>, v3[c].short \in v4
  PROVE  ShortsInv'
<1> USE IdleCall
<1> PICK s \in Cuts : s = v3[c].short
  BY DEF ShortsInv, ShortsTyped
<1>1. /\ v3' \in [CallsOf -> F!Call] /\ v3'[c] = F!Idle
      /\ \A d \in CallsOf \ {c} : v3'[d] = v3[d]
  BY DEF ShortsInv, ShortsTyped, F!Go
<1>2. F!Rows' \subseteq F!Rows \cup {s} /\ F!Rows \subseteq F!Rows' \cup {s}
  BY DEF F!Rows, ShortsInv, ShortsTyped
<1>3. ShortsTyped'
  BY <1>1, <1>2 DEF ShortsInv, ShortsTyped
<1>4. ASSUME ~v5, v6' = {}
      PROVE  /\ v6 = {} /\ s \in F!Rows
             /\ \A d \in CallsOf \ {c} : v3[d].pc \in {"save", "remove"} => v3[d].short # s
  <2>1. v6 = {} /\ F!Holders(c, s) = {}
    BY <1>4
  <2> QED BY <1>4, <2>1 DEF F!Holders, F!Others, ShortsInv, F!Alone
<1>5. F!Alone'
  BY <1>1, <1>2, <1>4 DEF ShortsInv, F!Alone
<1> QED BY <1>3, <1>5 DEF ShortsInv

\* A handler that reads the row of s, and what it will save of it.
LEMMA ShortsKeep ==
  ASSUME ShortsInv, NEW c \in CallsOf, NEW s \in Cuts, v1[s] # None,
         NEW r \in F!Row, F!Keep(c, s, r), UNCHANGED <<v1, v2, v4, v5, v6>>
  PROVE  ShortsInv'
<1> DEFINE new == [pc |-> "save", short |-> s, row |-> r]
<1>1. new \in F!Call /\ new.pc = "save" /\ new.short \in F!Rows
  BY DEF F!Call, F!Rows
<1>2. F!Go(c, new)
  BY DEF F!Keep
<1> HIDE DEF new
<1> QED BY <1>1, <1>2, ShortsRead

\* The handlers that read the row of s, one after the other.
LEMMA ShortsHandler ==
  ASSUME ShortsInv, NEW c \in CallsOf, NEW s \in Cuts,
         \/ F!AddView(c, s) \/ F!AddComment(c, s) \/ F!Delete(c, s)
         \/ \E u \in UsersOf : F!AddLike(c, s, u)
         \/ \E approved \in BOOLEAN : F!SetApproved(c, s, approved)
  PROVE  ShortsInv'
<1> USE ServicesAssumption
<1>0. v1[s] # None /\ v1[s] \in F!Row
  BY DEF ShortsInv, ShortsTyped, F!AddView, F!AddComment, F!AddLike, F!SetApproved,
         F!Delete, F!Deletable, F!Public
<1> PICK r \in F!Row : r = v1[s]
  BY <1>0
<1>1. CASE F!AddView(c, s)
  <2>1. [r EXCEPT !.views = r.views + 1] \in F!Row
    BY <1>1 DEF F!AddView, F!Row
  <2> QED BY <1>0, <1>1, <2>1, ShortsKeep DEF F!AddView
<1>2. CASE F!AddComment(c, s)
  <2>1. [r EXCEPT !.comments = r.comments + 1] \in F!Row
    BY <1>2 DEF F!AddComment, F!Row
  <2> QED BY <1>0, <1>2, <2>1, ShortsKeep DEF F!AddComment
<1>3. CASE F!Delete(c, s)
  <2> DEFINE new == [pc |-> "remove", short |-> s, row |-> r]
  <2>1. new \in F!Call /\ new.pc = "remove" /\ new.short \in F!Rows
    BY <1>0 DEF F!Call, F!Rows
  <2>2. F!Go(c, new) /\ UNCHANGED <<v1, v2, v4, v5, v6>>
    BY <1>3 DEF F!Delete
  <2> HIDE DEF new
  <2> QED BY <2>1, <2>2, ShortsRead
<1>4. ASSUME NEW u \in UsersOf, F!AddLike(c, s, u) PROVE ShortsInv'
  <2> DEFINE by == IF u \in r.likedBy THEN r.likedBy \ {u} ELSE r.likedBy \cup {u}
  <2>1. [r EXCEPT !.likedBy = by] \in F!Row
    BY DEF F!Row
  <2> QED BY <1>0, <1>4, <2>1, ShortsKeep DEF F!AddLike
<1>5. ASSUME NEW approved \in BOOLEAN, F!SetApproved(c, s, approved) PROVE ShortsInv'
  <2>1. [r EXCEPT !.approved = approved] \in F!Row
    BY DEF F!Row
  <2> QED BY <1>0, <1>5, <2>1, ShortsKeep DEF F!SetApproved
<1> QED BY <1>1, <1>2, <1>3, <1>4, <1>5

LEMMA ShortsStep == ShortsInv /\ F!Next => ShortsInv'
<1> USE IdleCall
<1> SUFFICES ASSUME ShortsInv, ~v5, v6 = {}, NEW c \in CallsOf, F!CallStep(c)
             PROVE  ShortsInv'
  BY DEF F!Next
<1>1. CASE F!Insert(c)
  BY <1>1, ShortsInsert
<1>2. CASE F!Save(c) \/ F!Remove(c)
  <2>1. v3[c].pc \in {"save", "remove"} /\ v3[c].short \in v4 /\ v3[c].row \in F!Row
    BY <1>2 DEF F!Save, F!Remove, ShortsInv, ShortsTyped, F!Alone, F!Call
  <2> QED BY <1>2, <2>1, ShortsPut DEF F!Save, F!Remove
<1>3. CASE F!Fail(c)
  BY <1>3, ShortsRead DEF F!Fail
<1>4. CASE \E u \in UsersOf : F!Submit(c, u)
  BY <1>4, ShortsSubmit
<1>5. ASSUME NEW s \in Cuts,
             \/ F!AddView(c, s) \/ F!AddComment(c, s) \/ F!Delete(c, s)
             \/ \E u \in UsersOf : F!AddLike(c, s, u)
             \/ \E approved \in BOOLEAN : F!SetApproved(c, s, approved)
      PROVE  ShortsInv'
  BY <1>5, ShortsHandler
<1> QED BY <1>1, <1>2, <1>3, <1>4, <1>5 DEF F!CallStep

LEMMA ShortsOne == ShortsInv => F!OneShort
<1> SUFFICES ASSUME ShortsInv, ~v5, v6 = {} PROVE F!Cardinality(F!Rows) <= 1
  BY DEF F!OneShort
<1>1. \A s, t \in F!Rows : s = t
  BY DEF ShortsInv, F!Alone
<1>2. F!Cardinality(F!Rows) = Cardinality(F!Rows)
  BY DEF F!Cardinality, Cardinality
<1> QED BY <1>1, <1>2, AtMostOne

\* createFromHighlight, which looks for a short before it inserts one, makes one
\* short of a highlight; unless two submissions overlapped, or a save put back a
\* row that was deleted since it was read.
THEOREM HighlightHasOneShort == Spec => []OneShort
<1> DEFINE Inv == which = "shorts" => ShortsInv
<1>1. Init => Inv
  BY ShortsBegin DEF Init
<1>2. Inv /\ [Next]_vars => Inv'
  <2> SUFFICES ASSUME Inv, [Next]_vars, which' = "shorts" PROVE ShortsInv'
    OBVIOUS
  <2>1. CASE UNCHANGED vars
    BY <2>1 DEF vars, ShortsInv, ShortsTyped, F!Alone, F!Rows
  <2>2. CASE Next
    <3>1. which = "shorts" /\ F!Next
      BY <2>2 DEF Next
    <3> QED BY <3>1, ShortsStep
  <2> QED BY <2>1, <2>2
<1>3. Inv => OneShort
  BY ShortsOne DEF OneShort
<1> QED BY <1>1, <1>2, <1>3, PTL DEF Spec

-----------------------------------------------------------------------------
(* Likes and saves: alive, likedBy, savedBy, likes, call and raced are v1  *)
(* to v6.                                                                  *)

LikeCall == [pc : {"idle", "write"}, kind : {"like", "save"},
             user : UsersOf \cup {None}, liked : BOOLEAN, saved : BOOLEAN,
             likes : Nat]

LikesTyped ==
  /\ v1 \in BOOLEAN /\ v2 \subseteq UsersOf /\ v4 \in Nat /\ v6 \subseteq UsersOf
  /\ v5 \in [CallsOf -> LikeCall]
  /\ \A c \in CallsOf : v5[c].pc = "write" => v5[c].user \in UsersOf

\* The number of users who like it, in the arithmetic of the module's own.
Liking(users) == E!Cardinality(users)
Counts == v6 = {} => v4 = Liking(v2)

LikesInv == LikesTyped /\ E!RowsRead /\ Counts

LEMMA Likers ==
  ASSUME NEW users \in SUBSET UsersOf
  PROVE  /\ Liking(users) \in Nat
         /\ \A u \in UsersOf \ users : Liking(users \cup {u}) = Liking(users) + 1
         /\ \A u \in users : Liking(users \ {u}) = Liking(users) - 1 /\ Liking(users) > 0
<1>1. \A any : Liking(any) = Cardinality(any)
  BY DEF Liking, E!Cardinality, Cardinality
<1>2. IsFiniteSet(users)
  BY ServicesAssumption, FS_Subset
<1>3. Cardinality(users) \in Nat
  BY <1>2, FS_CardinalityType
<1>4. \A u \in UsersOf \ users : Liking(users \cup {u}) = Liking(users) + 1
  <2> TAKE u \in UsersOf \ users
  <2>1. Cardinality(users \cup {u}) = Cardinality(users) + 1
    BY <1>2, FS_AddElement
  <2> QED BY <1>1, <2>1
<1>5. \A u \in users : Liking(users \ {u}) = Liking(users) - 1 /\ Liking(users) > 0
  <2> TAKE u \in users
  <2>1. IsFiniteSet(users \ {u})
    BY <1>2, FS_Subset
  <2>2. Cardinality(users \ {u}) = Cardinality(users) - 1
    BY <1>2, FS_RemoveElement
  <2>3. Cardinality(users \ {u}) \in Nat
    BY <2>1, FS_CardinalityType
  <2>4. Cardinality(users) > 0
    BY <1>3, <2>2, <2>3
  <2> QED BY <1>1, <2>2, <2>4
<1> QED BY <1>1, <1>3, <1>4, <1>5

LEMMA LikesBegin == E!Init => LikesInv
<1> SUFFICES ASSUME E!Init PROVE LikesInv
  OBVIOUS
<1>1. \A c \in CallsOf : v5[c] = E!Idle
  BY DEF E!Init
<1>2. LikesTyped
  BY <1>1 DEF E!Init, LikesTyped, LikeCall, E!Idle
<1>3. v2 = {} /\ v4 = 0
  BY DEF E!Init
<1>4. Counts
  BY <1>3, FS_EmptySet DEF Counts, Liking, E!Cardinality, Cardinality
<1>5. E!RowsRead
  BY <1>1 DEF E!RowsRead, E!Idle
<1> QED BY <1>2, <1>4, <1>5 DEF LikesInv

LEMMA LikesRead ==
  ASSUME LikesInv, NEW c \in CallsOf, NEW u \in UsersOf, NEW kind \in {"like", "save"},
         E!Read(c, u, kind)
  PROVE  LikesInv'
<1> DEFINE new == [pc |-> "write", kind |-> kind, user |-> u, liked |-> u \in v2,
                   saved |-> u \in v3, likes |-> v4]
<1>1. /\ new \in LikeCall
      /\ new.pc = "write" /\ new.user = u
      /\ (new.liked <=> u \in v2) /\ (new.saved <=> u \in v3)
  <2>1. new.pc = "write" /\ new.user = u /\ new.kind = kind /\ new.likes = v4
    OBVIOUS
  <2>2. (new.liked <=> u \in v2) /\ (new.saved <=> u \in v3)
    OBVIOUS
  <2>3. v4 \in Nat
    BY DEF LikesInv, LikesTyped
  <2>4. \A a, b \in BOOLEAN :
          [pc |-> "write", kind |-> kind, user |-> u, liked |-> a, saved |-> b,
           likes |-> v4] \in LikeCall
    BY <2>3 DEF LikeCall
  <2>5. (u \in v2) \in BOOLEAN /\ (u \in v3) \in BOOLEAN
    OBVIOUS
  <2>6. new \in LikeCall
    BY <2>4, <2>5, Zenon
  <2> QED BY <2>1, <2>2, <2>6
<1>2. /\ v5' = [v5 EXCEPT ![c] = new] /\ v5[c].pc = "idle"
      /\ UNCHANGED <<v1, v2, v3, v4>>
      /\ v6' = IF \E d \in CallsOf \ {c} : v5[d].user = u THEN v6 \cup {u} ELSE v6
  BY DEF E!Read, E!Go
<1> HIDE DEF new
<1>3. /\ v5'[c] = new /\ \A d \in CallsOf \ {c} : v5'[d] = v5[d]
  BY <1>1, <1>2 DEF LikesInv, LikesTyped
<1>4. LikesTyped'
  BY <1>1, <1>2, <1>3 DEF LikesInv, LikesTyped
<1>5. ASSUME v6' = {}
      PROVE  v6 = {} /\ \A d \in CallsOf \ {c} : v5[d].user # u
  BY <1>2, <1>5
<1>6. E!RowsRead'
  <2> SUFFICES ASSUME v6' = {} PROVE E!RowsRead'
    BY DEF E!RowsRead
  <2>1. /\ \A d, e \in CallsOf : /\ v5[d].pc = "write" /\ v5[e].pc = "write"
                                /\ v5[d].user = v5[e].user
                                => d = e
        /\ v1 => \A d \in CallsOf : v5[d].pc = "write" =>
                   /\ v5[d].liked <=> v5[d].user \in v2
                   /\ v5[d].saved <=> v5[d].user \in v3
    BY <1>5 DEF LikesInv, E!RowsRead
  <2>2. \A d, e \in CallsOf : /\ v5'[d].pc = "write" /\ v5'[e].pc = "write"
                             /\ v5'[d].user = v5'[e].user
                             => d = e
    BY <1>1, <1>3, <1>5, <2>1
  <2>3. v1' => \A d \in CallsOf : v5'[d].pc = "write" =>
                 /\ v5'[d].liked <=> v5'[d].user \in v2'
                 /\ v5'[d].saved <=> v5'[d].user \in v3'
    BY <1>1, <1>2, <1>3, <2>1
  <2> QED BY <2>2, <2>3 DEF E!RowsRead
<1>7. Counts'
  BY <1>2, <1>5 DEF LikesInv, Counts
<1> QED BY <1>4, <1>6, <1>7 DEF LikesInv

\* A call that ends; what the others have read is not touched.
LEMMA LikesReturn ==
  ASSUME LikesInv, NEW c \in CallsOf, E!Go(c, E!Idle)
  PROVE  /\ v5' \in [CallsOf -> LikeCall]
         /\ v5'[c].pc = "idle" /\ \A d \in CallsOf \ {c} : v5'[d] = v5[d]
BY DEF LikesInv, LikesTyped, LikeCall, E!Go, E!Idle

LEMMA LikesWrite ==
  ASSUME LikesInv, NEW c \in CallsOf, E!Write(c)
  PROVE  LikesInv'
<1>1. /\ v5' \in [CallsOf -> LikeCall]
      /\ v5'[c].pc = "idle" /\ \A d \in CallsOf \ {c} : v5'[d] = v5[d]
  BY LikesReturn DEF E!Write
<1> PICK u \in UsersOf : u = v5[c].user
  BY DEF LikesInv, LikesTyped, E!Write
<1> DEFINE new == E!Settled(v5[c])
           delta == IF v5[c].kind = "save" THEN 0 ELSE IF new.liked THEN 1 ELSE -1
<1>2. /\ v1 /\ UNCHANGED <<v1, v6>> /\ v5[c].pc = "write"
      /\ v2' = E!Put(v2, u, new.liked) /\ v3' = E!Put(v3, u, new.saved)
      /\ v4' = E!Counted(delta, v5[c].likes)
  BY DEF E!Write
<1>3. /\ v5[c].kind = "save" => new.liked = v5[c].liked
      /\ v5[c].kind # "save" => new.liked = ~v5[c].liked
      /\ v5[c].liked \in BOOLEAN
  BY DEF E!Settled, LikesInv, LikesTyped, LikeCall
<1>4. delta \in {0, 1, -1} /\ v4' = IF v4 + delta < 0 THEN 0 ELSE v4 + delta
  BY <1>2 DEF E!Counted, E!Larger
<1>5. LikesTyped'
  <2>1. v2' \subseteq UsersOf
    BY <1>2 DEF E!Put, LikesInv, LikesTyped
  <2>2. v4' \in Nat
    BY <1>4 DEF LikesInv, LikesTyped
  <2> QED BY <1>1, <1>2, <2>1, <2>2 DEF LikesInv, LikesTyped
<1>6. ASSUME v6 = {}
      PROVE  /\ v5[c].liked <=> u \in v2
             /\ \A d \in CallsOf \ {c} : v5[d].pc = "write" => v5[d].user # u
             /\ v4 = Liking(v2)
  BY <1>2, <1>6 DEF LikesInv, E!RowsRead, Counts
<1>7. E!RowsRead'
  <2>1. \A w \in UsersOf \ {u} : (w \in v2' <=> w \in v2) /\ (w \in v3' <=> w \in v3)
    BY <1>2 DEF E!Put
  <2>2. \A d \in CallsOf : v5[d].pc = "write" => v5[d].user \in UsersOf
    BY DEF LikesInv, LikesTyped
  <2> QED BY <1>1, <1>2, <1>6, <2>1, <2>2 DEF LikesInv, E!RowsRead
<1>8. ASSUME v6 = {} PROVE v4' = Liking(v2')
  <2>1. v4 \in Nat /\ v2 \subseteq UsersOf
    BY DEF LikesInv, LikesTyped
  <2>2. CASE v5[c].kind = "save"
    <3>1. v2' = v2
      BY <1>2, <1>3, <1>6, <1>8, <2>2 DEF E!Put
    <3> QED BY <1>4, <1>6, <1>8, <2>1, <2>2, <3>1
  <2>3. CASE v5[c].kind # "save" /\ v5[c].liked
    <3>1. u \in v2 /\ v2' = v2 \ {u} /\ ~new.liked
      BY <1>2, <1>3, <1>6, <1>8, <2>3 DEF E!Put
    <3>2. delta = -1
      BY <2>3, <3>1
    <3> HIDE DEF delta, new
    <3> QED BY <1>4, <1>6, <1>8, <2>1, <3>1, <3>2, Likers
  <2>4. CASE v5[c].kind # "save" /\ ~v5[c].liked
    <3>1. u \notin v2 /\ v2' = v2 \cup {u} /\ new.liked
      BY <1>2, <1>3, <1>6, <1>8, <2>4 DEF E!Put
    <3>2. delta = 1
      BY <2>4, <3>1
    <3> HIDE DEF delta, new
    <3> QED BY <1>4, <1>6, <1>8, <2>1, <3>1, <3>2, Likers
  <2> QED BY <2>2, <2>3, <2>4
<1>9. Counts'
  BY <1>2, <1>8 DEF Counts
<1> QED BY <1>5, <1>7, <1>9 DEF LikesInv

LEMMA LikesStep == LikesInv /\ E!Next => LikesInv'
<1> SUFFICES ASSUME LikesInv, E!Next PROVE LikesInv'
  OBVIOUS
<1>1. CASE E!Delete
  <2>1. v2' = {} /\ v4' = 0 /\ v1' = FALSE /\ v3' = {} /\ UNCHANGED <<v5, v6>>
    BY <1>1 DEF E!Delete
  <2>2. LikesTyped'
    BY <2>1 DEF LikesInv, LikesTyped
  <2>3. E!RowsRead'
    BY <2>1 DEF LikesInv, E!RowsRead
  <2>4. Liking(v2') = 0
    BY <2>1, FS_EmptySet DEF Liking, E!Cardinality, Cardinality
  <2> QED BY <2>1, <2>2, <2>3, <2>4 DEF LikesInv, Counts
<1>2. ASSUME NEW c \in CallsOf, E!Rollback(c) PROVE LikesInv'
  <2>1. /\ v5' \in [CallsOf -> LikeCall]
        /\ v5'[c].pc = "idle" /\ \A d \in CallsOf \ {c} : v5'[d] = v5[d]
    BY <1>2, LikesReturn DEF E!Rollback
  <2>2. UNCHANGED <<v1, v2, v3, v4, v6>>
    BY <1>2 DEF E!Rollback
  <2> QED BY <2>1, <2>2 DEF LikesInv, LikesTyped, E!RowsRead, Counts
<1> QED BY <1>1, <1>2, LikesRead, LikesWrite DEF E!Next

LEMMA LikesCounted == LikesInv => E!LikesAgree
BY DEF LikesInv, Counts, Liking, E!LikesAgree

\* toggleLike changes likes_count where it is, so that it is the number of users
\* whose row says liked, whatever toggles of other users come between its read
\* and its commit; unless toggles of one user overlapped.
THEOREM LikesCountedRight == Spec => []LikesAgree
<1> DEFINE Inv == which = "likes" => LikesInv
<1>1. Init => Inv
  BY LikesBegin DEF Init
<1>2. Inv /\ [Next]_vars => Inv'
  <2> SUFFICES ASSUME Inv, [Next]_vars, which' = "likes" PROVE LikesInv'
    OBVIOUS
  <2>1. CASE UNCHANGED vars
    BY <2>1 DEF vars, LikesInv, LikesTyped, E!RowsRead, Counts
  <2>2. CASE Next
    <3>1. which = "likes" /\ E!Next
      BY <2>2 DEF Next
    <3> QED BY <3>1, LikesStep
  <2> QED BY <2>1, <2>2
<1>3. Inv => LikesAgree
  BY LikesCounted DEF LikesAgree
<1> QED BY <1>1, <1>2, <1>3, PTL DEF Spec

-----------------------------------------------------------------------------
(* Claims: rows, shares, call, answer and excused are v1 to v5.            *)

ClaimRow == [owner : UsersOf, channel : Nat,
             status : {"extracting", "processing", "uploaded", "ready", "failed"},
             play : BOOLEAN, old : BOOLEAN]
ClaimCall == [pc : {"idle", "look", "share", "make"}, user : UsersOf \cup {None},
              got : Seq(Nat), found : Nat]

ClaimsTyped ==
  /\ v1 \in Seq(ClaimRow)
  /\ \A r \in 1 .. Len(v1) : v1[r].status = "ready" => v1[r].play
  /\ v3 \in [CallsOf -> ClaimCall]
  /\ \A c \in CallsOf : /\ v3[c].pc # "idle" => v3[c].user \in UsersOf
                        /\ v3[c].pc = "share" => v3[c].found \in 1 .. Len(v1)
  /\ v4 \in [UsersOf -> Seq(Nat)]

\* Whether a user sees a recording of the rows rs with the shares sh.
Sees(rs, sh, r, u) == r \in 1 .. Len(rs) /\ (rs[r].owner = u \/ <<r, u>> \in sh)

LEMMA ClaimSees ==
  /\ \A r, u : C!Seen(r, u) <=> Sees(v1, v2, r, u)
  /\ \A r, u : C!Seen(r, u)' <=> Sees(v1', v2', r, u)
BY DEF C!Seen, C!Ids, Sees

ClaimsInv == ClaimsTyped /\ C!FoundSeen /\ C!OneClaim

LEMMA ClaimIdle == C!Idle \in ClaimCall /\ C!Idle.pc = "idle" /\ C!Idle.got = <<>>
BY DEF ClaimCall, C!Idle

LEMMA ClaimsBegin == C!Init => ClaimsInv
<1> USE ClaimIdle
<1> SUFFICES ASSUME C!Init PROVE ClaimsInv
  OBVIOUS
<1>1. \A c \in CallsOf : v3[c] = C!Idle
  BY DEF C!Init
<1>2. v1 = <<>> /\ Len(v1) = 0 /\ v1 \in Seq(ClaimRow) /\ 1 .. Len(v1) = {}
  BY DEF C!Init
<1>3. \A u \in UsersOf : v4[u] = <<>> /\ 1 .. Len(v4[u]) = {}
  BY DEF C!Init
<1>4. ClaimsTyped
  BY <1>1, <1>2 DEF C!Init, ClaimsTyped
<1>5. C!FoundSeen /\ C!OneClaim
  BY <1>1, <1>2, <1>3 DEF C!FoundSeen, C!OneClaim, C!OfChannel, C!Ids
<1> QED BY <1>4, <1>5 DEF ClaimsInv

-----------------------------------------------------------------------------
(* Rows that change, while their owners and channels stay.                 *)

\* A row that gets another state.
LEMMA ClaimsRow ==
  ASSUME ClaimsInv, NEW r \in 1 .. Len(v1), NEW new \in ClaimRow,
         v1' = [v1 EXCEPT ![r] = new], new.owner = v1[r].owner,
         new.channel = v1[r].channel, new.status = "ready" => new.play
  PROVE  /\ v1' \in Seq(ClaimRow) /\ Len(v1') = Len(v1) /\ C!Ids' = C!Ids
         /\ \A s \in C!Ids : v1'[s].owner = v1[s].owner /\ v1'[s].channel = v1[s].channel
         /\ \A s \in C!Ids : v1'[s].status = "ready" => v1'[s].play
         /\ v1'[r] = new /\ \A s \in C!Ids \ {r} : v1'[s] = v1[s]
         /\ \A n : C!OfChannel(n)' = C!OfChannel(n)
<1>1. v1 \in Seq(ClaimRow) /\ r \in DOMAIN v1 /\ DOMAIN v1 = 1 .. Len(v1)
  BY DEF ClaimsInv, ClaimsTyped
<1>2. v1' \in Seq(ClaimRow) /\ Len(v1') = Len(v1)
  BY <1>1
<1>3. v1'[r] = new /\ \A s \in 1 .. Len(v1) \ {r} : v1'[s] = v1[s]
  BY <1>1
<1>4. C!Ids' = C!Ids /\ C!Ids = 1 .. Len(v1)
  BY <1>2 DEF C!Ids
<1>5. \A s \in C!Ids : v1'[s].owner = v1[s].owner /\ v1'[s].channel = v1[s].channel
  BY <1>3, <1>4
<1>6. \A s \in C!Ids : v1'[s].status = "ready" => v1'[s].play
  BY <1>3, <1>4 DEF ClaimsInv, ClaimsTyped
<1>7. \A n : C!OfChannel(n)' = C!OfChannel(n)
  BY <1>4, <1>5 DEF C!OfChannel
<1> QED BY <1>2, <1>3, <1>4, <1>5, <1>6, <1>7

\* What a user can see stays to be seen.
LEMMA ClaimsSeen ==
  ASSUME C!Ids \subseteq C!Ids', v2 \subseteq v2',
         \A s \in C!Ids : v1'[s].owner = v1[s].owner
  PROVE  \A s, u : C!Seen(s, u) => C!Seen(s, u)'
BY DEF C!Seen

\* Extraction goes on, or time passes.
LEMMA ClaimsMoved ==
  ASSUME ClaimsInv, NEW r \in 1 .. Len(v1), C!Moved(r) \/ C!Age(r)
  PROVE  ClaimsInv'
<1> PICK k \in ClaimRow : k = v1[r]
  BY DEF ClaimsInv, ClaimsTyped
<1>1. PICK new \in ClaimRow :
        /\ v1' = [v1 EXCEPT ![r] = new] /\ new.owner = k.owner /\ new.channel = k.channel
        /\ new.status = "ready" => new.play
        /\ k.status = "failed" => v5' \/ new.status = "failed"
        /\ ~v5' => ~v5
  <2>1. CASE C!Moved(r)
    <3> PICK s \in C!Moves(k.status) :
          v1' = [v1 EXCEPT ![r].status = s, ![r].play = (s = "ready"), ![r].old = FALSE]
      BY <2>1 DEF C!Moved
    <3>1. s \in {"processing", "uploaded", "ready", "failed"}
      BY DEF C!Moves, ClaimRow
    <3>2. PICK p \in BOOLEAN : p = (s = "ready")
      OBVIOUS
    <3> DEFINE new == [k EXCEPT !.status = s, !.play = p, !.old = FALSE]
    <3>3. /\ new \in ClaimRow /\ new.owner = k.owner /\ new.channel = k.channel
          /\ new.status = s /\ new.play = p
      BY <3>1 DEF ClaimRow
    <3>4. v1' = [v1 EXCEPT ![r] = new]
      BY <3>2
    <3>5. ~v5' => ~v5 /\ k.status # "failed"
      BY <2>1 DEF C!Moved
    <3> HIDE DEF new
    <3> QED BY <3>2, <3>3, <3>4, <3>5
  <2>2. CASE C!Age(r)
    <3> DEFINE new == [k EXCEPT !.old = TRUE]
    <3>1. /\ new \in ClaimRow /\ new.owner = k.owner /\ new.channel = k.channel
          /\ new.status = k.status
      BY DEF ClaimRow
    <3>2. v1' = [v1 EXCEPT ![r] = new] /\ v5' = v5 /\ k.status \in {"extracting", "uploaded"}
      BY <2>2 DEF C!Age
    <3> HIDE DEF new
    <3> QED BY <3>1, <3>2
  <2> QED BY <2>1, <2>2
<1>2. UNCHANGED <<v2, v3, v4>>
  BY DEF C!Moved, C!Age
<1>3. /\ v1' \in Seq(ClaimRow) /\ Len(v1') = Len(v1) /\ C!Ids' = C!Ids
      /\ \A s \in C!Ids : v1'[s].owner = v1[s].owner /\ v1'[s].channel = v1[s].channel
      /\ \A s \in C!Ids : v1'[s].status = "ready" => v1'[s].play
      /\ v1'[r] = new /\ \A s \in C!Ids \ {r} : v1'[s] = v1[s]
      /\ \A n : C!OfChannel(n)' = C!OfChannel(n)
  BY <1>1, ClaimsRow
<1>4. ClaimsTyped'
  BY <1>2, <1>3 DEF ClaimsInv, ClaimsTyped, C!Ids
<1>5. C!FoundSeen'
  BY <1>2, <1>3, ClaimsSeen DEF ClaimsInv, C!FoundSeen
<1>6. C!OneClaim'
  <2>1. \A n : C!OfChannel(n) \subseteq C!Ids
    BY DEF C!OfChannel
  <2>2. ASSUME ~v5', NEW s \in C!Ids, v1[s].status = "failed"
        PROVE  v1'[s].status = "failed"
    BY <1>1, <1>3, <2>2
  <2>3. \A c \in CallsOf : C!Channel(c)' = C!Channel(c)
    BY <1>2 DEF C!Channel
  <2> QED BY <1>1, <1>2, <1>3, <2>1, <2>2, <2>3 DEF ClaimsInv, C!OneClaim
<1> QED BY <1>4, <1>5, <1>6 DEF ClaimsInv

-----------------------------------------------------------------------------
(* A step of one claim.                                                    *)

ClaimCalls(calls, rs) ==
  /\ calls \in [CallsOf -> ClaimCall]
  /\ \A c \in CallsOf : /\ calls[c].pc # "idle" => calls[c].user \in UsersOf
                        /\ calls[c].pc = "share" => calls[c].found \in 1 .. Len(rs)

LEMMA ClaimsGoes ==
  ASSUME ClaimsInv, NEW c \in CallsOf, NEW new \in ClaimCall, C!Go(c, new),
         new.pc # "idle" => new.user \in UsersOf,
         new.pc = "share" => new.found \in 1 .. Len(v1), Len(v1') \in Nat, Len(v1') >= Len(v1)
  PROVE  /\ ClaimCalls(v3', v1')
         /\ v3'[c] = new /\ \A d \in CallsOf \ {c} : v3'[d] = v3[d]
<1>1. Len(v1) \in Nat
  BY DEF ClaimsInv, ClaimsTyped
<1>2. v3'[c] = new /\ \A d \in CallsOf \ {c} : v3'[d] = v3[d]
  BY DEF ClaimsInv, ClaimsTyped, C!Go
<1>3. v3' \in [CallsOf -> ClaimCall]
  BY DEF ClaimsInv, ClaimsTyped, C!Go
<1>4. ASSUME NEW d \in CallsOf
      PROVE  /\ v3'[d].pc # "idle" => v3'[d].user \in UsersOf
             /\ v3'[d].pc = "share" => v3'[d].found \in 1 .. Len(v1)
  BY <1>2 DEF ClaimsInv, ClaimsTyped
<1>5. 1 .. Len(v1) \subseteq 1 .. Len(v1')
  BY <1>1
<1> QED BY <1>2, <1>3, <1>4, <1>5 DEF ClaimCalls

\* A claim that has found the recording r, which its user can see.
LEMMA ClaimsHas ==
  ASSUME ClaimsInv, NEW c \in CallsOf, v3[c].pc # "idle", NEW r \in Nat, C!Has(c, r),
         Sees(v1', v2', r, v3[c].user),
         \A s, u : Sees(v1, v2, s, u) => Sees(v1', v2', s, u),
         Len(v1') \in Nat, Len(v1') >= Len(v1)
  PROVE  /\ ClaimCalls(v3', v1') /\ v4' \in [UsersOf -> Seq(Nat)] /\ C!FoundSeen'
         /\ v3'[c].pc \in {"idle", "look"} /\ \A d \in CallsOf \ {c} : v3'[d] = v3[d]
<1> USE ClaimIdle
<1> PICK k \in ClaimCall : k = v3[c]
  BY DEF ClaimsInv, ClaimsTyped
<1> PICK u \in UsersOf : u = k.user
  BY DEF ClaimsInv, ClaimsTyped
<1> DEFINE got == Append(k.got, r)
           new == [k EXCEPT !.pc = "look", !.got = got, !.found = 0]
<1>1. k.got \in Seq(Nat)
  BY DEF ClaimCall
<1>2. got \in Seq(Nat) /\ Len(got) = Len(k.got) + 1 /\ Len(k.got) \in Nat
      /\ got[Len(k.got) + 1] = r /\ \A n \in 1 .. Len(k.got) : got[n] = k.got[n]
  BY <1>1
<1> HIDE DEF got
<1>3. \A n \in 1 .. Len(got) : Sees(v1', v2', got[n], u)
  <2> SUFFICES ASSUME NEW n \in 1 .. Len(got) PROVE Sees(v1', v2', got[n], u)
    OBVIOUS
  <2>1. CASE n = Len(got)
    BY <1>2, <2>1
  <2>2. CASE n \in 1 .. Len(k.got)
    BY <1>2, <2>2, ClaimSees DEF ClaimsInv, C!FoundSeen
  <2>3. n = Len(got) \/ n \in 1 .. Len(k.got)
    BY <1>2
  <2> QED BY <2>1, <2>2, <2>3
<1>4. new \in ClaimCall /\ new.pc = "look" /\ new.user = u /\ new.got = got
  BY <1>2 DEF ClaimCall
<1> HIDE DEF new
<1>5. \A w \in UsersOf : \A n \in 1 .. Len(v4[w]) : Sees(v1', v2', v4[w][n], w)
  BY ClaimSees DEF ClaimsInv, C!FoundSeen
<1>6. \A d \in CallsOf : v3[d].pc # "idle" =>
        \A n \in 1 .. Len(v3[d].got) : Sees(v1', v2', v3[d].got[n], v3[d].user)
  BY ClaimSees DEF ClaimsInv, C!FoundSeen
<1>7. CASE C!Go(c, C!Idle) /\ v4' = [v4 EXCEPT ![u] = got]
  <2>1. ClaimCalls(v3', v1') /\ v3'[c] = C!Idle /\ \A d \in CallsOf \ {c} : v3'[d] = v3[d]
    BY <1>7, ClaimsGoes
  <2>2. /\ v4' \in [UsersOf -> Seq(Nat)]
        /\ v4'[u] = got /\ \A w \in UsersOf \ {u} : v4'[w] = v4[w]
    BY <1>2, <1>7 DEF ClaimsInv, ClaimsTyped
  <2>3. C!FoundSeen'
    <3>1. \A w \in UsersOf : \A n \in 1 .. Len(v4'[w]) : Sees(v1', v2', v4'[w][n], w)
      BY <1>3, <1>5, <2>2
    <3>2. \A d \in CallsOf : v3'[d].pc # "idle" =>
            \A n \in 1 .. Len(v3'[d].got) : Sees(v1', v2', v3'[d].got[n], v3'[d].user)
      BY <1>6, <2>1
    <3> QED BY <3>1, <3>2, ClaimSees DEF C!FoundSeen
  <2> QED BY <2>1, <2>2, <2>3
<1>8. CASE C!Go(c, new) /\ v4' = v4
  <2>1. ClaimCalls(v3', v1') /\ v3'[c] = new /\ \A d \in CallsOf \ {c} : v3'[d] = v3[d]
    BY <1>4, <1>8, ClaimsGoes
  <2>2. C!FoundSeen'
    <3>1. \A w \in UsersOf : \A n \in 1 .. Len(v4'[w]) : Sees(v1', v2', v4'[w][n], w)
      BY <1>5, <1>8
    <3>2. \A d \in CallsOf : v3'[d].pc # "idle" =>
            \A n \in 1 .. Len(v3'[d].got) : Sees(v1', v2', v3'[d].got[n], v3'[d].user)
      BY <1>3, <1>4, <1>6, <2>1
    <3> QED BY <3>1, <3>2, ClaimSees DEF C!FoundSeen
  <2> QED BY <1>4, <1>8, <2>1, <2>2 DEF ClaimsInv, ClaimsTyped
<1> QED BY <1>7, <1>8 DEF C!Has, got, new

\* Claims that have found no more than before.
LEMMA ClaimsKeep ==
  ASSUME ClaimsInv, v4' = v4, \A s, u : Sees(v1, v2, s, u) => Sees(v1', v2', s, u),
         \A d \in CallsOf : v3'[d].pc # "idle" =>
           \/ v3'[d].got = <<>>
           \/ /\ v3[d].pc # "idle" /\ v3'[d].got = v3[d].got
              /\ v3'[d].user = v3[d].user
  PROVE  C!FoundSeen'
<1>1. \A w \in UsersOf : \A n \in 1 .. Len(v4'[w]) : Sees(v1', v2', v4'[w][n], w)
  BY ClaimSees DEF ClaimsInv, C!FoundSeen
<1>2. \A d \in CallsOf : v3[d].pc # "idle" =>
        \A n \in 1 .. Len(v3[d].got) : Sees(v1', v2', v3[d].got[n], v3[d].user)
  BY ClaimSees DEF ClaimsInv, C!FoundSeen
<1>3. ASSUME NEW d \in CallsOf, v3'[d].pc # "idle", NEW n \in 1 .. Len(v3'[d].got)
      PROVE  Sees(v1', v2', v3'[d].got[n], v3'[d].user)
  <2>1. v3'[d].got # <<>>
    BY <1>3
  <2> QED BY <1>2, <1>3, <2>1
<1> QED BY <1>1, <1>3, ClaimSees DEF C!FoundSeen

\* What one step of a claim leaves of OneClaim: the rows as they are.
LEMMA ClaimsAlone ==
  ASSUME ClaimsInv, NEW c \in CallsOf, v3[c].pc # "idle", v3'[c].pc # "make",
         \A d \in CallsOf \ {c} : v3'[d] = v3[d], UNCHANGED v1, ~v5' => ~v5
  PROVE  C!OneClaim'
<1>1. \A n : C!OfChannel(n)' = C!OfChannel(n)
  BY DEF C!OfChannel, C!Ids
<1>2. ~v5 => \A d \in CallsOf \ {c} : v3[d].pc = "idle"
  BY DEF ClaimsInv, C!OneClaim
<1> QED BY <1>1, <1>2 DEF ClaimsInv, C!OneClaim

LEMMA ClaimsLookFound ==
  ASSUME ClaimsInv, NEW c \in CallsOf, C!LookFound(c)
  PROVE  ClaimsInv'
<1> PICK k \in ClaimCall : k = v3[c]
  BY DEF ClaimsInv, ClaimsTyped
<1>0. k.pc = "look" /\ UNCHANGED <<v1, v2, v5>> /\ k.user \in UsersOf
  BY DEF C!LookFound, ClaimsInv, ClaimsTyped
<1> PICK r \in C!Matches(C!Channel(c)) :
      IF C!Owned(r, k.user) THEN C!Has(c, r)
      ELSE C!Go(c, [k EXCEPT !.pc = "share", !.found = r]) /\ v4' = v4
  BY DEF C!LookFound
<1>1. r \in 1 .. Len(v1) /\ r \in Nat /\ Len(v1) \in Nat /\ C!Ids = 1 .. Len(v1)
  BY DEF C!Matches, C!OfChannel, C!Ids, ClaimsInv, ClaimsTyped
<1>2. \A s, u : Sees(v1, v2, s, u) => Sees(v1', v2', s, u)
  BY <1>0
<1>3. CASE C!Owned(r, k.user) /\ C!Has(c, r)
  <2>1. Sees(v1', v2', r, k.user)
    BY <1>0, <1>1, <1>3 DEF Sees, C!Owned
  <2>2. /\ ClaimCalls(v3', v1') /\ v4' \in [UsersOf -> Seq(Nat)] /\ C!FoundSeen'
        /\ v3'[c].pc \in {"idle", "look"} /\ \A d \in CallsOf \ {c} : v3'[d] = v3[d]
    BY <1>0, <1>1, <1>2, <1>3, <2>1, ClaimsHas
  <2>3. ClaimsTyped'
    BY <1>0, <2>2 DEF ClaimsInv, ClaimsTyped, ClaimCalls
  <2>4. C!OneClaim'
    BY <1>0, <2>2, ClaimsAlone
  <2> QED BY <2>2, <2>3, <2>4 DEF ClaimsInv
<1>4. CASE C!Go(c, [k EXCEPT !.pc = "share", !.found = r]) /\ v4' = v4
  <2> DEFINE new == [k EXCEPT !.pc = "share", !.found = r]
  <2>1. /\ new \in ClaimCall /\ new.pc = "share" /\ new.found = r
        /\ new.user = k.user /\ new.got = k.got
    BY <1>1 DEF ClaimCall
  <2>2. C!Go(c, new)
    BY <1>4
  <2> HIDE DEF new
  <2>3. ClaimCalls(v3', v1') /\ v3'[c] = new /\ \A d \in CallsOf \ {c} : v3'[d] = v3[d]
    BY <1>0, <1>1, <2>1, <2>2, ClaimsGoes
  <2>4. ClaimsTyped'
    BY <1>0, <1>4, <2>3 DEF ClaimsInv, ClaimsTyped, ClaimCalls
  <2>5. C!FoundSeen'
    BY <1>0, <1>2, <1>4, <2>1, <2>3, ClaimsKeep
  <2>6. C!OneClaim'
    BY <1>0, <2>1, <2>3, ClaimsAlone
  <2> QED BY <2>4, <2>5, <2>6 DEF ClaimsInv
<1> QED BY <1>3, <1>4

LEMMA ClaimsLookMissed ==
  ASSUME ClaimsInv, NEW c \in CallsOf, C!LookMissed(c)
  PROVE  ClaimsInv'
<1> PICK k \in ClaimCall : k = v3[c]
  BY DEF ClaimsInv, ClaimsTyped
<1> DEFINE new == [k EXCEPT !.pc = "make"]
           rs == C!OfChannel(C!Channel(c))
<1>1. /\ new \in ClaimCall /\ new.pc = "make" /\ new.user = k.user /\ new.got = k.got
  BY DEF ClaimCall
<1>2. /\ C!Go(c, new) /\ UNCHANGED <<v1, v2, v4>> /\ k.pc = "look" /\ k.user \in UsersOf
      /\ v5' = (v5 \/ \E r \in rs : v1[r].status = "uploaded")
      /\ C!Matches(C!Channel(c)) = {} /\ Len(v1) \in Nat
  BY DEF C!LookMissed, ClaimsInv, ClaimsTyped
<1> HIDE DEF new
<1>3. ClaimCalls(v3', v1') /\ v3'[c] = new /\ \A d \in CallsOf \ {c} : v3'[d] = v3[d]
  BY <1>1, <1>2, ClaimsGoes
<1>4. ClaimsTyped'
  BY <1>2, <1>3 DEF ClaimsInv, ClaimsTyped, ClaimCalls
<1>5. C!FoundSeen'
  BY <1>1, <1>2, <1>3, ClaimsKeep
<1>6. ASSUME ~v5' PROVE ~v5 /\ \A r \in rs : v1[r].status = "failed"
  <2>1. \A r \in rs : ~C!Complete(r) /\ ~C!InFlight(r)
    BY <1>2 DEF C!Matches
  <2>2. ASSUME NEW r \in rs PROVE v1[r].status = "failed"
    <3>1. r \in 1 .. Len(v1)
      BY DEF C!OfChannel, C!Ids
    <3> PICK x \in ClaimRow : x = v1[r]
      BY <3>1 DEF ClaimsInv, ClaimsTyped
    <3>2. x.status = "ready" => x.play
      BY <3>1 DEF ClaimsInv, ClaimsTyped
    <3>3. x.status # "uploaded"
      BY <1>2, <1>6
    <3> QED BY <2>1, <3>2, <3>3 DEF C!Complete, C!InFlight, ClaimRow
  <2> QED BY <1>2, <1>6, <2>2
<1>7. C!OneClaim'
  <2>1. \A n : C!OfChannel(n)' = C!OfChannel(n)
    BY <1>2 DEF C!OfChannel, C!Ids
  <2>2. C!Channel(c)' = C!Channel(c)
    BY <1>1, <1>3 DEF C!Channel
  <2>3. ~v5 => \A d \in CallsOf \ {c} : v3[d].pc = "idle"
    BY <1>2 DEF ClaimsInv, C!OneClaim
  <2> QED BY <1>1, <1>2, <1>3, <1>6, <2>1, <2>2, <2>3 DEF ClaimsInv, C!OneClaim
<1> QED BY <1>4, <1>5, <1>7 DEF ClaimsInv

LEMMA ClaimsShare ==
  ASSUME ClaimsInv, NEW c \in CallsOf, C!Share(c)
  PROVE  ClaimsInv'
<1> PICK r \in 1 .. Len(v1) : r = v3[c].found
  BY DEF C!Share, ClaimsInv, ClaimsTyped
<1>1. /\ C!Has(c, r) /\ UNCHANGED <<v1, v5>> /\ v3[c].pc = "share"
      /\ v2' = v2 \cup {<<r, v3[c].user>>} /\ r \in Nat /\ Len(v1) \in Nat
  BY DEF C!Share, ClaimsInv, ClaimsTyped
<1>2. Sees(v1', v2', r, v3[c].user)
  BY <1>1 DEF Sees
<1>3. \A s, u : Sees(v1, v2, s, u) => Sees(v1', v2', s, u)
  BY <1>1 DEF Sees
<1>4. /\ ClaimCalls(v3', v1') /\ v4' \in [UsersOf -> Seq(Nat)] /\ C!FoundSeen'
      /\ v3'[c].pc \in {"idle", "look"} /\ \A d \in CallsOf \ {c} : v3'[d] = v3[d]
  <2>1. Len(v1') \in Nat /\ Len(v1') >= Len(v1) /\ v3[c].pc # "idle"
    BY <1>1
  <2> QED BY <1>1, <1>2, <1>3, <2>1, ClaimsHas
<1>5. ClaimsTyped'
  BY <1>1, <1>4 DEF ClaimsInv, ClaimsTyped, ClaimCalls
<1>6. C!OneClaim'
  BY <1>1, <1>4, ClaimsAlone
<1> QED BY <1>4, <1>5, <1>6 DEF ClaimsInv

LEMMA ClaimsMake ==
  ASSUME ClaimsInv, NEW c \in CallsOf, C!Make(c)
  PROVE  ClaimsInv'
<1> PICK u \in UsersOf : u = v3[c].user
  BY DEF C!Make, ClaimsInv, ClaimsTyped
<1>0. v1 \in Seq(ClaimRow) /\ Len(v1) \in Nat /\ C!Channel(c) \in Nat
  <2>1. v3[c].got \in Seq(Nat)
    BY DEF ClaimsInv, ClaimsTyped, ClaimCall
  <2> QED BY <2>1 DEF ClaimsInv, ClaimsTyped, C!Channel
<1> DEFINE made == [owner |-> u, channel |-> C!Channel(c), status |-> "extracting",
                    play |-> FALSE, old |-> FALSE]
           r == Len(v1) + 1
<1>1. /\ made \in ClaimRow /\ made.owner = u /\ made.channel = C!Channel(c)
      /\ made.status = "extracting"
  BY <1>0 DEF ClaimRow
<1>2. /\ v1' = Append(v1, made) /\ UNCHANGED <<v2, v5>> /\ C!Has(c, r) /\ v3[c].pc = "make"
  BY DEF C!Make
<1> HIDE DEF made
<1>3. /\ v1' \in Seq(ClaimRow) /\ Len(v1') = Len(v1) + 1 /\ v1'[Len(v1) + 1] = made
      /\ \A s \in 1 .. Len(v1) : v1'[s] = v1[s]
  BY <1>0, <1>1, <1>2
<1>4. Sees(v1', v2', r, v3[c].user)
  BY <1>0, <1>1, <1>3 DEF Sees
<1>5. \A s, w : Sees(v1, v2, s, w) => Sees(v1', v2', s, w)
  BY <1>0, <1>2, <1>3 DEF Sees
<1>6. /\ ClaimCalls(v3', v1') /\ v4' \in [UsersOf -> Seq(Nat)] /\ C!FoundSeen'
      /\ v3'[c].pc \in {"idle", "look"} /\ \A d \in CallsOf \ {c} : v3'[d] = v3[d]
  BY <1>0, <1>2, <1>3, <1>4, <1>5, ClaimsHas
<1>7. \A s \in 1 .. Len(v1') : s \in 1 .. Len(v1) \/ s = r
  BY <1>0, <1>3
<1>8. ClaimsTyped'
  <2>1. \A s \in 1 .. Len(v1') : v1'[s].status = "ready" => v1'[s].play
    BY <1>1, <1>3, <1>7 DEF ClaimsInv, ClaimsTyped
  <2> QED BY <1>3, <1>6, <2>1 DEF ClaimsInv, ClaimsTyped, ClaimCalls
<1>9. C!OneClaim'
  <2> SUFFICES ASSUME ~v5 PROVE C!OneClaim'
    BY <1>2 DEF C!OneClaim
  <2>1. /\ \A d \in CallsOf \ {c} : v3[d].pc = "idle"
        /\ \A s \in C!OfChannel(C!Channel(c)) : v1[s].status = "failed"
    BY <1>2 DEF ClaimsInv, C!OneClaim
  <2>2. ASSUME NEW n \in 1 .. Channels, NEW s \in C!OfChannel(n)', NEW t \in C!OfChannel(n)',
               v1'[s].status # "failed", v1'[t].status # "failed"
        PROVE  s = t
    <3>1. s \in 1 .. Len(v1') /\ t \in 1 .. Len(v1') /\ v1'[s].channel = n
          /\ v1'[t].channel = n
      BY DEF C!OfChannel, C!Ids
    <3>2. \A x \in 1 .. Len(v1) : v1[x].channel = n => x \in C!OfChannel(n)
      BY DEF C!OfChannel, C!Ids
    <3>3. CASE s = r \/ t = r
      <4>1. n = C!Channel(c)
        BY <1>1, <1>3, <3>1, <3>3
      <4> QED BY <1>3, <1>7, <2>1, <2>2, <3>1, <3>2, <4>1
    <3>4. CASE s # r /\ t # r
      <4>1. \A x, y \in C!OfChannel(n) :
              v1[x].status # "failed" /\ v1[y].status # "failed" => x = y
        BY DEF ClaimsInv, C!OneClaim
      <4> QED BY <1>3, <1>7, <2>2, <3>1, <3>2, <3>4, <4>1
    <3> QED BY <3>3, <3>4
  <2> QED BY <1>6, <2>1, <2>2 DEF C!OneClaim
<1> QED BY <1>6, <1>8, <1>9 DEF ClaimsInv

\* A claim ends where it is.
LEMMA ClaimsFail ==
  ASSUME ClaimsInv, NEW c \in CallsOf, C!Fail(c)
  PROVE  ClaimsInv'
<1> USE ClaimIdle
<1>1. C!Go(c, C!Idle) /\ UNCHANGED <<v1, v2, v4, v5>> /\ v3[c].pc # "idle" /\ Len(v1) \in Nat
  BY DEF C!Fail, ClaimsInv, ClaimsTyped
<1>2. ClaimCalls(v3', v1') /\ v3'[c] = C!Idle /\ \A d \in CallsOf \ {c} : v3'[d] = v3[d]
  BY <1>1, ClaimsGoes
<1>3. ClaimsTyped'
  BY <1>1, <1>2 DEF ClaimsInv, ClaimsTyped, ClaimCalls
<1>4. C!FoundSeen'
  BY <1>1, <1>2, ClaimsKeep
<1>5. C!OneClaim'
  BY <1>1, <1>2, ClaimsAlone
<1> QED BY <1>3, <1>4, <1>5 DEF ClaimsInv

\* A claim begins, be it that the user's last one is given up.
LEMMA ClaimsStart ==
  ASSUME ClaimsInv, NEW c \in CallsOf, NEW u \in UsersOf,
         C!Claim(c, u) \/ C!ClaimAgain(c, u)
  PROVE  ClaimsInv'
<1> DEFINE new == [C!Idle EXCEPT !.pc = "look", !.user = u]
<1>1. new \in ClaimCall /\ new.pc = "look" /\ new.user = u /\ new.got = <<>>
  <2>1. <<>> \in Seq(Nat)
    OBVIOUS
  <2> QED BY <2>1 DEF ClaimCall, C!Idle
<1>2. /\ C!Go(c, new) /\ UNCHANGED <<v2, v4>> /\ v3[c].pc = "idle" /\ Len(v1) \in Nat
      /\ v5' = (v5 \/ \E d \in CallsOf : v3[d].pc # "idle")
  BY DEF C!Claim, C!ClaimAgain, C!Begin, ClaimsInv, ClaimsTyped
<1> HIDE DEF new
<1>3. /\ v1' \in Seq(ClaimRow) /\ Len(v1') = Len(v1) /\ C!Ids' = C!Ids
      /\ \A s \in C!Ids : v1'[s].owner = v1[s].owner
      /\ \A s \in C!Ids : v1'[s].status = "ready" => v1'[s].play
      /\ \A s \in C!Ids : v1'[s].status # "failed" => v1[s].status # "failed"
      /\ \A n : C!OfChannel(n)' = C!OfChannel(n)
  <2>1. CASE C!Claim(c, u)
    BY <2>1 DEF C!Claim, C!Ids, C!OfChannel, ClaimsInv, ClaimsTyped
  <2>2. CASE C!ClaimAgain(c, u)
    <3> PICK r \in C!Prior(u) : v1' = [v1 EXCEPT ![r].status = "failed", ![r].old = FALSE]
      BY <2>2 DEF C!ClaimAgain
    <3>1. r \in 1 .. Len(v1) /\ v1[r].status # "failed"
      BY DEF C!Prior, C!Ids
    <3> PICK k \in ClaimRow : k = v1[r]
      BY <3>1 DEF ClaimsInv, ClaimsTyped
    <3> DEFINE gone == [k EXCEPT !.status = "failed", !.old = FALSE]
    <3>2. /\ gone \in ClaimRow /\ gone.owner = k.owner /\ gone.channel = k.channel
          /\ gone.status = "failed"
      BY DEF ClaimRow
    <3>3. v1' = [v1 EXCEPT ![r] = gone]
      OBVIOUS
    <3> HIDE DEF gone
    <3>4. /\ v1' \in Seq(ClaimRow) /\ Len(v1') = Len(v1) /\ C!Ids' = C!Ids
          /\ \A s \in C!Ids : v1'[s].owner = v1[s].owner /\ v1'[s].channel = v1[s].channel
          /\ \A s \in C!Ids : v1'[s].status = "ready" => v1'[s].play
          /\ v1'[r] = gone /\ \A s \in C!Ids \ {r} : v1'[s] = v1[s]
          /\ \A n : C!OfChannel(n)' = C!OfChannel(n)
      BY <3>1, <3>2, <3>3, ClaimsRow
    <3> QED BY <3>1, <3>2, <3>4
  <2> QED BY <2>1, <2>2
<1>4. ClaimCalls(v3', v1') /\ v3'[c] = new /\ \A d \in CallsOf \ {c} : v3'[d] = v3[d]
  BY <1>1, <1>2, <1>3, ClaimsGoes
<1>5. ClaimsTyped'
  BY <1>2, <1>3, <1>4 DEF ClaimsInv, ClaimsTyped, ClaimCalls, C!Ids
<1>6. \A s, w : Sees(v1, v2, s, w) => Sees(v1', v2', s, w)
  BY <1>2, <1>3 DEF Sees, C!Ids
<1>7. C!FoundSeen'
  BY <1>1, <1>2, <1>4, <1>6, ClaimsKeep
<1>8. C!OneClaim'
  <2> SUFFICES ASSUME ~v5' PROVE C!OneClaim'
    BY DEF C!OneClaim
  <2>1. ~v5 /\ \A d \in CallsOf : v3[d].pc = "idle"
    BY <1>2
  <2>2. \A n : C!OfChannel(n) \subseteq C!Ids
    BY DEF C!OfChannel
  <2> QED BY <1>1, <1>3, <1>4, <2>1, <2>2 DEF ClaimsInv, C!OneClaim
<1> QED BY <1>5, <1>7, <1>8 DEF ClaimsInv

LEMMA ClaimsStep == ClaimsInv /\ C!Next => ClaimsInv'
BY ClaimsMoved, ClaimsLookFound, ClaimsLookMissed, ClaimsShare, ClaimsMake, ClaimsFail,
   ClaimsStart DEF C!Next, C!Ids

LEMMA ClaimsTold == ClaimsInv => C!AnswerIsVisible /\ C!ExtractedOnce
<1> SUFFICES ASSUME ClaimsInv PROVE C!AnswerIsVisible /\ C!ExtractedOnce
  OBVIOUS
<1>1. C!AnswerIsVisible
  BY DEF ClaimsInv, C!FoundSeen, C!Seen, C!AnswerIsVisible
<1>2. C!ExtractedOnce
  <2> SUFFICES ASSUME ~v5, NEW n \in 1 .. Channels
               PROVE  C!Cardinality({r \in C!OfChannel(n) : v1[r].status # "failed"}) <= 1
    BY DEF C!ExtractedOnce
  <2> DEFINE going == {r \in C!OfChannel(n) : v1[r].status # "failed"}
  <2>1. \A s, t \in going : s = t
    BY DEF ClaimsInv, C!OneClaim
  <2>2. C!Cardinality(going) = Cardinality(going)
    BY DEF C!Cardinality, Cardinality
  <2> HIDE DEF going
  <2>3. Cardinality(going) <= 1
    BY <2>1, AtMostOne
  <2> QED BY <2>2, <2>3 DEF going
<1> QED BY <1>1, <1>2

\* Each recording that requestOnDemandExtraction answers with is the user's own or
\* shared with the user; and of each channel of a match one recording at most has
\* not failed, unless claims overlapped, a failure was taken back, or a claim found
\* a recording uploaded and not yet processed.
THEOREM ClaimsShareAndExtract == Spec => []ClaimsAgree
<1> DEFINE Inv == which = "claims" => ClaimsInv
<1>1. Init => Inv
  BY ClaimsBegin DEF Init
<1>2. Inv /\ [Next]_vars => Inv'
  <2> SUFFICES ASSUME Inv, [Next]_vars, which' = "claims" PROVE ClaimsInv'
    OBVIOUS
  <2>1. CASE UNCHANGED vars
    BY <2>1 DEF vars, ClaimsInv, ClaimsTyped, C!FoundSeen, C!OneClaim, C!Seen, C!Ids,
                C!OfChannel, C!Channel
  <2>2. CASE Next
    <3>1. which = "claims" /\ C!Next
      BY <2>2 DEF Next
    <3> QED BY <3>1, ClaimsStep
  <2> QED BY <2>1, <2>2
<1>3. Inv => ClaimsAgree
  BY ClaimsTold DEF ClaimsAgree
<1> QED BY <1>1, <1>2, <1>3, PTL DEF Spec

-----------------------------------------------------------------------------
(* Highlights attached to an extracted recording: numbered, bucket,        *)
(* elsewhere, rows, video, call and meddled are v1 to v7.                  *)

AttachTyped == /\ v2 \subseteq H!Files /\ v3 \subseteq H!Times
               /\ v4 \in Seq(H!Row) /\ Len(v4) <= MaxClips /\ v5 \in BOOLEAN
               /\ v6 \in [CallsOf -> H!Call]
AttachInv == AttachTyped /\ H!AttachInStep /\ H!AttachedOnce

LEMMA AttachBounds == MaxTime \in Nat /\ Cams \in Nat \ {0} /\ MaxClips \in Nat
BY ServicesAssumption

\* A set of naturals has a least member.
\* The first of the files of one camera is one of them.
LEMMA AttachFirst ==
  ASSUME NEW files \in SUBSET H!Files, files # {}, NEW cam \in Nat,
         \A f \in files : f.cam = cam
  PROVE  H!First(files) \in files
<1> DEFINE times == {f.time : f \in files}
<1>1. times \in SUBSET Nat /\ times # {}
  BY AttachBounds DEF H!Files, H!Times
<1> HIDE DEF times
<1> PICK n \in times : \A m \in times : n <= m
  BY <1>1, Least
<1> USE DEF times
<1> PICK f \in files : n = f.time
  OBVIOUS
<1>2. \A g \in files : f.cam < g.cam \/ (f.cam = g.cam /\ f.time <= g.time)
  OBVIOUS
<1> HIDE DEF times
<1> QED BY <1>2 DEF H!First

\* The moment copied next is one of those to be copied.
LEMMA AttachLeast ==
  ASSUME NEW times \in SUBSET H!Times, times # {}
  PROVE  (CHOOSE x \in times : \A y \in times : x <= y) \in times
<1>1. times \in SUBSET Nat
  BY AttachBounds DEF H!Times
<1>2. \E x \in times : \A y \in times : x <= y
  BY <1>1, Least
<1> QED BY <1>2

\* The rows are numbered as they came, so that the last number is their number.
LEMMA AttachLast ==
  ASSUME AttachTyped, H!RowsInOrder
  PROVE  H!LastOrder = Len(v4)
<1> DEFINE orders == {v4[i].order : i \in DOMAIN v4}
<1>1. Len(v4) \in Nat /\ DOMAIN v4 = 1 .. Len(v4) /\ Len(v4) \in 0 .. MaxClips
  BY AttachBounds DEF AttachTyped
<1>2. orders = 1 .. Len(v4)
  BY <1>1 DEF H!RowsInOrder
<1> HIDE DEF orders
<1>3. ASSUME NEW len \in 0 .. MaxClips PROVE H!Greatest(1 .. len) = len
  <2>1. len \in (1 .. len) \cup {0} /\ \A m \in 1 .. len : m <= len
    BY AttachBounds
  <2>2. ASSUME NEW n \in 0 .. MaxClips, n \in (1 .. len) \cup {0},
               \A m \in 1 .. len : m <= n
        PROVE  n = len
    <3>1. n <= len
      BY <2>2
    <3>2. CASE len = 0
      BY <3>1, <3>2
    <3>3. CASE len # 0
      <4>1. len \in 1 .. len
        BY <3>3
      <4> QED BY <2>2, <3>1, <4>1
    <3> QED BY <3>2, <3>3
  <2> QED BY <2>1, <2>2 DEF H!Greatest
<1>4. H!Greatest(orders) = Len(v4)
  BY <1>1, <1>2, <1>3
<1> QED BY <1>4 DEF H!LastOrder, orders

LEMMA AttachIdle == H!Idle \in H!Call /\ H!Idle.pc = "idle"
<1> DEFINE window == CHOOSE w \in (0 .. MaxTime) \X (0 .. MaxTime) : TRUE
<1>1. window \in (0 .. MaxTime) \X (0 .. MaxTime)
  <2>1. <<0, 0>> \in (0 .. MaxTime) \X (0 .. MaxTime)
    BY AttachBounds
  <2> QED BY <2>1
<1>2. H!Idle = [pc |-> "idle", window |-> window, cam |-> 1,
                cache |-> {}, cached |-> FALSE, files |-> {}, known |-> {},
                times |-> {}, order |-> 0, video |-> FALSE, attached |-> FALSE]
  BY DEF H!Idle
<1> HIDE DEF window
<1> QED BY <1>1, <1>2, AttachBounds DEF H!Call

\* A state that no call is at: the rows and the files are what counts.
LEMMA AttachBegin == H!Init => AttachInv
<1> SUFFICES ASSUME H!Init PROVE AttachInv
  OBVIOUS
<1>1. v6 = [c \in CallsOf |-> H!Idle] /\ v2 = {} /\ v3 = {} /\ v4 = <<>>
      /\ v5 \in BOOLEAN
  BY DEF H!Init
<1>2. v6 \in [CallsOf -> H!Call] /\ \A c \in CallsOf : v6[c].pc = "idle"
  <2> HIDE DEF H!Idle
  <2> QED BY <1>1, AttachIdle
<1>3. v4 \in Seq(H!Row) /\ Len(v4) = 0 /\ DOMAIN v4 = {}
  BY <1>1
<1>4. AttachTyped
  BY <1>1, <1>2, <1>3, AttachBounds DEF AttachTyped
<1> QED BY <1>1, <1>2, <1>3, <1>4
        DEF AttachInv, H!AttachInStep, H!RowsInOrder, H!Active, H!AttachedOnce

\* A step of one call, when no other is under way.
LEMMA AttachGoes ==
  ASSUME AttachInv, NEW c \in CallsOf, NEW new \in H!Call,
         v6' = [v6 EXCEPT ![c] = new],
         v2' \subseteq H!Files, v3' \subseteq H!Times,
         v4' \in Seq(H!Row), Len(v4') <= MaxClips, v5' \in BOOLEAN,
         ~v7' => \A d \in CallsOf \ {c} : v6[d].pc = "idle",
         ~v7' => H!RowsInOrder' /\ H!AttachedOnce',
         ~v7' /\ new.pc # "idle" => H!InStep(new)'
  PROVE  AttachInv'
<1>1. v6' \in [CallsOf -> H!Call] /\ v6'[c] = new /\ \A d \in CallsOf \ {c} : v6'[d] = v6[d]
  BY DEF AttachInv, AttachTyped
<1>2. AttachTyped'
  BY <1>1 DEF AttachTyped
<1>3. H!AttachedOnce'
  BY DEF H!AttachedOnce
<1>4. ASSUME ~v7' PROVE /\ \A d, e \in CallsOf : H!Active(d)' /\ H!Active(e)' => d = e
                        /\ \A d \in CallsOf : H!Active(d)' => H!InStep(v6[d])'
  <2>1. \A d \in CallsOf : H!Active(d)' => d = c
    BY <1>1, <1>4 DEF H!Active
  <2>2. H!Active(c)' => H!InStep(v6[c])'
    BY <1>1, <1>4 DEF H!Active, H!InStep, H!Comes, H!InWindow
  <2> QED BY <2>1, <2>2
<1>5. H!AttachInStep'
  BY <1>4 DEF H!AttachInStep
<1> QED BY <1>2, <1>3, <1>5 DEF AttachInv

\* What is known when a step is taken: nothing has overlapped yet.
LEMMA AttachFacts ==
  ASSUME AttachInv, ~v7, NEW c \in CallsOf
  PROVE  /\ v6[c] \in H!Call /\ AttachTyped /\ H!RowsInOrder /\ H!AttachedOnce
         /\ v6[c].pc # "idle" =>
              H!InStep(v6[c]) /\ \A d \in CallsOf \ {c} : v6[d].pc = "idle"
         /\ Len(v4) \in Nat /\ DOMAIN v4 = 1 .. Len(v4)
BY DEF AttachInv, AttachTyped, H!AttachInStep, H!Active

LEMMA AttachRowsRest ==
  ASSUME AttachInv, ~v7, UNCHANGED <<v1, v2, v3, v4>>
  PROVE  H!RowsInOrder' /\ H!AttachedOnce'
BY DEF AttachInv, H!AttachInStep, H!RowsInOrder, H!AttachedOnce, H!Filmed

LEMMA AttachInStepStays ==
  ASSUME NEW k \in H!Call, H!InStep(k), UNCHANGED <<v2, v3, v4>>
  PROVE  H!InStep(k)'
BY DEF H!InStep, H!Keys, H!Filmed

\* One more row, of a file that is none yet or of a moment that has none.
LEMMA AttachAppend ==
  ASSUME AttachInv, ~v7, NEW new \in H!Row, Len(v4) < MaxClips, v4' = Append(v4, new),
         UNCHANGED <<v1, v2, v3>>, new.order = Len(v4) + 1,
         new.key = None => ~H!Filmed(new.time) /\ \A i \in DOMAIN v4 : v4[i].time # new.time,
         new.key # None => /\ new.key \in v2 /\ new.time = new.key.time
                           /\ \A i \in DOMAIN v4 : v4[i].key # new.key
  PROVE  /\ v4' \in Seq(H!Row) /\ Len(v4') = Len(v4) + 1 /\ Len(v4') <= MaxClips
         /\ DOMAIN v4' = DOMAIN v4 \cup {Len(v4) + 1}
         /\ \A i \in DOMAIN v4 : v4'[i] = v4[i]
         /\ v4'[Len(v4) + 1] = new
         /\ H!RowsInOrder' /\ H!AttachedOnce'
<1>1. v4 \in Seq(H!Row) /\ Len(v4) \in Nat /\ DOMAIN v4 = 1 .. Len(v4)
  BY DEF AttachInv, AttachTyped
<1>2. v4' \in Seq(H!Row) /\ Len(v4') = Len(v4) + 1 /\ Len(v4') <= MaxClips
  BY <1>1, AttachBounds
<1>3. DOMAIN v4' = 1 .. Len(v4) + 1
  BY <1>1, <1>2
<1>4. DOMAIN v4' = DOMAIN v4 \cup {Len(v4) + 1}
  BY <1>1, <1>3
<1>5. /\ \A i \in DOMAIN v4 : v4'[i] = v4[i]
      /\ v4'[Len(v4) + 1] = new
  BY <1>1
<1>6. H!RowsInOrder /\ H!AttachedOnce
  BY DEF AttachInv, H!AttachInStep
<1>7. ASSUME NEW t PROVE H!Filmed(t)' <=> H!Filmed(t)
  BY DEF H!Filmed
<1>8. H!RowsInOrder'
  BY <1>4, <1>5, <1>6, <1>7 DEF H!RowsInOrder
<1>9. ASSUME NEW i \in DOMAIN v4
      PROVE  /\ v4[i].order # new.order
             /\ v4[i].time = new.time =>
                  None \notin {v4[i].key, new.key} /\ v4[i].key # new.key
  <2>1. v4[i].order = i /\ i <= Len(v4)
    BY <1>1, <1>6 DEF H!RowsInOrder
  <2>2. ASSUME v4[i].time = new.time
        PROVE  None \notin {v4[i].key, new.key} /\ v4[i].key # new.key
    <3>1. new.key # None
      BY <2>2
    <3>2. H!Filmed(new.time)
      BY <3>1 DEF H!Filmed
    <3> QED BY <1>6, <2>2, <3>1, <3>2 DEF H!RowsInOrder
  <2> QED BY <1>1, <2>1, <2>2
<1>10. H!AttachedOnce'
  <2> SUFFICES ASSUME NEW i \in DOMAIN v4', NEW j \in DOMAIN v4', i # j
               PROVE  /\ v4'[i].order # v4'[j].order
                      /\ v4'[i].time = v4'[j].time =>
                           None \notin {v4'[i].key, v4'[j].key} /\ v4'[i].key # v4'[j].key
    BY DEF H!AttachedOnce
  <2>1. CASE i \in DOMAIN v4 /\ j \in DOMAIN v4
    BY <1>5, <1>6, <2>1 DEF H!AttachedOnce
  <2>2. CASE i \in DOMAIN v4 /\ j = Len(v4) + 1
    BY <1>5, <1>9, <2>2
  <2>3. CASE i = Len(v4) + 1 /\ j \in DOMAIN v4
    BY <1>5, <1>9, <2>3
  <2> QED BY <1>4, <2>1, <2>2, <2>3
<1> QED BY <1>2, <1>4, <1>5, <1>8, <1>10

\* The files that are rows are files.
LEMMA AttachKeys ==
  ASSUME AttachTyped
  PROVE  H!Keys \in SUBSET H!Files
<1>1. \A i \in DOMAIN v4 : v4[i] \in H!Row
  BY DEF AttachTyped
<1> QED BY <1>1 DEF H!Keys, H!Row

LEMMA AttachStart ==
  ASSUME AttachInv, ~v7, NEW c \in CallsOf, NEW w \in (0 .. MaxTime) \X (0 .. MaxTime),
         NEW heals \in BOOLEAN, H!Attach(c, w, heals)
  PROVE  AttachInv'
<1> DEFINE cache == IF heals THEN v2 ELSE {}
           cam == IF v1 THEN 1 ELSE Cams + 1
           pc == IF v1 THEN "list" ELSE "again"
<1> PICK new : new = [H!Idle EXCEPT !.window = w, !.cam = cam, !.pc = pc,
                        !.cached = heals, !.cache = cache, !.known = H!Keys,
                        !.order = Len(v4), !.video = v5]
  OBVIOUS
<1>1. /\ AttachTyped /\ H!RowsInOrder /\ Len(v4) \in Nat
      /\ H!LastOrder = Len(v4) /\ H!Keys \in SUBSET H!Files
  BY AttachFacts, AttachLast, AttachKeys
<1>2. /\ cache \in SUBSET H!Files /\ cache \subseteq v2 /\ cam \in 1 .. Cams + 1
      /\ pc \in {"list", "again"} /\ Len(v4) \in 0 .. MaxClips /\ v5 \in BOOLEAN
  <2>1. cache \in SUBSET H!Files /\ cache \subseteq v2 /\ pc \in {"list", "again"}
    BY <1>1 DEF AttachTyped
  <2>2. cam \in 1 .. Cams + 1
    BY AttachBounds
  <2>3. Len(v4) \in 0 .. MaxClips /\ v5 \in BOOLEAN
    BY <1>1, AttachBounds DEF AttachTyped
  <2> QED BY <2>1, <2>2, <2>3
<1>3. v6' = [v6 EXCEPT ![c] = new] /\ UNCHANGED <<v1, v2, v3, v4, v5>>
      /\ v7' = (v7 \/ \E d \in CallsOf \ {c} : H!Active(d))
  BY <1>1 DEF H!Attach, H!Go, H!Meddles, H!Keys
<1>4. /\ pc = "list" => v1 /\ cam = 1
      /\ heals => cache = v2
  OBVIOUS
<1> HIDE DEF cache, cam, pc
<1>5. /\ new \in H!Call /\ new.window = w /\ new.cam = cam /\ new.pc = pc
      /\ new.cached = heals /\ new.cache = cache /\ new.known = H!Keys
      /\ new.order = Len(v4)
  BY <1>1, <1>2, AttachIdle DEF H!Idle, H!Call
<1>6. ~v7' => \A d \in CallsOf \ {c} : v6[d].pc = "idle"
  BY <1>3 DEF H!Active
<1>7. H!RowsInOrder' /\ H!AttachedOnce'
  BY <1>3, AttachRowsRest
<1>8. H!InStep(new)
  <2>1. ASSUME NEW t \in v3, H!Filmed(t)
        PROVE  \E f \in v2 : f.time = t /\ H!Comes(new, f)
    <3> PICK f \in v2 : f.time = t
      BY <2>1 DEF H!Filmed
    <3>1. v1
      BY <1>1, <2>1 DEF H!RowsInOrder
    <3>2. f.cam >= 1
      BY <1>1 DEF AttachTyped, H!Files
    <3>3. pc = "list" /\ cam = 1
      BY <3>1 DEF pc, cam
    <3> QED BY <1>4, <1>5, <3>2, <3>3 DEF H!Comes
  <2>2. pc = "list" => cam <= Cams
    BY <1>4, AttachBounds
  <2> QED BY <1>2, <1>5, <2>1, <2>2 DEF H!InStep
<1>9. H!InStep(new)'
  BY <1>3, <1>5, <1>8, AttachInStepStays
<1>10. v2' \subseteq H!Files /\ v3' \subseteq H!Times /\ v4' \in Seq(H!Row)
       /\ Len(v4') <= MaxClips /\ v5' \in BOOLEAN
  BY <1>1, <1>3 DEF AttachTyped
<1> QED BY <1>3, <1>5, <1>6, <1>7, <1>9, <1>10, AttachGoes

LEMMA AttachPress ==
  ASSUME AttachInv, ~v7, NEW c \in CallsOf, H!Press(c)
  PROVE  AttachInv'
<1> PICK new : new = [H!Idle EXCEPT !.pc = "press", !.order = Len(v4), !.video = v5]
  OBVIOUS
<1>1. /\ AttachTyped /\ H!RowsInOrder /\ Len(v4) \in Nat /\ H!LastOrder = Len(v4)
  BY AttachFacts, AttachLast
<1>2. Len(v4) \in 0 .. MaxClips /\ v5 \in BOOLEAN
  BY <1>1, AttachBounds DEF AttachTyped
<1>3. v6' = [v6 EXCEPT ![c] = new] /\ UNCHANGED <<v1, v2, v3, v4, v5>>
      /\ v7' = (v7 \/ \E d \in CallsOf \ {c} : H!Active(d))
  BY <1>1 DEF H!Press, H!Go, H!Meddles
<1>4. new \in H!Call /\ new.pc = "press" /\ new.order = Len(v4) /\ new.cache = {}
  BY <1>2, AttachIdle DEF H!Idle, H!Call
<1>5. ~v7' => \A d \in CallsOf \ {c} : v6[d].pc = "idle"
  BY <1>3 DEF H!Active
<1>6. H!RowsInOrder' /\ H!AttachedOnce'
  BY <1>3, AttachRowsRest
<1>7. H!InStep(new)'
  BY <1>3, <1>4 DEF H!InStep
<1>8. v2' \subseteq H!Files /\ v3' \subseteq H!Times /\ v4' \in Seq(H!Row)
      /\ Len(v4') <= MaxClips /\ v5' \in BOOLEAN
  BY <1>1, <1>3 DEF AttachTyped
<1> QED BY <1>3, <1>4, <1>5, <1>6, <1>7, <1>8, AttachGoes

\* A step of a call that leaves the rows alone.
LEMMA AttachQuiet ==
  ASSUME AttachInv, ~v7, NEW c \in CallsOf, NEW new \in H!Call,
         v6[c].pc # "idle", v6' = [v6 EXCEPT ![c] = new],
         UNCHANGED <<v1, v2, v3, v4, v5, v7>>, new.pc # "idle" => H!InStep(new)
  PROVE  AttachInv'
<1>1. new.pc # "idle" => H!InStep(new)'
  BY DEF H!InStep, H!Keys, H!Filmed
<1>2. H!RowsInOrder' /\ H!AttachedOnce'
  BY AttachRowsRest
<1>3. \A d \in CallsOf \ {c} : v6[d].pc = "idle"
  BY AttachFacts
<1>4. v2' \subseteq H!Files /\ v3' \subseteq H!Times /\ v4' \in Seq(H!Row)
      /\ Len(v4') <= MaxClips /\ v5' \in BOOLEAN
  BY DEF AttachInv, AttachTyped
<1> QED BY <1>1, <1>2, <1>3, <1>4, AttachGoes

LEMMA AttachFail ==
  ASSUME AttachInv, ~v7, NEW c \in CallsOf, H!Fail(c)
  PROVE  AttachInv'
BY AttachIdle, AttachQuiet DEF H!Fail, H!Return, H!Go, H!Active

\* The files of a camera are listed, or it has none that is no row yet.
LEMMA AttachList ==
  ASSUME AttachInv, ~v7, NEW c \in CallsOf, H!List(c)
  PROVE  AttachInv'
<1> PICK k \in H!Call : k = v6[c]
  BY AttachFacts
<1> DEFINE listed == IF k.cached THEN k.cache ELSE v2
           found == {f \in listed : /\ f.cam = k.cam
                                    /\ H!InWindow(k.window, f.time)
                                    /\ f \notin k.known}
<1>1. /\ k.pc = "list" /\ H!InStep(k) /\ AttachTyped /\ UNCHANGED <<v1, v2, v3, v4, v5, v7>>
  BY AttachFacts DEF H!List
<1>2. /\ listed \in SUBSET v2 /\ v2 \subseteq H!Files /\ k.cam <= Cams
      /\ k.cam \in 1 .. Cams + 1 /\ k.known = H!Keys
  BY <1>1 DEF H!InStep, AttachTyped, H!Call
<1>3. ASSUME NEW f \in v2, f.cam = k.cam, H!Comes(k, f), H!InWindow(k.window, f.time)
      PROVE  f \in k.known \/ f \in found
  BY <1>1, <1>3 DEF H!Comes
<1>4. ASSUME NEW t \in v3, H!InWindow(k.window, t), H!Filmed(t)
      PROVE  \E f \in v2 : f.time = t /\ H!Comes(k, f)
  BY <1>1, <1>4 DEF H!InStep
<1>5. CASE found # {}
  <2> PICK new : new = [k EXCEPT !.pc = "file", !.files = found]
    OBVIOUS
  <2>1. v6' = [v6 EXCEPT ![c] = new]
    BY <1>5 DEF H!List, H!Go
  <2>2. found \in SUBSET v2 /\ \A f \in found : f.cam = k.cam /\ f \notin k.known
    BY <1>2
  <2> HIDE DEF found
  <2>3. /\ new \in H!Call /\ new.pc = "file" /\ new.files = found
        /\ new.cam = k.cam /\ new.known = k.known /\ new.cached = k.cached
        /\ new.cache = k.cache /\ new.window = k.window /\ new.order = k.order
    BY <1>2, <2>2 DEF H!Call
  <2>4. ASSUME NEW t \in v3, H!InWindow(k.window, t), H!Filmed(t)
        PROVE  \E f \in v2 : f.time = t /\ H!Comes(new, f)
    <3> PICK f \in v2 : f.time = t /\ H!Comes(k, f)
      BY <1>4, <2>4
    <3>1. f.cam \in Nat /\ k.cam \in Nat
      BY <1>2, AttachBounds DEF H!Files
    <3>2. CASE f.cam = k.cam
      BY <1>3, <2>3, <2>4, <3>2 DEF H!Comes
    <3>3. CASE f.cam # k.cam
      BY <1>1, <2>3, <3>1, <3>3 DEF H!Comes
    <3> QED BY <3>2, <3>3
  <2>5. H!InStep(new)
    BY <1>1, <1>2, <1>5, <2>2, <2>3, <2>4 DEF H!InStep
  <2> QED BY <1>1, <2>1, <2>3, <2>5, AttachQuiet
<1>6. CASE found = {}
  <2> DEFINE pc == IF k.cam = Cams THEN "again" ELSE "list"
  <2> PICK new : new = [k EXCEPT !.cam = k.cam + 1, !.pc = pc]
    OBVIOUS
  <2>1. v6' = [v6 EXCEPT ![c] = new]
    BY <1>6 DEF H!List, H!Go
  <2>2. pc \in {"again", "list"} /\ (pc = "again" <=> k.cam = Cams)
    OBVIOUS
  <2>3. k.cam + 1 \in 1 .. Cams + 1 /\ k.cam \in Nat /\ Cams \in Nat
    BY <1>2, AttachBounds
  <2> HIDE DEF pc
  <2>4. /\ new \in H!Call /\ new.pc = pc /\ new.cam = k.cam + 1
        /\ new.known = k.known /\ new.cached = k.cached
        /\ new.cache = k.cache /\ new.window = k.window /\ new.order = k.order
    BY <2>2, <2>3 DEF H!Call
  <2>5. ASSUME NEW t \in v3, H!InWindow(k.window, t), H!Filmed(t)
        PROVE  \E f \in v2 : f.time = t /\ H!Comes(new, f)
    <3> PICK f \in v2 : f.time = t /\ H!Comes(k, f)
      BY <1>4, <2>5
    <3>1. f.cam \in 1 .. Cams
      BY <1>2 DEF H!Files
    <3>2. CASE f \in k.known
      BY <2>4, <3>2 DEF H!Comes
    <3>3. CASE f \notin k.known
      <4>1. f.cam >= k.cam /\ (k.cached => f \in k.cache)
        BY <1>1, <3>3 DEF H!Comes
      <4>2. f.cam # k.cam
        BY <1>3, <1>6, <2>5, <3>3
      <4>3. f.cam >= k.cam + 1 /\ k.cam # Cams
        BY <2>3, <3>1, <4>1, <4>2
      <4> QED BY <2>2, <2>4, <4>1, <4>3 DEF H!Comes
    <3> QED BY <3>2, <3>3
  <2>6. pc = "list" => k.cam + 1 <= Cams
    BY <1>2, <2>2, <2>3
  <2>7. H!InStep(new)
    BY <1>1, <1>2, <2>2, <2>4, <2>5, <2>6 DEF H!InStep
  <2> QED BY <1>1, <2>1, <2>4, <2>7, AttachQuiet
<1> QED BY <1>5, <1>6

\* A file of the camera that is listed becomes a row.
LEMMA AttachFile ==
  ASSUME AttachInv, ~v7, NEW c \in CallsOf, H!AttachFile(c)
  PROVE  AttachInv'
<1> PICK k \in H!Call : k = v6[c]
  BY AttachFacts
<1> DEFINE f == H!First(k.files)
           last == k.files = {f}
           cam == IF last THEN k.cam + 1 ELSE k.cam
           pc == IF ~last THEN "file" ELSE IF k.cam = Cams THEN "again" ELSE "list"
           row == [key |-> f, time |-> f.time, order |-> k.order + 1, status |-> "ready"]
<1> PICK new : new = [k EXCEPT !.files = k.files \ {f}, !.known = k.known \cup {f},
                        !.order = k.order + 1, !.attached = TRUE, !.cam = cam, !.pc = pc]
  OBVIOUS
<1>1. /\ k.pc = "file" /\ H!InStep(k) /\ AttachTyped /\ H!RowsInOrder
      /\ Len(v4) < MaxClips /\ Len(v4) \in Nat /\ DOMAIN v4 = 1 .. Len(v4)
      /\ \A d \in CallsOf \ {c} : v6[d].pc = "idle"
      /\ v4' = Append(v4, row)
      /\ UNCHANGED <<v1, v2, v3, v5, v7>>
      /\ v6' = [v6 EXCEPT ![c] = new]
  BY AttachFacts DEF H!AttachFile, H!Go, H!RowFor
<1>2. /\ k.files \in SUBSET v2 /\ k.files # {} /\ v2 \subseteq H!Files /\ k.order = Len(v4)
      /\ k.cam \in 1 .. Cams /\ k.known = H!Keys /\ k.files \in SUBSET H!Files
      /\ \A g \in k.files : g \notin k.known /\ g.cam = k.cam
  <2>1. k.cam \in 1 .. Cams + 1 /\ k.cam <= Cams /\ k.files \in SUBSET H!Files
    BY <1>1 DEF H!InStep, H!Call
  <2>2. k.cam \in 1 .. Cams
    BY <2>1, AttachBounds
  <2> QED BY <1>1, <2>1, <2>2 DEF H!InStep, AttachTyped
<1>3. f \in k.files
  <2> HIDE DEF f, last, cam, pc
  <2>1. k.cam \in Nat
    <3>1. k.cam \in 1 .. Cams
      BY <1>2
    <3> QED BY <3>1, AttachBounds
  <2>2. H!First(k.files) \in k.files
    BY <1>2, <2>1, AttachFirst
  <2> QED BY <2>2 DEF f
<1>4. /\ cam \in 1 .. Cams + 1 /\ cam >= k.cam /\ (~last => cam = k.cam)
      /\ (last => cam = k.cam + 1)
      /\ pc \in {"file", "again", "list"} /\ (pc = "file" <=> ~last)
      /\ (pc = "again" => last /\ k.cam = Cams) /\ (pc = "list" => last /\ k.cam < Cams)
  <2> HIDE DEF f, last
  <2>1. k.cam \in Nat /\ Cams \in Nat /\ k.cam >= 1 /\ k.cam <= Cams
    BY <1>2, AttachBounds
  <2>2. CASE last
    <3>1. cam = k.cam + 1 /\ pc = IF k.cam = Cams THEN "again" ELSE "list"
      BY <2>2
    <3> HIDE DEF cam, pc
    <3> QED BY <2>1, <2>2, <3>1
  <2>3. CASE ~last
    <3>1. cam = k.cam /\ pc = "file"
      BY <2>3
    <3> HIDE DEF cam, pc
    <3> QED BY <2>1, <2>3, <3>1
  <2> QED BY <2>2, <2>3
<1>5. last => k.files \subseteq {f}
  OBVIOUS
<1>6. ~last => k.files \ {f} # {}
  BY <1>2
<1> HIDE DEF f, last, cam, pc
<1>7. f \in H!Files /\ f \in v2 /\ f.time \in H!Times /\ f # None
  BY <1>2, <1>3, NoFile DEF H!Files
<1>8. row \in H!Row
  BY <1>1, <1>2, <1>7, AttachBounds DEF H!Row
<1>9. /\ row.order = Len(v4) + 1 /\ row.key = f /\ row.time = f.time
  BY <1>2
<1> HIDE DEF row
<1>10. \A i \in DOMAIN v4 : v4[i].key # f
  BY <1>2, <1>3, <1>7 DEF H!Keys
<1>11. /\ v4' \in Seq(H!Row) /\ Len(v4') = Len(v4) + 1 /\ Len(v4') <= MaxClips
       /\ DOMAIN v4' = DOMAIN v4 \cup {Len(v4) + 1}
       /\ \A i \in DOMAIN v4 : v4'[i] = v4[i]
       /\ v4'[Len(v4) + 1] = row
       /\ H!RowsInOrder' /\ H!AttachedOnce'
  BY <1>1, <1>7, <1>8, <1>9, <1>10, AttachAppend
<1>12. H!Keys' = H!Keys \cup {f}
  BY <1>7, <1>9, <1>11 DEF H!Keys
<1>13. /\ new \in H!Call /\ new.pc = pc /\ new.files = k.files \ {f}
       /\ new.known = k.known \cup {f} /\ new.order = k.order + 1 /\ new.cam = cam
       /\ new.cached = k.cached /\ new.cache = k.cache /\ new.window = k.window
  <2>1. k.order + 1 \in 0 .. MaxClips
    BY <1>1, <1>2, AttachBounds
  <2>2. /\ k.files \ {f} \in SUBSET H!Files /\ k.known \cup {f} \in SUBSET H!Files
        /\ pc \in {"file", "again", "list"} /\ cam \in 1 .. Cams + 1
    BY <1>2, <1>4, <1>7 DEF H!Call
  <2> QED BY <2>1, <2>2 DEF H!Call
<1>14. H!InStep(new)'
  <2>1. ASSUME NEW t \in v3', H!InWindow(new.window, t), H!Filmed(t)'
        PROVE  \E g \in v2' : g.time = t /\ H!Comes(new, g)
    <3> PICK g \in v2 : g.time = t /\ H!Comes(k, g)
      BY <1>1, <1>13, <2>1 DEF H!InStep, H!Filmed
    <3>1. CASE g \in k.known \cup {f}
      BY <1>1, <1>13, <3>1 DEF H!Comes
    <3>2. CASE g \notin k.known \cup {f} /\ g \in k.files
      <4>1. pc = "file" /\ g \in new.files
        BY <1>4, <1>5, <1>13, <3>2
      <4> QED BY <1>1, <1>13, <4>1 DEF H!Comes
    <3>3. CASE g \notin k.known \cup {f} /\ g \notin k.files
      <4>1. g.cam > k.cam /\ (k.cached => g \in k.cache) /\ g.cam \in 1 .. Cams
        BY <1>1, <1>2, <3>3 DEF H!Comes, H!Files
      <4>2. pc # "again"
        BY <1>2, <1>4, <4>1
      <4>3. pc = "list" => g.cam >= cam
        BY <1>2, <1>4, <4>1
      <4>4. pc = "file" => g.cam > cam
        BY <1>4, <4>1
      <4> QED BY <1>1, <1>4, <1>13, <4>1, <4>2, <4>3, <4>4 DEF H!Comes
    <3> QED BY <3>1, <3>2, <3>3
  <2>2. pc \in {"list", "file"} => cam <= Cams
    <3>1. k.cam \in Nat /\ Cams \in Nat /\ k.cam <= Cams
      BY <1>2, AttachBounds
    <3> QED BY <1>4, <3>1
  <2>3. pc = "file" => /\ new.files # {}
                       /\ \A g \in new.files : g \in v2' \ new.known /\ g.cam = new.cam
    BY <1>1, <1>2, <1>4, <1>6, <1>13
  <2>4. new.order = Len(v4') /\ new.cache \subseteq v2' /\ new.known = H!Keys'
    BY <1>1, <1>2, <1>11, <1>12, <1>13 DEF H!InStep
  <2>5. new.pc # "copy"
    BY <1>4, <1>13
  <2> QED BY <1>13, <2>1, <2>2, <2>3, <2>4, <2>5 DEF H!InStep
<1>15. v2' \subseteq H!Files /\ v3' \subseteq H!Times /\ v5' \in BOOLEAN
  BY <1>1 DEF AttachTyped
<1> QED BY <1>1, <1>11, <1>13, <1>14, <1>15, AttachGoes

\* The presses of other recordings that are not here, and of which no file is.
LEMMA AttachRead ==
  ASSUME AttachInv, ~v7, NEW c \in CallsOf, H!ReadElsewhere(c)
  PROVE  AttachInv'
<1> PICK k \in H!Call : k = v6[c]
  BY AttachFacts
<1> DEFINE times == {t \in v3 : H!InWindow(k.window, t)} \ {v4[i].time : i \in DOMAIN v4}
<1> PICK new : new = [k EXCEPT !.pc = "copy", !.order = Len(v4), !.times = times]
  OBVIOUS
<1>1. /\ k.pc = "again" /\ H!InStep(k) /\ AttachTyped /\ H!RowsInOrder
      /\ Len(v4) \in Nat /\ DOMAIN v4 = 1 .. Len(v4)
      /\ UNCHANGED <<v1, v2, v3, v4, v5, v7>>
      /\ H!LastOrder = Len(v4)
  BY AttachFacts, AttachLast DEF H!ReadElsewhere
<1>2. v6' = [v6 EXCEPT ![c] = new]
  BY <1>1 DEF H!ReadElsewhere, H!Go, H!Existing
<1>3. times \in SUBSET v3 /\ v3 \subseteq H!Times /\ Len(v4) \in 0 .. MaxClips
  BY <1>1, AttachBounds DEF AttachTyped
<1>4. ASSUME NEW t \in times PROVE ~H!Filmed(t) /\ \A i \in DOMAIN v4 : v4[i].time # t
  <2>1. ASSUME H!Filmed(t) PROVE FALSE
    <3> PICK f \in v2 : f.time = t /\ f \in k.known
      BY <1>1, <2>1 DEF H!InStep, H!Comes
    <3> PICK i \in DOMAIN v4 : v4[i].key = f /\ f # None
      BY <1>1 DEF H!InStep, H!Keys
    <3>1. v4[i].time = t
      BY <1>1 DEF H!RowsInOrder
    <3> QED BY <3>1
  <2> QED BY <2>1
<1> HIDE DEF times
<1>5. /\ new \in H!Call /\ new.pc = "copy" /\ new.order = Len(v4) /\ new.times = times
      /\ new.cache = k.cache
  BY <1>3 DEF H!Call
<1>6. H!InStep(new)
  BY <1>1, <1>3, <1>4, <1>5 DEF H!InStep
<1> QED BY <1>1, <1>2, <1>5, <1>6, AttachQuiet

LEMMA AttachCopy ==
  ASSUME AttachInv, ~v7, NEW c \in CallsOf, H!Copy(c)
  PROVE  AttachInv'
<1> PICK k \in H!Call : k = v6[c]
  BY AttachFacts
<1> PICK t : t = CHOOSE x \in k.times : \A y \in k.times : x <= y
  OBVIOUS
<1> PICK row : row = [key |-> None, time |-> t, order |-> k.order + 1, status |-> "pending"]
  OBVIOUS
<1> PICK new : new = [k EXCEPT !.times = k.times \ {t}, !.order = k.order + 1,
                               !.attached = TRUE]
  OBVIOUS
<1>1. /\ k.pc = "copy" /\ H!InStep(k) /\ AttachTyped /\ k.times # {}
      /\ Len(v4) < MaxClips /\ Len(v4) \in Nat /\ DOMAIN v4 = 1 .. Len(v4)
      /\ \A d \in CallsOf \ {c} : v6[d].pc = "idle"
      /\ v4' = Append(v4, row)
      /\ UNCHANGED <<v1, v2, v3, v5, v7>>
      /\ v6' = [v6 EXCEPT ![c] = new]
  BY AttachFacts DEF H!Copy, H!Go, H!RowFor
<1>2. k.times \in SUBSET H!Times /\ k.order = Len(v4)
  BY <1>1 DEF H!InStep, H!Call
<1>3. t \in k.times
  BY <1>1, <1>2, AttachLeast
<1>4. /\ row \in H!Row /\ row.order = Len(v4) + 1 /\ row.key = None /\ row.time = t
  BY <1>1, <1>2, <1>3, AttachBounds DEF H!Row
<1>5. ~H!Filmed(t) /\ \A i \in DOMAIN v4 : v4[i].time # t
  BY <1>1, <1>3 DEF H!InStep
<1>6. /\ v4' \in Seq(H!Row) /\ Len(v4') = Len(v4) + 1 /\ Len(v4') <= MaxClips
      /\ DOMAIN v4' = DOMAIN v4 \cup {Len(v4) + 1}
      /\ \A i \in DOMAIN v4 : v4'[i] = v4[i]
      /\ v4'[Len(v4) + 1] = row
      /\ H!RowsInOrder' /\ H!AttachedOnce'
  BY <1>1, <1>4, <1>5, AttachAppend
<1>7. /\ new \in H!Call /\ new.pc = "copy" /\ new.times = k.times \ {t}
      /\ new.order = k.order + 1 /\ new.cache = k.cache
  <2>1. k.order + 1 \in 0 .. MaxClips /\ k.times \ {t} \in SUBSET H!Times
    BY <1>1, <1>2, AttachBounds
  <2> QED BY <1>1, <2>1 DEF H!Call
<1>8. H!InStep(new)'
  <2>1. ASSUME NEW x \in new.times
        PROVE  ~H!Filmed(x)' /\ \A i \in DOMAIN v4' : v4'[i].time # x
    BY <1>1, <1>4, <1>6, <1>7, <2>1 DEF H!InStep, H!Filmed
  <2>2. new.times \subseteq v3' /\ new.order = Len(v4') /\ new.cache \subseteq v2'
    BY <1>1, <1>2, <1>6, <1>7 DEF H!InStep
  <2> QED BY <1>7, <2>1, <2>2 DEF H!InStep
<1>9. v2' \subseteq H!Files /\ v3' \subseteq H!Times /\ v5' \in BOOLEAN
  BY <1>1 DEF AttachTyped
<1> QED BY <1>1, <1>6, <1>7, <1>8, <1>9, AttachGoes

LEMMA AttachQueue ==
  ASSUME AttachInv, ~v7, NEW c \in CallsOf, H!Queue(c)
  PROVE  AttachInv'
<1> PICK queued \in BOOLEAN :
      v4' = [i \in DOMAIN v4 |-> IF queued /\ v4[i].status = "pending"
                                 THEN [v4[i] EXCEPT !.status = "queued"] ELSE v4[i]]
  BY AttachFacts DEF H!Queue, H!Call
<1>1. /\ AttachTyped /\ H!RowsInOrder /\ H!AttachedOnce
      /\ Len(v4) \in Nat /\ DOMAIN v4 = 1 .. Len(v4)
      /\ \A d \in CallsOf \ {c} : v6[d].pc = "idle"
      /\ UNCHANGED <<v1, v2, v3, v5, v7>>
  BY AttachFacts DEF H!Queue
<1> PICK new : new = H!Idle
  OBVIOUS
<1>2. v6' = [v6 EXCEPT ![c] = new] /\ new \in H!Call /\ new.pc = "idle"
  BY AttachIdle DEF H!Queue, H!Return, H!Go
<1>3. \A i \in DOMAIN v4 : v4[i] \in H!Row
  BY <1>1 DEF AttachTyped
<1>4. /\ DOMAIN v4' = DOMAIN v4
      /\ \A i \in DOMAIN v4 : /\ v4'[i] \in H!Row /\ v4'[i].key = v4[i].key
                              /\ v4'[i].time = v4[i].time /\ v4'[i].order = v4[i].order
  BY <1>3 DEF H!Row
<1>5. v4' \in Seq(H!Row) /\ Len(v4') = Len(v4) /\ Len(v4') <= MaxClips
  BY <1>1, <1>4 DEF AttachTyped
<1>6. H!RowsInOrder' /\ H!AttachedOnce'
  BY <1>1, <1>4 DEF H!RowsInOrder, H!AttachedOnce, H!Filmed
<1>7. v2' \subseteq H!Files /\ v3' \subseteq H!Times /\ v5' \in BOOLEAN
  BY <1>1 DEF AttachTyped
<1> QED BY <1>1, <1>2, <1>5, <1>6, <1>7, AttachGoes

\* createActiveHighlight's row: a press of a moment that has nothing yet.
LEMMA AttachPressed ==
  ASSUME AttachInv, ~v7, NEW c \in CallsOf, H!Pressed(c)
  PROVE  AttachInv'
<1> PICK k \in H!Call : k = v6[c]
  BY AttachFacts
<1> PICK t \in H!Times, status \in {"pending", "queued"} :
      /\ H!Fresh(t)
      /\ v4' = Append(v4, [key |-> None, time |-> t, order |-> k.order + 1, status |-> status])
  BY DEF H!Pressed, H!RowFor
<1> PICK row : row = [key |-> None, time |-> t, order |-> k.order + 1, status |-> status]
  OBVIOUS
<1> PICK new : new = H!Idle
  OBVIOUS
<1>1. /\ k.pc = "press" /\ H!InStep(k) /\ AttachTyped
      /\ Len(v4) < MaxClips /\ Len(v4) \in Nat /\ DOMAIN v4 = 1 .. Len(v4)
      /\ \A d \in CallsOf \ {c} : v6[d].pc = "idle"
      /\ v4' = Append(v4, row)
      /\ UNCHANGED <<v1, v2, v3, v5, v7>>
  BY AttachFacts DEF H!Pressed
<1>2. v6' = [v6 EXCEPT ![c] = new] /\ new \in H!Call /\ new.pc = "idle"
  BY AttachIdle DEF H!Pressed, H!Return, H!Go
<1>3. k.order = Len(v4)
  BY <1>1 DEF H!InStep
<1>4. /\ row \in H!Row /\ row.order = Len(v4) + 1 /\ row.key = None /\ row.time = t
  BY <1>1, <1>3, AttachBounds DEF H!Row
<1>5. ~H!Filmed(t) /\ \A i \in DOMAIN v4 : v4[i].time # t
  BY DEF H!Fresh, H!Filmed
<1>6. /\ v4' \in Seq(H!Row) /\ Len(v4') = Len(v4) + 1 /\ Len(v4') <= MaxClips
      /\ H!RowsInOrder' /\ H!AttachedOnce'
  BY <1>1, <1>4, <1>5, AttachAppend
<1>7. v2' \subseteq H!Files /\ v3' \subseteq H!Times /\ v5' \in BOOLEAN
  BY <1>1 DEF AttachTyped
<1> QED BY <1>1, <1>2, <1>6, <1>7, AttachGoes

\* What goes on elsewhere.
LEMMA AttachRests ==
  ASSUME AttachInv, ~v7, UNCHANGED <<v4, v6>>, v2 \subseteq v2',
         v2' \subseteq H!Files, v3' \subseteq H!Times, v5' \in BOOLEAN,
         ~v7' => H!RowsInOrder',
         ~v7' => \A c \in CallsOf : H!Active(c) => H!InStep(v6[c])'
  PROVE  AttachInv'
<1>1. AttachTyped'
  BY DEF AttachInv, AttachTyped
<1>2. H!AttachedOnce'
  BY DEF AttachInv, H!AttachedOnce
<1>3. H!AttachInStep'
  BY DEF AttachInv, H!AttachInStep, H!Active
<1> QED BY <1>1, <1>2, <1>3 DEF AttachInv

LEMMA AttachElsewhere ==
  ASSUME AttachInv, ~v7, NEW t \in H!Times, H!PressElsewhere(t)
  PROVE  AttachInv'
<1>1. /\ AttachTyped /\ H!RowsInOrder /\ ~H!Filmed(t)
      /\ v3' = v3 \cup {t} /\ UNCHANGED <<v1, v2, v4, v5, v6, v7>>
  BY DEF AttachInv, H!AttachInStep, H!PressElsewhere, H!Fresh, H!Filmed
<1>2. ASSUME NEW x PROVE H!Filmed(x)' <=> H!Filmed(x)
  BY <1>1 DEF H!Filmed
<1>3. H!RowsInOrder'
  BY <1>1, <1>2 DEF H!RowsInOrder
<1>4. ASSUME NEW c \in CallsOf, H!Active(c) PROVE H!InStep(v6[c])'
  <2> PICK k \in H!Call : k = v6[c]
    BY <1>1 DEF AttachTyped
  <2>1. H!InStep(k)
    BY <1>4 DEF AttachInv, H!AttachInStep
  <2>2. H!InStep(k)'
    BY <1>1, <1>2, <2>1 DEF H!InStep, H!Keys
  <2> QED BY <1>1, <2>2
<1>5. v2 \subseteq v2' /\ v2' \subseteq H!Files /\ v3' \subseteq H!Times /\ v5' \in BOOLEAN
  BY <1>1 DEF AttachTyped
<1> QED BY <1>1, <1>3, <1>4, <1>5, AttachRests

LEMMA AttachUpload ==
  ASSUME AttachInv, ~v7, NEW f \in H!Files, H!Upload(f)
  PROVE  AttachInv'
<1>1. /\ AttachTyped /\ H!RowsInOrder
      /\ H!Fresh(f.time) \/ H!Filmed(f.time)
      /\ v2' = v2 \cup {f} /\ UNCHANGED <<v1, v3, v4, v5, v6, v7>>
  BY DEF AttachInv, H!AttachInStep, H!Upload, H!Filmed
<1>2. ASSUME NEW t, H!Filmed(t)'
      PROVE  H!Filmed(t) \/ (t \notin v3 /\ \A i \in DOMAIN v4 : v4[i].time # t)
  BY <1>1, <1>2 DEF H!Filmed, H!Fresh
<1>3. H!RowsInOrder'
  BY <1>1, <1>2 DEF H!RowsInOrder
<1>4. ASSUME NEW c \in CallsOf, H!Active(c) PROVE H!InStep(v6[c])'
  <2> PICK k \in H!Call : k = v6[c]
    BY <1>1 DEF AttachTyped
  <2>1. H!InStep(k)
    BY <1>4 DEF AttachInv, H!AttachInStep
  <2>2. H!InStep(k)'
    BY <1>1, <1>2, <2>1 DEF H!InStep, H!Keys
  <2> QED BY <1>1, <2>2
<1>5. v2 \subseteq v2' /\ v2' \subseteq H!Files /\ v3' \subseteq H!Times /\ v5' \in BOOLEAN
  BY <1>1 DEF AttachTyped
<1> QED BY <1>1, <1>3, <1>4, <1>5, AttachRests

LEMMA AttachOther ==
  ASSUME AttachInv, ~v7, NEW f \in H!Files, H!AttachedElsewhere(f)
  PROVE  AttachInv'
<1>1. /\ AttachTyped /\ H!RowsInOrder /\ v1 /\ f.time \in H!Times
      /\ v3' = v3 \cup {f.time} /\ UNCHANGED <<v1, v2, v4, v5, v6>>
      /\ ~v7' => \A c \in CallsOf : ~H!Active(c)
  BY DEF AttachInv, H!AttachInStep, H!AttachedElsewhere, H!Files
<1>2. ASSUME NEW x PROVE H!Filmed(x)' <=> H!Filmed(x)
  BY <1>1 DEF H!Filmed
<1>3. H!RowsInOrder'
  BY <1>1, <1>2 DEF H!RowsInOrder
<1>4. v2 \subseteq v2' /\ v2' \subseteq H!Files /\ v3' \subseteq H!Times /\ v5' \in BOOLEAN
  BY <1>1 DEF AttachTyped
<1> QED BY <1>1, <1>3, <1>4, AttachRests

LEMMA AttachVideo ==
  ASSUME AttachInv, ~v7, H!VideoReady
  PROVE  AttachInv'
<1>1. /\ AttachTyped /\ v5' = TRUE /\ UNCHANGED <<v1, v2, v3, v4, v6, v7>>
  BY DEF AttachInv, H!VideoReady
<1>2. H!RowsInOrder'
  BY <1>1, AttachRowsRest
<1>3. ASSUME NEW c \in CallsOf, H!Active(c) PROVE H!InStep(v6[c])'
  <2> PICK k \in H!Call : k = v6[c]
    BY <1>1 DEF AttachTyped
  <2>1. H!InStep(k)
    BY <1>3 DEF AttachInv, H!AttachInStep
  <2>2. H!InStep(k)'
    BY <1>1, <2>1, AttachInStepStays
  <2> QED BY <1>1, <2>2
<1>4. v2 \subseteq v2' /\ v2' \subseteq H!Files /\ v3' \subseteq H!Times /\ v5' \in BOOLEAN
  BY <1>1 DEF AttachTyped
<1> QED BY <1>1, <1>2, <1>3, <1>4, AttachRests

LEMMA AttachStep == AttachInv /\ H!Next => AttachInv'
<1> SUFFICES ASSUME AttachInv, H!Next PROVE AttachInv'
  OBVIOUS
<1>1. ~v7
  BY DEF H!Next
<1>2. CASE H!VideoReady \/ \E t \in H!Times : H!PressElsewhere(t)
  BY <1>1, <1>2, AttachVideo, AttachElsewhere
<1>3. CASE \E f \in H!Files : H!Upload(f) \/ H!AttachedElsewhere(f)
  BY <1>1, <1>3, AttachUpload, AttachOther
<1>4. ASSUME NEW c \in CallsOf, H!CallStep(c) PROVE AttachInv'
  <2>1. CASE H!List(c) \/ H!AttachFile(c) \/ H!ReadElsewhere(c) \/ H!Copy(c)
    BY <1>1, <2>1, AttachList, AttachFile, AttachRead, AttachCopy
  <2>2. CASE H!Queue(c) \/ H!Fail(c) \/ H!Press(c) \/ H!Pressed(c)
    BY <1>1, <2>2, AttachQueue, AttachFail, AttachPress, AttachPressed
  <2>3. CASE \E w \in (0 .. MaxTime) \X (0 .. MaxTime), heals \in BOOLEAN :
               H!Attach(c, w, heals)
    BY <1>1, <2>3, AttachStart
  <2> QED BY <1>4, <2>1, <2>2, <2>3 DEF H!CallStep
<1> QED BY <1>2, <1>3, <1>4 DEF H!Next

-----------------------------------------------------------------------------
(* The gap heal: rec, bucket, clip, heal, revived and lost are v1 to v6.   *)

GapTyped == /\ v1 \in [1 .. MaxHealed -> Gap!Row] /\ v4 \in [CallsOf -> Gap!Heal]
            /\ v3 \in [1 .. MaxHealed -> {"none", "waiting", "made"}]
            /\ v5 \subseteq 1 .. MaxHealed
HasTodo(k) == k.pc \in {"clear", "find", "remove"} => k.todo # {}
GapGood(k) == HasTodo(k) /\ Gap!FailedStill(k) /\ Gap!Spares(k)
GapPlain == /\ v6 \subseteq v5
            /\ \A r \in (1 .. MaxHealed) \ v5 :
                 /\ v1[r].status = "ready" => v1[r].video
                 /\ v1[r].status = "extracting" => v1[r].upload \/ v1[r].video
GapInv == GapTyped /\ GapPlain /\ \A c \in CallsOf : GapGood(v4[c])

LEMMA GapAt ==
  ASSUME NEW recs \in SUBSET (1 .. MaxHealed), recs # {}
  PROVE  Gap!Latest(recs) \in recs
<1>1. \E n \in recs : \A m \in recs : m <= n
  BY ServicesAssumption, Greatest
<1> QED BY <1>1 DEF Gap!Latest

LEMMA GapAtCall ==
  ASSUME NEW k \in Gap!Heal, HasTodo(k), k.pc \in {"clear", "find", "remove"}
  PROVE  Gap!Latest(k.todo) \in k.todo /\ Gap!Latest(k.todo) \in 1 .. MaxHealed
BY GapAt DEF HasTodo, Gap!Heal

LEMMA GapIdle == Gap!Idle \in Gap!Heal /\ Gap!Idle.pc = "idle" /\ GapGood(Gap!Idle)
BY DEF Gap!Idle, Gap!Heal, GapGood, HasTodo, Gap!FailedStill, Gap!Spares, Gap!Clears

LEMMA GapBegin == Gap!Init => GapInv
<1> SUFFICES ASSUME Gap!Init PROVE GapInv
  OBVIOUS
<1>1. /\ v1 = [r \in 1 .. MaxHealed |-> [status |-> "extracting", video |-> FALSE,
                                         upload |-> TRUE]]
      /\ v3 = [r \in 1 .. MaxHealed |-> "none"] /\ v4 = [c \in CallsOf |-> Gap!Idle]
      /\ v5 = {} /\ v6 = {}
  BY DEF Gap!Init
<1>2. GapPlain
  BY <1>1 DEF GapPlain
<1>3. v1 \in [1 .. MaxHealed -> Gap!Row]
  BY <1>1 DEF Gap!Row
<1> HIDE DEF Gap!Idle
<1>4. GapTyped
  BY <1>1, <1>3, GapIdle DEF GapTyped
<1> QED BY <1>1, <1>2, <1>4, GapIdle DEF GapInv

\* What holds of a heal speaks of the rows, the highlights and who came back.
LEMMA GapSame ==
  ASSUME NEW k \in Gap!Heal, GapGood(k), UNCHANGED <<v1, v3, v5>>
  PROVE  GapGood(k)'
BY DEF GapGood, HasTodo, Gap!FailedStill, Gap!Spares

\* One heal moves, and the rows and highlights change only in ways that the others
\* stand.
LEMMA GapGoes ==
  ASSUME GapInv, NEW c \in CallsOf, NEW new \in Gap!Heal, v4' = [v4 EXCEPT ![c] = new],
         v1' \in [1 .. MaxHealed -> Gap!Row],
         v3' \in [1 .. MaxHealed -> {"none", "waiting", "made"}],
         v5' = v5, GapPlain', GapGood(new)',
         \A k \in Gap!Heal : GapGood(k) => GapGood(k)'
  PROVE  GapInv'
<1>1. v4' \in [CallsOf -> Gap!Heal] /\ v4'[c] = new /\ \A d \in CallsOf \ {c} : v4'[d] = v4[d]
  BY DEF GapInv, GapTyped
<1>2. ASSUME NEW d \in CallsOf PROVE GapGood(v4[d])'
  <2>1. CASE d = c
    BY <1>1, <2>1 DEF GapGood, HasTodo, Gap!FailedStill, Gap!Spares
  <2>2. CASE d # c
    <3> PICK k \in Gap!Heal : k = v4[d]
      BY DEF GapInv, GapTyped
    <3>1. GapGood(k)'
      BY DEF GapInv
    <3>2. v4'[d] = k
      BY <1>1, <2>2
    <3> QED BY <3>1, <3>2 DEF GapGood, HasTodo, Gap!FailedStill, Gap!Spares
  <2> QED BY <2>1, <2>2
<1>3. GapTyped'
  BY <1>1 DEF GapInv, GapTyped
<1> QED BY <1>2, <1>3 DEF GapInv

LEMMA GapMoves ==
  ASSUME GapInv, NEW c \in CallsOf, NEW new \in Gap!Heal, v4' = [v4 EXCEPT ![c] = new],
         UNCHANGED <<v1, v3, v5, v6>>, GapGood(new)
  PROVE  GapInv'
<1>1. \A k \in Gap!Heal : GapGood(k) => GapGood(k)'
  BY GapSame
<1>2. GapPlain'
  BY DEF GapInv, GapPlain
<1> QED BY <1>1, <1>2, GapGoes DEF GapInv, GapTyped

LEMMA GapIdles ==
  ASSUME GapInv, NEW c \in CallsOf, v4' = [v4 EXCEPT ![c] = Gap!Idle],
         UNCHANGED <<v1, v3, v5, v6>>
  PROVE  GapInv'
BY GapIdle, GapMoves

LEMMA GapStart ==
  ASSUME GapInv, NEW c \in CallsOf, Gap!Start(c)
  PROVE  GapInv'
<1> PICK new : new = [Gap!Idle EXCEPT !.pc = "list", !.failed = Gap!Failed,
                                      !.todo = Gap!Failed]
  OBVIOUS
<1>1. v4' = [v4 EXCEPT ![c] = new] /\ UNCHANGED <<v1, v3, v5, v6>>
  BY DEF Gap!Start, Gap!Go
<1>2. Gap!Failed \in SUBSET (1 .. MaxHealed) /\ \A r \in Gap!Failed : v1[r].status = "failed"
  BY DEF Gap!Failed
<1> HIDE DEF Gap!Failed
<1>3. /\ new \in Gap!Heal /\ new.pc = "list" /\ new.failed = Gap!Failed
      /\ new.todo = Gap!Failed /\ new.since = {}
  BY <1>2 DEF Gap!Idle, Gap!Heal
<1>4. GapGood(new)
  BY <1>2, <1>3 DEF GapGood, HasTodo, Gap!FailedStill, Gap!Spares, Gap!Clears
<1> QED BY <1>1, <1>3, <1>4, GapMoves

LEMMA GapDelete ==
  ASSUME GapInv, NEW c \in CallsOf, Gap!DeleteFiles(c)
  PROVE  GapInv'
<1> PICK k \in Gap!Heal : k = v4[c]
  BY DEF GapInv, GapTyped
<1> PICK new : new = [k EXCEPT !.pc = "clear"]
  OBVIOUS
<1>1. /\ v4' = [v4 EXCEPT ![c] = new] /\ UNCHANGED <<v1, v3, v5, v6>>
      /\ k.pc = "list" /\ k.todo # {}
  BY DEF Gap!DeleteFiles, Gap!Go
<1>2. /\ new \in Gap!Heal /\ new.pc = "clear" /\ new.failed = k.failed
      /\ new.todo = k.todo /\ new.since = k.since
  BY DEF Gap!Heal
<1>3. GapGood(k)
  BY DEF GapInv
<1>4. GapGood(new)
  BY <1>1, <1>2, <1>3 DEF GapGood, HasTodo, Gap!FailedStill, Gap!Spares, Gap!Clears
<1> QED BY <1>1, <1>2, <1>4, GapMoves

LEMMA GapFind ==
  ASSUME GapInv, NEW c \in CallsOf, Gap!FindOrphans(c)
  PROVE  GapInv'
<1> PICK k \in Gap!Heal : k = v4[c]
  BY DEF GapInv, GapTyped
<1> PICK orphan \in BOOLEAN : orphan <=> v3[Gap!Latest(k.todo)] = "waiting"
  OBVIOUS
<1> PICK new : new = [k EXCEPT !.pc = "remove", !.orphan = orphan]
  OBVIOUS
<1>1. /\ v4' = [v4 EXCEPT ![c] = new] /\ UNCHANGED <<v1, v3, v5, v6>>
      /\ k.pc = "find"
  BY DEF Gap!FindOrphans, Gap!Go, Gap!At
<1>2. /\ new \in Gap!Heal /\ new.pc = "remove" /\ new.failed = k.failed
      /\ new.todo = k.todo /\ new.since = k.since /\ new.orphan = orphan
  BY DEF Gap!Heal
<1>3. GapGood(k)
  BY DEF GapInv
<1>4. GapGood(new)
  BY <1>1, <1>2, <1>3 DEF GapGood, HasTodo, Gap!FailedStill, Gap!Spares, Gap!Clears
<1> QED BY <1>1, <1>2, <1>4, GapMoves

LEMMA GapOthers ==
  ASSUME GapInv, NEW c \in CallsOf, Gap!Others(c)
  PROVE  GapInv'
<1> PICK k \in Gap!Heal : k = v4[c]
  BY DEF GapInv, GapTyped
<1> PICK new : new = [k EXCEPT !.pc = "attach", !.todo = (1 .. MaxHealed) \ k.failed]
  OBVIOUS
<1>1. /\ v4' = [v4 EXCEPT ![c] = new] /\ UNCHANGED <<v1, v3, v5, v6>>
      /\ k.pc = "list" /\ k.todo = {}
  BY DEF Gap!Others, Gap!Go
<1>2. /\ new \in Gap!Heal /\ new.pc = "attach" /\ new.failed = k.failed
      /\ new.since = k.since
  BY DEF Gap!Heal
<1>3. GapGood(k)
  BY DEF GapInv
<1>4. GapGood(new)
  BY <1>1, <1>2, <1>3 DEF GapGood, HasTodo, Gap!FailedStill, Gap!Spares, Gap!Clears
<1> QED BY <1>1, <1>2, <1>4, GapMoves

\* The row is cleared; its status stays.
LEMMA GapClear ==
  ASSUME GapInv, NEW c \in CallsOf, Gap!ClearRow(c)
  PROVE  GapInv'
<1> PICK k \in Gap!Heal : k = v4[c]
  BY DEF GapInv, GapTyped
<1> PICK r : r = Gap!Latest(k.todo)
  OBVIOUS
<1> PICK new : new = [k EXCEPT !.pc = "find"]
  OBVIOUS
<1>1. /\ v4' = [v4 EXCEPT ![c] = new] /\ UNCHANGED <<v3, v5, v6>> /\ k.pc = "clear"
      /\ v1' = [v1 EXCEPT ![r].video = FALSE, ![r].upload = FALSE]
  BY DEF Gap!ClearRow, Gap!Go, Gap!At
<1>2. GapGood(k) /\ GapTyped /\ GapPlain
  BY DEF GapInv
<1>3. r \in k.todo /\ r \in 1 .. MaxHealed
  BY <1>1, <1>2, GapAtCall DEF GapGood
<1>4. /\ v1' \in [1 .. MaxHealed -> Gap!Row]
      /\ \A s \in 1 .. MaxHealed : v1'[s].status = v1[s].status
      /\ \A s \in (1 .. MaxHealed) \ {r} : v1'[s] = v1[s]
      /\ ~v1'[r].video /\ ~v1'[r].upload
  <2> PICK row \in Gap!Row : row = v1[r]
    BY <1>2, <1>3 DEF GapTyped
  <2> PICK cleared : cleared = [row EXCEPT !.video = FALSE, !.upload = FALSE]
    OBVIOUS
  <2>1. /\ cleared \in Gap!Row /\ cleared.status = row.status
        /\ ~cleared.video /\ ~cleared.upload
    BY DEF Gap!Row
  <2>2. v1' = [v1 EXCEPT ![r] = cleared]
    BY <1>1, <1>2, <1>3 DEF GapTyped, Gap!Row
  <2> QED BY <1>2, <1>3, <2>1, <2>2 DEF GapTyped
<1>5. ASSUME NEW j \in Gap!Heal, GapGood(j) PROVE GapGood(j)'
  <2>1. j.failed \in SUBSET (1 .. MaxHealed) /\ j.todo \in SUBSET (1 .. MaxHealed)
    BY DEF Gap!Heal
  <2>2. j.pc \in {"find", "remove"} => Gap!Latest(j.todo) \in 1 .. MaxHealed
    BY <1>5, GapAtCall DEF GapGood
  <2>3. Gap!Spares(j)'
    BY <1>1, <1>4, <1>5, <2>1 DEF GapGood, Gap!Spares
  <2>4. Gap!FailedStill(j)'
    BY <1>1, <1>4, <1>5, <2>1, <2>2 DEF GapGood, Gap!FailedStill
  <2> QED BY <1>5, <2>3, <2>4 DEF GapGood, HasTodo
<1>6. /\ new \in Gap!Heal /\ new.pc = "find" /\ new.failed = k.failed
      /\ new.todo = k.todo /\ new.since = k.since
  BY DEF Gap!Heal
<1>7. GapGood(new)'
  <2>1. GapGood(k)'
    BY <1>2, <1>5
  <2> QED BY <1>1, <1>4, <1>6, <2>1
          DEF GapGood, HasTodo, Gap!FailedStill, Gap!Spares, Gap!Clears
<1>8. GapPlain'
  <2>1. r \in v5 \/ v1[r].status = "failed"
    BY <1>1, <1>2, <1>3 DEF GapGood, Gap!FailedStill, Gap!Clears
  <2> QED BY <1>1, <1>2, <1>4, <2>1 DEF GapPlain
<1>9. v3' \in [1 .. MaxHealed -> {"none", "waiting", "made"}]
  BY <1>1, <1>2 DEF GapTyped
<1> QED BY <1>1, <1>4, <1>5, <1>6, <1>7, <1>8, <1>9, GapGoes

\* A highlight found waiting is deleted, whoever has found it too.
LEMMA GapRemove ==
  ASSUME GapInv, NEW c \in CallsOf, Gap!RemoveOrphans(c)
  PROVE  GapInv'
<1> PICK k \in Gap!Heal : k = v4[c]
  BY DEF GapInv, GapTyped
<1> PICK r : r = Gap!Latest(k.todo)
  OBVIOUS
<1> PICK new : new = [k EXCEPT !.pc = "list", !.todo = k.todo \ {r}, !.orphan = FALSE]
  OBVIOUS
<1>1. /\ k.pc = "remove" /\ UNCHANGED <<v1, v5>>
      /\ v3' = [v3 EXCEPT ![r] = IF k.orphan THEN "none" ELSE @]
      /\ v6' = IF k.orphan /\ v3[r] = "made" THEN v6 \cup {r} ELSE v6
  BY DEF Gap!RemoveOrphans, Gap!At
<1>2. GapGood(k) /\ GapTyped /\ GapPlain
  BY DEF GapInv
<1>3. r \in k.todo /\ r \in 1 .. MaxHealed
  BY <1>1, <1>2, GapAtCall DEF GapGood
<1>4. /\ v3' \in [1 .. MaxHealed -> {"none", "waiting", "made"}]
      /\ \A s \in (1 .. MaxHealed) \ {r} : v3'[s] = v3[s]
      /\ k.orphan => v3'[r] = "none"
      /\ ~k.orphan => v3' = v3
  BY <1>1, <1>2, <1>3 DEF GapTyped
<1>5. /\ new \in Gap!Heal /\ new.pc = "list" /\ new.failed = k.failed
      /\ new.todo = k.todo \ {r} /\ new.since = k.since
  BY DEF Gap!Heal
<1>6. GapGood(new)'
  <2>1. k.todo \in SUBSET (1 .. MaxHealed) /\ k.failed \in SUBSET (1 .. MaxHealed)
    BY DEF Gap!Heal
  <2>2. k.todo \subseteq k.failed /\ \A s \in k.todo \ v5 : v1[s].status = "failed"
    BY <1>1, <1>2 DEF GapGood, Gap!FailedStill, Gap!Clears
  <2>3. Gap!FailedStill(new)'
    BY <1>1, <1>5, <2>2 DEF Gap!FailedStill
  <2>4. r \notin k.since => ~v1[r].video /\ ~v1[r].upload /\ v3'[r] # "waiting"
    BY <1>1, <1>2, <1>4 DEF GapGood, Gap!FailedStill, Gap!Clears
  <2>5. ASSUME NEW s \in k.failed \ k.since, s \notin k.todo
        PROVE  ~v1[s].video /\ ~v1[s].upload /\ v3[s] # "waiting"
    BY <1>1, <1>2, <2>5 DEF GapGood, Gap!Spares, Gap!Clears
  <2>6. ASSUME NEW s \in new.failed \ new.since, s \notin new.todo
        PROVE  ~v1'[s].video /\ ~v1'[s].upload /\ v3'[s] # "waiting"
    <3>1. CASE s = r
      BY <1>1, <1>5, <2>4, <2>6, <3>1
    <3>2. CASE s # r
      BY <1>1, <1>4, <1>5, <2>1, <2>5, <2>6, <3>2
    <3> QED BY <3>1, <3>2
  <2>7. Gap!Spares(new)'
    BY <1>5, <2>6 DEF Gap!Spares, Gap!Clears
  <2> QED BY <1>5, <2>3, <2>7 DEF GapGood, HasTodo
<1>7. ASSUME NEW d \in CallsOf, d # c
      PROVE  v4'[d] \in Gap!Heal /\ GapGood(v4[d])'
  <2> PICK j \in Gap!Heal : j = v4[d]
    BY <1>2 DEF GapTyped
  <2> PICK i : i = v4'[d]
    OBVIOUS
  <2>1. GapGood(j)
    BY DEF GapInv
  <2>2. i = IF k.orphan /\ j.pc = "remove" /\ Gap!Latest(j.todo) = r
            THEN [j EXCEPT !.orphan = FALSE] ELSE j
    BY <1>2, <1>7 DEF Gap!RemoveOrphans, Gap!At, GapTyped
  <2>3. /\ i \in Gap!Heal /\ i.pc = j.pc /\ i.failed = j.failed /\ i.todo = j.todo
        /\ i.since = j.since
        /\ k.orphan /\ j.pc = "remove" /\ Gap!Latest(j.todo) = r => ~i.orphan
        /\ Gap!Latest(j.todo) # r \/ ~k.orphan => i.orphan = j.orphan
    BY <2>2 DEF Gap!Heal
  <2>4. j.pc = "remove" => Gap!Latest(j.todo) \in 1 .. MaxHealed
    BY <2>1, GapAtCall DEF GapGood
  <2>5. Gap!FailedStill(i)'
    <3>1. CASE k.orphan /\ Gap!Latest(j.todo) = r
      BY <1>1, <1>4, <2>1, <2>3, <3>1 DEF GapGood, Gap!FailedStill, Gap!Clears
    <3>2. CASE Gap!Latest(j.todo) # r \/ ~k.orphan
      <4>1. j.pc = "remove" => v3'[Gap!Latest(j.todo)] = v3[Gap!Latest(j.todo)]
        BY <1>4, <2>4, <3>2
      <4> QED BY <1>1, <2>1, <2>3, <3>2, <4>1 DEF GapGood, Gap!FailedStill, Gap!Clears
    <3> QED BY <3>1, <3>2
  <2>6. Gap!Spares(i)'
    <3>1. j.failed \in SUBSET (1 .. MaxHealed)
      BY DEF Gap!Heal
    <3>2. \A s \in j.failed : v3[s] # "waiting" => v3'[s] # "waiting"
      BY <1>4, <3>1
    <3> QED BY <1>1, <2>1, <2>3, <3>2 DEF GapGood, Gap!Spares, Gap!Clears
  <2>7. GapGood(i)'
    BY <2>1, <2>3, <2>5, <2>6 DEF GapGood, HasTodo
  <2> QED BY <2>3, <2>7 DEF GapGood, HasTodo, Gap!FailedStill, Gap!Spares
<1>8. v4'[c] = new /\ v4' = [d \in CallsOf |-> v4'[d]]
  BY <1>2 DEF Gap!RemoveOrphans, Gap!At, GapTyped
<1>9. GapGood(v4[c])'
  BY <1>6, <1>8 DEF GapGood, HasTodo, Gap!FailedStill, Gap!Spares
<1>10. GapTyped'
  BY <1>1, <1>2, <1>4, <1>5, <1>7, <1>8 DEF GapTyped
<1>11. GapPlain'
  <2>1. k.orphan /\ v3[r] = "made" => r \in v5
    BY <1>1, <1>2 DEF GapGood, Gap!FailedStill, Gap!Clears
  <2> QED BY <1>1, <1>2, <2>1 DEF GapPlain
<1> QED BY <1>7, <1>9, <1>10, <1>11 DEF GapInv

LEMMA GapAttach ==
  ASSUME GapInv, NEW c \in CallsOf, Gap!AttachNext(c)
  PROVE  GapInv'
<1> PICK k \in Gap!Heal : k = v4[c]
  BY DEF GapInv, GapTyped
<1> PICK r : r = Gap!Latest(k.todo)
  OBVIOUS
<1> PICK new : new = [k EXCEPT !.todo = k.todo \ {r}]
  OBVIOUS
<1>1. /\ v4' = [v4 EXCEPT ![c] = new] /\ UNCHANGED <<v1, v5, v6>>
      /\ k.pc = "attach" /\ k.todo # {}
      /\ v3' = v3 \/ (v3[r] = "none" /\ v3' = [v3 EXCEPT ![r] = "made"])
  BY DEF Gap!AttachNext, Gap!Go, Gap!At
<1>2. GapGood(k) /\ GapTyped /\ GapPlain
  BY DEF GapInv
<1>3. r \in 1 .. MaxHealed
  BY <1>1, GapAt DEF Gap!Heal
<1>4. /\ v3' \in [1 .. MaxHealed -> {"none", "waiting", "made"}]
      /\ \A s \in 1 .. MaxHealed : v3'[s] = v3[s] \/ (v3[s] = "none" /\ v3'[s] = "made")
  BY <1>1, <1>2, <1>3 DEF GapTyped
<1>5. ASSUME NEW j \in Gap!Heal, GapGood(j) PROVE GapGood(j)'
  <2>1. j.failed \in SUBSET (1 .. MaxHealed)
    BY DEF Gap!Heal
  <2>2. j.pc = "remove" => Gap!Latest(j.todo) \in 1 .. MaxHealed
    BY <1>5, GapAtCall DEF GapGood
  <2>3. Gap!Spares(j)'
    BY <1>1, <1>4, <1>5, <2>1 DEF GapGood, Gap!Spares
  <2>4. Gap!FailedStill(j)'
    BY <1>1, <1>4, <1>5, <2>2 DEF GapGood, Gap!FailedStill
  <2> QED BY <1>5, <2>3, <2>4 DEF GapGood, HasTodo
<1>6. /\ new \in Gap!Heal /\ new.pc = "attach" /\ new.failed = k.failed
      /\ new.since = k.since
  BY <1>1 DEF Gap!Heal
<1>7. GapGood(new)'
  <2>1. GapGood(k)'
    BY <1>2, <1>5
  <2> QED BY <1>1, <1>6, <2>1 DEF GapGood, HasTodo, Gap!FailedStill, Gap!Spares, Gap!Clears
<1>8. GapPlain'
  BY <1>1, <1>2 DEF GapPlain
<1>9. v1' \in [1 .. MaxHealed -> Gap!Row]
  BY <1>1, <1>2 DEF GapTyped
<1> QED BY <1>1, <1>4, <1>5, <1>6, <1>7, <1>8, <1>9, GapGoes

\* What changes is noted by every heal under way.
LEMMA GapChanges ==
  ASSUME GapInv, NEW r \in 1 .. MaxHealed, Gap!Changed(r),
         v1' \in [1 .. MaxHealed -> Gap!Row],
         v3' \in [1 .. MaxHealed -> {"none", "waiting", "made"}],
         v5' \subseteq 1 .. MaxHealed, v5 \subseteq v5', GapPlain',
         \A s \in (1 .. MaxHealed) \ {r} : v1'[s] = v1[s] /\ v3'[s] = v3[s],
         v3'[r] = v3[r] \/ v3[r] = "none",
         \A k \in Gap!Heal : GapGood(k) /\ Gap!Clears(k) /\ r \in k.todo
                             /\ (\E c \in CallsOf : v4[c] = k) =>
           r \in v5' \/ v1'[r].status = "failed"
  PROVE  GapInv'
<1>1. ASSUME NEW c \in CallsOf PROVE v4'[c] \in Gap!Heal /\ GapGood(v4[c])'
  <2> PICK k \in Gap!Heal : k = v4[c]
    BY DEF GapInv, GapTyped
  <2> PICK new : new = v4'[c]
    OBVIOUS
  <2>1. GapGood(k)
    BY DEF GapInv
  <2>2. CASE k.pc = "idle"
    <3>1. new = k
      BY <2>2 DEF Gap!Changed
    <3>2. GapGood(new)'
      BY <2>1, <2>2, <3>1 DEF GapGood, HasTodo, Gap!FailedStill, Gap!Spares, Gap!Clears
    <3> QED BY <3>1, <3>2 DEF GapGood, HasTodo, Gap!FailedStill, Gap!Spares
  <2>3. CASE k.pc # "idle"
    <3>1. new = [k EXCEPT !.since = k.since \cup {r}]
      BY <2>3 DEF Gap!Changed
    <3>2. /\ new \in Gap!Heal /\ new.pc = k.pc /\ new.failed = k.failed
          /\ new.todo = k.todo /\ new.orphan = k.orphan /\ new.since = k.since \cup {r}
      BY <3>1 DEF Gap!Heal
    <3>3. k.failed \in SUBSET (1 .. MaxHealed) /\ k.todo \in SUBSET (1 .. MaxHealed)
      BY DEF Gap!Heal
    <3>4. k.pc \in {"find", "remove"} => Gap!Latest(k.todo) \in 1 .. MaxHealed
      BY <2>1, GapAtCall DEF GapGood
    <3>5. Gap!Spares(new)'
      BY <2>1, <3>2, <3>3 DEF GapGood, Gap!Spares, Gap!Clears
    <3>6. Gap!FailedStill(new)'
      <4> SUFFICES ASSUME Gap!Clears(new) PROVE Gap!FailedStill(new)'
        BY DEF Gap!FailedStill
      <4> PICK at : at = Gap!Latest(k.todo)
        OBVIOUS
      <4>1. Gap!Clears(k) /\ k.todo \subseteq k.failed
            /\ \A s \in k.todo \ v5 : v1[s].status = "failed"
        BY <2>1, <3>2 DEF GapGood, Gap!FailedStill, Gap!Clears
      <4>2. \A s \in k.todo \ v5' : v1'[s].status = "failed"
        BY <2>1, <3>3, <4>1
      <4>3. k.pc \in {"find", "remove"} /\ at \notin new.since =>
              ~v1'[at].video /\ ~v1'[at].upload
        BY <2>1, <3>2, <3>4, <4>1 DEF GapGood, Gap!FailedStill
      <4>4. k.pc = "remove" /\ k.orphan =>
              v3'[at] = "waiting" \/ (v3'[at] = "made" /\ at \in v5')
        BY <2>1, <3>4, <4>1 DEF GapGood, Gap!FailedStill
      <4>5. k.pc = "remove" /\ at \notin new.since /\ v3'[at] = "waiting" => k.orphan
        BY <2>1, <3>2, <3>4, <4>1 DEF GapGood, Gap!FailedStill
      <4> QED BY <3>2, <4>1, <4>2, <4>3, <4>4, <4>5 DEF Gap!FailedStill
    <3>7. GapGood(new)'
      BY <2>1, <3>2, <3>5, <3>6 DEF GapGood, HasTodo
    <3> QED BY <3>2, <3>7 DEF GapGood, HasTodo, Gap!FailedStill, Gap!Spares
  <2> QED BY <2>2, <2>3
<1>2. v4' \in [CallsOf -> Gap!Heal]
  BY <1>1 DEF Gap!Changed
<1> QED BY <1>1, <1>2 DEF GapInv, GapTyped

\* A recording that comes back while it has to be cleared is noted.
LEMMA GapComesBack ==
  ASSUME GapInv, NEW r \in 1 .. MaxHealed, v1[r].status = "failed" => Gap!Revives(r)
  PROVE  \A k \in Gap!Heal : GapGood(k) /\ Gap!Clears(k) /\ r \in k.todo
                             /\ (\E c \in CallsOf : v4[c] = k) =>
           r \in v5 \/ r \in v5'
<1> SUFFICES ASSUME NEW c \in CallsOf, GapGood(v4[c]), Gap!Clears(v4[c]), r \in v4[c].todo,
                    r \notin v5
             PROVE  r \in v5'
  OBVIOUS
<1>1. v1[r].status = "failed"
  BY DEF GapGood, Gap!FailedStill
<1> QED BY <1>1 DEF Gap!Revives, Gap!Clearing

LEMMA GapRow ==
  ASSUME GapInv, NEW r \in 1 .. MaxHealed,
         Gap!Retry(r) \/ Gap!Ingest(r) \/ Gap!Ready(r) \/ Gap!GiveUp(r)
  PROVE  GapInv'
<1>1. GapTyped /\ GapPlain /\ UNCHANGED <<v3, v6>> /\ Gap!Changed(r)
  BY DEF GapInv, Gap!Retry, Gap!Ingest, Gap!Ready, Gap!GiveUp
<1> PICK row \in Gap!Row : row = v1[r]
  BY <1>1 DEF GapTyped
<1>2. \E new \in Gap!Row :
        /\ v1' = [v1 EXCEPT ![r] = new]
        /\ new.status = "ready" => new.video
        /\ new.status = "extracting" => new.upload \/ new.video
        /\ Gap!GiveUp(r) => new.status = "failed"
  <2>1. CASE Gap!Retry(r)
    <3> PICK new : new = [status |-> "extracting", video |-> FALSE, upload |-> TRUE]
      OBVIOUS
    <3>1. new \in Gap!Row /\ new.status = "extracting" /\ new.upload
      BY DEF Gap!Row
    <3>2. v1' = [v1 EXCEPT ![r] = new] /\ row.status = "failed"
      BY <2>1 DEF Gap!Retry
    <3> QED BY <3>1, <3>2 DEF Gap!GiveUp
  <2>2. CASE Gap!Ingest(r)
    <3> PICK new : new = [row EXCEPT !.status = "extracting", !.video = TRUE]
      OBVIOUS
    <3>1. /\ new \in Gap!Row /\ new.status = "extracting" /\ new.video
      BY DEF Gap!Row
    <3>2. v1' = [v1 EXCEPT ![r] = new]
      BY <1>1, <2>2 DEF Gap!Ingest, GapTyped, Gap!Row
    <3>3. ~Gap!GiveUp(r)
      <4>1. v1'[r].status = "extracting"
        BY <1>1, <3>1, <3>2 DEF GapTyped
      <4>2. Gap!GiveUp(r) => v1'[r].status = "failed"
        BY <1>1 DEF Gap!GiveUp, GapTyped, Gap!Row
      <4> QED BY <4>1, <4>2
    <3> QED BY <3>1, <3>2, <3>3
  <2>3. CASE Gap!Ready(r)
    <3> PICK new : new = [row EXCEPT !.status = "ready"]
      OBVIOUS
    <3>1. /\ new \in Gap!Row /\ new.status = "ready" /\ new.video = row.video
      BY DEF Gap!Row
    <3>2. v1' = [v1 EXCEPT ![r] = new] /\ row.video
      BY <2>3 DEF Gap!Ready
    <3>3. ~Gap!GiveUp(r)
      <4>1. v1'[r].status = "ready"
        BY <1>1, <3>1, <3>2 DEF GapTyped
      <4>2. Gap!GiveUp(r) => v1'[r].status = "failed"
        BY <1>1 DEF Gap!GiveUp, GapTyped, Gap!Row
      <4> QED BY <4>1, <4>2
    <3> QED BY <3>1, <3>2, <3>3
  <2>4. CASE Gap!GiveUp(r)
    <3> PICK new : new = [row EXCEPT !.status = "failed"]
      OBVIOUS
    <3>1. new \in Gap!Row /\ new.status = "failed"
      BY DEF Gap!Row
    <3>2. v1' = [v1 EXCEPT ![r] = new]
      BY <2>4 DEF Gap!GiveUp
    <3> QED BY <3>1, <3>2
  <2> QED BY <2>1, <2>2, <2>3, <2>4
<1>3. v5' \in {v5, v5 \cup {r}}
  BY DEF Gap!Retry, Gap!Ingest, Gap!Ready, Gap!GiveUp, Gap!Revives
<1>4. /\ v1' \in [1 .. MaxHealed -> Gap!Row]
      /\ \A s \in (1 .. MaxHealed) \ {r} : v1'[s] = v1[s]
      /\ v1'[r].status = "ready" => v1'[r].video
      /\ v1'[r].status = "extracting" => v1'[r].upload \/ v1'[r].video
      /\ Gap!GiveUp(r) => v1'[r].status = "failed"
  BY <1>1, <1>2 DEF GapTyped
<1>5. GapPlain'
  BY <1>1, <1>3, <1>4 DEF GapPlain
<1>6. \A k \in Gap!Heal : GapGood(k) /\ Gap!Clears(k) /\ r \in k.todo
                          /\ (\E c \in CallsOf : v4[c] = k) =>
        r \in v5' \/ v1'[r].status = "failed"
  <2>1. CASE Gap!GiveUp(r)
    BY <1>4, <2>1
  <2>2. CASE ~Gap!GiveUp(r)
    <3>1. v1[r].status = "failed" => Gap!Revives(r)
      BY <2>2 DEF Gap!Retry, Gap!Ingest, Gap!Ready
    <3> QED BY <1>3, <3>1, GapComesBack
  <2> QED BY <2>1, <2>2
<1>7. /\ v3' \in [1 .. MaxHealed -> {"none", "waiting", "made"}]
      /\ v5' \subseteq 1 .. MaxHealed /\ v5 \subseteq v5'
  BY <1>1, <1>3 DEF GapTyped
<1>8. \A s \in (1 .. MaxHealed) \ {r} : v1'[s] = v1[s] /\ v3'[s] = v3[s]
  BY <1>1, <1>4
<1>9. v3'[r] = v3[r] \/ v3[r] = "none"
  BY <1>1
<1> QED BY <1>1, <1>4, <1>5, <1>6, <1>7, <1>8, <1>9, GapChanges

LEMMA GapPress ==
  ASSUME GapInv, NEW r \in 1 .. MaxHealed, Gap!Press(r)
  PROVE  GapInv'
<1>1. /\ GapTyped /\ GapPlain /\ UNCHANGED <<v1, v5, v6>> /\ Gap!Changed(r)
      /\ v3[r] = "none" /\ v3' = [v3 EXCEPT ![r] = "waiting"]
  BY DEF GapInv, Gap!Press
<1>2. /\ v3' \in [1 .. MaxHealed -> {"none", "waiting", "made"}]
      /\ \A s \in (1 .. MaxHealed) \ {r} : v3'[s] = v3[s]
  BY <1>1 DEF GapTyped
<1>3. GapPlain'
  BY <1>1 DEF GapPlain
<1>4. \A k \in Gap!Heal : GapGood(k) /\ Gap!Clears(k) /\ r \in k.todo
                          /\ (\E c \in CallsOf : v4[c] = k) =>
        r \in v5' \/ v1'[r].status = "failed"
  BY <1>1 DEF GapGood, Gap!FailedStill
<1>5. /\ v1' \in [1 .. MaxHealed -> Gap!Row]
      /\ v5' \subseteq 1 .. MaxHealed /\ v5 \subseteq v5'
  BY <1>1 DEF GapTyped
<1>6. \A s \in (1 .. MaxHealed) \ {r} : v1'[s] = v1[s] /\ v3'[s] = v3[s]
  BY <1>1, <1>2
<1> QED BY <1>1, <1>2, <1>3, <1>4, <1>5, <1>6, GapChanges

\* A clip is made of a recording that is ready: one to be cleared has come back.
LEMMA GapMake ==
  ASSUME GapInv, NEW r \in 1 .. MaxHealed, Gap!Make(r)
  PROVE  GapInv'
<1>1. /\ GapTyped /\ GapPlain /\ UNCHANGED <<v1, v4, v5, v6>>
      /\ v1[r].status = "ready" /\ v3[r] = "waiting" /\ v3' = [v3 EXCEPT ![r] = "made"]
  BY DEF GapInv, Gap!Make, Gap!Playable
<1>2. /\ v3' \in [1 .. MaxHealed -> {"none", "waiting", "made"}]
      /\ \A s \in (1 .. MaxHealed) \ {r} : v3'[s] = v3[s]
      /\ v3'[r] = "made"
  BY <1>1 DEF GapTyped
<1>3. ASSUME NEW c \in CallsOf PROVE GapGood(v4[c])'
  <2> PICK k \in Gap!Heal : k = v4[c]
    BY <1>1 DEF GapTyped
  <2>1. GapGood(k)
    BY DEF GapInv
  <2>2. k.failed \in SUBSET (1 .. MaxHealed)
    BY DEF Gap!Heal
  <2>3. k.pc \in {"find", "remove"} =>
          Gap!Latest(k.todo) \in 1 .. MaxHealed /\ Gap!Latest(k.todo) \in k.todo
    BY <2>1, GapAtCall DEF GapGood
  <2>4. Gap!Spares(k)'
    BY <1>1, <1>2, <2>1, <2>2 DEF GapGood, Gap!Spares
  <2>5. Gap!FailedStill(k)'
    <3> SUFFICES ASSUME Gap!Clears(k) PROVE Gap!FailedStill(k)'
      BY DEF Gap!FailedStill
    <3> PICK at : at = Gap!Latest(k.todo)
      OBVIOUS
    <3>1. k.todo \subseteq k.failed /\ \A s \in k.todo \ v5 : v1[s].status = "failed"
      BY <2>1 DEF GapGood, Gap!FailedStill
    <3>2. k.pc = "remove" /\ k.orphan =>
            v3'[at] = "waiting" \/ (v3'[at] = "made" /\ at \in v5)
      BY <1>1, <1>2, <2>1, <2>3, <3>1 DEF GapGood, Gap!FailedStill
    <3>3. k.pc = "remove" /\ at \notin k.since /\ v3'[at] = "waiting" => k.orphan
      BY <1>1, <1>2, <2>1, <2>3 DEF GapGood, Gap!FailedStill
    <3>4. k.pc \in {"find", "remove"} /\ at \notin k.since => ~v1[at].video /\ ~v1[at].upload
      BY <2>1 DEF GapGood, Gap!FailedStill
    <3> QED BY <1>1, <3>1, <3>2, <3>3, <3>4 DEF Gap!FailedStill
  <2>6. GapGood(k)'
    BY <2>1, <2>4, <2>5 DEF GapGood, HasTodo
  <2> QED BY <1>1, <2>6
<1>4. GapTyped' /\ GapPlain'
  BY <1>1, <1>2 DEF GapTyped, GapPlain
<1> QED BY <1>3, <1>4 DEF GapInv

LEMMA GapStore ==
  ASSUME GapInv, UNCHANGED <<v1, v3, v4, v5, v6>>
  PROVE  GapInv'
BY DEF GapInv, GapTyped, GapPlain, GapGood, HasTodo, Gap!FailedStill, Gap!Spares

LEMMA GapStep == GapInv /\ Gap!Next => GapInv'
<1> SUFFICES ASSUME GapInv, Gap!Next PROVE GapInv'
  OBVIOUS
<1>1. ASSUME NEW c \in CallsOf,
             \/ Gap!Start(c) \/ Gap!DeleteFiles(c) \/ Gap!ClearRow(c) \/ Gap!FindOrphans(c)
             \/ Gap!RemoveOrphans(c) \/ Gap!Others(c) \/ Gap!AttachNext(c)
             \/ Gap!End(c) \/ Gap!Fail(c)
      PROVE  GapInv'
  <2>1. CASE Gap!End(c) \/ Gap!Fail(c)
    BY <2>1, GapIdles DEF Gap!End, Gap!Fail, Gap!Go
  <2> QED BY <1>1, <2>1, GapStart, GapDelete, GapClear, GapFind, GapRemove, GapOthers,
             GapAttach
<1>2. ASSUME NEW r \in 1 .. MaxHealed,
             \/ Gap!Retry(r) \/ Gap!Store(r) \/ Gap!Ingest(r) \/ Gap!Ready(r)
             \/ Gap!GiveUp(r) \/ Gap!Press(r) \/ Gap!Make(r)
      PROVE  GapInv'
  <2>1. CASE Gap!Store(r)
    BY <2>1, GapStore DEF Gap!Store
  <2> QED BY <1>2, <2>1, GapRow, GapPress, GapMake
<1> QED BY <1>1, <1>2 DEF Gap!Next

LEMMA GapSpared == GapInv => Gap!HealSpares
BY DEF GapInv, GapPlain, GapGood, Gap!HealSpares, Gap!Spares

\* However often the highlights of a recording are attached, a file is one row, a
\* press that reached the recording as a file is not copied as well, nor copied
\* twice, and no two rows have one number, unless two calls for the court overlap;
\* and a gap heal spares what is ready, extracted or finished, and leaves what it
\* cleared with no video and no upload to wait for.
THEOREM FilesAttachedOnce == Spec => []AttachedOnce
<1> DEFINE Inv == (which = "attach" => AttachInv) /\ (which = "gaps" => GapInv)
<1>1. Init => Inv
  BY AttachBegin, GapBegin DEF Init
<1>2. Inv /\ [Next]_vars => Inv'
  <2> SUFFICES ASSUME Inv, [Next]_vars PROVE Inv'
    OBVIOUS
  <2>1. ASSUME which' = "attach" PROVE AttachInv'
    <3>1. CASE UNCHANGED vars
      BY <2>1, <3>1 DEF vars, AttachInv, AttachTyped, H!AttachInStep, H!RowsInOrder,
                        H!Active, H!InStep, H!Keys, H!Filmed, H!AttachedOnce
    <3>2. CASE Next
      <4>1. which = "attach" /\ H!Next
        BY <2>1, <3>2 DEF Next
      <4> QED BY <4>1, AttachStep
    <3> QED BY <3>1, <3>2
  <2>2. ASSUME which' = "gaps" PROVE GapInv'
    <3>1. CASE UNCHANGED vars
      BY <2>2, <3>1, GapStore DEF vars
    <3>2. CASE Next
      <4>1. which = "gaps" /\ Gap!Next
        BY <2>2, <3>2 DEF Next
      <4> QED BY <4>1, GapStep
    <3> QED BY <3>1, <3>2
  <2> QED BY <2>1, <2>2
<1>3. Inv => AttachedOnce
  BY GapSpared DEF AttachedOnce, AttachInv
<1> QED BY <1>1, <1>2, <1>3, PTL DEF Spec
=============================================================================
