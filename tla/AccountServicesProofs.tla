----------------------- MODULE AccountServicesProofs ------------------------
(***************************************************************************)
(* The services of an account, proved for every number of calls, users,    *)
(* numbers, links, phones, events and notes: what it shares of its         *)
(* matches, its codes and its welcome, what it is told, and the list it    *)
(* reads that in.  As in CourtServicesProofs, each service has an invariant*)
(* that its Init and Next keep, the parts of which stand in its module.    *)
(***************************************************************************)
EXTENDS MCServices, FiniteSetTheorems, WellFoundedInduction, TLAPS

LEMMA NotLess ==
  ASSUME NEW j \in Nat, NEW k \in Nat, ~(j < k)
  PROVE  k <= j
OBVIOUS

\* A set of naturals that has a bound has a greatest member, and any has a least.
LEMMA Greatest ==
  ASSUME NEW bound \in Nat, NEW set \in SUBSET (1 .. bound), set # {}
  PROVE  \E n \in set : \A m \in set : m <= n
<1> DEFINE above == {k \in Nat : \E n \in set : k = bound - n}
<1>1. above \in SUBSET Nat /\ above # {}
  <2> PICK n \in set : TRUE
    OBVIOUS
  <2>1. n \in Nat /\ n <= bound
    OBVIOUS
  <2>2. bound - n \in Nat
    BY <2>1
  <2> QED BY <2>2
<1> HIDE DEF above
<1>2. \E k \in above : \A j \in above : k <= j
  <2> PICK k \in above : \A j \in above : ~(<<j, k>> \in OpToRel(<, Nat))
    BY <1>1, NatLessThanWellFounded, WFMin
  <2>1. ASSUME NEW j \in above PROVE k <= j
    <3>1. j \in Nat /\ k \in Nat
      BY <1>1
    <3>2. ~(j < k)
      BY <3>1 DEF OpToRel
    <3> QED BY <3>1, <3>2, NotLess, Zenon
  <2> QED BY <2>1
<1> PICK k \in above : \A j \in above : k <= j
  BY <1>2
<1> PICK n \in set : k = bound - n
  BY DEF above
<1>3. ASSUME NEW m \in set PROVE m <= n
  <2>1. m \in Nat /\ n \in Nat /\ m <= bound
    OBVIOUS
  <2>2. bound - m \in above
    BY <2>1 DEF above
  <2>3. k <= bound - m
    BY <2>2
  <2> QED BY <2>1, <2>3
<1> QED BY <1>3

LEMMA Least ==
  ASSUME NEW set \in SUBSET Nat, set # {}
  PROVE  \E n \in set : \A m \in set : n <= m
<1> PICK n \in set : \A m \in set : ~(<<m, n>> \in OpToRel(<, Nat))
  BY NatLessThanWellFounded, WFMin
<1>1. ASSUME NEW m \in set PROVE n <= m
  <2>1. m \in Nat /\ n \in Nat
    OBVIOUS
  <2>2. ~(m < n)
    BY <2>1 DEF OpToRel
  <2> QED BY <2>1, <2>2, NotLess, Zenon
<1> QED BY <1>1

-----------------------------------------------------------------------------
(* Sharing: row, shares, paid, call, given, meddled, doubled and written   *)
(* are v1 to v8.                                                           *)

ShareRow == [token : Links \cup {None}, favourite : BOOLEAN, video : Nat]
ShareCall == [pc : {"idle", "link", "favourite", "stamp"},
              user : S!Users \cup {None}, read : ShareRow]

SharingTyped ==
  /\ v1 \in ShareRow /\ v2 \in [S!Users -> Nat] /\ v4 \in [CallsOf -> ShareCall]
  /\ v5 \subseteq Links /\ v8 \in Nat
  /\ \A c \in CallsOf : v4[c].pc = "stamp" => v4[c].user \in S!Users
SharingInv == SharingTyped /\ S!RowKept /\ S!RowInHand /\ S!OneStamp

LEMMA SharingIdle ==
  /\ S!Idle \in ShareCall /\ S!Idle.pc = "idle" /\ S!NewRow \in ShareRow
  /\ S!NewRow.token = None /\ S!NewRow.video = 0
BY DEF ShareCall, ShareRow, S!Idle, S!NewRow

LEMMA SharingBegin == S!Init => SharingInv
<1> USE SharingIdle
<1> SUFFICES ASSUME S!Init PROVE SharingInv
  OBVIOUS
<1>1. /\ v1 = S!NewRow /\ v2 = [u \in S!Users |-> 0] /\ v4 = [c \in CallsOf |-> S!Idle]
      /\ v5 = {} /\ v8 = 0
  BY DEF S!Init
<1> HIDE DEF S!Idle, S!NewRow
<1>2. SharingTyped
  BY <1>1 DEF SharingTyped
<1>3. S!RowKept /\ S!RowInHand /\ S!OneStamp
  BY <1>1 DEF S!RowKept, S!RowInHand, S!OneStamp, S!HasRow
<1> QED BY <1>2, <1>3 DEF SharingInv

LEMMA SharingGo ==
  ASSUME SharingInv, NEW c \in CallsOf, NEW new \in ShareCall, S!Go(c, new)
  PROVE  /\ v4' \in [CallsOf -> ShareCall] /\ v4'[c] = new
         /\ \A d \in CallsOf \ {c} : v4'[d] = v4[d]
BY DEF SharingInv, SharingTyped, S!Go

LEMMA SharingRead ==
  ASSUME SharingInv, NEW c \in CallsOf, NEW u \in S!Users, UNCHANGED v5,
         NEW pc \in {"link", "favourite"}, S!Read(c, u, pc),
         pc = "link" => v1.token = None
  PROVE  SharingInv'
<1> DEFINE new == [pc |-> pc, user |-> u, read |-> v1]
<1>1. new \in ShareCall /\ new.pc = pc /\ new.read = v1
  BY DEF SharingInv, SharingTyped, ShareCall
<1> HIDE DEF new
<1>2. S!Go(c, new) /\ v4[c].pc = "idle" /\ UNCHANGED <<v1, v2, v3, v5, v6, v7, v8>>
  BY DEF S!Read, new
<1>3. v4' \in [CallsOf -> ShareCall] /\ v4'[c] = new /\ \A d \in CallsOf \ {c} : v4'[d] = v4[d]
  BY <1>1, <1>2, SharingGo
<1>4. SharingTyped'
  BY <1>1, <1>2, <1>3 DEF SharingInv, SharingTyped, S!Users
<1>5. S!RowKept'
  BY <1>2 DEF SharingInv, S!RowKept
<1>6. S!RowInHand'
  BY <1>1, <1>2, <1>3 DEF SharingInv, S!RowInHand, S!HasRow
<1>7. S!OneStamp'
  BY <1>1, <1>2, <1>3 DEF SharingInv, S!OneStamp, S!Users
<1> QED BY <1>4, <1>5, <1>6, <1>7 DEF SharingInv

\* The row is saved, and nobody else has it in hand, or the history says so.
LEMMA SharingSave ==
  ASSUME SharingInv, NEW c \in CallsOf, S!HasRow(c),
         NEW new \in ShareRow, S!Save(c, new), new.video = v4[c].read.video,
         v5' \subseteq Links,
         ~v6 => v5' \subseteq {new.token}
  PROVE  SharingInv'
<1>1. /\ S!Go(c, S!Idle) /\ v1' = new /\ UNCHANGED <<v2, v3, v7, v8>>
      /\ v6' = (v6 \/ \E d \in CallsOf \ {c} : S!HasRow(d))
  BY DEF S!Save
<1>2. /\ v4' \in [CallsOf -> ShareCall] /\ v4'[c] = S!Idle
      /\ \A d \in CallsOf \ {c} : v4'[d] = v4[d]
  BY <1>1, SharingIdle, SharingGo
<1>3. SharingTyped'
  BY <1>1, <1>2, SharingIdle DEF SharingInv, SharingTyped, S!Users
<1>4. ASSUME ~v6' PROVE ~v6 /\ \A d \in CallsOf \ {c} : ~S!HasRow(d)
  BY <1>1, <1>4
<1>5. S!RowKept'
  <2> SUFFICES ASSUME ~v6' PROVE S!RowKept'
    BY DEF S!RowKept
  <2>1. v4[c].read = v1 /\ v1.video = v8
    BY <1>4 DEF SharingInv, S!RowInHand, S!RowKept
  <2> QED BY <1>1, <1>4, <2>1 DEF S!RowKept
<1>6. S!RowInHand'
  BY <1>2, <1>4, SharingIdle DEF S!RowInHand, S!HasRow
<1>7. S!OneStamp'
  BY <1>1, <1>2, SharingIdle DEF SharingInv, S!OneStamp, S!Users
<1> QED BY <1>3, <1>5, <1>6, <1>7 DEF SharingInv

LEMMA SharingSaves ==
  ASSUME SharingInv, NEW c \in CallsOf, S!SaveToken(c) \/ S!SaveFavourite(c)
  PROVE  SharingInv'
<1>1. S!HasRow(c) /\ v4[c].read \in ShareRow
  BY DEF SharingInv, SharingTyped, ShareCall, S!SaveToken, S!SaveFavourite, S!HasRow
<1>2. CASE S!SaveToken(c)
  <2> PICK t \in Links \ v5 :
        S!Save(c, [v4[c].read EXCEPT !.token = t]) /\ v5' = v5 \cup {t}
    BY <1>2 DEF S!SaveToken
  <2> DEFINE new == [v4[c].read EXCEPT !.token = t]
  <2>1. new \in ShareRow /\ new.token = t /\ new.video = v4[c].read.video
    BY <1>1 DEF ShareRow
  <2>2. S!Save(c, new)
    OBVIOUS
  <2> HIDE DEF new
  <2>3. ASSUME ~v6 PROVE v5 = {}
    <3>1. v5 \subseteq {None} /\ v5 \subseteq Links
      BY <1>1, <1>2, <2>3 DEF SharingInv, SharingTyped, S!RowInHand, S!RowKept,
                              S!SaveToken, S!HasRow
    <3> QED BY <3>1, ServicesAssumption
  <2>4. v5' \subseteq Links
    BY DEF SharingInv, SharingTyped
  <2> QED BY <1>1, <2>1, <2>2, <2>3, <2>4, SharingSave
<1>3. CASE S!SaveFavourite(c)
  <2> DEFINE new == [v4[c].read EXCEPT !.favourite = ~@]
  <2>1. /\ new \in ShareRow /\ new.token = v4[c].read.token
        /\ new.video = v4[c].read.video
    BY <1>1 DEF ShareRow
  <2>2. S!Save(c, new) /\ v5' = v5
    BY <1>3 DEF S!SaveFavourite
  <2> HIDE DEF new
  <2>3. ASSUME ~v6 PROVE v5 \subseteq {new.token}
    BY <1>1, <2>1, <2>3 DEF SharingInv, S!RowInHand, S!RowKept
  <2>4. v5' \subseteq Links
    BY <2>2 DEF SharingInv, SharingTyped
  <2> QED BY <1>1, <2>1, <2>2, <2>3, <2>4, SharingSave
<1> QED BY <1>2, <1>3

LEMMA SharingColumn ==
  ASSUME SharingInv, S!WriteColumn
  PROVE  SharingInv'
<1>1. /\ v8' = v8 + 1 /\ v1' = [v1 EXCEPT !.video = v8 + 1]
      /\ v6' = (v6 \/ \E c \in CallsOf : S!HasRow(c))
      /\ UNCHANGED <<v2, v3, v4, v5, v7>>
  BY DEF S!WriteColumn
<1>2. v8 \in Nat /\ v8' \in Nat
  BY <1>1 DEF SharingInv, SharingTyped
<1>3. v1' \in ShareRow /\ v1'.video = v8' /\ v1'.token = v1.token
  BY <1>1, <1>2 DEF SharingInv, SharingTyped, ShareRow
<1>4. SharingTyped'
  BY <1>1, <1>2, <1>3 DEF SharingInv, SharingTyped, S!Users
<1>5. S!RowKept'
  BY <1>1, <1>3 DEF SharingInv, S!RowKept
<1>6. S!RowInHand'
  BY <1>1 DEF S!RowInHand, S!HasRow
<1>7. S!OneStamp'
  BY <1>1 DEF SharingInv, S!OneStamp, S!Users
<1> QED BY <1>4, <1>5, <1>6, <1>7 DEF SharingInv

\* A link is shown once more, or somebody pays.
LEMMA SharingTold ==
  ASSUME SharingInv, UNCHANGED <<v1, v2, v4, v6, v7, v8>>,
         v5' \subseteq v5 \cup ({v1.token} \ {None})
  PROVE  SharingInv'
<1>1. v5' \subseteq Links
  BY DEF SharingInv, SharingTyped, ShareRow
<1>2. SharingTyped'
  BY <1>1 DEF SharingInv, SharingTyped, S!Users
<1>3. S!RowKept'
  BY DEF SharingInv, S!RowKept
<1>4. S!RowInHand'
  BY DEF SharingInv, S!RowInHand, S!HasRow
<1>5. S!OneStamp'
  BY DEF SharingInv, S!OneStamp, S!Users
<1> QED BY <1>2, <1>3, <1>4, <1>5 DEF SharingInv

LEMMA SharingStamp ==
  ASSUME SharingInv, NEW c \in CallsOf, NEW u \in S!Users, S!Stamp(c, u), UNCHANGED v5
  PROVE  SharingInv'
<1> DEFINE new == [S!Idle EXCEPT !.pc = "stamp", !.user = u]
<1>1. new \in ShareCall /\ new.pc = "stamp" /\ new.user = u
  BY SharingIdle DEF ShareCall, ShareRow, S!Idle, S!NewRow
<1> HIDE DEF new
<1>2. /\ S!Go(c, new) /\ v4[c].pc = "idle" /\ v2[u] = 0
      /\ UNCHANGED <<v1, v2, v3, v6, v8>>
      /\ v7' = IF \E d \in CallsOf : v4[d].pc = "stamp" /\ v4[d].user = u
               THEN v7 \cup {u} ELSE v7
  BY DEF S!Stamp, S!NoShare, new
<1>3. v4' \in [CallsOf -> ShareCall] /\ v4'[c] = new /\ \A d \in CallsOf \ {c} : v4'[d] = v4[d]
  BY <1>1, <1>2, SharingGo
<1>4. SharingTyped'
  BY <1>1, <1>2, <1>3 DEF SharingInv, SharingTyped, S!Users
<1>5. S!RowKept'
  BY <1>2 DEF SharingInv, S!RowKept
<1>6. S!RowInHand'
  BY <1>1, <1>2, <1>3 DEF SharingInv, S!RowInHand, S!HasRow
<1>7. S!OneStamp'
  <2>1. \A w \in S!Users \ v7' : w \notin v7
    BY <1>2
  <2>2. u \notin v7' => \A d \in CallsOf : ~(v4[d].pc = "stamp" /\ v4[d].user = u)
    BY <1>2
  <2>3. \A w \in S!Users \ v7' :
          /\ v2[w] <= 1
          /\ \A d \in CallsOf : v4[d].pc = "stamp" /\ v4[d].user = w =>
               /\ v2[w] = 0
               /\ \A e \in CallsOf : v4[e].pc = "stamp" /\ v4[e].user = w => e = d
    BY <2>1 DEF SharingInv, S!OneStamp
  <2>4. \A w \in S!Users \ v7' :
          \A d \in CallsOf : v4'[d].pc = "stamp" /\ v4'[d].user = w =>
            /\ v2[w] = 0
            /\ \A e \in CallsOf : v4'[e].pc = "stamp" /\ v4'[e].user = w => e = d
    BY <1>1, <1>2, <1>3, <2>2, <2>3
  <2> QED BY <1>2, <2>3, <2>4 DEF S!OneStamp, S!Users
<1> QED BY <1>4, <1>5, <1>6, <1>7 DEF SharingInv

LEMMA SharingInsert ==
  ASSUME SharingInv, NEW c \in CallsOf, S!InsertShare(c)
  PROVE  SharingInv'
<1>1. /\ S!Go(c, S!Idle) /\ v4[c].pc = "stamp" /\ UNCHANGED <<v1, v3, v5, v6, v7, v8>>
      /\ v2' = [v2 EXCEPT ![v4[c].user] = @ + 1]
  BY DEF S!InsertShare
<1>2. /\ v4' \in [CallsOf -> ShareCall] /\ v4'[c] = S!Idle
      /\ \A d \in CallsOf \ {c} : v4'[d] = v4[d]
  BY <1>1, SharingIdle, SharingGo
<1> PICK u \in S!Users : u = v4[c].user
  BY <1>1 DEF SharingInv, SharingTyped
<1>3. /\ v2' \in [S!Users -> Nat] /\ v2'[u] = v2[u] + 1
      /\ \A w \in S!Users \ {u} : v2'[w] = v2[w]
  BY <1>1 DEF SharingInv, SharingTyped
<1>4. SharingTyped'
  BY <1>1, <1>2, <1>3, SharingIdle DEF SharingInv, SharingTyped, S!Users
<1>5. S!RowKept'
  BY <1>1 DEF SharingInv, S!RowKept
<1>6. S!RowInHand'
  BY <1>1, <1>2, SharingIdle DEF SharingInv, S!RowInHand, S!HasRow
<1>7. S!OneStamp'
  <2>1. u \notin v7 => /\ v2[u] = 0
                      /\ \A d \in CallsOf \ {c} : ~(v4[d].pc = "stamp" /\ v4[d].user = u)
    BY <1>1 DEF SharingInv, S!OneStamp
  <2>2. u \notin v7 => v2'[u] <= 1
    BY <1>3, <2>1
  <2>3. u \notin v7 => \A d \in CallsOf : ~(v4'[d].pc = "stamp" /\ v4'[d].user = u)
    BY <1>2, <2>1, SharingIdle
  <2>4. \A w \in S!Users \ (v7 \cup {u}) :
          /\ v2'[w] <= 1
          /\ \A d \in CallsOf : v4[d].pc = "stamp" /\ v4[d].user = w =>
               /\ v2'[w] = 0
               /\ \A e \in CallsOf : v4[e].pc = "stamp" /\ v4[e].user = w => e = d
    BY <1>3 DEF SharingInv, S!OneStamp
  <2>5. \A w \in S!Users \ (v7 \cup {u}) :
          \A d \in CallsOf : v4'[d].pc = "stamp" /\ v4'[d].user = w =>
            /\ v2'[w] = 0
            /\ \A e \in CallsOf : v4'[e].pc = "stamp" /\ v4'[e].user = w => e = d
    BY <1>2, <2>4, SharingIdle
  <2> QED BY <1>1, <2>2, <2>3, <2>4, <2>5 DEF S!OneStamp, S!Users
<1> QED BY <1>4, <1>5, <1>6, <1>7 DEF SharingInv

LEMMA SharingStep == SharingInv /\ S!Next => SharingInv'
<1> SUFFICES ASSUME SharingInv, S!Next PROVE SharingInv'
  OBVIOUS
<1>1. CASE S!WriteColumn
  BY <1>1, SharingColumn
<1>2. ASSUME NEW u \in S!Users, S!ShareLinkAgain(u) \/ S!Pay(u) PROVE SharingInv'
  BY <1>2, SharingTold DEF S!ShareLinkAgain, S!Pay, S!NeedsToken
<1>3. ASSUME NEW c \in CallsOf, NEW u \in S!Users, S!ShareLink(c, u) \/ S!Favourite(c)
      PROVE  SharingInv'
  <2>1. Boss \in S!Users
    BY DEF S!Users
  <2> QED BY <1>3, <2>1, SharingRead DEF S!ShareLink, S!Favourite, S!NeedsToken
<1>4. ASSUME NEW c \in CallsOf, NEW u \in S!Users, S!Stamp(c, u) PROVE SharingInv'
  BY <1>4, SharingStamp DEF S!Stamp
<1>5. Boss \in S!Users /\ Guests \subseteq S!Users
  BY DEF S!Users
<1> QED
  BY <1>1, <1>2, <1>3, <1>4, <1>5, SharingSaves, SharingInsert
  DEF S!Next, S!Extracted, S!Rename, S!CreateShare, S!Claim, S!FollowLink, S!OpenLink, S!Open

LEMMA SharedToldOnce == SharingInv => S!SharedOnce
<1> SUFFICES ASSUME SharingInv, NEW u \in S!Users \ v7
             PROVE  /\ Len(S!SharedWithMe(u)) <= 1
                    /\ \A x, y \in S!SharedByMe(Boss) :
                         x[2].with = u /\ y[2].with = u => x = y
  BY DEF S!SharedOnce
<1>1. v2[u] \in Nat /\ v2[u] <= 1
  BY DEF SharingInv, SharingTyped, S!OneStamp
<1>2. Len(S!SharedWithMe(u)) <= 1
  BY <1>1 DEF S!SharedWithMe
<1>3. ASSUME NEW x \in S!SharedByMe(Boss), x[2].with = u PROVE x = <<1, S!Line(u)>>
  <2> PICK p \in (1 .. S!Cardinality(CallsOf)) \X S!Users :
        x = <<p[1], S!Line(p[2])>> /\ p[1] <= v2[p[2]]
    BY <1>3 DEF S!SharedByMe
  <2>1. p[2] = u
    BY <1>3 DEF S!Line
  <2>2. p[1] = 1
    BY <1>1, <2>1
  <2> QED BY <2>1, <2>2
<1> QED BY <1>2, <1>3

\* The link a user was given opens the recording, and what extraction or a new name
\* has written stays, whatever whole rows setFavourite and its like save, unless the
\* row was written between a handler's read and its save; and a recording is in each
\* list of the shares once, unless two requests of the user looked for it at once.
THEOREM SharedAsGiven == Spec => []SharingAgrees
<1> DEFINE Inv == which = "sharing" => SharingInv
<1>1. Init => Inv
  BY SharingBegin DEF Init
<1>2. Inv /\ [Next]_vars => Inv'
  <2> SUFFICES ASSUME Inv, [Next]_vars, which' = "sharing" PROVE SharingInv'
    OBVIOUS
  <2>1. CASE UNCHANGED vars
    BY <2>1 DEF vars, SharingInv, SharingTyped, S!RowKept, S!RowInHand, S!OneStamp,
                S!HasRow, S!Users
  <2>2. CASE Next
    <3>1. which = "sharing" /\ S!Next
      BY <2>2 DEF Next
    <3> QED BY <3>1, SharingStep
  <2> QED BY <2>1, <2>2
<1>3. Inv => SharingAgrees
  BY SharedToldOnce DEF SharingAgrees, SharingInv
<1> QED BY <1>1, <1>2, <1>3, PTL DEF Spec

-----------------------------------------------------------------------------
(* Accounts: store, inbox, user, welcomes, call, spent, greeted, raced and *)
(* clash are v1 to v9.                                                     *)

CodesInv ==
  /\ v1 \in [Numbers -> Otps \cup {None}] /\ v2 \in [Numbers -> Otps \cup {None}]
  /\ v5 \in [CallsOf -> A!Call]
  /\ \A c \in CallsOf : A!Sends(v5[c]) => v5[c].phone \in Numbers
  /\ A!OneSender /\ A!LatestCodeWorks

Login(k) == k.pc \in {"check", "notify"} => k.id \in UsersOf /\ v3[k.id] # None
LoggedIn == \A c \in CallsOf : Login(v5[c])
GreetsInv ==
  /\ v3 \in [UsersOf -> A!Account \cup {None}]
  /\ v4 \in [UsersOf -> 0 .. 2]
  /\ v5 \in [CallsOf -> A!Call]
  /\ v7 \subseteq UsersOf /\ v8 \in BOOLEAN
  /\ LoggedIn
  /\ \A i \in UsersOf : v3[i] = None => v4[i] = 0
  /\ A!OneLogin /\ A!WelcomedOnce

LEMMA AccountsIdle == /\ A!Idle \in A!Call /\ A!Idle.pc = "idle"
                      /\ A!Idle.phone = None /\ A!Idle.id = None
BY DEF A!Idle, A!Call

LEMMA AccountsBegin == A!Init => CodesInv /\ GreetsInv
<1> SUFFICES ASSUME A!Init PROVE CodesInv /\ GreetsInv
  OBVIOUS
<1>1. /\ v1 = [p \in Numbers |-> None] /\ v2 = v1
      /\ v3 = [i \in UsersOf |-> None] /\ v4 = [i \in UsersOf |-> 0]
      /\ v5 = [c \in CallsOf |-> A!Idle] /\ v7 = {} /\ v8 = FALSE
  BY DEF A!Init
<1>2. \A c \in CallsOf : v5[c] \in A!Call /\ v5[c].pc = "idle"
  BY <1>1, AccountsIdle
<1>3. A!OneSender /\ A!OneLogin
  BY <1>1, <1>2 DEF A!OneSender, A!OneLogin, A!Sends, A!Logs
<1>4. A!LatestCodeWorks /\ A!WelcomedOnce
  BY <1>1 DEF A!LatestCodeWorks, A!WelcomedOnce
<1>5. v5 \in [CallsOf -> A!Call]
  BY <1>1, AccountsIdle
<1> HIDE DEF A!Idle
<1>6. CodesInv
  BY <1>1, <1>2, <1>3, <1>4, <1>5 DEF CodesInv, A!Sends
<1>7. LoggedIn
  BY <1>2 DEF LoggedIn, Login
<1>8. v3 \in [UsersOf -> A!Account \cup {None}] /\ v4 \in [UsersOf -> 0 .. 2]
  BY <1>1
<1>9. /\ v7 \subseteq UsersOf /\ v8 \in BOOLEAN
      /\ \A i \in UsersOf : v3[i] = None => v4[i] = 0
  BY <1>1
<1>10. GreetsInv
  BY <1>3, <1>4, <1>5, <1>7, <1>8, <1>9 DEF GreetsInv
<1> QED BY <1>6, <1>10

\* A login's steps send nothing: what they take from the store is spent.
LEMMA CodesKept ==
  ASSUME CodesInv, NEW c \in CallsOf, NEW new \in A!Call, v5' = [v5 EXCEPT ![c] = new],
         ~A!Sends(v5[c]), ~A!Sends(new), UNCHANGED <<v2, v9>>, v6 \subseteq v6',
         v1' \in [Numbers -> Otps \cup {None}],
         \A p \in Numbers \ v6' : v1'[p] = v1[p]
  PROVE  CodesInv'
<1>1. v5' \in [CallsOf -> A!Call] /\ v5'[c] = new /\ \A d \in CallsOf \ {c} : v5'[d] = v5[d]
  BY DEF CodesInv
<1>2. \A d \in CallsOf : A!Sends(v5'[d]) => v5'[d] = v5[d]
  BY <1>1
<1>3. A!OneSender'
  BY <1>1, <1>2 DEF CodesInv, A!OneSender
<1>4. ASSUME NEW p \in Numbers \ v6', \A d \in A!Sending(p)' : v5'[d].pc = "sms"
      PROVE  v1'[p] = v2'[p]
  <2>1. \A d \in A!Sending(p) : v5[d].pc = "sms"
    BY <1>1, <1>4 DEF A!Sending, A!Sends
  <2> QED BY <2>1 DEF CodesInv, A!LatestCodeWorks
<1>5. A!LatestCodeWorks'
  BY <1>4 DEF A!LatestCodeWorks
<1> QED BY <1>1, <1>2, <1>3, <1>5 DEF CodesInv

\* What sends is no login.
LEMMA GreetsKept ==
  ASSUME GreetsInv, NEW c \in CallsOf, NEW new \in A!Call, v5' = [v5 EXCEPT ![c] = new],
         new.pc \notin A!Logs, UNCHANGED <<v3, v4, v8>>,
         v7' = v7 \/ (v7' \subseteq UsersOf /\ (~v8 => \A i \in v7' : v4[i] = 1))
  PROVE  GreetsInv'
<1>1. v5' \in [CallsOf -> A!Call] /\ v5'[c] = new /\ \A d \in CallsOf \ {c} : v5'[d] = v5[d]
  BY DEF GreetsInv
<1>2. \A d \in CallsOf : v5'[d].pc \in A!Logs => v5'[d] = v5[d] /\ v5[d].pc \in A!Logs
  BY <1>1
<1>3. LoggedIn'
  BY <1>2 DEF GreetsInv, Login, LoggedIn, A!Logs
<1>4. A!OneLogin'
  BY <1>2 DEF GreetsInv, A!OneLogin, A!Logs
<1>5. A!WelcomedOnce' /\ v7' \subseteq UsersOf
  BY DEF GreetsInv, A!WelcomedOnce
<1> QED BY <1>1, <1>3, <1>4, <1>5 DEF GreetsInv

LEMMA CodesSend ==
  ASSUME CodesInv, GreetsInv, NEW c \in CallsOf, NEW p \in Numbers, A!SendOtp(c, p)
  PROVE  CodesInv' /\ GreetsInv'
<1> PICK code \in Otps :
      v5' = [v5 EXCEPT ![c] = [A!Idle EXCEPT !.pc = "sms", !.phone = p, !.code = code]]
  BY DEF A!SendOtp, A!Go
<1> PICK new : new = [A!Idle EXCEPT !.pc = "sms", !.phone = p, !.code = code]
  OBVIOUS
<1>1. new \in A!Call /\ new.pc = "sms" /\ new.phone = p
  BY DEF A!Idle, A!Call
<1>2. /\ v5[c].pc = "idle" /\ UNCHANGED <<v1, v2, v3, v4, v6, v7, v8>>
      /\ v9' = IF A!Sending(p) = {} THEN v9 \ {c} ELSE v9 \cup {c} \cup A!Sending(p)
  BY DEF A!SendOtp
<1>3. v5' \in [CallsOf -> A!Call] /\ v5'[c] = new /\ \A d \in CallsOf \ {c} : v5'[d] = v5[d]
  BY <1>1 DEF CodesInv
<1>4. GreetsInv'
  BY <1>1, <1>2, GreetsKept DEF A!Logs
<1>5. ASSUME NEW d \in CallsOf \ v9', A!Sends(v5'[d])
      PROVE  /\ \A e \in CallsOf : A!Sends(v5'[e]) /\ v5'[e].phone = v5'[d].phone => e = d
             /\ v5'[d].pc = "answer" => v2'[v5'[d].phone] = v5'[d].code
  <2>1. CASE d = c
    <3>1. A!Sending(p) = {}
      BY <1>2, <2>1
    <3>2. \A e \in CallsOf \ {c} : ~(A!Sends(v5'[e]) /\ v5'[e].phone = p)
      BY <1>3, <3>1 DEF A!Sending, A!Sends
    <3> QED BY <1>1, <1>3, <2>1, <3>2
  <2>2. CASE d # c
    <3>1. d \in CallsOf \ v9 /\ d \notin A!Sending(p)
      BY <1>2, <2>2
    <3>2. v5'[d] = v5[d] /\ v5[d].phone # p
      BY <1>3, <1>5, <2>2, <3>1 DEF A!Sending, A!Sends
    <3>3. /\ \A e \in CallsOf : A!Sends(v5[e]) /\ v5[e].phone = v5[d].phone => e = d
          /\ v5[d].pc = "answer" => v2[v5[d].phone] = v5[d].code
      BY <1>5, <3>1, <3>2 DEF CodesInv, A!OneSender
    <3> QED BY <1>1, <1>2, <1>3, <3>2, <3>3
  <2> QED BY <2>1, <2>2
<1>6. A!OneSender'
  BY <1>5 DEF A!OneSender
<1>7. ASSUME NEW q \in Numbers \ v6', \A d \in A!Sending(q)' : v5'[d].pc = "sms"
      PROVE  v1'[q] = v2'[q]
  <2>1. \A d \in A!Sending(q) : v5[d].pc = "sms"
    BY <1>2, <1>3, <1>7 DEF A!Sending
  <2> QED BY <1>2, <2>1 DEF CodesInv, A!LatestCodeWorks
<1>8. A!LatestCodeWorks'
  BY <1>7 DEF A!LatestCodeWorks
<1>9. \A d \in CallsOf : A!Sends(v5'[d]) => v5'[d].phone \in Numbers
  BY <1>1, <1>3 DEF CodesInv
<1> QED BY <1>2, <1>3, <1>4, <1>6, <1>8, <1>9 DEF CodesInv

LEMMA CodesArrive ==
  ASSUME CodesInv, GreetsInv, NEW c \in CallsOf, A!SmsArrives(c)
  PROVE  CodesInv' /\ GreetsInv'
<1> PICK k \in A!Call : k = v5[c]
  BY DEF CodesInv
<1> PICK new : new = [k EXCEPT !.pc = "answer"]
  OBVIOUS
<1> PICK p : p = k.phone
  OBVIOUS
<1>1. new \in A!Call /\ new.pc = "answer" /\ new.phone = p /\ new.code = k.code
  BY DEF A!Call
<1>2. /\ k.pc = "sms" /\ v5' = [v5 EXCEPT ![c] = new] /\ v2' = [v2 EXCEPT ![p] = k.code]
      /\ UNCHANGED <<v1, v3, v4, v6, v7, v8, v9>>
  BY DEF A!SmsArrives, A!Go
<1>3. p \in Numbers /\ A!Sends(v5[c]) /\ A!Sends(new)
  BY <1>1, <1>2 DEF CodesInv, A!Sends
<1>4. v5' \in [CallsOf -> A!Call] /\ v5'[c] = new /\ \A d \in CallsOf \ {c} : v5'[d] = v5[d]
  BY <1>1, <1>2 DEF CodesInv
<1>5. /\ v2'[p] = k.code /\ \A q \in Numbers \ {p} : v2'[q] = v2[q]
      /\ v2' \in [Numbers -> Otps \cup {None}]
  BY <1>2, <1>3 DEF CodesInv, A!Call
<1>6. GreetsInv'
  BY <1>1, <1>2, GreetsKept DEF A!Logs
<1>7. \A d \in CallsOf : A!Sends(v5'[d]) <=> A!Sends(v5[d])
  BY <1>3, <1>4
<1>8. \A d \in CallsOf : v5'[d].phone = v5[d].phone
  BY <1>1, <1>4
<1>9. ASSUME NEW d \in CallsOf \ v9', A!Sends(v5'[d])
      PROVE  /\ \A e \in CallsOf : A!Sends(v5'[e]) /\ v5'[e].phone = v5'[d].phone => e = d
             /\ v5'[d].pc = "answer" => v2'[v5'[d].phone] = v5'[d].code
  <2>1. d \in CallsOf \ v9 /\ A!Sends(v5[d])
    BY <1>2, <1>7, <1>9
  <2>2. /\ \A e \in CallsOf : A!Sends(v5[e]) /\ v5[e].phone = v5[d].phone => e = d
        /\ v5[d].pc = "answer" => v2[v5[d].phone] = v5[d].code
    BY <2>1 DEF CodesInv, A!OneSender
  <2>3. d # c => v5[d].phone # p /\ v5[d].phone \in Numbers /\ v5'[d] = v5[d]
    BY <1>3, <1>4, <2>1, <2>2 DEF CodesInv
  <2>4. v5'[d].pc = "answer" => v2'[v5'[d].phone] = v5'[d].code
    <3>1. CASE d = c
      BY <1>1, <1>4, <1>5, <3>1
    <3>2. CASE d # c
      BY <1>5, <2>2, <2>3, <3>2
    <3> QED BY <3>1, <3>2
  <2> QED BY <1>7, <1>8, <2>2, <2>4
<1>10. A!OneSender'
  BY <1>9 DEF A!OneSender
<1>11. ASSUME NEW q \in Numbers \ v6', \A d \in A!Sending(q)' : v5'[d].pc = "sms"
       PROVE  v1'[q] = v2'[q]
  <2>1. q # p
    BY <1>1, <1>4, <1>11 DEF A!Sending
  <2>2. \A d \in A!Sending(q) : v5[d].pc = "sms"
    BY <1>2, <1>4, <1>11 DEF A!Sending
  <2> QED BY <1>2, <1>5, <2>1, <2>2 DEF CodesInv, A!LatestCodeWorks
<1>12. A!LatestCodeWorks'
  BY <1>11 DEF A!LatestCodeWorks
<1>13. \A d \in CallsOf : A!Sends(v5'[d]) => v5'[d].phone \in Numbers
  BY <1>7, <1>8 DEF CodesInv
<1> QED BY <1>2, <1>4, <1>5, <1>6, <1>10, <1>12, <1>13 DEF CodesInv

\* A call is over that has sent to p.
LEMMA CodesOver ==
  ASSUME CodesInv, NEW c \in CallsOf, v5' = [v5 EXCEPT ![c] = A!Idle],
         UNCHANGED <<v2, v9>>, NEW p, p = v5[c].phone, A!Sends(v5[c]),
         v1' \in [Numbers -> Otps \cup {None}],
         \A q \in Numbers \ {p} : v1'[q] = v1[q],
         v6 \ {p} \subseteq v6',
         \/ p \in v6' \/ v1'[p] = v2[p]
         \/ v5[c].pc = "sms" /\ v1' = v1 /\ v6' = v6
  PROVE  CodesInv'
<1>1. /\ v5' \in [CallsOf -> A!Call] /\ v5'[c] = A!Idle
      /\ \A d \in CallsOf \ {c} : v5'[d] = v5[d]
  BY AccountsIdle DEF CodesInv
<1>2. \A d \in CallsOf : A!Sends(v5'[d]) => v5'[d] = v5[d] /\ d # c
  BY <1>1, AccountsIdle DEF A!Sends
<1>3. A!OneSender'
  BY <1>2 DEF CodesInv, A!OneSender
<1>4. ASSUME NEW q \in Numbers \ v6', \A d \in A!Sending(q)' : v5'[d].pc = "sms"
      PROVE  v1'[q] = v2'[q]
  <2>1. \A d \in A!Sending(q) \ {c} : v5[d].pc = "sms"
    BY <1>1, <1>4 DEF A!Sending
  <2>2. CASE q # p
    <3>1. c \notin A!Sending(q) /\ q \notin v6
      BY <2>2 DEF A!Sending
    <3> QED BY <2>1, <2>2, <3>1 DEF CodesInv, A!LatestCodeWorks
  <2>3. CASE q = p /\ v5[c].pc = "sms" /\ v1' = v1 /\ v6' = v6
    BY <2>1, <2>3 DEF CodesInv, A!LatestCodeWorks
  <2> QED BY <2>2, <2>3
<1>5. A!LatestCodeWorks'
  BY <1>4 DEF A!LatestCodeWorks
<1> QED BY <1>1, <1>2, <1>3, <1>5 DEF CodesInv

LEMMA CodesSent ==
  ASSUME CodesInv, GreetsInv, NEW c \in CallsOf, A!SmsSent(c) \/ A!SmsFails(c)
  PROVE  CodesInv' /\ GreetsInv'
<1> PICK k \in A!Call : k = v5[c]
  BY DEF CodesInv
<1> PICK p : p = k.phone
  OBVIOUS
<1>1. /\ A!Sends(k) /\ v5' = [v5 EXCEPT ![c] = A!Idle] /\ UNCHANGED <<v2, v3, v4, v7, v8, v9>>
  BY DEF A!SmsSent, A!SmsFails, A!Go, A!Sends
<1>2. p \in Numbers
  BY <1>1 DEF CodesInv
<1>3. GreetsInv'
  BY <1>1, AccountsIdle, GreetsKept DEF A!Logs
<1>4. CASE A!SmsSent(c)
  <2>1. /\ k.pc = "answer" /\ v1' = [v1 EXCEPT ![p] = k.code]
        /\ v6' = IF c \in v9 THEN v6 \cup {p} ELSE v6 \ {p}
    BY <1>4 DEF A!SmsSent
  <2>2. /\ v1' \in [Numbers -> Otps \cup {None}] /\ v1'[p] = k.code
        /\ \A q \in Numbers \ {p} : v1'[q] = v1[q]
    BY <1>2, <2>1 DEF CodesInv, A!Call
  <2>3. c \notin v9 => v2[p] = k.code
    BY <1>1, <2>1 DEF CodesInv, A!OneSender
  <2>4. v6 \ {p} \subseteq v6' /\ (p \in v6' \/ v1'[p] = v2[p])
    BY <2>1, <2>2, <2>3
  <2>5. CodesInv'
    BY <1>1, <2>2, <2>4, CodesOver
  <2> QED BY <1>3, <2>5
<1>5. CASE A!SmsFails(c)
  <2>1. v1' = v1 /\ v6' = IF k.pc = "answer" THEN v6 \cup {p} ELSE v6
    BY <1>5 DEF A!SmsFails, A!AfterFailure
  <2>2. v1' \in [Numbers -> Otps \cup {None}]
    BY <2>1 DEF CodesInv
  <2>3. /\ v6 \ {p} \subseteq v6'
        /\ p \in v6' \/ (k.pc = "sms" /\ v1' = v1 /\ v6' = v6)
    BY <1>1, <2>1 DEF A!Sends
  <2>4. CodesInv'
    BY <1>1, <2>1, <2>2, <2>3, CodesOver
  <2> QED BY <1>3, <2>4
<1> QED BY <1>4, <1>5

LEMMA CodesBroadcast ==
  ASSUME CodesInv, GreetsInv, NEW p \in Numbers, A!BroadcastSms(p)
  PROVE  CodesInv' /\ GreetsInv'
<1> PICK code \in Otps : v2' = [v2 EXCEPT ![p] = code]
  BY DEF A!BroadcastSms
<1>1. /\ v6' = v6 \cup {p} /\ v9' = v9 \cup A!Sending(p)
      /\ UNCHANGED <<v1, v3, v4, v5, v7, v8>>
  BY DEF A!BroadcastSms
<1>2. v2' \in [Numbers -> Otps \cup {None}] /\ \A q \in Numbers \ {p} : v2'[q] = v2[q]
  BY DEF CodesInv
<1>3. GreetsInv'
  BY <1>1 DEF GreetsInv, Login, LoggedIn, A!OneLogin, A!WelcomedOnce
<1>4. ASSUME NEW c \in CallsOf \ v9', A!Sends(v5[c])
      PROVE  v5[c].phone \in Numbers \ {p}
  BY <1>1, <1>4 DEF CodesInv, A!Sending, A!Sends
<1>5. A!OneSender'
  BY <1>1, <1>2, <1>4 DEF CodesInv, A!OneSender
<1>6. A!LatestCodeWorks'
  <2> SUFFICES ASSUME NEW q \in Numbers \ v6', \A d \in A!Sending(q)' : v5'[d].pc = "sms"
               PROVE  v1'[q] = v2'[q]
    BY DEF A!LatestCodeWorks
  <2>1. q # p /\ q \notin v6 /\ A!Sending(q)' = A!Sending(q)
    BY <1>1 DEF A!Sending
  <2> QED BY <1>1, <1>2, <2>1 DEF CodesInv, A!LatestCodeWorks
<1> QED BY <1>1, <1>2, <1>3, <1>5, <1>6 DEF CodesInv

LEMMA CodesExpire ==
  ASSUME CodesInv, GreetsInv, NEW p \in Numbers, A!Expire(p)
  PROVE  CodesInv' /\ GreetsInv'
<1>1. /\ v1' = [v1 EXCEPT ![p] = None] /\ v6' = v6 \cup {p}
      /\ UNCHANGED <<v2, v3, v4, v5, v7, v8, v9>>
  BY DEF A!Expire
<1>2. v1' \in [Numbers -> Otps \cup {None}] /\ \A q \in Numbers \ {p} : v1'[q] = v1[q]
  BY <1>1 DEF CodesInv
<1>3. GreetsInv'
  BY <1>1 DEF GreetsInv, Login, LoggedIn, A!OneLogin, A!WelcomedOnce
<1>4. A!OneSender'
  BY <1>1 DEF CodesInv, A!OneSender
<1>5. A!LatestCodeWorks'
  <2> SUFFICES ASSUME NEW q \in Numbers \ v6', \A d \in A!Sending(q)' : v5'[d].pc = "sms"
               PROVE  v1'[q] = v2'[q]
    BY DEF A!LatestCodeWorks
  <2>1. q # p /\ q \notin v6 /\ A!Sending(q)' = A!Sending(q)
    BY <1>1 DEF A!Sending
  <2> QED BY <1>1, <1>2, <2>1 DEF CodesInv, A!LatestCodeWorks
<1> QED BY <1>1, <1>2, <1>3, <1>4, <1>5 DEF CodesInv

LEMMA CodesRestart ==
  ASSUME CodesInv, GreetsInv, A!Restart
  PROVE  CodesInv' /\ GreetsInv'
<1>1. /\ v1' = [p \in Numbers |-> None] /\ v5' = [c \in CallsOf |-> A!Idle] /\ v6' = Numbers
      /\ UNCHANGED <<v2, v3, v4, v7, v8, v9>>
  BY DEF A!Restart
<1>2. \A c \in CallsOf : v5'[c] \in A!Call /\ v5'[c].pc = "idle"
  BY <1>1, AccountsIdle
<1>3. v5' \in [CallsOf -> A!Call]
  BY <1>1, AccountsIdle
<1>4. A!OneSender' /\ A!LatestCodeWorks'
  BY <1>1, <1>2 DEF A!OneSender, A!LatestCodeWorks, A!Sends
<1>5. A!OneLogin' /\ A!WelcomedOnce'
  BY <1>1, <1>2 DEF GreetsInv, A!OneLogin, A!WelcomedOnce, A!Logs
<1> HIDE DEF A!Idle
<1>6. CodesInv'
  BY <1>1, <1>2, <1>3, <1>4 DEF CodesInv, A!Sends
<1>7. GreetsInv'
  BY <1>1, <1>2, <1>3, <1>5 DEF GreetsInv, Login, LoggedIn
<1> QED BY <1>6, <1>7

\* A login begins: the code that was right is spent.
LEMMA LoginBegins ==
  ASSUME GreetsInv, NEW c \in CallsOf, NEW new \in A!Call, v5' = [v5 EXCEPT ![c] = new],
         new.pc = "find", A!LogsIn(c), UNCHANGED <<v3, v4, v7>>
  PROVE  GreetsInv'
<1>1. v5' \in [CallsOf -> A!Call] /\ v5'[c] = new /\ \A d \in CallsOf \ {c} : v5'[d] = v5[d]
  BY DEF GreetsInv
<1>2. LoggedIn'
  BY <1>1 DEF GreetsInv, Login, LoggedIn
<1>3. v8' \in BOOLEAN /\ (~v8' => ~v8 /\ \A d \in CallsOf \ {c} : v5[d].pc \notin A!Logs)
  BY DEF GreetsInv, A!LogsIn
<1>4. A!OneLogin'
  <2> SUFFICES ASSUME ~v8'
               PROVE  /\ \A d, e \in CallsOf :
                           v5'[d].pc \in A!Logs /\ v5'[e].pc \in A!Logs => e = d
                      /\ \A d \in CallsOf : v5'[d].pc = "notify" => v4'[v5'[d].id] = 0
                      /\ \A i \in UsersOf : v4'[i] <= 1
    BY DEF A!OneLogin
  <2>1. \A d \in CallsOf : v5'[d].pc \in A!Logs => d = c
    BY <1>1, <1>3
  <2>2. \A d \in CallsOf : v5'[d].pc # "notify"
    BY <1>1, <2>1 DEF A!Logs
  <2>3. \A i \in UsersOf : v4'[i] <= 1
    BY <1>3 DEF GreetsInv, A!OneLogin
  <2> QED BY <2>1, <2>2, <2>3
<1>5. A!WelcomedOnce'
  BY <1>3 DEF GreetsInv, A!WelcomedOnce
<1> QED BY <1>1, <1>2, <1>3, <1>4, <1>5 DEF GreetsInv

LEMMA CodesVerify ==
  ASSUME CodesInv, GreetsInv, NEW c \in CallsOf, NEW p \in Numbers, A!VerifyOtp(c, p)
  PROVE  CodesInv' /\ GreetsInv'
<1> PICK new : new = [A!Idle EXCEPT !.pc = "find", !.phone = p]
  OBVIOUS
<1>1. new \in A!Call /\ new.pc = "find" /\ ~A!Sends(new)
  BY DEF A!Idle, A!Call, A!Sends
<1>2. /\ v5[c].pc = "idle" /\ v5' = [v5 EXCEPT ![c] = new] /\ A!LogsIn(c)
      /\ v1' = [v1 EXCEPT ![p] = None] /\ v6' = v6 \cup {p}
      /\ UNCHANGED <<v2, v3, v4, v7, v9>>
  BY DEF A!VerifyOtp, A!Go
<1>3. /\ v1' \in [Numbers -> Otps \cup {None}]
      /\ \A q \in Numbers \ v6' : v1'[q] = v1[q]
  BY <1>2 DEF CodesInv
<1>4. ~A!Sends(v5[c]) /\ v6 \subseteq v6'
  BY <1>2 DEF A!Sends
<1> QED BY <1>1, <1>2, <1>3, <1>4, CodesKept, LoginBegins

LEMMA CodesStay ==
  ASSUME CodesInv, NEW c \in CallsOf, NEW new \in A!Call, v5' = [v5 EXCEPT ![c] = new],
         ~A!Sends(v5[c]), ~A!Sends(new), UNCHANGED <<v1, v2, v6, v9>>
  PROVE  CodesInv'
<1>1. v1' \in [Numbers -> Otps \cup {None}]
  BY DEF CodesInv
<1> QED BY <1>1, CodesKept

LEMMA CodesGoogle ==
  ASSUME CodesInv, GreetsInv, NEW c \in CallsOf, A!GoogleLogin(c)
  PROVE  CodesInv' /\ GreetsInv'
<1> PICK new : new = [A!Idle EXCEPT !.pc = "find"]
  OBVIOUS
<1>1. new \in A!Call /\ new.pc = "find" /\ ~A!Sends(new)
  BY DEF A!Idle, A!Call, A!Sends
<1>2. /\ v5[c].pc = "idle" /\ v5' = [v5 EXCEPT ![c] = new] /\ A!LogsIn(c)
      /\ UNCHANGED <<v1, v2, v3, v4, v6, v7, v9>>
  BY DEF A!GoogleLogin, A!Go
<1>3. ~A!Sends(v5[c])
  BY <1>2 DEF A!Sends
<1> QED BY <1>1, <1>2, <1>3, CodesStay, LoginBegins

\* A login goes on with an account that is there.
LEMMA LoginMoves ==
  ASSUME GreetsInv, NEW c \in CallsOf, NEW new \in A!Call, v5' = [v5 EXCEPT ![c] = new],
         v5[c].pc \in A!Logs, Login(new)', UNCHANGED <<v4, v7, v8>>,
         v3' \in [UsersOf -> A!Account \cup {None}],
         \A i \in UsersOf : v3[i] # None => v3'[i] # None,
         new.pc = "notify" => v4[new.id] = 0
  PROVE  GreetsInv'
<1>1. v5' \in [CallsOf -> A!Call] /\ v5'[c] = new /\ \A d \in CallsOf \ {c} : v5'[d] = v5[d]
  BY DEF GreetsInv
<1>2. LoggedIn'
  <2> SUFFICES ASSUME NEW d \in CallsOf, v5'[d].pc \in {"check", "notify"}
               PROVE  v5'[d].id \in UsersOf /\ v3'[v5'[d].id] # None
    BY DEF LoggedIn, Login
  <2>1. CASE d = c
    BY <1>1, <2>1 DEF Login, LoggedIn
  <2>2. CASE d # c
    BY <1>1, <2>2 DEF GreetsInv, LoggedIn, Login
  <2> QED BY <2>1, <2>2
<1>3. \A d \in CallsOf : v5'[d].pc \in A!Logs => v5[d].pc \in A!Logs
  BY <1>1
<1>4. A!OneLogin'
  BY <1>1, <1>3 DEF GreetsInv, A!OneLogin
<1>5. A!WelcomedOnce'
  BY DEF GreetsInv, A!WelcomedOnce
<1> QED BY <1>1, <1>2, <1>4, <1>5 DEF GreetsInv

LEMMA CodesFind ==
  ASSUME CodesInv, GreetsInv, NEW c \in CallsOf, A!Find(c)
  PROVE  CodesInv' /\ GreetsInv'
<1> PICK k \in A!Call : k = v5[c]
  BY DEF CodesInv
<1>1. k.pc = "find" /\ UNCHANGED <<v1, v2, v3, v4, v6, v8, v9>>
  BY DEF A!Find
<1>2. ~A!Sends(v5[c]) /\ v5[c].pc \in A!Logs
  BY <1>1 DEF A!Sends, A!Logs
<1>3. v3' \in [UsersOf -> A!Account \cup {None}]
  BY <1>1 DEF GreetsInv
<1>5. ASSUME v5' = [v5 EXCEPT ![c] = [k EXCEPT !.pc = "create"]], v7' = v7
      PROVE  CodesInv' /\ GreetsInv'
  <2> PICK new : new = [k EXCEPT !.pc = "create"]
    OBVIOUS
  <2>1. new \in A!Call /\ new.pc = "create"
    BY DEF A!Call
  <2>2. ~A!Sends(new) /\ Login(new)'
    BY <2>1 DEF A!Sends, Login, LoggedIn
  <2> QED BY <1>1, <1>2, <1>3, <1>5, <2>1, <2>2, CodesStay, LoginMoves
<1>6. ASSUME NEW i \in UsersOf, A!Named(c, i), v7' = v7,
             v5' = [v5 EXCEPT ![c] = [k EXCEPT !.pc = "check", !.id = i]]
      PROVE  CodesInv' /\ GreetsInv'
  <2> PICK new : new = [k EXCEPT !.pc = "check", !.id = i]
    OBVIOUS
  <2>1. new \in A!Call /\ new.pc = "check" /\ new.id = i
    BY DEF A!Call
  <2>2. ~A!Sends(new) /\ Login(new)'
    BY <1>1, <1>6, <2>1 DEF A!Sends, Login, LoggedIn, A!Named
  <2> QED BY <1>1, <1>2, <1>3, <1>6, <2>1, <2>2, CodesStay, LoginMoves
<1>7. ASSUME NEW i \in UsersOf, ~A!ByPhone(c), A!Token(c, i)
      PROVE  CodesInv' /\ GreetsInv'
  <2>1. v5' = [v5 EXCEPT ![c] = A!Idle] /\ v7' = v7
    BY <1>7 DEF A!Token, A!Go
  <2>2. ~A!Sends(A!Idle) /\ A!Idle.pc \notin A!Logs
    BY AccountsIdle DEF A!Sends, A!Logs
  <2> QED BY <1>1, <1>2, <2>1, <2>2, AccountsIdle, CodesStay, GreetsKept
<1> QED BY <1>5, <1>6, <1>7 DEF A!Find, A!Go

LEMMA CodesCreate ==
  ASSUME CodesInv, GreetsInv, NEW c \in CallsOf, A!Create(c)
  PROVE  CodesInv' /\ GreetsInv'
<1> PICK k \in A!Call : k = v5[c]
  BY DEF CodesInv
<1> PICK row : row = [phone |-> k.phone, email |-> IF A!ByPhone(c) THEN None ELSE Google]
  OBVIOUS
<1> PICK to : to = IF A!ByPhone(c) THEN "check" ELSE "notify"
  OBVIOUS
<1> PICK i \in UsersOf :
      /\ v3[i] = None /\ v3' = [v3 EXCEPT ![i] = row]
      /\ v5' = [v5 EXCEPT ![c] = [k EXCEPT !.id = i, !.pc = to]]
  BY DEF A!Create, A!Go
<1> PICK new : new = [k EXCEPT !.id = i, !.pc = to]
  OBVIOUS
<1>1. k.pc = "create" /\ UNCHANGED <<v1, v2, v4, v6, v7, v8, v9>>
  BY DEF A!Create
<1>2. row \in A!Account
  BY DEF A!Account, A!Call
<1>3. row # None
  BY <1>2, NoAccount
<1>4. to \in {"check", "notify"}
  OBVIOUS
<1>5. new \in A!Call /\ new.pc = to /\ new.id = i
  BY <1>4 DEF A!Call
<1>6. /\ v3' \in [UsersOf -> A!Account \cup {None}] /\ v3'[i] = row
      /\ \A j \in UsersOf : v3[j] # None => v3'[j] # None
  BY <1>2 DEF GreetsInv
<1>7. ~A!Sends(v5[c]) /\ v5[c].pc \in A!Logs /\ ~A!Sends(new)
  BY <1>1, <1>4, <1>5 DEF A!Sends, A!Logs
<1>8. Login(new)'
  BY <1>3, <1>5, <1>6 DEF Login, LoggedIn
<1>9. v4[new.id] = 0
  BY <1>5 DEF GreetsInv
<1> QED BY <1>1, <1>5, <1>6, <1>7, <1>8, <1>9, CodesStay, LoginMoves

LEMMA CodesCheck ==
  ASSUME CodesInv, GreetsInv, NEW c \in CallsOf, A!CheckWelcome(c)
  PROVE  CodesInv' /\ GreetsInv'
<1> PICK k \in A!Call : k = v5[c]
  BY DEF CodesInv
<1> PICK i : i = k.id
  OBVIOUS
<1>1. k.pc = "check" /\ UNCHANGED <<v1, v2, v3, v4, v6, v8, v9>>
  BY DEF A!CheckWelcome
<1>2. ~A!Sends(v5[c]) /\ v5[c].pc \in A!Logs
  BY <1>1 DEF A!Sends, A!Logs
<1>3. v3' \in [UsersOf -> A!Account \cup {None}]
  BY <1>1 DEF GreetsInv
<1>4. i \in UsersOf /\ v3[i] # None /\ v4[i] \in 0 .. 2
  BY <1>1 DEF GreetsInv, Login, LoggedIn
<1>5. CASE A!Welcomed(i)
  <2>1. v4[i] > 0 /\ v5' = [v5 EXCEPT ![c] = A!Idle] /\ v7' \in {v7, v7 \cup {i}}
    BY <1>5 DEF A!CheckWelcome, A!Token, A!Go, A!Welcomed
  <2>2. ~v8 => v4[i] = 1
    BY <1>4, <2>1 DEF GreetsInv, A!OneLogin
  <2>3. v7' \subseteq UsersOf /\ (~v8 => \A j \in v7' : v4[j] = 1)
    BY <1>4, <2>1, <2>2 DEF GreetsInv, A!WelcomedOnce
  <2>4. ~A!Sends(A!Idle) /\ A!Idle.pc \notin A!Logs
    BY AccountsIdle DEF A!Sends, A!Logs
  <2> QED BY <1>1, <1>2, <2>1, <2>3, <2>4, AccountsIdle, CodesStay, GreetsKept
<1>6. CASE ~A!Welcomed(i)
  <2> PICK new : new = [k EXCEPT !.pc = "notify"]
    OBVIOUS
  <2>1. v4[i] = 0 /\ v5' = [v5 EXCEPT ![c] = new] /\ v7' = v7
    BY <1>4, <1>6 DEF A!CheckWelcome, A!Go, A!Welcomed
  <2>2. new \in A!Call /\ new.pc = "notify" /\ new.id = i
    BY DEF A!Call
  <2>3. ~A!Sends(new) /\ Login(new)'
    BY <1>1, <1>4, <2>2 DEF A!Sends, Login, LoggedIn
  <2> QED BY <1>1, <1>2, <1>3, <2>1, <2>2, <2>3, CodesStay, LoginMoves
<1> QED BY <1>5, <1>6

LEMMA CodesNotify ==
  ASSUME CodesInv, GreetsInv, NEW c \in CallsOf, A!Notify(c)
  PROVE  CodesInv' /\ GreetsInv'
<1> PICK k \in A!Call : k = v5[c]
  BY DEF CodesInv
<1> PICK i : i = k.id
  OBVIOUS
<1>1. /\ k.pc = "notify" /\ v4[i] < 2 /\ v4' = [v4 EXCEPT ![i] = @ + 1]
      /\ v5' = [v5 EXCEPT ![c] = A!Idle] /\ v7' \in {v7, v7 \cup {i}}
      /\ UNCHANGED <<v1, v2, v3, v6, v8, v9>>
  BY DEF A!Notify, A!Token, A!Go
<1>2. ~A!Sends(v5[c]) /\ ~A!Sends(A!Idle) /\ v5[c].pc \in A!Logs
  BY <1>1, AccountsIdle DEF A!Sends, A!Logs
<1>3. CodesInv'
  BY <1>1, <1>2, AccountsIdle, CodesStay
<1>4. i \in UsersOf /\ v3[i] # None /\ v4[i] \in 0 .. 2
  BY <1>1 DEF GreetsInv, Login, LoggedIn
<1>5. /\ v4' \in [UsersOf -> 0 .. 2] /\ v4'[i] = v4[i] + 1
      /\ \A j \in UsersOf \ {i} : v4'[j] = v4[j]
  BY <1>1, <1>4 DEF GreetsInv
<1>6. /\ v5' \in [CallsOf -> A!Call] /\ v5'[c] = A!Idle
      /\ \A d \in CallsOf \ {c} : v5'[d] = v5[d]
  BY <1>1, AccountsIdle DEF GreetsInv
<1>7. \A d \in CallsOf : v5'[d].pc \in A!Logs => v5'[d] = v5[d] /\ d # c
  BY <1>6, AccountsIdle DEF A!Logs
<1>8. LoggedIn'
  BY <1>1, <1>7 DEF GreetsInv, Login, LoggedIn, A!Logs
<1>9. ~v8 => v4'[i] = 1 /\ \A d \in CallsOf : v5'[d].pc \notin A!Logs
  BY <1>1, <1>2, <1>5, <1>7 DEF GreetsInv, A!OneLogin
<1>10. A!OneLogin'
  <2> SUFFICES ASSUME ~v8'
               PROVE  /\ \A d, e \in CallsOf :
                           v5'[d].pc \in A!Logs /\ v5'[e].pc \in A!Logs => e = d
                      /\ \A d \in CallsOf : v5'[d].pc = "notify" => v4'[v5'[d].id] = 0
                      /\ \A j \in UsersOf : v4'[j] <= 1
    BY DEF A!OneLogin
  <2>1. \A j \in UsersOf : v4'[j] <= 1
    BY <1>1, <1>5, <1>9 DEF GreetsInv, A!OneLogin
  <2> QED BY <1>1, <1>9, <2>1 DEF A!Logs
<1>11. A!WelcomedOnce' /\ v7' \subseteq UsersOf
  BY <1>1, <1>4, <1>5, <1>9 DEF GreetsInv, A!WelcomedOnce
<1>12. \A j \in UsersOf : v3'[j] = None => v4'[j] = 0
  BY <1>1, <1>4, <1>5 DEF GreetsInv
<1>13. GreetsInv'
  BY <1>1, <1>5, <1>6, <1>8, <1>10, <1>11, <1>12 DEF GreetsInv
<1> QED BY <1>3, <1>13

LEMMA CodesFail ==
  ASSUME CodesInv, GreetsInv, NEW c \in CallsOf, A!LoginFails(c)
  PROVE  CodesInv' /\ GreetsInv'
<1>1. /\ v5[c].pc \in A!Logs /\ v5' = [v5 EXCEPT ![c] = A!Idle]
      /\ UNCHANGED <<v1, v2, v3, v4, v6, v7, v8, v9>>
  BY DEF A!LoginFails, A!Go
<1>2. ~A!Sends(v5[c]) /\ ~A!Sends(A!Idle) /\ A!Idle.pc \notin A!Logs
  BY <1>1, AccountsIdle DEF A!Sends, A!Logs
<1> QED BY <1>1, <1>2, AccountsIdle, CodesStay, GreetsKept

LEMMA GreetsUser ==
  ASSUME CodesInv, GreetsInv, NEW i \in UsersOf,
         A!Dismiss(i) \/ \E p \in Numbers : A!UpdatePhone(i, p)
  PROVE  CodesInv' /\ GreetsInv'
<1>1. UNCHANGED <<v1, v2, v5, v6, v8, v9>>
  BY DEF A!Dismiss, A!UpdatePhone
<1>2. CodesInv'
  BY <1>1 DEF CodesInv, A!OneSender, A!LatestCodeWorks, A!Sending
<1>3. CASE A!Dismiss(i)
  <2>1. v4' = [v4 EXCEPT ![i] = 0] /\ v7' = v7 \ {i} /\ v3' = v3
    BY <1>3 DEF A!Dismiss
  <2>2. /\ v4' \in [UsersOf -> 0 .. 2] /\ v4'[i] = 0
        /\ \A j \in UsersOf \ {i} : v4'[j] = v4[j]
    BY <2>1 DEF GreetsInv
  <2>3. A!OneLogin'
    <3> SUFFICES ASSUME ~v8'
                 PROVE  /\ \A d, e \in CallsOf :
                             v5'[d].pc \in A!Logs /\ v5'[e].pc \in A!Logs => e = d
                        /\ \A d \in CallsOf : v5'[d].pc = "notify" => v4'[v5'[d].id] = 0
                        /\ \A j \in UsersOf : v4'[j] <= 1
      BY DEF A!OneLogin
    <3>1. /\ \A d, e \in CallsOf : v5[d].pc \in A!Logs /\ v5[e].pc \in A!Logs => e = d
          /\ \A d \in CallsOf : v5[d].pc = "notify" => v4[v5[d].id] = 0
          /\ \A j \in UsersOf : v4[j] <= 1
      BY <1>1 DEF GreetsInv, A!OneLogin
    <3>2. \A d \in CallsOf : v5[d].pc = "notify" => v5[d].id \in UsersOf
      BY DEF GreetsInv, Login, LoggedIn
    <3>3. \A d \in CallsOf : v5'[d].pc = "notify" => v4'[v5'[d].id] = 0
      BY <1>1, <2>2, <3>1, <3>2
    <3>4. \A j \in UsersOf : v4'[j] <= 1
      BY <2>2, <3>1
    <3> QED BY <1>1, <3>1, <3>3, <3>4
  <2>4. A!WelcomedOnce'
    BY <1>1, <2>1, <2>2 DEF GreetsInv, A!WelcomedOnce
  <2>5. \A j \in UsersOf : v3'[j] = None => v4'[j] = 0
    BY <2>1, <2>2 DEF GreetsInv
  <2>6. GreetsInv'
    BY <1>1, <2>1, <2>2, <2>3, <2>4, <2>5 DEF GreetsInv, Login, LoggedIn
  <2> QED BY <1>2, <2>6
<1>4. ASSUME NEW p \in Numbers, A!UpdatePhone(i, p) PROVE CodesInv' /\ GreetsInv'
  <2> PICK row \in A!Account : row = v3[i]
    BY <1>4 DEF GreetsInv, A!UpdatePhone
  <2> PICK new : new = [row EXCEPT !.phone = p]
    OBVIOUS
  <2>1. v3' = [v3 EXCEPT ![i] = new] /\ UNCHANGED <<v4, v7>> /\ v3[i] # None
    BY <1>4 DEF A!UpdatePhone
  <2>2. new \in A!Account
    BY DEF A!Account
  <2>3. new # None
    BY <2>2, NoAccount
  <2>4. /\ v3' \in [UsersOf -> A!Account \cup {None}]
        /\ \A j \in UsersOf : v3'[j] # None <=> v3[j] # None
    BY <2>1, <2>2, <2>3 DEF GreetsInv
  <2>5. GreetsInv'
    BY <1>1, <2>1, <2>4 DEF GreetsInv, Login, LoggedIn, A!OneLogin, A!WelcomedOnce
  <2> QED BY <1>2, <2>5
<1> QED BY <1>3, <1>4

LEMMA AccountsStep == CodesInv /\ GreetsInv /\ A!Next => CodesInv' /\ GreetsInv'
<1> SUFFICES ASSUME CodesInv, GreetsInv, A!Next PROVE CodesInv' /\ GreetsInv'
  OBVIOUS
<1>1. ASSUME NEW c \in CallsOf, A!CallStep(c) PROVE CodesInv' /\ GreetsInv'
  BY <1>1, CodesArrive, CodesSent, CodesGoogle, CodesFind, CodesCreate, CodesCheck,
     CodesNotify, CodesFail, CodesSend, CodesVerify DEF A!CallStep, A!AppleLogin
<1> QED BY <1>1, CodesRestart, CodesBroadcast, CodesExpire, GreetsUser DEF A!Next

LEMMA AccountsStay == CodesInv /\ GreetsInv /\ UNCHANGED vars => CodesInv' /\ GreetsInv'
<1> SUFFICES ASSUME CodesInv, GreetsInv, UNCHANGED vars PROVE CodesInv' /\ GreetsInv'
  OBVIOUS
<1>1. UNCHANGED <<v1, v2, v3, v4, v5, v6, v7, v8, v9>>
  BY DEF vars
<1>2. CodesInv'
  BY <1>1 DEF CodesInv, A!OneSender, A!LatestCodeWorks, A!Sending
<1>3. GreetsInv'
  BY <1>1 DEF GreetsInv, Login, LoggedIn, A!OneLogin, A!WelcomedOnce
<1> QED BY <1>2, <1>3

-----------------------------------------------------------------------------
(* What the player is told: device, known, total, rows, call, happened,    *)
(* silent and odd are v1 to v8.                                            *)

ToldRow == [topic : Z!Topics, total : Nat]
ToldCall == [pc : {"idle", "devices", "total", "push", "end"},
             topic : Z!Topics \cup {<<>>}, todo : SUBSET Links, total : Nat, row : BOOLEAN]
\* What is said of one call by itself.
CallFits(k) ==
  /\ k.pc = "idle" <=> k.topic = <<>>
  /\ k.pc = "idle" => k.total = 0 /\ k.todo = {}
  /\ k.pc = "total" => k.topic[1] = "award"
  /\ k.total # 0 => k.pc = "push" /\ k.topic[1] = "award"
ToldTyped ==
  /\ v1 \in [Links -> {"none", "mine", "other"}]
  /\ v3 \in Nat /\ v4 \in Seq(ToldRow) /\ v5 \in [CallsOf -> ToldCall]
  /\ \A c \in CallsOf : CallFits(v5[c])
  /\ v6 \in [Z!Topics -> Nat]
  /\ v8 \in [crossed : BOOLEAN, strange : BOOLEAN]
TotalsTold ==
  v8.crossed \/ \A i \in DOMAIN v4 : Z!AwardRow(i) =>
    v4[i].total >= Cardinality({j \in 1 .. i : Z!AwardRow(j)})
ToldInv == /\ ToldTyped /\ Z!ToldOrInHand /\ Z!EndsTold /\ Z!TotalsAhead /\ Z!RingsMine
           /\ TotalsTold /\ ~v8.strange

LEMMA ToldCount == \A set : Z!Cardinality(set) = Cardinality(set)
BY DEF Z!Cardinality, Cardinality

LEMMA ToldTopics ==
  ASSUME NEW t \in Z!Topics
  PROVE  /\ t # <<>> /\ t[1] \in {"award", "match", "ready", "broadcast"}
         /\ t[1] = "award" <=> \E e \in UsersOf : t = <<"award", e>>
<1>1. \A e : <<"award", e>>[1] = "award"
  OBVIOUS
<1>2. CASE t \in {"award"} \X UsersOf
  <2> PICK e \in UsersOf : t = <<"award", e>>
    BY <1>2
  <2> QED BY <1>1
<1>3. CASE t \in {"match", "ready", "broadcast"} \X {1}
  <2> PICK kind \in {"match", "ready", "broadcast"}, m \in {1} : t = <<kind, m>>
    BY <1>3
  <2>1. t[1] = kind /\ kind # "award"
    OBVIOUS
  <2>2. t # <<>>
    OBVIOUS
  <2> QED BY <1>1, <2>1, <2>2
<1> QED BY <1>2, <1>3 DEF Z!Topics, Z!Kinds

-----------------------------------------------------------------------------
(* The sets that are counted.                                              *)

LEMMA ToldFinite ==
  ASSUME ToldTyped
  PROVE  /\ \A t : IsFiniteSet(Z!Of(t)) /\ Cardinality(Z!Of(t)) \in Nat
         /\ \A t : IsFiniteSet(Z!Hand(t)) /\ Cardinality(Z!Hand(t)) \in Nat
         /\ IsFiniteSet(Z!AwardRows) /\ Cardinality(Z!AwardRows) \in Nat
         /\ IsFiniteSet(Z!AwardsInHand) /\ Cardinality(Z!AwardsInHand) \in Nat
<1>1. DOMAIN v4 = 1 .. Len(v4) /\ Len(v4) \in Nat
  BY DEF ToldTyped
<1>2. IsFiniteSet(DOMAIN v4)
  BY <1>1, FS_Interval
<1>3. IsFiniteSet(CallsOf)
  BY ServicesAssumption
<1>4. \A t : Z!Of(t) \subseteq DOMAIN v4 /\ Z!Hand(t) \subseteq CallsOf
  BY DEF Z!Of, Z!Hand
<1>5. Z!AwardRows \subseteq DOMAIN v4 /\ Z!AwardsInHand \subseteq CallsOf
  BY DEF Z!AwardRows, Z!AwardsInHand
<1>6. /\ \A t : IsFiniteSet(Z!Of(t)) /\ IsFiniteSet(Z!Hand(t))
      /\ IsFiniteSet(Z!AwardRows) /\ IsFiniteSet(Z!AwardsInHand)
  BY <1>2, <1>3, <1>4, <1>5, FS_Subset
<1> QED BY <1>6, FS_CardinalityType

\* A call goes on about its topic.
LEMMA HandStays ==
  ASSUME ToldTyped, NEW c \in CallsOf, NEW new \in ToldCall, v5' = [v5 EXCEPT ![c] = new],
         new.topic = v5[c].topic
  PROVE  (\A t : Z!Hand(t)' = Z!Hand(t)) /\ Z!AwardsInHand' = Z!AwardsInHand
<1>1. \A d \in CallsOf : v5'[d].topic = v5[d].topic
  BY DEF ToldTyped
<1> QED BY <1>1 DEF Z!Hand, Z!AwardsInHand

\* A call takes a topic, or leaves it.
LEMMA HandTakes ==
  ASSUME ToldTyped, NEW c \in CallsOf, NEW new \in ToldCall, v5' = [v5 EXCEPT ![c] = new],
         NEW t \in Z!Topics, v5[c].topic = <<>>, new.topic = t
  PROVE  /\ Cardinality(Z!Hand(t)') = Cardinality(Z!Hand(t)) + 1
         /\ \A u \in Z!Topics \ {t} : Z!Hand(u)' = Z!Hand(u)
         /\ t[1] = "award" => Cardinality(Z!AwardsInHand') = Cardinality(Z!AwardsInHand) + 1
         /\ t[1] # "award" => Z!AwardsInHand' = Z!AwardsInHand
<1>1. v5'[c].topic = t /\ \A d \in CallsOf \ {c} : v5'[d] = v5[d]
  BY DEF ToldTyped
<1>2. t # <<>> /\ \A e \in UsersOf : <<"award", e>> # <<>>
  BY ToldTopics
<1>3. Z!Hand(t)' = Z!Hand(t) \cup {c} /\ c \notin Z!Hand(t)
  BY <1>1, <1>2 DEF Z!Hand
<1>4. ASSUME NEW u \in Z!Topics \ {t} PROVE Z!Hand(u)' = Z!Hand(u)
  <2>1. u # <<>>
    BY ToldTopics
  <2> QED BY <1>1, <2>1 DEF Z!Hand
<1>5. c \notin Z!AwardsInHand
  BY <1>2 DEF Z!AwardsInHand
<1>6. \A d \in CallsOf \ {c} : d \in Z!AwardsInHand' <=> d \in Z!AwardsInHand
  BY <1>1 DEF Z!AwardsInHand
<1>7. c \in Z!AwardsInHand' <=> t[1] = "award"
  BY <1>1, ToldTopics DEF Z!AwardsInHand
<1>8. Z!AwardsInHand \subseteq CallsOf /\ Z!AwardsInHand' \subseteq CallsOf
  BY DEF Z!AwardsInHand
<1>9. t[1] = "award" => Z!AwardsInHand' = Z!AwardsInHand \cup {c}
  BY <1>6, <1>7, <1>8
<1>10. ASSUME t[1] # "award" PROVE Z!AwardsInHand' = Z!AwardsInHand
  <2>1. c \notin Z!AwardsInHand /\ c \notin Z!AwardsInHand'
    BY <1>5, <1>7, <1>10
  <2> QED BY <1>6, <1>8, <2>1
<1>11. Cardinality(Z!Hand(t) \cup {c}) = Cardinality(Z!Hand(t)) + 1
  BY <1>3, ToldFinite, FS_AddElement
<1>12. Cardinality(Z!AwardsInHand \cup {c}) = Cardinality(Z!AwardsInHand) + 1
  BY <1>5, ToldFinite, FS_AddElement
<1> QED BY <1>3, <1>4, <1>9, <1>10, <1>11, <1>12

LEMMA HandLeaves ==
  ASSUME ToldTyped, NEW c \in CallsOf, v5' = [v5 EXCEPT ![c] = Z!Idle],
         NEW t \in Z!Topics, v5[c].topic = t
  PROVE  /\ Cardinality(Z!Hand(t)') = Cardinality(Z!Hand(t)) - 1
         /\ \A u \in Z!Topics \ {t} : Z!Hand(u)' = Z!Hand(u)
         /\ t[1] = "award" => Cardinality(Z!AwardsInHand') = Cardinality(Z!AwardsInHand) - 1
         /\ t[1] # "award" => Z!AwardsInHand' = Z!AwardsInHand
<1>1. v5'[c].topic = <<>> /\ \A d \in CallsOf \ {c} : v5'[d] = v5[d]
  BY DEF ToldTyped, Z!Idle
<1>2. t # <<>> /\ \A e \in UsersOf : <<"award", e>> # <<>>
  BY ToldTopics
<1>3. Z!Hand(t)' = Z!Hand(t) \ {c} /\ c \in Z!Hand(t)
  BY <1>1, <1>2 DEF Z!Hand
<1>4. ASSUME NEW u \in Z!Topics \ {t} PROVE Z!Hand(u)' = Z!Hand(u)
  <2>1. u # <<>>
    BY ToldTopics
  <2> QED BY <1>1, <2>1 DEF Z!Hand
<1>5. c \notin Z!AwardsInHand'
  BY <1>1, <1>2 DEF Z!AwardsInHand
<1>6. \A d \in CallsOf \ {c} : d \in Z!AwardsInHand' <=> d \in Z!AwardsInHand
  BY <1>1 DEF Z!AwardsInHand
<1>7. c \in Z!AwardsInHand <=> t[1] = "award"
  BY <1>1, ToldTopics DEF Z!AwardsInHand
<1>8. Z!AwardsInHand \subseteq CallsOf /\ Z!AwardsInHand' \subseteq CallsOf
  BY DEF Z!AwardsInHand
<1>9. Z!AwardsInHand' = Z!AwardsInHand \ {c}
  BY <1>5, <1>6, <1>8
<1>10. t[1] # "award" => Z!AwardsInHand' = Z!AwardsInHand
  BY <1>7, <1>9
<1>11. Cardinality(Z!Hand(t) \ {c}) = Cardinality(Z!Hand(t)) - 1
  BY <1>3, ToldFinite, FS_RemoveElement
<1>12. t[1] = "award" => Cardinality(Z!AwardsInHand \ {c}) = Cardinality(Z!AwardsInHand) - 1
  BY <1>7, ToldFinite, FS_RemoveElement
<1> QED BY <1>3, <1>4, <1>9, <1>10, <1>11, <1>12

\* A row comes at the end of the list.
LEMMA RowComes ==
  ASSUME ToldTyped, NEW row \in ToldRow, v4' = Append(v4, row)
  PROVE  /\ Len(v4') = Len(v4) + 1 /\ v4'[Len(v4) + 1] = row /\ v4' \in Seq(ToldRow)
         /\ \A i \in DOMAIN v4 : v4'[i] = v4[i] /\ i # Len(v4) + 1
         /\ DOMAIN v4 = 1 .. Len(v4) /\ DOMAIN v4' = DOMAIN v4 \cup {Len(v4) + 1}
         /\ Len(v4) + 1 \notin DOMAIN v4 /\ Len(v4) \in Nat
<1> PICK n \in Nat : n = Len(v4)
  BY DEF ToldTyped
<1>1. v4 \in Seq(ToldRow) /\ DOMAIN v4 = 1 .. n
  BY DEF ToldTyped
<1>2. v4' \in Seq(ToldRow) /\ Len(v4') = n + 1 /\ v4'[n + 1] = row
  BY <1>1
<1>3. \A i \in 1 .. n : v4'[i] = v4[i] /\ i # n + 1
  BY <1>1
<1>4. DOMAIN v4' = 1 .. n + 1
  BY <1>2
<1>5. 1 .. n + 1 = (1 .. n) \cup {n + 1} /\ n + 1 \notin 1 .. n
  OBVIOUS
<1> QED BY <1>1, <1>2, <1>3, <1>4, <1>5

LEMMA RowCounts ==
  ASSUME ToldTyped, NEW row \in ToldRow, v4' = Append(v4, row), NEW t \in Z!Topics,
         row.topic = t
  PROVE  /\ Cardinality(Z!Of(t)') = Cardinality(Z!Of(t)) + 1
         /\ \A u \in Z!Topics \ {t} : Z!Of(u)' = Z!Of(u)
         /\ t[1] = "award" => Cardinality(Z!AwardRows') = Cardinality(Z!AwardRows) + 1
         /\ t[1] # "award" => Z!AwardRows' = Z!AwardRows
<1> PICK n : n = Len(v4) + 1
  OBVIOUS
<1>1. /\ v4'[n] = row /\ DOMAIN v4' = DOMAIN v4 \cup {n} /\ n \notin DOMAIN v4
      /\ \A i \in DOMAIN v4 : v4'[i] = v4[i]
  BY RowComes
<1>2. Z!Of(t)' = Z!Of(t) \cup {n} /\ n \notin Z!Of(t)
  BY <1>1 DEF Z!Of
<1>3. \A u \in Z!Topics \ {t} : Z!Of(u)' = Z!Of(u)
  BY <1>1 DEF Z!Of
<1>4. /\ t[1] = "award" => Z!AwardRows' = Z!AwardRows \cup {n}
      /\ t[1] # "award" => Z!AwardRows' = Z!AwardRows
      /\ n \notin Z!AwardRows
  BY <1>1 DEF Z!AwardRows, Z!AwardRow
<1>5. Cardinality(Z!Of(t) \cup {n}) = Cardinality(Z!Of(t)) + 1
  BY <1>2, ToldFinite, FS_AddElement
<1>6. Cardinality(Z!AwardRows \cup {n}) = Cardinality(Z!AwardRows) + 1
  BY <1>4, ToldFinite, FS_AddElement
<1> QED BY <1>2, <1>3, <1>4, <1>5, <1>6
-----------------------------------------------------------------------------
(* The steps of one call.                                                  *)

LEMMA ToldIdle == /\ Z!Idle \in ToldCall /\ Z!Idle.pc = "idle" /\ Z!Idle.topic = <<>>
                  /\ Z!Idle.total = 0 /\ Z!Idle.todo = {}
BY DEF Z!Idle, ToldCall

LEMMA ToldBegin == Z!Init => ToldInv
<1> SUFFICES ASSUME Z!Init PROVE ToldInv
  OBVIOUS
<1>1. /\ v1 = [p \in Links |-> "none"] /\ v3 = 0 /\ v4 = <<>> /\ v7 = {}
      /\ v5 = [c \in CallsOf |-> Z!Idle] /\ v6 = [t \in Z!Topics |-> 0]
      /\ v8 = [crossed |-> FALSE, strange |-> FALSE]
  BY DEF Z!Init
<1>2. \A c \in CallsOf : /\ v5[c] \in ToldCall /\ v5[c].pc = "idle" /\ v5[c].topic = <<>>
                         /\ v5[c].total = 0 /\ v5[c].todo = {}
  BY <1>1, ToldIdle
<1>3. \A c \in CallsOf : CallFits(v5[c])
  BY <1>2 DEF CallFits
<1>4. v5 \in [CallsOf -> ToldCall]
  BY <1>1, ToldIdle
<1>5. v4 \in Seq(ToldRow) /\ DOMAIN v4 = {}
  BY <1>1
<1>6. ToldTyped
  BY <1>1, <1>3, <1>4, <1>5 DEF ToldTyped
<1> HIDE DEF Z!Idle
<1>7. ASSUME NEW t \in Z!Topics PROVE Cardinality(Z!Of(t)) = 0 /\ Cardinality(Z!Hand(t)) = 0
  <2>1. t # <<>>
    BY ToldTopics
  <2>2. Z!Of(t) = {} /\ Z!Hand(t) = {}
    BY <1>2, <1>5, <2>1 DEF Z!Of, Z!Hand
  <2> QED BY <2>2, FS_EmptySet
<1>8. \A t \in Z!Topics : Z!Accounted(t) = 0
  BY <1>7, ToldCount DEF Z!Accounted
<1>9. Z!ToldOrInHand
  BY <1>1, <1>8 DEF Z!ToldOrInHand
<1>10. Z!EndsTold /\ Z!RingsMine
  BY <1>2 DEF Z!EndsTold, Z!RingsMine
<1>11. Z!AwardsInHand = {} /\ Z!AwardRows = {}
  <2>1. \A e \in UsersOf : <<"award", e>> # <<>>
    OBVIOUS
  <2> QED BY <1>2, <1>5, <2>1 DEF Z!AwardsInHand, Z!AwardRows
<1>12. Z!Cardinality({}) = 0
  BY ToldCount, FS_EmptySet
<1>13. Z!TotalsAhead
  BY <1>1, <1>2, <1>11, <1>12 DEF Z!TotalsAhead
<1>14. TotalsTold
  BY <1>5 DEF TotalsTold
<1> QED BY <1>1, <1>6, <1>9, <1>10, <1>13, <1>14 DEF ToldInv

\* What is told of the calls stays when one of them goes on, or is over.
RingsFor(k) == \A p \in k.todo \cap v2 : v1[p] = "mine"
EndsFor(k) == k.pc = "end" => /\ k.topic[1] \in {"match", "ready"}
                              /\ k.row \/ k.topic \in v7
MineStays == v2' \subseteq v2 /\ \A p \in v2' \cap Links : v1[p] = "mine" => v1'[p] = "mine"

LEMMA ToldCalls ==
  ASSUME ToldInv, NEW c \in CallsOf, NEW new \in ToldCall, v5' = [v5 EXCEPT ![c] = new],
         CallFits(new), MineStays, RingsFor(new)', EndsFor(new)', v7 \subseteq v7'
  PROVE  /\ v5' \in [CallsOf -> ToldCall] /\ \A d \in CallsOf : CallFits(v5'[d])
         /\ Z!EndsTold' /\ Z!RingsMine'
<1>1. v5' \in [CallsOf -> ToldCall] /\ v5'[c] = new /\ \A d \in CallsOf \ {c} : v5'[d] = v5[d]
  BY DEF ToldInv, ToldTyped
<1>2. \A d \in CallsOf : CallFits(v5'[d])
  <2> SUFFICES ASSUME NEW d \in CallsOf PROVE CallFits(v5'[d])
    OBVIOUS
  <2>1. CASE d = c
    BY <1>1, <2>1
  <2>2. CASE d # c
    BY <1>1, <2>2 DEF ToldInv, ToldTyped
  <2> QED BY <2>1, <2>2
<1>3. ASSUME NEW d \in CallsOf, v5'[d].pc = "end"
      PROVE  /\ v5'[d].topic[1] \in {"match", "ready"}
             /\ v5'[d].row \/ v5'[d].topic \in v7'
  <2>1. CASE d = c
    BY <1>1, <1>3, <2>1 DEF EndsFor
  <2>2. CASE d # c
    BY <1>1, <1>3, <2>2 DEF ToldInv, Z!EndsTold, Z!Inside, Z!InTransaction
  <2> QED BY <2>1, <2>2
<1>4. Z!EndsTold'
  BY <1>3 DEF Z!EndsTold, Z!Inside, Z!InTransaction
<1>5. ASSUME NEW d \in CallsOf, NEW p \in v5'[d].todo \cap v2' PROVE v1'[p] = "mine"
  <2>1. CASE d = c
    BY <1>1, <1>5, <2>1 DEF RingsFor
  <2>2. CASE d # c
    <3>1. p \in Links
      BY <1>1, <1>5 DEF ToldCall
    <3> QED BY <1>1, <1>5, <2>2, <3>1 DEF ToldInv, Z!RingsMine, MineStays
  <2> QED BY <2>1, <2>2
<1>6. Z!RingsMine'
  BY <1>5 DEF Z!RingsMine
<1> QED BY <1>1, <1>2, <1>4, <1>6

\* The list, and what has happened, do not change.
OthersUntold(c) == \A d \in CallsOf \ {c} : v5[d].total = 0

LEMMA ToldMoves ==
  ASSUME ToldInv, NEW c \in CallsOf, NEW new \in ToldCall, v5' = [v5 EXCEPT ![c] = new],
         new.topic = v5[c].topic, CallFits(new), MineStays, RingsFor(new)', EndsFor(new)',
         UNCHANGED <<v3, v4, v6>>, v7 \subseteq v7',
         v1' \in [Links -> {"none", "mine", "other"}],
         NEW crossed \in BOOLEAN, v8' = [v8 EXCEPT !.crossed = crossed],
         v8.crossed => crossed,
         new.total \in {0, v5[c].total} \/ crossed \/ OthersUntold(c),
         ~crossed /\ new.pc = "push" /\ new.topic[1] = "award" =>
           new.total > Cardinality(Z!AwardRows)
  PROVE  ToldInv'
<1>1. /\ v5' \in [CallsOf -> ToldCall] /\ \A d \in CallsOf : CallFits(v5'[d])
      /\ Z!EndsTold' /\ Z!RingsMine'
  BY ToldCalls
<1>2. /\ v8' \in [crossed : BOOLEAN, strange : BOOLEAN] /\ v8'.crossed = crossed
      /\ ~v8'.strange
  BY DEF ToldInv, ToldTyped
<1>3. ToldTyped'
  BY <1>1, <1>2 DEF ToldInv, ToldTyped
<1>4. ToldTyped
  BY DEF ToldInv
<1>5. (\A t : Z!Hand(t)' = Z!Hand(t)) /\ Z!AwardsInHand' = Z!AwardsInHand
  BY <1>4, HandStays
<1>6. (\A t : Z!Of(t)' = Z!Of(t)) /\ Z!AwardRows' = Z!AwardRows /\ \A i : Z!AwardRow(i)' = Z!AwardRow(i)
  BY DEF Z!Of, Z!AwardRows, Z!AwardRow
<1>7. \A t : Z!Accounted(t)' = Z!Accounted(t)
  BY <1>5, <1>6, ToldCount DEF Z!Accounted
<1>8. Z!ToldOrInHand'
  BY <1>7 DEF ToldInv, Z!ToldOrInHand
<1>9. v5'[c] = new /\ \A d \in CallsOf \ {c} : v5'[d] = v5[d]
  BY DEF ToldInv, ToldTyped
<1>10. Z!TotalsAhead'
  <2>1. v3' >= Cardinality(Z!AwardRows') + Cardinality(Z!AwardsInHand')
    BY <1>5, <1>6, ToldCount DEF ToldInv, Z!TotalsAhead
  <2>2. ASSUME ~crossed, NEW d \in CallsOf, NEW e \in CallsOf, v5'[d].total # 0, v5'[e].total # 0
        PROVE  e = d
    <3>1. \A x \in CallsOf, y \in CallsOf : v5[x].total # 0 /\ v5[y].total # 0 => y = x
      BY <2>2 DEF ToldInv, Z!TotalsAhead
    <3>2. CASE new.total \in {0, v5[c].total}
      <4>1. v5[d].total # 0 /\ v5[e].total # 0
        BY <1>9, <2>2, <3>2
      <4> QED BY <3>1, <4>1
    <3>3. CASE OthersUntold(c)
      BY <1>9, <2>2, <3>3 DEF OthersUntold
    <3> QED BY <2>2, <3>2, <3>3
  <2>3. ASSUME ~crossed, NEW d \in Z!AwardsInHand', v5'[d].pc = "push"
        PROVE  v5'[d].total > Cardinality(Z!AwardRows)
    <3>1. CASE d = c
      <4>1. new.topic[1] = "award"
        BY <1>9, <2>3, <3>1 DEF Z!AwardsInHand
      <4> QED BY <1>9, <2>3, <3>1, <4>1
    <3>2. CASE d # c
      <4>1. d \in CallsOf /\ v5'[d] = v5[d] /\ d \in Z!AwardsInHand
        BY <1>5, <1>9, <2>3, <3>2 DEF Z!AwardsInHand
      <4>2. v5[d].total > Z!Cardinality(Z!AwardRows)
        BY <2>3, <4>1 DEF ToldInv, Z!TotalsAhead
      <4> QED BY <4>1, <4>2, ToldCount
    <3> QED BY <3>1, <3>2
  <2>4. /\ v3' >= Z!Cardinality(Z!AwardRows') + Z!Cardinality(Z!AwardsInHand')
        /\ \A d \in Z!AwardsInHand' : ~crossed /\ v5'[d].pc = "push" =>
             v5'[d].total > Z!Cardinality(Z!AwardRows')
    BY <1>6, <2>1, <2>3, ToldCount
  <2> QED BY <1>2, <2>2, <2>4 DEF Z!TotalsAhead, Z!Cardinality
<1>11. TotalsTold'
  BY <1>2, <1>6 DEF ToldInv, TotalsTold
<1> QED BY <1>2, <1>3, <1>1, <1>8, <1>10, <1>11 DEF ToldInv

\* A call takes up a topic: outside of a transaction it has happened by then.
LEMMA ToldBegins ==
  ASSUME ToldInv, NEW c \in CallsOf, NEW t \in Z!Topics, v5[c].pc = "idle", Z!Begun(c, t),
         UNCHANGED <<v1, v2, v4, v7, v8>>,
         v6' = IF t[1] \in {"match", "ready"} THEN v6 ELSE [v6 EXCEPT ![t] = @ + 1],
         v3' = IF t[1] = "award" THEN v3 + 1 ELSE v3
  PROVE  ToldInv'
<1> PICK new : new = [Z!Idle EXCEPT !.pc = "devices", !.topic = t]
  OBVIOUS
<1>1. /\ new \in ToldCall /\ new.pc = "devices" /\ new.topic = t /\ new.total = 0
      /\ new.todo = {}
  BY DEF Z!Idle, ToldCall
<1>2. v5' = [v5 EXCEPT ![c] = new]
  BY DEF Z!Begun
<1>3. CallFits(new) /\ MineStays /\ RingsFor(new)' /\ EndsFor(new)'
  BY <1>1, ToldTopics DEF CallFits, MineStays, RingsFor, EndsFor
<1>4. /\ v5' \in [CallsOf -> ToldCall] /\ \A d \in CallsOf : CallFits(v5'[d])
      /\ Z!EndsTold' /\ Z!RingsMine'
  BY <1>1, <1>2, <1>3, ToldCalls
<1>5. ToldTyped /\ v5[c].topic = <<>> /\ v6[t] \in Nat /\ v3 \in Nat
  BY DEF ToldInv, ToldTyped, CallFits
<1>6. v6' \in [Z!Topics -> Nat] /\ v3' \in Nat
  BY <1>5 DEF ToldTyped
<1>7. ToldTyped'
  BY <1>4, <1>5, <1>6 DEF ToldTyped
<1>8. /\ Cardinality(Z!Hand(t)') = Cardinality(Z!Hand(t)) + 1
      /\ \A u \in Z!Topics \ {t} : Z!Hand(u)' = Z!Hand(u)
      /\ t[1] = "award" => Cardinality(Z!AwardsInHand') = Cardinality(Z!AwardsInHand) + 1
      /\ t[1] # "award" => Z!AwardsInHand' = Z!AwardsInHand
  BY <1>1, <1>2, <1>5, HandTakes
<1>9. (\A u : Z!Of(u)' = Z!Of(u)) /\ Z!AwardRows' = Z!AwardRows /\ \A i : Z!AwardRow(i)' = Z!AwardRow(i)
  BY DEF Z!Of, Z!AwardRows, Z!AwardRow
<1>10. Z!ToldOrInHand'
  <2> SUFFICES ASSUME NEW u \in Z!Topics
               PROVE  /\ Z!Accounted(u)' <= v6'[u]
                      /\ u \notin v7 => Z!Accounted(u)' = v6'[u]
    BY DEF Z!ToldOrInHand
  <2>1. /\ Z!Accounted(u) <= v6[u] /\ u \notin v7 => Z!Accounted(u) = v6[u]
    BY DEF ToldInv, Z!ToldOrInHand
  <2>2. CASE u # t
    <3>1. Z!Accounted(u)' = Z!Accounted(u) /\ v6'[u] = v6[u]
      BY <1>5, <1>8, <1>9, <2>2, ToldCount DEF Z!Accounted, ToldTyped
    <3> QED BY <2>1, <3>1 DEF ToldInv, Z!ToldOrInHand
  <2>3. CASE u = t /\ t[1] \in {"match", "ready"}
    <3>1. Z!Accounted(u)' = Z!Accounted(u) /\ v6'[u] = v6[u]
      BY <1>9, <2>3, ToldCount DEF Z!Accounted, Z!InTransaction
    <3> QED BY <2>1, <3>1 DEF ToldInv, Z!ToldOrInHand
  <2>4. CASE u = t /\ t[1] \notin {"match", "ready"}
    <3> PICK rows \in Nat : rows = Cardinality(Z!Of(t))
      BY <1>5, ToldFinite
    <3> PICK hand \in Nat : hand = Cardinality(Z!Hand(t))
      BY <1>5, ToldFinite
    <3>1. Z!Accounted(t) = rows + hand
      BY <2>4, ToldCount DEF Z!Accounted, Z!InTransaction
    <3>2. Z!Accounted(t)' = rows + (hand + 1)
      BY <1>8, <1>9, <2>4, ToldCount DEF Z!Accounted, Z!InTransaction
    <3>3. v6'[t] = v6[t] + 1
      BY <1>5, <2>4 DEF ToldTyped
    <3>4. rows + hand <= v6[t] /\ (t \notin v7 => rows + hand = v6[t])
      BY <3>1 DEF ToldInv, Z!ToldOrInHand
    <3>5. rows + (hand + 1) <= v6[t] + 1 /\ (t \notin v7 => rows + (hand + 1) = v6[t] + 1)
      BY <1>5, <3>4
    <3> QED BY <2>4, <3>2, <3>3, <3>5
  <2> QED BY <2>2, <2>3, <2>4
<1>11. v5'[c] = new /\ \A d \in CallsOf \ {c} : v5'[d] = v5[d]
  BY <1>1, <1>2, <1>5 DEF ToldTyped
<1>12. Z!TotalsAhead'
  <2>1. v3' >= Z!Cardinality(Z!AwardRows') + Z!Cardinality(Z!AwardsInHand')
    <3> PICK rows \in Nat : rows = Cardinality(Z!AwardRows)
      BY <1>5, ToldFinite
    <3> PICK hand \in Nat : hand = Cardinality(Z!AwardsInHand)
      BY <1>5, ToldFinite
    <3>1. v3 >= rows + hand
      BY ToldCount DEF ToldInv, Z!TotalsAhead
    <3>2. Z!Cardinality(Z!AwardRows') = rows
      BY <1>9, ToldCount
    <3>3. Z!Cardinality(Z!AwardsInHand') = IF t[1] = "award" THEN hand + 1 ELSE hand
      BY <1>8, ToldCount
    <3> QED BY <1>5, <3>1, <3>2, <3>3
  <2>2. \A d \in CallsOf : v5'[d].total # 0 => d # c /\ v5[d].total # 0
    BY <1>1, <1>11
  <2>3. \A d \in Z!AwardsInHand' : v5'[d].pc = "push" =>
          d \in CallsOf /\ v5'[d] = v5[d] /\ d \in Z!AwardsInHand
    BY <1>1, <1>11 DEF Z!AwardsInHand
  <2>4. ~v8.crossed =>
          /\ \A d, e \in CallsOf : v5[d].total # 0 /\ v5[e].total # 0 => e = d
          /\ \A d \in Z!AwardsInHand : v5[d].pc = "push" => v5[d].total > Z!Cardinality(Z!AwardRows)
    BY DEF ToldInv, Z!TotalsAhead
  <2>5. ASSUME ~v8.crossed
        PROVE  /\ \A d, e \in CallsOf : v5'[d].total # 0 /\ v5'[e].total # 0 => e = d
               /\ \A d \in Z!AwardsInHand' : v5'[d].pc = "push" =>
                    v5'[d].total > Z!Cardinality(Z!AwardRows')
    BY <1>9, <2>2, <2>3, <2>4, <2>5
  <2> QED BY <2>1, <2>5 DEF Z!TotalsAhead, Z!Cardinality
<1>13. TotalsTold'
  BY <1>9 DEF ToldInv, TotalsTold
<1> QED BY <1>4, <1>7, <1>10, <1>12, <1>13 DEF ToldInv

\* A call is over.  What has a row or a reason is accounted for.
LEMMA ToldEnds ==
  ASSUME ToldInv, NEW c \in CallsOf, NEW t \in Z!Topics, t = v5[c].topic, Z!Shut(c),
         UNCHANGED <<v1, v2, v3, v8>>, v7 \subseteq v7',
         \/ /\ v4' = v4 /\ v6' = v6
            /\ t[1] \notin {"match", "ready"} => t \in v7'
         \/ /\ v4' = v4 /\ v6' = [v6 EXCEPT ![t] = @ + 1]
            /\ t[1] \in {"match", "ready"} /\ t \in v7'
         \/ /\ v4' = Append(v4, Z!NewRow(c))
            /\ t[1] = "award" => v5[c].pc = "push"
            /\ v6' = IF t[1] \in {"match", "ready"} THEN [v6 EXCEPT ![t] = @ + 1] ELSE v6
  PROVE  ToldInv'
<1> PICK k \in ToldCall : k = v5[c]
  BY DEF ToldInv, ToldTyped
<1> PICK row : row = Z!NewRow(c)
  OBVIOUS
<1>1. row \in ToldRow /\ row.topic = t /\ row.total = k.total
  BY DEF Z!NewRow, ToldRow, ToldCall
<1>2. v5' = [v5 EXCEPT ![c] = Z!Idle] /\ CallFits(Z!Idle)
  BY ToldIdle DEF Z!Shut, CallFits
<1>3. MineStays /\ RingsFor(Z!Idle)' /\ EndsFor(Z!Idle)'
  BY ToldIdle DEF MineStays, RingsFor, EndsFor
<1>4. /\ v5' \in [CallsOf -> ToldCall] /\ \A d \in CallsOf : CallFits(v5'[d])
      /\ Z!EndsTold' /\ Z!RingsMine'
  BY <1>2, <1>3, ToldIdle, ToldCalls
<1>5. ToldTyped /\ v6[t] \in Nat /\ v3 \in Nat
  BY DEF ToldInv, ToldTyped
<1>6. v6' \in [Z!Topics -> Nat] /\ v4' \in Seq(ToldRow)
  <2>1. v6' \in [Z!Topics -> Nat]
    BY <1>5 DEF ToldTyped
  <2>2. v4' = v4 \/ v4' = Append(v4, row)
    OBVIOUS
  <2>3. v4' \in Seq(ToldRow)
    <3>1. CASE v4' = v4
      BY <1>5, <3>1 DEF ToldTyped
    <3>2. CASE v4' = Append(v4, row)
      BY <1>1, <1>5, <3>2, RowComes
    <3> QED BY <2>2, <3>1, <3>2
  <2> QED BY <2>1, <2>3
<1>7. ToldTyped'
  BY <1>4, <1>5, <1>6 DEF ToldTyped
<1>8. /\ Cardinality(Z!Hand(t)') = Cardinality(Z!Hand(t)) - 1
      /\ \A u \in Z!Topics \ {t} : Z!Hand(u)' = Z!Hand(u)
      /\ t[1] = "award" => Cardinality(Z!AwardsInHand') = Cardinality(Z!AwardsInHand) - 1
      /\ t[1] # "award" => Z!AwardsInHand' = Z!AwardsInHand
  BY <1>2, <1>5, HandLeaves
<1>9. v4' = v4 \/ v4' = Append(v4, row)
  OBVIOUS
<1>23. v4' = Append(v4, row) /\ t[1] = "award" => v5[c].pc = "push"
  <2>1. ASSUME v4' = Append(v4, row) PROVE v4' # v4
    BY <1>1, <1>5, <2>1, RowComes
  <2> QED BY <2>1
<1>10. \A u \in Z!Topics \ {t} : Z!Of(u)' = Z!Of(u)
  <2>1. CASE v4' = v4
    BY <2>1 DEF Z!Of
  <2>2. CASE v4' = Append(v4, row)
    BY <1>1, <1>5, <2>2, RowCounts
  <2> QED BY <1>9, <2>1, <2>2
<1> PICK rows \in Nat : rows = Cardinality(Z!Of(t))
  BY <1>5, ToldFinite
<1> PICK hand \in Nat : hand = Cardinality(Z!Hand(t))
  BY <1>5, ToldFinite
<1>11. rows + (IF t[1] \in {"match", "ready"} THEN 0 ELSE hand) = Z!Accounted(t)
  BY ToldCount DEF Z!Accounted, Z!InTransaction
<1>12. Z!Accounted(t)' = Cardinality(Z!Of(t)') + (IF t[1] \in {"match", "ready"} THEN 0 ELSE hand - 1)
  BY <1>8, ToldCount DEF Z!Accounted, Z!InTransaction
<1>13. /\ v4' = v4 => Cardinality(Z!Of(t)') = rows
       /\ v4' = Append(v4, row) => Cardinality(Z!Of(t)') = rows + 1
  <2>1. ASSUME v4' = v4 PROVE Z!Of(t)' = Z!Of(t)
    BY <2>1 DEF Z!Of
  <2>2. ASSUME v4' = Append(v4, row) PROVE Cardinality(Z!Of(t)') = rows + 1
    BY <1>1, <1>5, <2>2, RowCounts
  <2> QED BY <2>1, <2>2
<1>14. Z!ToldOrInHand'
  <2> SUFFICES ASSUME NEW u \in Z!Topics
               PROVE  /\ Z!Accounted(u)' <= v6'[u]
                      /\ u \notin v7' => Z!Accounted(u)' = v6'[u]
    BY DEF Z!ToldOrInHand
  <2>1. CASE u # t
    <3>1. Z!Accounted(u)' = Z!Accounted(u) /\ v6'[u] = v6[u]
      BY <1>5, <1>8, <1>10, <2>1, ToldCount DEF Z!Accounted, ToldTyped
    <3> QED BY <3>1 DEF ToldInv, Z!ToldOrInHand
  <2>2. CASE u = t
    <3> PICK n \in Nat : n = v6[t]
      BY <1>5
    <3>1. Z!Accounted(t) <= n /\ (t \notin v7' => Z!Accounted(t) = n)
      BY DEF ToldInv, Z!ToldOrInHand
    <3>2. v6' = v6 => v6'[t] = n
      OBVIOUS
    <3>3. v6' = [v6 EXCEPT ![t] = @ + 1] => v6'[t] = n + 1
      BY <1>5 DEF ToldTyped
    <3>4. CASE t[1] \in {"match", "ready"}
      <4>1. Z!Accounted(t)' = Cardinality(Z!Of(t)') /\ Z!Accounted(t) = rows
        <5>1. Cardinality(Z!Of(t)') \in Nat
          BY <1>9, <1>13
        <5>2. /\ Z!Accounted(t)' = Cardinality(Z!Of(t)') + 0
              /\ Z!Accounted(t) = rows + 0
          BY <1>11, <1>12, <3>4
        <5> QED BY <5>1, <5>2
      <4>2. rows <= n /\ (t \notin v7' => rows = n)
        BY <3>1, <4>1
      <4>3. CASE v4' = v4 /\ v6' = v6
        BY <1>13, <2>2, <3>2, <4>1, <4>2, <4>3
      <4>4. CASE v4' = v4 /\ v6' = [v6 EXCEPT ![t] = @ + 1] /\ t \in v7'
        BY <1>13, <2>2, <3>3, <4>1, <4>2, <4>4
      <4>5. CASE v4' = Append(v4, row) /\ v6' = [v6 EXCEPT ![t] = @ + 1]
        BY <1>13, <2>2, <3>3, <4>1, <4>2, <4>5
      <4> QED BY <3>4, <4>3, <4>4, <4>5
    <3>5. CASE t[1] \notin {"match", "ready"}
      <4>1. Z!Accounted(t)' = Cardinality(Z!Of(t)') + (hand - 1) /\ Z!Accounted(t) = rows + hand
        BY <1>11, <1>12, <3>5
      <4>2. rows + hand <= n /\ (t \notin v7' => rows + hand = n)
        BY <3>1, <4>1
      <4>3. CASE v4' = v4 /\ v6' = v6 /\ t \in v7'
        BY <1>13, <2>2, <3>2, <4>1, <4>2, <4>3
      <4>4. CASE v4' = Append(v4, row) /\ v6' = v6
        BY <1>13, <2>2, <3>2, <4>1, <4>2, <4>4
      <4> QED BY <3>5, <4>3, <4>4
    <3> QED BY <3>4, <3>5
  <2> QED BY <2>1, <2>2
<1> PICK told \in Nat : told = Cardinality(Z!AwardRows)
  BY <1>5, ToldFinite
<1> PICK inHand \in Nat : inHand = Cardinality(Z!AwardsInHand)
  BY <1>5, ToldFinite
<1>15. v5'[c] = Z!Idle /\ \A d \in CallsOf \ {c} : v5'[d] = v5[d]
  BY <1>2, <1>5 DEF ToldTyped
<1>16. \A d \in Z!AwardsInHand' : d \in CallsOf \ {c} /\ v5'[d] = v5[d] /\ d \in Z!AwardsInHand
  <2>1. \A e \in UsersOf : <<"award", e>> # <<>>
    OBVIOUS
  <2> QED BY <1>15, <2>1, ToldIdle DEF Z!AwardsInHand
<1>17. t[1] = "award" => c \in Z!AwardsInHand
  BY ToldTopics DEF Z!AwardsInHand
<1>18. ~v8.crossed =>
         /\ \A d, e \in CallsOf : v5[d].total # 0 /\ v5[e].total # 0 => e = d
         /\ \A d \in Z!AwardsInHand : v5[d].pc = "push" => v5[d].total > told
  BY ToldCount DEF ToldInv, Z!TotalsAhead
<1>19. \A d, e \in CallsOf : v5'[d].total # 0 /\ v5'[e].total # 0 =>
         v5[d].total # 0 /\ v5[e].total # 0
  BY <1>15, ToldIdle
<1>20. v3 >= told + inHand
  BY ToldCount DEF ToldInv, Z!TotalsAhead
<1>21. /\ t[1] = "award" /\ v4' = Append(v4, row) => Cardinality(Z!AwardRows') = told + 1
       /\ t[1] # "award" \/ v4' = v4 => Cardinality(Z!AwardRows') = told
  <2>1. ASSUME v4' = v4 PROVE Z!AwardRows' = Z!AwardRows
    BY <2>1 DEF Z!AwardRows, Z!AwardRow
  <2>2. ASSUME v4' = Append(v4, row)
        PROVE  /\ t[1] = "award" => Cardinality(Z!AwardRows') = told + 1
               /\ t[1] # "award" => Z!AwardRows' = Z!AwardRows
    BY <1>1, <1>5, <2>2, RowCounts
  <2>3. v4' = v4 \/ v4' = Append(v4, row)
    OBVIOUS
  <2> QED BY <2>1, <2>2, <2>3
<1>22. Z!TotalsAhead'
  <2>1. Cardinality(Z!AwardRows') \in {told, told + 1}
        /\ (Cardinality(Z!AwardRows') = told + 1 => t[1] = "award")
    BY <1>21
  <2>2. Cardinality(Z!AwardsInHand') = IF t[1] = "award" THEN inHand - 1 ELSE inHand
    BY <1>8
  <2>3. v3' >= Cardinality(Z!AwardRows') + Cardinality(Z!AwardsInHand')
    BY <1>5, <1>20, <2>1, <2>2
  <2>4. ASSUME ~v8.crossed, NEW d \in Z!AwardsInHand', v5'[d].pc = "push"
        PROVE  v5'[d].total > Cardinality(Z!AwardRows')
    <3>1. d \in CallsOf \ {c} /\ v5'[d] = v5[d] /\ v5[d].total > told /\ v5[d].total \in Nat
      BY <1>5, <1>16, <1>18, <2>4 DEF ToldTyped, ToldCall
    <3>2. CASE t[1] = "award" /\ v4' = Append(v4, row)
      <4>1. v5[c].pc = "push"
        BY <3>2, <1>23
      <4>2. v5[c].total > told /\ v5[c].total \in Nat
        BY <1>5, <1>17, <1>18, <2>4, <3>2, <4>1 DEF ToldTyped, ToldCall
      <4>3. v5[c].total # 0 /\ v5[d].total # 0
        BY <3>1, <4>2
      <4> QED BY <1>18, <2>4, <3>1, <4>3
    <3>3. CASE t[1] # "award" \/ v4' = v4
      BY <1>21, <3>1, <3>3
    <3> QED BY <3>2, <3>3
  <2>5. /\ v3' >= Z!Cardinality(Z!AwardRows') + Z!Cardinality(Z!AwardsInHand')
        /\ \A d \in Z!AwardsInHand' : ~v8.crossed /\ v5'[d].pc = "push" =>
             v5'[d].total > Z!Cardinality(Z!AwardRows')
    BY <2>3, <2>4, ToldCount
  <2>6. ~v8.crossed => \A d, e \in CallsOf : v5'[d].total # 0 /\ v5'[e].total # 0 => e = d
    BY <1>18, <1>19
  <2> QED BY <2>5, <2>6 DEF Z!TotalsAhead, Z!Cardinality
<1>24. TotalsTold'
  <2>1. ASSUME v4' = v4 PROVE TotalsTold'
    <3>1. \A i : Z!AwardRow(i)' = Z!AwardRow(i)
      BY <2>1 DEF Z!AwardRow
    <3> QED BY <2>1, <3>1 DEF ToldInv, TotalsTold
  <2>2. ASSUME v4' = Append(v4, row), ~v8.crossed, NEW i \in DOMAIN v4', Z!AwardRow(i)'
        PROVE  v4'[i].total >= Cardinality({j \in 1 .. i : Z!AwardRow(j)'})
    <3> PICK n \in Nat : n = Len(v4)
      BY <1>5 DEF ToldTyped
    <3>1. /\ v4'[n + 1] = row /\ DOMAIN v4 = 1 .. n /\ DOMAIN v4' = (1 .. n) \cup {n + 1}
          /\ \A j \in 1 .. n : v4'[j] = v4[j]
      BY <1>1, <1>5, <2>2, RowComes
    <3>2. CASE i \in 1 .. n
      <4>1. \A j \in 1 .. i : j \in 1 .. n
        BY <3>2
      <4>2. \A j \in 1 .. n : Z!AwardRow(j)' <=> Z!AwardRow(j)
        BY <3>1 DEF Z!AwardRow
      <4>3. {j \in 1 .. i : Z!AwardRow(j)'} = {j \in 1 .. i : Z!AwardRow(j)}
        BY <4>1, <4>2
      <4>4. v4[i].total >= Cardinality({j \in 1 .. i : Z!AwardRow(j)})
        BY <2>2, <3>1, <3>2, <4>2 DEF ToldInv, TotalsTold
      <4> QED BY <3>1, <3>2, <4>3, <4>4
    <3>3. CASE i = n + 1
      <4>1. t[1] = "award"
        BY <1>1, <2>2, <3>1, <3>3 DEF Z!AwardRow
      <4>2. {j \in 1 .. i : Z!AwardRow(j)'} = Z!AwardRows'
        <5>1. 1 .. i = DOMAIN v4'
          BY <3>1, <3>3
        <5> QED BY <5>1 DEF Z!AwardRows
      <4>3. k.total > told /\ k.total \in Nat
        BY <1>17, <1>18, <1>23, <2>2, <4>1 DEF ToldCall
      <4>4. Cardinality(Z!AwardRows') = told + 1
        BY <1>21, <2>2, <4>1
      <4>5. v4'[i].total = k.total
        BY <1>1, <3>1, <3>3
      <4>6. k.total >= told + 1
        BY <4>3
      <4>7. Cardinality({j \in 1 .. i : Z!AwardRow(j)'}) = told + 1
        BY <4>2, <4>4
      <4> QED BY <4>5, <4>6, <4>7
    <3> QED BY <3>1, <3>2, <3>3
  <2>3. ASSUME v4' = Append(v4, row) PROVE TotalsTold'
    BY <2>2, <2>3 DEF TotalsTold
  <2> QED BY <1>9, <2>1, <2>3
<1> QED BY <1>4, <1>7, <1>14, <1>22, <1>24 DEF ToldInv

-----------------------------------------------------------------------------
(* The actions.                                                            *)

LEMMA ToldAward ==
  ASSUME ToldInv, NEW c \in CallsOf, NEW e \in UsersOf, Z!Award(c, e)
  PROVE  ToldInv'
<1> PICK t \in Z!Topics : t = <<"award", e>>
  BY DEF Z!Topics
<1>1. t[1] = "award"
  OBVIOUS
<1>2. /\ v5[c].pc = "idle" /\ v3' = v3 + 1 /\ v6' = [v6 EXCEPT ![t] = @ + 1]
      /\ Z!Begun(c, t) /\ UNCHANGED <<v1, v2, v4, v7, v8>>
  BY DEF Z!Award, Z!Count
<1> QED BY <1>1, <1>2, ToldBegins

LEMMA ToldOther ==
  ASSUME ToldInv, NEW c \in CallsOf, NEW m \in {1},
         Z!StartOrStop(c, m) \/ Z!Ready(c, m) \/ Z!Broadcast(c, m)
  PROVE  ToldInv'
<1>1. \A kind \in {"match", "ready", "broadcast"} : /\ <<kind, m>> \in Z!Topics
                                                   /\ <<kind, m>>[1] = kind
  BY DEF Z!Topics, Z!Kinds
<1>2. CASE Z!StartOrStop(c, m)
  <2> PICK t \in Z!Topics : t = <<"match", m>>
    BY <1>1
  <2>1. t[1] = "match"
    BY <1>1
  <2>2. /\ v5[c].pc = "idle" /\ Z!Begun(c, t) /\ UNCHANGED <<v1, v2, v3, v4, v6, v7, v8>>
    BY <1>2 DEF Z!StartOrStop
  <2> QED BY <2>1, <2>2, ToldBegins
<1>3. CASE Z!Ready(c, m)
  <2> PICK t \in Z!Topics : t = <<"ready", m>>
    BY <1>1
  <2>1. t[1] = "ready"
    BY <1>1
  <2>2. /\ v5[c].pc = "idle" /\ Z!Begun(c, t) /\ UNCHANGED <<v1, v2, v3, v4, v6, v7, v8>>
    BY <1>3 DEF Z!Ready
  <2> QED BY <2>1, <2>2, ToldBegins
<1>4. CASE Z!Broadcast(c, m)
  <2> PICK t \in Z!Topics : t = <<"broadcast", m>>
    BY <1>1
  <2>1. t[1] = "broadcast"
    BY <1>1
  <2>2. /\ v5[c].pc = "idle" /\ Z!Begun(c, t) /\ v6' = [v6 EXCEPT ![t] = @ + 1]
        /\ UNCHANGED <<v1, v2, v3, v4, v7, v8>>
    BY <1>4 DEF Z!Broadcast, Z!Count
  <2> QED BY <2>1, <2>2, ToldBegins
<1> QED BY <1>2, <1>3, <1>4

\* What is known of a call at work.
LEMMA ToldFacts ==
  ASSUME ToldInv, NEW c \in CallsOf
  PROVE  /\ v5[c] \in ToldCall /\ CallFits(v5[c]) /\ RingsFor(v5[c]) /\ EndsFor(v5[c])
         /\ v5[c].pc # "idle" => v5[c].topic \in Z!Topics
         /\ v8 \in [crossed : BOOLEAN, strange : BOOLEAN] /\ ~v8.strange
         /\ v1 \in [Links -> {"none", "mine", "other"}] /\ v3 \in Nat
<1>1. v5[c] \in ToldCall /\ CallFits(v5[c])
  BY DEF ToldInv, ToldTyped
<1>2. RingsFor(v5[c]) /\ EndsFor(v5[c])
  BY DEF ToldInv, Z!RingsMine, Z!EndsTold, RingsFor, EndsFor, Z!Inside, Z!InTransaction
<1>3. v5[c].pc # "idle" => v5[c].topic \in Z!Topics
  BY <1>1 DEF ToldCall, CallFits
<1> QED BY <1>1, <1>2, <1>3 DEF ToldInv, ToldTyped

\* A call of which nothing else is told but where it is, and whom it still tells.
LEMMA ToldGoes ==
  ASSUME ToldInv, NEW c \in CallsOf, v5[c].pc # "idle", NEW new \in ToldCall,
         v5' = [v5 EXCEPT ![c] = new], new.topic = v5[c].topic, new.pc # "idle",
         new.total = v5[c].total, new.total # 0 => new.pc = "push",
         new.pc = "total" => new.topic[1] = "award",
         new.pc = "push" /\ new.topic[1] = "award" => v5[c].pc = "push",
         UNCHANGED <<v3, v4, v6, v8>>, v7 \subseteq v7',
         v1' \in [Links -> {"none", "mine", "other"}],
         MineStays, RingsFor(new)', EndsFor(new)'
  PROVE  ToldInv'
<1>1. CallFits(new)
  BY ToldFacts, ToldTopics DEF CallFits
<1> PICK crossed \in BOOLEAN : crossed = v8.crossed
  BY ToldFacts
<1>2. v8' = [v8 EXCEPT !.crossed = crossed]
  BY ToldFacts
<1>3. ASSUME ~crossed, new.pc = "push", new.topic[1] = "award"
      PROVE  new.total > Cardinality(Z!AwardRows)
  <2>1. v5[c].topic \in Z!Topics /\ v5[c].topic[1] = "award" /\ v5[c].pc = "push"
    BY <1>3, ToldFacts
  <2>2. c \in Z!AwardsInHand
    BY <2>1, ToldTopics DEF Z!AwardsInHand
  <2>3. v5[c].total > Z!Cardinality(Z!AwardRows)
    BY <1>3, <2>1, <2>2 DEF ToldInv, Z!TotalsAhead
  <2> QED BY <2>3, ToldCount
<1> QED BY <1>1, <1>2, <1>3, ToldMoves

LEMMA ToldDevices ==
  ASSUME ToldInv, NEW c \in CallsOf, Z!ReadDevices(c)
  PROVE  ToldInv'
<1> PICK k \in ToldCall : k = v5[c]
  BY ToldFacts
<1> PICK next \in {"total", "end", "push"} :
      next = IF k.topic[1] = "award" THEN "total"
             ELSE IF Z!Inside(c) /\ Z!Mine = {} THEN "end" ELSE "push"
  OBVIOUS
<1> PICK todo \in SUBSET Links : todo = Z!Mine
  BY DEF Z!Mine
<1> PICK new : new = [k EXCEPT !.pc = next, !.todo = todo]
  OBVIOUS
<1>1. /\ k.pc = "devices" /\ v5' = [v5 EXCEPT ![c].pc = next, ![c].todo = todo]
      /\ v7' = IF next = "end" THEN v7 \cup {k.topic} ELSE v7
      /\ UNCHANGED <<v1, v2, v3, v4, v6, v8>>
  BY DEF Z!ReadDevices, Z!Silent
<1>2. v5' = [v5 EXCEPT ![c] = new]
  BY <1>1 DEF ToldInv, ToldTyped
<1>3. /\ new \in ToldCall /\ new.pc = next /\ new.todo = todo /\ new.topic = k.topic
      /\ new.total = k.total /\ k.total = 0
  BY <1>1, ToldFacts DEF ToldCall, CallFits
<1>4. MineStays /\ RingsFor(new)'
  BY <1>1, <1>3 DEF MineStays, RingsFor, Z!Mine
<1>5. EndsFor(new)'
  BY <1>1, <1>3 DEF EndsFor, Z!Inside, Z!InTransaction
<1> QED BY <1>1, <1>2, <1>3, <1>4, <1>5, ToldFacts, ToldGoes

LEMMA ToldTotal ==
  ASSUME ToldInv, NEW c \in CallsOf, Z!ReadTotal(c)
  PROVE  ToldInv'
<1> PICK k \in ToldCall : k = v5[c]
  BY ToldFacts
<1> PICK new : new = [k EXCEPT !.pc = "push", !.total = v3]
  OBVIOUS
<1> PICK crossed \in BOOLEAN :
      crossed = (v8.crossed \/ \E d \in CallsOf \ {c} : v5[d].total # 0)
  OBVIOUS
<1>1. /\ k.pc = "total" /\ v5' = [v5 EXCEPT ![c].pc = "push", ![c].total = v3]
      /\ v8' = [v8 EXCEPT !.crossed = @ \/ \E d \in CallsOf \ {c} : v5[d].total # 0]
      /\ UNCHANGED <<v1, v2, v3, v4, v6, v7>>
  BY DEF Z!ReadTotal
<1>2. v5' = [v5 EXCEPT ![c] = new]
  BY <1>1 DEF ToldInv, ToldTyped
<1>3. v8' = [v8 EXCEPT !.crossed = crossed]
  BY <1>1, ToldFacts
<1>4. /\ new \in ToldCall /\ new.pc = "push" /\ new.todo = k.todo /\ new.topic = k.topic
      /\ new.total = v3 /\ k.topic[1] = "award" /\ k.topic \in Z!Topics
  BY <1>1, ToldFacts DEF ToldCall, CallFits
<1>5. CallFits(new)
  BY <1>4, ToldTopics DEF CallFits
<1>6. MineStays /\ RingsFor(new)' /\ EndsFor(new)'
  BY <1>1, <1>4, ToldFacts DEF MineStays, RingsFor, EndsFor
<1>7. new.total > Cardinality(Z!AwardRows)
  <2>1. ToldTyped
    BY DEF ToldInv
  <2> PICK rows \in Nat : rows = Cardinality(Z!AwardRows)
    BY <2>1, ToldFinite
  <2> PICK hand \in Nat : hand = Cardinality(Z!AwardsInHand)
    BY <2>1, ToldFinite
  <2>2. c \in Z!AwardsInHand
    BY <1>4, ToldTopics DEF Z!AwardsInHand
  <2>3. hand # 0
    BY <2>1, <2>2, ToldFinite, FS_EmptySet
  <2>4. v3 >= rows + hand /\ v3 \in Nat
    BY ToldCount, ToldFacts DEF ToldInv, Z!TotalsAhead
  <2> QED BY <1>4, <2>3, <2>4
<1>8. v8.crossed => crossed
  OBVIOUS
<1>9. new.total \in {0, v5[c].total} \/ crossed \/ OthersUntold(c)
  BY DEF OthersUntold
<1>10. /\ UNCHANGED <<v3, v4, v6>> /\ v7 \subseteq v7' /\ new.topic = v5[c].topic
       /\ v1' \in [Links -> {"none", "mine", "other"}]
       /\ ~crossed /\ new.pc = "push" /\ new.topic[1] = "award" =>
            new.total > Cardinality(Z!AwardRows)
  BY <1>1, <1>4, <1>7, ToldFacts
<1>11. new \in ToldCall
  BY <1>4
<1> QED BY <1>2, <1>3, <1>5, <1>6, <1>8, <1>9, <1>10, <1>11, ToldMoves

LEMMA ToldPush ==
  ASSUME ToldInv, NEW c \in CallsOf, NEW p \in Links,
         Z!Ring(c, p) \/ Z!Refuse(c, p) \/ Z!ThrowOutside(c, p)
  PROVE  ToldInv'
<1> PICK k \in ToldCall : k = v5[c]
  BY ToldFacts
<1> PICK new : new = [k EXCEPT !.todo = @ \ {p}]
  OBVIOUS
<1>1. /\ k.pc = "push" /\ p \in k.todo /\ v5' = [v5 EXCEPT ![c].todo = @ \ {p}]
      /\ UNCHANGED <<v2, v3, v4, v6, v7>>
  BY DEF Z!Ring, Z!Refuse, Z!ThrowOutside, Z!Pushing, Z!Told
<1>2. v5' = [v5 EXCEPT ![c] = new]
  BY <1>1 DEF ToldInv, ToldTyped
<1>3. /\ new \in ToldCall /\ new.pc = "push" /\ new.todo = k.todo \ {p} /\ new.topic = k.topic
      /\ new.total = k.total
  BY <1>1 DEF ToldCall
<1>4. v8' = v8
  <2>1. CASE Z!Ring(c, p)
    <3>1. p \in v2 /\ v8' = [v8 EXCEPT !.strange = @ \/ v1[p] = "other"]
      BY <2>1 DEF Z!Ring
    <3>2. v1[p] = "mine"
      BY <1>1, <3>1, ToldFacts DEF RingsFor
    <3> QED BY <3>1, <3>2, ToldFacts
  <2>2. CASE Z!Refuse(c, p) \/ Z!ThrowOutside(c, p)
    BY <2>2 DEF Z!Refuse, Z!ThrowOutside
  <2> QED BY <2>1, <2>2
<1>5. /\ v1' = v1 \/ (p \notin v2 /\ v1' = Z!Removed(p))
  BY DEF Z!Ring, Z!Refuse, Z!ThrowOutside, Z!Refused
<1>6. v1' \in [Links -> {"none", "mine", "other"}] /\ MineStays
  <2>1. v1 \in [Links -> {"none", "mine", "other"}]
    BY ToldFacts
  <2>2. CASE v1' = v1
    BY <1>1, <2>1, <2>2 DEF MineStays
  <2>3. CASE p \notin v2 /\ v1' = Z!Removed(p)
    <3>1. v1' = [v1 EXCEPT ![p] = IF @ = "mine" THEN "none" ELSE @]
      BY <2>3 DEF Z!Removed
    <3>2. v1' \in [Links -> {"none", "mine", "other"}]
      BY <2>1, <3>1
    <3>3. \A q \in v2 \cap Links : v1[q] = "mine" => v1'[q] = "mine"
      BY <2>1, <2>3, <3>1
    <3> QED BY <1>1, <3>2, <3>3 DEF MineStays
  <2> QED BY <1>5, <2>2, <2>3
<1>7. RingsFor(new)' /\ EndsFor(new)'
  BY <1>1, <1>3, <1>6, ToldFacts DEF MineStays, RingsFor, EndsFor, ToldCall
<1>8. /\ v5[c].pc # "idle" /\ new.topic = v5[c].topic /\ new.total = v5[c].total
      /\ new.pc # "idle" /\ (new.total # 0 => new.pc = "push")
      /\ (new.pc = "total" => new.topic[1] = "award")
      /\ (new.pc = "push" /\ new.topic[1] = "award" => v5[c].pc = "push")
      /\ UNCHANGED <<v3, v4, v6, v8>> /\ v7 \subseteq v7' /\ new \in ToldCall
  BY <1>1, <1>3, <1>4
<1> QED BY <1>2, <1>6, <1>7, <1>8, ToldGoes

\* A call comes to its end inside a transaction, with its row or its reason.
LEMMA ToldReaches ==
  ASSUME ToldInv, NEW c \in CallsOf,
         Z!SaveMatch(c) \/ Z!SaveReady(c) \/ \E p \in Links : Z!ThrowReady(c, p)
  PROVE  ToldInv'
<1> PICK k \in ToldCall : k = v5[c]
  BY ToldFacts
<1>1. /\ k.pc = "push" /\ k.topic[1] \in {"match", "ready"}
      /\ UNCHANGED <<v1, v2, v3, v4, v6, v8>> /\ v7 \subseteq v7'
  BY DEF Z!SaveMatch, Z!SaveReady, Z!Listed, Z!ThrowReady, Z!Pushing, Z!Silent
<1> PICK new \in {[k EXCEPT !.pc = "end", !.row = TRUE], [k EXCEPT !.pc = "end", !.todo = {}]} :
      v5' = [v5 EXCEPT ![c] = new] /\ (new.row \/ k.topic \in v7')
  <2>1. CASE Z!SaveMatch(c) \/ Z!SaveReady(c)
    <3> PICK new : new = [k EXCEPT !.pc = "end", !.row = TRUE]
      OBVIOUS
    <3>1. v5' = [v5 EXCEPT ![c].pc = "end", ![c].row = TRUE]
      BY <2>1 DEF Z!SaveMatch, Z!SaveReady, Z!Saved
    <3>2. v5' = [v5 EXCEPT ![c] = new] /\ new.row
      BY <3>1 DEF ToldInv, ToldTyped, ToldCall
    <3> QED BY <3>2
  <2>2. CASE \E p \in Links : Z!ThrowReady(c, p)
    <3> PICK new : new = [k EXCEPT !.pc = "end", !.todo = {}]
      OBVIOUS
    <3>1. v5' = [v5 EXCEPT ![c].pc = "end", ![c].todo = {}] /\ k.topic \in v7'
      BY <2>2 DEF Z!ThrowReady, Z!Silent
    <3>2. v5' = [v5 EXCEPT ![c] = new]
      BY <3>1 DEF ToldInv, ToldTyped
    <3> QED BY <3>1, <3>2
  <2> QED BY <2>1, <2>2
<1>2. /\ new \in ToldCall /\ new.pc = "end" /\ new.todo \subseteq k.todo /\ new.topic = k.topic
      /\ new.total = k.total
  BY DEF ToldCall
<1>3. new.total = 0
  BY <1>1, <1>2, ToldFacts DEF CallFits
<1>4. MineStays /\ RingsFor(new)' /\ EndsFor(new)'
  BY <1>1, <1>2, ToldFacts DEF MineStays, RingsFor, EndsFor
<1>5. /\ v5[c].pc # "idle" /\ new.topic = v5[c].topic /\ new.total = v5[c].total
      /\ new.pc # "idle" /\ (new.total # 0 => new.pc = "push")
      /\ (new.pc = "total" => new.topic[1] = "award")
      /\ (new.pc = "push" /\ new.topic[1] = "award" => v5[c].pc = "push")
      /\ UNCHANGED <<v3, v4, v6, v8>> /\ v7 \subseteq v7'
      /\ v1' \in [Links -> {"none", "mine", "other"}]
  BY <1>1, <1>2, <1>3, ToldFacts
<1> QED BY <1>2, <1>4, <1>5, ToldGoes

LEMMA ToldCloses ==
  ASSUME ToldInv, NEW c \in CallsOf,
         \/ Z!SaveAlone(c) \/ Z!SaveFails(c) \/ Z!Commit(c) \/ Z!RollBack(c)
         \/ \E p \in Links : Z!ThrowMatch(c, p)
  PROVE  ToldInv'
<1> PICK k \in ToldCall : k = v5[c]
  BY ToldFacts
<1>1. /\ k.pc \in {"push", "end"} /\ Z!Shut(c) /\ UNCHANGED <<v1, v2, v3, v8>>
  BY DEF Z!SaveAlone, Z!SaveFails, Z!Commit, Z!RollBack, Z!Listed, Z!ThrowMatch, Z!Pushing
<1> PICK t \in Z!Topics : t = k.topic
  BY <1>1, ToldFacts
<1>2. Z!Inside(c) <=> t[1] \in {"match", "ready"}
  BY DEF Z!Inside, Z!InTransaction
<1>3. CASE Z!SaveAlone(c)
  <2>1. /\ k.pc = "push" /\ t[1] \notin {"match", "ready"} /\ v4' = Append(v4, Z!NewRow(c))
        /\ UNCHANGED <<v6, v7>>
    BY <1>2, <1>3 DEF Z!SaveAlone, Z!Listed
  <2> QED BY <1>1, <2>1, ToldEnds
<1>4. CASE Z!SaveFails(c)
  <2>1. /\ UNCHANGED <<v4, v6>> /\ v7 \subseteq v7'
        /\ t[1] \notin {"match", "ready"} => t \in v7'
    BY <1>2, <1>4 DEF Z!SaveFails, Z!Silent
  <2> QED BY <1>1, <2>1, ToldEnds
<1>5. CASE Z!Commit(c)
  <2>1. /\ k.pc = "end" /\ v6' = [v6 EXCEPT ![t] = @ + 1] /\ v7' = v7
        /\ v4' = IF k.row THEN Append(v4, Z!NewRow(c)) ELSE v4
    BY <1>5 DEF Z!Commit, Z!Count
  <2>2. t[1] \in {"match", "ready"} /\ (k.row \/ t \in v7)
    BY <2>1, ToldFacts DEF EndsFor
  <2>3. t[1] # "award"
    BY <2>2
  <2> QED BY <1>1, <2>1, <2>2, <2>3, ToldEnds
<1>6. CASE Z!RollBack(c) \/ \E p \in Links : Z!ThrowMatch(c, p)
  <2>1. UNCHANGED <<v4, v6, v7>>
    BY <1>6 DEF Z!RollBack, Z!ThrowMatch
  <2>2. t[1] \in {"match", "ready"}
    BY <1>2, <1>6, ToldFacts DEF Z!RollBack, Z!ThrowMatch, EndsFor
  <2> QED BY <1>1, <2>1, <2>2, ToldEnds
<1> QED BY <1>3, <1>4, <1>5, <1>6

\* Nothing is told.
LEMMA ToldSame ==
  ASSUME ToldInv, UNCHANGED <<v3, v4, v5, v6, v7, v8>>,
         v1' \in [Links -> {"none", "mine", "other"}], Z!RingsMine'
  PROVE  ToldInv'
<1>1. v3' = v3 /\ v4' = v4 /\ v5' = v5 /\ v6' = v6 /\ v7' = v7 /\ v8' = v8
  OBVIOUS
<1>2. ToldTyped' /\ ~v8'.strange
  BY <1>1 DEF ToldInv, ToldTyped
<1>3. /\ \A t : Z!Of(t)' = Z!Of(t) /\ Z!Hand(t)' = Z!Hand(t)
      /\ Z!AwardRows' = Z!AwardRows /\ Z!AwardsInHand' = Z!AwardsInHand
      /\ \A i : Z!AwardRow(i)' = Z!AwardRow(i)
  BY <1>1 DEF Z!Of, Z!Hand, Z!AwardRows, Z!AwardRow, Z!AwardsInHand
<1>4. \A t : Z!Accounted(t)' = Z!Accounted(t)
  BY <1>3, ToldCount DEF Z!Accounted
<1>5. Z!ToldOrInHand'
  BY <1>1, <1>4 DEF ToldInv, Z!ToldOrInHand
<1>6. Z!EndsTold'
  BY <1>1 DEF ToldInv, Z!EndsTold, Z!Inside
<1>7. Z!TotalsAhead'
  <2>1. /\ Z!Cardinality(Z!AwardRows') = Z!Cardinality(Z!AwardRows)
        /\ Z!Cardinality(Z!AwardsInHand') = Z!Cardinality(Z!AwardsInHand)
    BY <1>3
  <2> QED BY <1>1, <1>3, <2>1 DEF ToldInv, Z!TotalsAhead, Z!Cardinality
<1>8. TotalsTold'
  BY <1>1, <1>3 DEF ToldInv, TotalsTold
<1> QED BY <1>2, <1>5, <1>6, <1>7, <1>8 DEF ToldInv

\* A phone is registered, or expires.
LEMMA ToldPhones ==
  ASSUME ToldInv, NEW p \in Links,
         Z!Expire(p) \/ \E who \in {"mine", "other"} : Z!Register(p, who)
  PROVE  ToldInv'
<1>1. UNCHANGED <<v3, v4, v5, v6, v7, v8>>
  BY DEF Z!Expire, Z!Register
<1>2. v1 \in [Links -> {"none", "mine", "other"}]
  BY DEF ToldInv, ToldTyped
<1>3. /\ v1' \in [Links -> {"none", "mine", "other"}] /\ v2' \subseteq v2
      /\ \A q \in Links : v1[q] = "mine" => v1'[q] = "mine"
  <2>1. CASE Z!Expire(p)
    BY <1>2, <2>1 DEF Z!Expire
  <2>2. CASE \E who \in {"mine", "other"} : Z!Register(p, who)
    <3> PICK who \in {"mine", "other"} : Z!Register(p, who)
      BY <2>2
    <3>1. v1[p] = "none" /\ v1' = [v1 EXCEPT ![p] = who] /\ v2' = v2
      BY DEF Z!Register
    <3> QED BY <1>2, <3>1
  <2> QED BY <2>1, <2>2
<1>4. \A c \in CallsOf : v5[c].todo \subseteq Links
  BY DEF ToldInv, ToldTyped, ToldCall
<1>5. Z!RingsMine'
  BY <1>1, <1>3, <1>4 DEF ToldInv, Z!RingsMine
<1> QED BY <1>1, <1>3, <1>5, ToldSame

LEMMA ToldStep == ToldInv /\ Z!Next => ToldInv'
BY ToldAward, ToldOther, ToldDevices, ToldTotal, ToldPush, ToldReaches, ToldCloses, ToldPhones
   DEF Z!Next

LEMMA ToldStay == ToldInv /\ UNCHANGED vars => ToldInv'
<1> SUFFICES ASSUME ToldInv, UNCHANGED vars PROVE ToldInv'
  OBVIOUS
<1>1. UNCHANGED <<v1, v2, v3, v4, v5, v6, v7, v8>>
  BY DEF vars
<1>2. Z!RingsMine' /\ v1' \in [Links -> {"none", "mine", "other"}]
  BY <1>1 DEF ToldInv, ToldTyped, Z!RingsMine
<1> QED BY <1>1, <1>2, ToldSame

LEMMA ToldShown == ToldInv => Z!PlayerIsTold
<1> SUFFICES ASSUME ToldInv PROVE Z!PlayerIsTold
  OBVIOUS
<1>1. ASSUME NEW t \in Z!Topics, \A c \in CallsOf : v5[c].topic # t
      PROVE  /\ Z!Cardinality(Z!Of(t)) <= v6[t]
             /\ t \notin v7 => Z!Cardinality(Z!Of(t)) = v6[t]
  <2>1. Z!Hand(t) = {}
    BY <1>1 DEF Z!Hand
  <2>2. Z!Cardinality(Z!Hand(t)) = 0
    BY <2>1, ToldCount, FS_EmptySet
  <2>3. Cardinality(Z!Of(t)) \in Nat
    BY ToldFinite DEF ToldInv
  <2>4. Z!Accounted(t) = Cardinality(Z!Of(t)) + 0
    BY <2>2, ToldCount DEF Z!Accounted
  <2>5. Z!Accounted(t) <= v6[t] /\ (t \notin v7 => Z!Accounted(t) = v6[t])
    BY DEF ToldInv, Z!ToldOrInHand
  <2>6. Z!Accounted(t) = Z!Cardinality(Z!Of(t))
    BY <2>3, <2>4, ToldCount
  <2> QED BY <2>5, <2>6
<1>2. v8.crossed \/ \A i \in DOMAIN v4 : Z!AwardRow(i) =>
        v4[i].total >= Z!Cardinality({j \in 1 .. i : Z!AwardRow(j)})
  BY ToldCount DEF ToldInv, TotalsTold
<1> QED BY <1>1, <1>2 DEF ToldInv, Z!PlayerIsTold

-----------------------------------------------------------------------------
(* The list of notifications: clock, coming, rows and screen are v1 to v4. *)

ListRow == [type : {"award", "match"}, read : BOOLEAN, gone : BOOLEAN]
ListTyped ==
  /\ v1 \in 0 .. MaxNotes
  /\ v3 \in [DOMAIN v3 -> ListRow]
  /\ v4 \in [page : Nat, filter : R!Filters, there : SUBSET R!Stamps,
              seen : SUBSET R!Stamps, went : BOOLEAN, ended : BOOLEAN]
  /\ v4.page = 0 => ~v4.ended
ListInv == ListTyped /\ R!ComesOnce /\ R!StillToCome /\ R!PagesWhole

\* Of a set of numbers those with at least skip and less than skip and limit above
\* them are limit, when one of the set has more above it.
Over(x, all) == {t \in all : t > x}
CountOver(x, all) == Cardinality(Over(x, all))
Between(all, skip, limit) ==
  {x \in all : CountOver(x, all) >= skip /\ CountOver(x, all) < skip + limit}

LEMMA Filled ==
  ASSUME NEW bound \in Nat, NEW all \in SUBSET (1 .. bound), NEW skip \in Nat,
         NEW limit \in Nat, NEW s \in all, CountOver(s, all) >= skip + limit
  PROVE  Cardinality(Between(all, skip, limit)) >= limit
<1> PICK below : below = {x \in all : CountOver(x, all) < skip + limit}
  OBVIOUS
<1> PICK low : low = {x \in all : CountOver(x, all) < skip}
  OBVIOUS
<1>1. IsFiniteSet(all)
  <2>1. IsFiniteSet(1 .. bound)
    BY FS_Interval
  <2> QED BY <2>1, FS_Subset
<1>2. ASSUME NEW part \in SUBSET all PROVE IsFiniteSet(part) /\ Cardinality(part) \in Nat
  BY <1>1, FS_Subset, FS_CardinalityType
<1>3. \A x \in all : Over(x, all) \in SUBSET all
  BY DEF Over
<1>4. \A x \in all : CountOver(x, all) \in Nat
  BY <1>2, <1>3 DEF CountOver
<1>5. ASSUME NEW whole \in SUBSET all, NEW part \in SUBSET whole PROVE Cardinality(part) <= Cardinality(whole)
  <2>1. IsFiniteSet(whole)
    BY <1>2
  <2> QED BY <2>1, FS_Subset
<1>6. below \in SUBSET all /\ low \in SUBSET all
  OBVIOUS
<1>7. Cardinality(below) >= skip + limit
  <2>6. CountOver(s, all) \in Nat /\ skip + limit \in Nat
    BY <1>4
  <2>7. ~(CountOver(s, all) < skip + limit)
    BY <2>6
  <2>1. all \ below \in SUBSET (1 .. bound) /\ s \in all \ below
    BY <2>7
  <2> PICK u \in all \ below : \A m \in all \ below : m <= u
    BY <2>1, Greatest
  <2>2. u \in all /\ CountOver(u, all) >= skip + limit
    BY <1>4
  <2>3. Over(u, all) \in SUBSET below
    <3> SUFFICES ASSUME NEW t \in all, t > u, t \notin below PROVE FALSE
      BY DEF Over
    <3>1. t <= u /\ t \in Nat /\ u \in Nat
      OBVIOUS
    <3> QED BY <3>1
  <2>4. CountOver(u, all) <= Cardinality(below)
    BY <1>5, <1>6, <2>3 DEF CountOver
  <2>5. Cardinality(below) \in Nat
    BY <1>2, <1>6
  <2> QED BY <1>4, <2>2, <2>4, <2>5
<1>8. Cardinality(low) <= skip
  <2>1. CASE low = {}
    <3>1. Cardinality(low) = 0
      BY <2>1, FS_EmptySet
    <3> QED BY <3>1
  <2>2. CASE low # {}
    <3>8. all \subseteq Nat
      OBVIOUS
    <3>1. low \in SUBSET Nat
      BY <1>6, <3>8
    <3> PICK m \in low : \A x \in low : m <= x
      BY <2>2, <3>1, Least
    <3>2. m \in all /\ CountOver(m, all) < skip
      OBVIOUS
    <3>3. low \ {m} \in SUBSET Over(m, all)
      BY <3>1 DEF Over
    <3>4. Cardinality(low \ {m}) <= CountOver(m, all)
      BY <1>3, <1>5, <3>2, <3>3 DEF CountOver
    <3>5. IsFiniteSet(low) /\ Cardinality(low) \in Nat
      BY <1>2, <1>6
    <3>6. Cardinality(low \ {m}) = Cardinality(low) - 1
      BY <3>5, FS_RemoveElement
    <3>7. CountOver(m, all) \in Nat
      BY <1>4, <3>2
    <3> QED BY <3>2, <3>4, <3>5, <3>6, <3>7
  <2> QED BY <2>1, <2>2
<1>9. low \in SUBSET below /\ Between(all, skip, limit) = below \ low
  <2>1. \A x \in all : /\ CountOver(x, all) < skip => CountOver(x, all) < skip + limit
                       /\ CountOver(x, all) >= skip <=> ~(CountOver(x, all) < skip)
    <3> SUFFICES ASSUME NEW x \in all, NEW n \in Nat, n = CountOver(x, all)
                 PROVE  (n < skip => n < skip + limit) /\ (n >= skip <=> ~(n < skip))
      BY <1>4
    <3> QED OBVIOUS
  <2>2. low \in SUBSET below
    <3> SUFFICES ASSUME NEW x \in low PROVE x \in below
      OBVIOUS
    <3>1. x \in all /\ CountOver(x, all) < skip
      BY Zenon
    <3>2. CountOver(x, all) < skip + limit
      BY <2>1, <3>1, Zenon
    <3> QED BY <3>1, <3>2, Zenon
  <2>3. ASSUME NEW x PROVE x \in Between(all, skip, limit) <=> x \in below \ low
    <3>1. x \in below \ low <=> /\ x \in all /\ CountOver(x, all) < skip + limit
                            /\ ~(CountOver(x, all) < skip)
      OBVIOUS
    <3>2. x \in Between(all, skip, limit) <=>
            /\ x \in all /\ CountOver(x, all) < skip + limit /\ CountOver(x, all) >= skip
      BY DEF Between
    <3> QED BY <2>1, <3>1, <3>2
  <2>4. Between(all, skip, limit) = below \ low
    BY <2>3
  <2> QED BY <2>2, <2>4
<1>10. Cardinality(below \ low) = Cardinality(below) - Cardinality(low)
  <2>1. IsFiniteSet(below) /\ IsFiniteSet(low)
    BY <1>2, <1>6
  <2>2. Cardinality(below \ low) = Cardinality(below) - Cardinality(below \cap low)
    BY <2>1, FS_Difference
  <2>3. below \cap low = low
    BY <1>9
  <2> QED BY <2>2, <2>3
<1>11. Cardinality(low) \in Nat /\ Cardinality(below) \in Nat
  BY <1>2, <1>6
<1> QED BY <1>7, <1>8, <1>9, <1>10, <1>11

LEMMA ListCount == \A set : R!Cardinality(set) = Cardinality(set)
BY DEF R!Cardinality, Cardinality

LEMMA ListSkip ==
  \A page \in Nat : /\ R!Skip(page + 1) \in Nat
                    /\ R!Skip(page + 2) = R!Skip(page + 1) + PerPage
<1> SUFFICES ASSUME NEW page \in Nat
             PROVE  /\ R!Skip(page + 1) \in Nat
                    /\ R!Skip(page + 2) = R!Skip(page + 1) + PerPage
  OBVIOUS
<1> PICK l \in Nat : l = PerPage
  BY ServicesAssumption
<1>1. R!Skip(page + 1) = page * l /\ R!Skip(page + 2) = (page + 1) * l
  BY DEF R!Skip
<1>2. page * l \in Nat /\ (page + 1) * l = page * l + l
  OBVIOUS
<1> QED BY <1>1, <1>2

LEMMA ListRows ==
  ASSUME ListInv, NEW f
  PROVE  R!Matching(f) \in SUBSET R!Visible /\ R!Visible \in SUBSET (1 .. MaxNotes)
<1>1. R!Visible \in SUBSET (1 .. MaxNotes)
  <2>1. 1 .. v1 \subseteq 1 .. MaxNotes
    BY ServicesAssumption DEF ListInv, ListTyped
  <2> QED BY <2>1 DEF ListInv, R!ComesOnce, R!Visible
<1>2. R!Matching(f) \in SUBSET R!Visible
  BY DEF R!Matching, R!Unread
<1> QED BY <1>1, <1>2

\* How many are above one does not fall when others come in.
LEMMA ListNewer ==
  ASSUME NEW all \in SUBSET (1 .. MaxNotes), NEW more \in SUBSET (1 .. MaxNotes),
         all \subseteq more, NEW s \in 1 .. MaxNotes
  PROVE  /\ R!Newer(s, all) \in Nat /\ R!Newer(s, more) \in Nat
         /\ R!Newer(s, all) <= R!Newer(s, more)
<1> PICK low : low = {t \in all : t > s}
  OBVIOUS
<1> PICK high : high = {t \in more : t > s}
  OBVIOUS
<1>1. IsFiniteSet(1 .. MaxNotes)
  BY ServicesAssumption, FS_Interval
<1>2. low \subseteq high /\ high \subseteq 1 .. MaxNotes
  OBVIOUS
<1>3. IsFiniteSet(high)
  BY <1>1, <1>2, FS_Subset
<1>4. IsFiniteSet(low) /\ Cardinality(low) <= Cardinality(high)
  BY <1>2, <1>3, FS_Subset
<1>5. Cardinality(low) \in Nat /\ Cardinality(high) \in Nat
  BY <1>3, <1>4, FS_CardinalityType
<1>6. R!Newer(s, all) = Cardinality(low) /\ R!Newer(s, more) = Cardinality(high)
  BY ListCount DEF R!Newer
<1> QED BY <1>4, <1>5, <1>6

\* A page that is not full is the last one.
LEMMA ListPage ==
  ASSUME ListInv, NEW page \in Nat, NEW f, NEW s \in R!Matching(f),
         s \notin R!Page(page + 1, f), R!Newer(s, R!Matching(f)) >= R!Skip(page + 1)
  PROVE  /\ R!Newer(s, R!Matching(f)) >= R!Skip(page + 2)
         /\ ~(R!Cardinality(R!Page(page + 1, f)) < PerPage)
<1> PICK all \in SUBSET (1 .. MaxNotes) : all = R!Matching(f)
  BY ListRows
<1> PICK skip \in Nat : skip = R!Skip(page + 1)
  BY ListSkip
<1>1. PerPage \in Nat /\ MaxNotes \in Nat
  BY ServicesAssumption
<1>2. R!Newer(s, all) \in Nat
  BY ListNewer
<1>3. R!Newer(s, all) >= skip + PerPage
  BY <1>1, <1>2 DEF R!Page
<1>4. \A x : R!Newer(x, all) = CountOver(x, all)
  BY ListCount DEF R!Newer, CountOver, Over
<1> PICK shown : shown = Between(all, skip, PerPage)
  OBVIOUS
<1>5. Cardinality(shown) >= PerPage
  BY <1>1, <1>3, <1>4, Filled
<1>6. R!Page(page + 1, f) = {x \in all : R!Newer(x, all) >= skip /\ R!Newer(x, all) < skip + PerPage}
  BY DEF R!Page
<1>7. R!Page(page + 1, f) = shown
  BY <1>4, <1>6 DEF Between
<1>8. IsFiniteSet(shown)
  <2>1. IsFiniteSet(1 .. MaxNotes) /\ shown \subseteq 1 .. MaxNotes
    BY <1>1, FS_Interval DEF Between
  <2> QED BY <2>1, FS_Subset
<1>9. Cardinality(shown) \in Nat
  BY <1>8, FS_CardinalityType
<1>10. ~(Cardinality(shown) < PerPage)
  BY <1>1, <1>5, <1>9
<1>11. ~(R!Cardinality(R!Page(page + 1, f)) < PerPage)
  BY <1>7, <1>10, ListCount
<1> QED BY <1>3, <1>11, ListSkip

LEMMA ListClosed ==
  /\ R!Closed.page = 0 /\ R!Closed.there = {} /\ ~R!Closed.ended
  /\ R!Closed \in [page : Nat, filter : R!Filters, there : SUBSET R!Stamps,
                   seen : SUBSET R!Stamps, went : BOOLEAN, ended : BOOLEAN]
BY DEF R!Closed, R!Filters

LEMMA ListBegin == R!Init => ListInv
<1> SUFFICES ASSUME R!Init PROVE ListInv
  OBVIOUS
<1>1. /\ v1 = 0 /\ v2 = {} /\ v3 = [s \in {} |-> 0] /\ v4 = R!Closed
  BY DEF R!Init
<1>2. /\ v4.page = 0 /\ v4.there = {}
  BY <1>1, ListClosed
<1>3. DOMAIN v3 = {}
  BY <1>1
<1>4. ListTyped /\ R!ComesOnce
  BY <1>1, <1>3, ListClosed, ServicesAssumption DEF ListTyped, R!ComesOnce
<1> QED BY <1>2, <1>4 DEF ListInv, R!StillToCome, R!PagesWhole

\* What the screen still has to read stays on its pages while rows only come in.
LEMMA ListGrows ==
  ASSUME ListInv, v4.page # 0 => R!Matching(v4.filter) \subseteq R!Matching(v4.filter)',
         UNCHANGED v4, R!ComesOnce', v1' \in 0 .. MaxNotes,
         v3' \in [DOMAIN v3' -> ListRow]
  PROVE  ListInv'
<1>1. R!StillToCome'
  <2> SUFFICES ASSUME v4.page # 0, ~v4.went, NEW s \in v4.there \ v4.seen
               PROVE  /\ s \in R!Matching(v4.filter)'
                      /\ R!Newer(s, R!Matching(v4.filter)') >= R!Skip(v4.page + 1)
    BY DEF R!StillToCome, R!Newer, R!Skip, R!Cardinality
  <2> PICK all \in SUBSET (1 .. MaxNotes) : all = R!Matching(v4.filter)
    BY ListRows
  <2> PICK more : more = R!Matching(v4.filter)'
    OBVIOUS
  <2>1. more \in SUBSET (1 .. MaxNotes)
    <3>1. 1 .. v1' \subseteq 1 .. MaxNotes
      BY ServicesAssumption
    <3> QED BY <3>1 DEF R!ComesOnce, R!Matching, R!Visible, R!Unread
  <2>2. s \in all /\ R!Newer(s, all) >= R!Skip(v4.page + 1)
    BY DEF ListInv, R!StillToCome
  <2>3. R!Newer(s, all) \in Nat /\ R!Newer(s, more) \in Nat /\ R!Newer(s, all) <= R!Newer(s, more)
    BY <2>1, <2>2, ListNewer
  <2>4. R!Skip(v4.page + 1) \in Nat
    BY ListSkip DEF ListInv, ListTyped
  <2> QED BY <2>2, <2>3, <2>4
<1>2. R!PagesWhole'
  BY DEF ListInv, R!PagesWhole
<1>3. ListTyped'
  BY DEF ListInv, ListTyped
<1> QED BY <1>1, <1>2, <1>3 DEF ListInv

LEMMA ListTransaction ==
  ASSUME ListInv, R!Begin \/ \E s \in R!Stamps : R!Abort(s)
  PROVE  ListInv'
<1>1. UNCHANGED <<v3, v4>>
  BY DEF R!Begin, R!Abort
<1>2. /\ R!Matching(v4.filter)' = R!Matching(v4.filter)
      /\ v3' \in [DOMAIN v3' -> ListRow]
  BY <1>1 DEF ListInv, ListTyped, ListRow, R!Matching, R!Visible, R!Unread
<1>3. CASE R!Begin
  <2>1. v1 \in 0 .. MaxNotes /\ v1 < MaxNotes /\ v1' = v1 + 1 /\ v2' = v2 \cup {v1 + 1}
    BY <1>3 DEF R!Begin, ListInv, ListTyped
  <2> PICK n \in Nat : n = v1
    BY <2>1
  <2>2. v1' \in 0 .. MaxNotes
    BY <2>1, ServicesAssumption
  <2>3. v1 + 1 \in 1 .. v1' /\ v1 + 1 \notin 1 .. v1 /\ 1 .. v1 \subseteq 1 .. v1'
    BY <2>1
  <2>4. R!ComesOnce'
    BY <1>1, <2>1, <2>3 DEF ListInv, R!ComesOnce
  <2> QED BY <1>1, <1>2, <2>2, <2>4, ListGrows
<1>4. CASE \E s \in R!Stamps : R!Abort(s)
  <2>1. v1' = v1 /\ v2' \subseteq v2
    BY <1>4 DEF R!Abort
  <2>2. R!ComesOnce' /\ v1' \in 0 .. MaxNotes
    BY <1>1, <2>1 DEF ListInv, ListTyped, ListRow, R!ComesOnce
  <2> QED BY <1>1, <1>2, <2>2, ListGrows
<1> QED BY <1>3, <1>4

LEMMA ListCommit ==
  ASSUME ListInv, NEW s \in R!Stamps, NEW type \in {"award", "match"}, R!Commit(s, type)
  PROVE  ListInv'
<1>1. /\ s \in v2 /\ v2' = v2 \ {s} /\ UNCHANGED <<v1, v4>>
      /\ v3' = [t \in DOMAIN v3 \cup {s} |->
                  IF t = s THEN [type |-> type, read |-> FALSE, gone |-> FALSE] ELSE v3[t]]
  BY DEF R!Commit
<1>2. s \notin DOMAIN v3 /\ s \in 1 .. v1
  BY <1>1 DEF ListInv, R!ComesOnce
<1>3. DOMAIN v3' = DOMAIN v3 \cup {s} /\ \A t \in DOMAIN v3 : v3'[t] = v3[t]
  BY <1>1, <1>2
<1>4. R!ComesOnce' /\ v1' \in 0 .. MaxNotes
  BY <1>1, <1>2, <1>3 DEF ListInv, ListTyped, ListRow, R!ComesOnce
<1>5. R!Matching(v4.filter) \subseteq R!Matching(v4.filter)'
  BY <1>1, <1>3 DEF R!Matching, R!Visible, R!Unread
<1>6. v3' \in [DOMAIN v3' -> ListRow]
  BY <1>1, <1>3 DEF ListInv, ListTyped, ListRow
<1> QED BY <1>1, <1>4, <1>5, <1>6, ListGrows

\* An update of the rows either leaves the screen's pages alone or is told it.
LEMMA ListChanges ==
  ASSUME ListInv, NEW new, NEW lost \in BOOLEAN, R!Changed(new, lost),
         new \in [DOMAIN v3 -> ListRow],
         ~lost => R!Matching(v4.filter)' = R!Matching(v4.filter)
  PROVE  ListInv'
<1> PICK f : f = v4.filter
  OBVIOUS
<1>1. /\ v3' = new /\ UNCHANGED <<v1, v2>>
      /\ v4' = [v4 EXCEPT !.went = v4.page # 0 /\ (@ \/ lost)]
  BY DEF R!Changed
<1>2. R!ComesOnce' /\ v1' \in 0 .. MaxNotes
  BY <1>1 DEF ListInv, ListTyped, ListRow, R!ComesOnce
<1>3. ASSUME NEW went \in BOOLEAN, v4' = [v4 EXCEPT !.went = went],
             v4.page # 0 => went \/ (~v4.went /\ ~lost)
      PROVE  ListInv'
  <2>1. /\ v4'.page = v4.page /\ v4'.went = went /\ v4'.ended = v4.ended /\ v4'.filter = v4.filter
        /\ v4'.there = v4.there /\ v4'.seen = v4.seen
    BY <1>3 DEF ListInv, ListTyped
  <2>2. ListTyped'
    <3>1. v3' \in [DOMAIN v3' -> ListRow]
      BY <1>1
    <3> QED BY <1>2, <1>3, <2>1, <3>1 DEF ListInv, ListTyped
  <2>3. R!PagesWhole'
    BY <1>3, <2>1 DEF ListInv, ListTyped, ListRow, R!PagesWhole
  <2>4. R!StillToCome'
    <3> SUFFICES ASSUME v4'.page # 0, ~v4'.went, NEW s \in v4'.there \ v4'.seen
                 PROVE  /\ s \in R!Matching(v4.filter)'
                        /\ R!Newer(s, R!Matching(v4.filter)') >= R!Skip(v4'.page + 1)
      BY DEF R!StillToCome, R!Newer, R!Skip, R!Cardinality
    <3>1. /\ s \in R!Matching(f)
          /\ R!Newer(s, R!Matching(f)) >= R!Skip(v4.page + 1)
      BY <1>3, <2>1 DEF ListInv, R!StillToCome
    <3>2. R!Matching(v4.filter)' = R!Matching(v4.filter)
      BY <1>3, <2>1
    <3> QED BY <2>1, <3>1, <3>2
  <2> QED BY <1>2, <2>2, <2>3, <2>4 DEF ListInv
<1>4. v4.went \in BOOLEAN
  BY DEF ListInv, ListTyped
<1> PICK went \in BOOLEAN : went = (v4.page # 0 /\ (v4.went \/ lost))
  OBVIOUS
<1>5. v4' = [v4 EXCEPT !.went = went] /\ (v4.page # 0 => went \/ (~v4.went /\ ~lost))
  BY <1>1, <1>4
<1> QED BY <1>3, <1>5

\* Reading or deleting rows.
LEMMA ListUpdates ==
  ASSUME ListInv,
         R!ReadAll \/ \E s \in R!Stamps : R!Open(s) \/ R!SoftDelete(s)
  PROVE  ListInv'
<1> PICK lost \in BOOLEAN : lost = (v4.filter = "unread")
  OBVIOUS
<1>1. CASE R!ReadAll
  <2> PICK new : new = [s \in DOMAIN v3 |-> [v3[s] EXCEPT !.read = @ \/ s \in R!Unread]]
    OBVIOUS
  <2>1. /\ R!Changed(new, lost)
        /\ new \in [DOMAIN v3 -> ListRow]
    BY <1>1 DEF R!ReadAll, ListInv, ListTyped, ListRow
  <2>2. \A s \in DOMAIN v3 : new[s].gone = v3[s].gone /\ new[s].type = v3[s].type
    BY DEF ListInv, ListTyped, ListRow
  <2>3. v3' = new /\ v4'.filter = v4.filter
    BY <2>1 DEF R!Changed, ListInv, ListTyped
  <2>4. ~lost => R!Matching(v4.filter)' = R!Matching(v4.filter)
    <3>1. DOMAIN v3' = DOMAIN v3 /\ R!Visible' = R!Visible
      BY <2>1, <2>2, <2>3 DEF R!Visible
    <3>2. \A t \in R!Visible : v3'[t].type = v3[t].type
      BY <2>2, <2>3 DEF R!Visible
    <3> QED BY <2>3, <3>1, <3>2 DEF R!Matching
  <2> QED BY <2>1, <2>4, ListChanges
<1>2. ASSUME NEW s \in R!Stamps, R!Open(s) PROVE ListInv'
  <2> PICK new : new = [v3 EXCEPT ![s].read = TRUE]
    OBVIOUS
  <2>1. /\ R!Changed(new, lost)
        /\ new \in [DOMAIN v3 -> ListRow]
    BY <1>2 DEF ListInv, ListTyped, ListRow, R!Open
  <2>2. \A t \in DOMAIN v3 : new[t].gone = v3[t].gone /\ new[t].type = v3[t].type
    BY DEF ListInv, ListTyped, ListRow
  <2>3. v3' = new /\ v4'.filter = v4.filter
    BY <2>1 DEF R!Changed, ListInv, ListTyped
  <2>4. ~lost => R!Matching(v4.filter)' = R!Matching(v4.filter)
    <3>1. DOMAIN v3' = DOMAIN v3 /\ R!Visible' = R!Visible
      BY <2>1, <2>2, <2>3 DEF R!Visible
    <3>2. \A t \in R!Visible : v3'[t].type = v3[t].type
      BY <2>2, <2>3 DEF R!Visible
    <3> QED BY <2>3, <3>1, <3>2 DEF R!Matching
  <2> QED BY <2>1, <2>4, ListChanges
<1>3. ASSUME NEW s \in R!Stamps, R!SoftDelete(s) PROVE ListInv'
  <2> PICK new : new = [v3 EXCEPT ![s].gone = TRUE]
    OBVIOUS
  <2>1. /\ R!Changed(new, TRUE)
        /\ new \in [DOMAIN v3 -> ListRow]
    BY <1>3 DEF ListInv, ListTyped, ListRow, R!SoftDelete
  <2> QED BY <2>1, ListChanges
<1> QED BY <1>1, <1>2, <1>3


\* The first page: what is there and not on it is on those after it, if there are any.
LEMMA ListFirst ==
  ASSUME ListInv, NEW f \in R!Filters, R!FirstPage(f)
  PROVE  ListInv'
<1> PICK all \in SUBSET R!Stamps : all = R!Matching(f)
  BY ListRows DEF R!Stamps
<1> PICK page \in SUBSET R!Stamps : page = R!Page(1, f)
  BY DEF R!Page
<1>1. /\ v4' = [R!Closed EXCEPT !.page = 1, !.filter = f, !.there = all, !.seen = page,
                                !.ended = R!Cardinality(page) < PerPage]
      /\ UNCHANGED <<v1, v2, v3>>
  BY DEF R!FirstPage
<1>2. /\ v4'.page = 1 /\ v4'.filter = f /\ v4'.there = all /\ v4'.seen = page
      /\ v4'.went = FALSE /\ v4'.ended = (R!Cardinality(page) < PerPage)
  BY <1>1 DEF R!Closed
<1>3. ListTyped'
  <2>4. (R!Cardinality(page) < PerPage) \in BOOLEAN
    OBVIOUS
  <2> PICK ended \in BOOLEAN : ended = (R!Cardinality(page) < PerPage)
    BY <2>4
  <2>1. v4' = [page |-> 1, filter |-> f, there |-> all, seen |-> page, went |-> FALSE,
               ended |-> ended]
    BY <1>1 DEF R!Closed
  <2>2. v4' \in [page : Nat, filter : R!Filters, there : SUBSET R!Stamps,
                 seen : SUBSET R!Stamps, went : BOOLEAN, ended : BOOLEAN]
    BY <2>1
  <2>3. v4'.page # 0
    BY <2>1
  <2> QED BY <1>1, <2>2, <2>3 DEF ListInv, ListTyped
<1>4. R!Matching(v4.filter)' = all
  BY <1>1, <1>2 DEF R!Matching, R!Visible, R!Unread
<1>5. R!Skip(0 + 1) = 0
  <2> PICK l \in Nat : l = PerPage
    BY ServicesAssumption
  <2>1. R!Skip(0 + 1) = 0 * l
    BY DEF R!Skip
  <2> QED BY <2>1
<1>6. ASSUME NEW s \in all \ page
      PROVE  R!Newer(s, all) >= R!Skip(2) /\ ~(R!Cardinality(page) < PerPage)
  <2>1. s \in 1 .. MaxNotes /\ all \in SUBSET (1 .. MaxNotes)
    BY DEF R!Stamps
  <2>2. R!Newer(s, all) \in Nat
    BY <2>1, ListNewer
  <2>3. R!Newer(s, all) >= R!Skip(0 + 1)
    BY <1>5, <2>2
  <2>4. s \in R!Matching(f) /\ s \notin R!Page(0 + 1, f)
    OBVIOUS
  <2>5. 0 \in Nat /\ 0 + 1 = 1 /\ 0 + 2 = 2
    OBVIOUS
  <2> QED BY <2>3, <2>4, <2>5, ListPage
<1>7. R!StillToCome'
  <2> SUFFICES ASSUME NEW s \in v4'.there \ v4'.seen
               PROVE  /\ s \in R!Matching(v4.filter)'
                      /\ R!Newer(s, R!Matching(v4.filter)') >= R!Skip(v4'.page + 1)
    BY DEF R!StillToCome, R!Newer, R!Skip, R!Cardinality
  <2>1. s \in all \ page /\ v4'.page + 1 = 2
    BY <1>2
  <2> QED BY <1>2, <1>4, <1>6, <2>1
<1>8. R!PagesWhole'
  BY <1>2, <1>6 DEF R!PagesWhole
<1>9. R!ComesOnce'
  BY <1>1 DEF ListInv, R!ComesOnce
<1> QED BY <1>3, <1>7, <1>8, <1>9 DEF ListInv

LEMMA ListNext ==
  ASSUME ListInv, R!NextPage
  PROVE  ListInv'
<1> PICK n \in Nat : n = v4.page
  BY DEF ListInv, ListTyped
<1> PICK f \in R!Filters : f = v4.filter
  BY DEF ListInv, ListTyped
<1> PICK all \in SUBSET R!Stamps : all = R!Matching(f)
  BY ListRows DEF R!Stamps
<1> PICK page \in SUBSET R!Stamps : page = R!Page(n + 1, f)
  BY DEF R!Page
<1>1. /\ v4' = [v4 EXCEPT !.page = @ + 1, !.seen = @ \cup page,
                          !.ended = R!Cardinality(page) < PerPage]
      /\ v4.page # 0 /\ ~v4.ended /\ UNCHANGED <<v1, v2, v3>>
  BY DEF R!NextPage
<1>2. /\ v4'.page = n + 1 /\ v4'.filter = f /\ v4'.there = v4.there
      /\ v4'.seen = v4.seen \cup page
      /\ v4'.went = v4.went /\ v4'.ended = (R!Cardinality(page) < PerPage)
  BY <1>1 DEF ListInv, ListTyped
<1>3. ListTyped'
  <2>1. (R!Cardinality(page) < PerPage) \in BOOLEAN /\ n + 1 \in Nat /\ n + 1 # 0
    OBVIOUS
  <2>2. v4.seen \cup page \in SUBSET R!Stamps
    BY DEF ListInv, ListTyped
  <2> QED BY <1>1, <1>2, <2>1, <2>2 DEF ListInv, ListTyped
<1>4. R!Matching(v4.filter)' = all
  BY <1>1, <1>2 DEF R!Matching, R!Visible, R!Unread
<1>5. ASSUME ~v4.went, NEW s \in v4.there \ (v4.seen \cup page)
      PROVE  s \in all /\ R!Newer(s, all) >= R!Skip(n + 2) /\ ~(R!Cardinality(page) < PerPage)
  <2>1. s \in all /\ R!Newer(s, all) >= R!Skip(n + 1)
    BY <1>1, <1>5 DEF ListInv, R!StillToCome
  <2> QED BY <1>5, <2>1, ListPage
<1>6. R!StillToCome'
  <2> SUFFICES ASSUME ~v4'.went, NEW s \in v4'.there \ v4'.seen
               PROVE  /\ s \in R!Matching(v4.filter)'
                      /\ R!Newer(s, R!Matching(v4.filter)') >= R!Skip(v4'.page + 1)
    BY DEF R!StillToCome, R!Newer, R!Skip, R!Cardinality
  <2>1. /\ ~v4.went /\ s \in v4.there \ (v4.seen \cup page) /\ v4'.page + 1 = n + 2
    BY <1>2
  <2> QED BY <1>4, <1>5, <2>1
<1>7. R!PagesWhole'
  BY <1>2, <1>5 DEF R!PagesWhole
<1>8. R!ComesOnce'
  BY <1>1 DEF ListInv, R!ComesOnce
<1> QED BY <1>3, <1>6, <1>7, <1>8 DEF ListInv

LEMMA ListCloses ==
  ASSUME ListInv, R!CloseList
  PROVE  ListInv'
<1>1. v4' = R!Closed /\ UNCHANGED <<v1, v2, v3>>
  BY DEF R!CloseList
<1>2. ListTyped'
  BY <1>1, ListClosed DEF ListInv, ListTyped
<1>3. v4'.page = 0 /\ v4'.there = {}
  BY <1>1 DEF R!Closed
<1> QED BY <1>1, <1>2, <1>3 DEF ListInv, R!ComesOnce, R!StillToCome, R!PagesWhole

LEMMA ListStep == ListInv /\ R!Next => ListInv'
BY ListTransaction, ListCommit, ListUpdates, ListFirst, ListNext, ListCloses DEF R!Next

LEMMA ListStay == ListInv /\ UNCHANGED vars => ListInv'
<1> SUFFICES ASSUME ListInv, UNCHANGED vars PROVE ListInv'
  OBVIOUS
<1>1. UNCHANGED <<v1, v2, v3, v4>>
  BY DEF vars
<1>2. R!Matching(v4.filter) \subseteq R!Matching(v4.filter)'
  BY <1>1 DEF R!Matching, R!Visible, R!Unread
<1>3. R!ComesOnce' /\ v1' \in 0 .. MaxNotes /\ v3' \in [DOMAIN v3' -> ListRow]
  BY <1>1 DEF ListInv, ListTyped, R!ComesOnce
<1> QED BY <1>1, <1>2, <1>3, ListGrows

\* The code in a player's hands is the one that logs in, and an account is welcomed
\* once, unless sends or logins overlapped; what is committed is in the list as
\* often as it was committed, an award's row counts every award before it, and no
\* phone rings for another's account; and who pages through the list sees once
\* every row that was there.
THEOREM AccountsTold == Spec => []AccountsAgree
<1> DEFINE Inv == /\ which = "accounts" => CodesInv /\ GreetsInv
                  /\ which = "told" => ToldInv
                  /\ which = "list" => ListInv
<1>1. Init => Inv
  BY AccountsBegin, ToldBegin, ListBegin DEF Init
<1>2. Inv /\ [Next]_vars => Inv'
  <2> SUFFICES ASSUME Inv, [Next]_vars PROVE Inv'
    OBVIOUS
  <2>1. ASSUME which' = "accounts" PROVE CodesInv' /\ GreetsInv'
    <3>1. CASE UNCHANGED vars
      BY <2>1, <3>1, AccountsStay DEF vars
    <3>2. CASE Next
      <4>1. which = "accounts" /\ A!Next
        BY <2>1, <3>2 DEF Next
      <4> QED BY <4>1, AccountsStep
    <3> QED BY <3>1, <3>2
  <2>2. ASSUME which' = "told" PROVE ToldInv'
    <3>1. CASE UNCHANGED vars
      BY <2>2, <3>1, ToldStay DEF vars
    <3>2. CASE Next
      <4>1. which = "told" /\ Z!Next
        BY <2>2, <3>2 DEF Next
      <4> QED BY <4>1, ToldStep
    <3> QED BY <3>1, <3>2
  <2>3. ASSUME which' = "list" PROVE ListInv'
    <3>1. CASE UNCHANGED vars
      BY <2>3, <3>1, ListStay DEF vars
    <3>2. CASE Next
      <4>1. which = "list" /\ R!Next
        BY <2>3, <3>2 DEF Next
      <4> QED BY <4>1, ListStep
    <3> QED BY <3>1, <3>2
  <2> QED BY <2>1, <2>2, <2>3
<1>3. Inv => AccountsAgree
  BY ToldShown DEF AccountsAgree, CodesInv, GreetsInv, ListInv
<1> QED BY <1>1, <1>2, <1>3, PTL DEF Spec
=============================================================================
