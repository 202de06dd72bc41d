------------------------ MODULE PlayerServicesProofs ------------------------
(***************************************************************************)
(* The services of the players, proved for every number of calls, files,   *)
(* recordings, payments, users and playlists: their files and the venues'  *)
(* pictures, what their payments and coupons unlock, and the Lambdas that  *)
(* give a recording its watermark and its MP4.  As in CourtServicesProofs, *)
(* each theorem is about the Init and Next of its services, and the        *)
(* invariants stand in the services' modules.                              *)
(***************************************************************************)
EXTENDS MCServices, FiniteSetTheorems, WellFoundedInduction, TLAPS

LEMMA NotLess ==
  ASSUME NEW j \in Nat, NEW k \in Nat, ~(j < k)
  PROVE  k <= j
OBVIOUS

\* A set of naturals that has a bound has a greatest member, and any has a least.
LEMMA Greatest ==
  ASSUME NEW bound \in Nat, NEW set \in SUBSET (1 .. bound), set # {}
  PROVE  \E n \in set : \A m \in set : m <= n
<1> DEFINE above == {k \in Nat : \E n \in set : k = bound - n}
<1>1. above \in SUBSET Nat /\ above # {}
  <2> PICK n \in set : TRUE
    OBVIOUS
  <2>1. n \in Nat /\ n <= bound
    OBVIOUS
  <2>2. bound - n \in Nat
    BY <2>1
  <2> QED BY <2>2
<1> HIDE DEF above
<1>2. \E k \in above : \A j \in above : k <= j
  <2> PICK k \in above : \A j \in above : ~(<<j, k>> \in OpToRel(<, Nat))
    BY <1>1, NatLessThanWellFounded, WFMin
  <2>1. ASSUME NEW j \in above PROVE k <= j
    <3>1. j \in Nat /\ k \in Nat
      BY <1>1
    <3>2. ~(j < k)
      BY <3>1 DEF OpToRel
    <3> QED BY <3>1, <3>2, NotLess, Zenon
  <2> QED BY <2>1
<1> PICK k \in above : \A j \in above : k <= j
  BY <1>2
<1> PICK n \in set : k = bound - n
  BY DEF above
<1>3. ASSUME NEW m \in set PROVE m <= n
  <2>1. m \in Nat /\ n \in Nat /\ m <= bound
    OBVIOUS
  <2>2. bound - m \in above
    BY <2>1 DEF above
  <2>3. k <= bound - m
    BY <2>2
  <2> QED BY <2>1, <2>3
<1> QED BY <1>3

LEMMA Least ==
  ASSUME NEW set \in SUBSET Nat, set # {}
  PROVE  \E n \in set : \A m \in set : n <= m
<1> PICK n \in set : \A m \in set : ~(<<m, n>> \in OpToRel(<, Nat))
  BY NatLessThanWellFounded, WFMin
<1>1. ASSUME NEW m \in set PROVE n <= m
  <2>1. m \in Nat /\ n \in Nat
    OBVIOUS
  <2>2. ~(m < n)
    BY <2>1 DEF OpToRel
  <2> QED BY <2>1, <2>2, NotLess, Zenon
<1> QED BY <1>1

-----------------------------------------------------------------------------
(* The pictures of a turf: turf, court, rows, bucket, call and pulled are  *)
(* v1 to v6.                                                               *)

PicturesTyped == v3 \subseteq Names /\ v5 \in [CallsOf -> J!Call]
PicturesInv == PicturesTyped /\ J!SentWithItsRow /\ J!PicturesStored

LEMMA PicturesBegin == J!Init => PicturesInv
<1> SUFFICES ASSUME J!Init PROVE PicturesInv
  OBVIOUS
<1>1. J!Idle \in J!Call /\ J!Idle.sent = {}
  BY DEF J!Call, J!Idle
<1>2. v3 = {} /\ v5 = [c \in CallsOf |-> J!Idle]
  BY DEF J!Init
<1> HIDE DEF J!Idle
<1> QED BY <1>1, <1>2 DEF PicturesInv, PicturesTyped, J!SentWithItsRow, J!PicturesStored

\* No call moves, and the rows that are added have their objects.
LEMMA PicturesGrow ==
  ASSUME PicturesInv, UNCHANGED <<v1, v5, v6>>, v4 \subseteq v4',
         v3 \subseteq v3', v3' \subseteq v3 \cup (v4 \cap Names), v3' # v3 => v1
  PROVE  PicturesInv'
<1>1. PicturesTyped'
  BY DEF PicturesInv, PicturesTyped
<1>2. J!SentWithItsRow'
  BY DEF PicturesInv, J!SentWithItsRow
<1>3. J!PicturesStored'
  BY DEF PicturesInv, J!PicturesStored
<1> QED BY <1>1, <1>2, <1>3 DEF PicturesInv

LEMMA PicturesInsert ==
  ASSUME PicturesInv, NEW images \in SUBSET Names, J!Insert(images)
  PROVE  PicturesInv'
BY PicturesGrow DEF J!Insert

LEMMA PicturesRemove ==
  ASSUME PicturesInv, NEW c \in CallsOf, J!Remove(c)
  PROVE  PicturesInv'
<1> DEFINE new == [pc |-> "removing", images |-> v3, sent |-> v3]
<1>1. new \in J!Call /\ new.pc = "removing" /\ new.images = v3 /\ new.sent = v3
  BY DEF PicturesInv, PicturesTyped, J!Call
<1>2. v5' = [v5 EXCEPT ![c] = new] /\ v5[c].pc = "idle" /\ UNCHANGED <<v1, v2, v3, v4, v6>>
      /\ v1
  BY DEF J!Remove, J!Go
<1> HIDE DEF new
<1>3. v5' \in [CallsOf -> J!Call] /\ v5'[c] = new /\ \A d \in CallsOf \ {c} : v5'[d] = v5[d]
  BY <1>1, <1>2 DEF PicturesInv, PicturesTyped
<1>4. J!SentWithItsRow'
  BY <1>1, <1>2, <1>3 DEF PicturesInv, J!SentWithItsRow
<1>5. J!PicturesStored'
  BY <1>1, <1>2, <1>3 DEF PicturesInv, J!PicturesStored
<1> QED BY <1>2, <1>3, <1>4, <1>5 DEF PicturesInv, PicturesTyped

LEMMA PicturesSent ==
  ASSUME PicturesInv, NEW c \in CallsOf, NEW p \in Names, J!Sent(c, p)
  PROVE  PicturesInv'
<1> DEFINE new == [v5[c] EXCEPT !.sent = @ \ {p}]
<1>1. /\ new \in J!Call /\ new.pc = v5[c].pc /\ new.images = v5[c].images
      /\ new.sent = v5[c].sent \ {p}
  BY DEF PicturesInv, PicturesTyped, J!Call
<1>2. v5' = [v5 EXCEPT ![c] = new] /\ UNCHANGED <<v1, v2, v3, v6>>
      /\ v4' \in {v4, v4 \ {p}} /\ p \in v5[c].sent
  BY DEF J!Sent, J!Go
<1> HIDE DEF new
<1>3. v5' \in [CallsOf -> J!Call] /\ v5'[c] = new /\ \A d \in CallsOf \ {c} : v5'[d] = v5[d]
  BY <1>1, <1>2 DEF PicturesInv, PicturesTyped
<1>4. J!SentWithItsRow'
  BY <1>1, <1>2, <1>3 DEF PicturesInv, J!SentWithItsRow
<1>5. J!PicturesStored'
  <2> SUFFICES ASSUME NEW q \in v3, q \notin v4', q \notin v6
               PROVE  \E d \in CallsOf : v5'[d].pc = "removing" /\ q \in v5'[d].images
    BY <1>2 DEF J!PicturesStored
  <2>1. \E d \in CallsOf : v5[d].pc = "removing" /\ q \in v5[d].images
    <3>1. CASE q \notin v4
      BY <3>1 DEF PicturesInv, J!PicturesStored
    <3>2. CASE q = p
      BY <1>2, <3>2 DEF PicturesInv, J!SentWithItsRow
    <3> QED BY <1>2, <3>1, <3>2
  <2> QED BY <1>1, <1>3, <2>1
<1> QED BY <1>2, <1>3, <1>4, <1>5 DEF PicturesInv, PicturesTyped

LEMMA PicturesEnd ==
  ASSUME PicturesInv, NEW c \in CallsOf, J!Removed(c) \/ J!RolledBack(c)
  PROVE  PicturesInv'
<1> DEFINE new == [v5[c] EXCEPT !.pc = "idle", !.images = {}]
<1>1. new \in J!Call /\ new.pc = "idle" /\ new.sent = v5[c].sent
  BY DEF PicturesInv, PicturesTyped, J!Call
<1>2. v5' = [v5 EXCEPT ![c] = new] /\ v4' = v4
      /\ \/ ~v1' /\ v3' = {} /\ v6' = v6
         \/ v1' = v1 /\ v3' = v3 /\ v6' = v6 \cup v5[c].images
  BY DEF J!Removed, J!RolledBack, J!Go, J!WithTurf
<1> HIDE DEF new
<1>3. v5' \in [CallsOf -> J!Call] /\ v5'[c] = new /\ \A d \in CallsOf \ {c} : v5'[d] = v5[d]
  BY <1>1, <1>2 DEF PicturesInv, PicturesTyped
<1>4. J!SentWithItsRow'
  BY <1>1, <1>2, <1>3 DEF PicturesInv, J!SentWithItsRow
<1>5. J!PicturesStored'
  BY <1>1, <1>2, <1>3 DEF PicturesInv, J!PicturesStored
<1>6. PicturesTyped'
  BY <1>2, <1>3 DEF PicturesInv, PicturesTyped
<1> QED BY <1>4, <1>5, <1>6 DEF PicturesInv

LEMMA PicturesStep == PicturesInv /\ J!Next => PicturesInv'
<1> SUFFICES ASSUME PicturesInv, J!Next PROVE PicturesInv'
  OBVIOUS
<1>1. ASSUME NEW p \in Names, J!Upload(p) PROVE PicturesInv'
  BY <1>1, PicturesGrow DEF J!Upload
<1>2. CASE J!AddCourt
  BY <1>2, PicturesGrow DEF J!AddCourt
<1> QED BY <1>1, <1>2, PicturesInsert, PicturesRemove, PicturesSent, PicturesEnd DEF J!Next

-----------------------------------------------------------------------------
(* The files of a user: bucket, pictures, files, picture, account, media,  *)
(* call, dropped and disturbed are v1 to v9.                               *)

MediaTyped ==
  /\ v1 \subseteq v2 \cup v3 /\ v2 \subseteq Names /\ v3 \subseteq Names \ v2
  /\ v4 \in v2 \cup {None} /\ v6 \subseteq v3
  /\ v7 \in [CallsOf -> M!Call]
MediaInv == MediaTyped /\ M!OnlyPicturesGo /\ M!PictureInHand

LEMMA MediaIdle ==
  /\ M!Idle \in M!Call /\ M!Idle.pc = "idle"
  /\ \A pc \in {"replace", "upload", "point", "erase", "insert"}, f \in Names \cup {None} :
       LET new == [M!Idle EXCEPT !.pc = pc, !.file = f]
       IN new \in M!Call /\ new.pc = pc /\ new.file = f
  /\ LET new == [M!Idle EXCEPT !.pc = "upload"]
     IN new \in M!Call /\ new.pc = "upload"
BY DEF M!Call, M!Idle

LEMMA MediaBegin == M!Init => MediaInv
<1> USE MediaIdle
<1> SUFFICES ASSUME M!Init PROVE MediaInv
  OBVIOUS
<1>1. v7 = [c \in CallsOf |-> M!Idle]
  BY DEF M!Init
<1>2. v1 = {} /\ v2 = {} /\ v3 = {} /\ v4 = None /\ v6 = {}
  BY DEF M!Init
<1> HIDE DEF M!Idle
<1>3. MediaTyped /\ M!OnlyPicturesGo
  BY <1>1, <1>2 DEF MediaTyped, M!OnlyPicturesGo
<1>4. M!PictureInHand
  BY <1>1, <1>2 DEF M!PictureInHand, M!Served, M!Picturing
<1> QED BY <1>3, <1>4 DEF MediaInv

\* What a call does to the calls.
LEMMA MediaGo ==
  ASSUME MediaInv, NEW c \in CallsOf, NEW new \in M!Call, M!Go(c, new)
  PROVE  /\ v7' \in [CallsOf -> M!Call] /\ v7'[c] = new
         /\ \A d \in CallsOf \ {c} : v7'[d] = v7[d]
BY DEF MediaInv, MediaTyped, M!Go

\* A step of the media, which leaves the pictures alone.
LEMMA MediaOther ==
  ASSUME MediaInv, NEW c \in CallsOf, NEW new \in M!Call, M!Go(c, new),
         v7[c].pc \notin M!Picturing, new.pc \notin M!Picturing,
         new.pc = "insert" => new.file \in v3',
         UNCHANGED <<v2, v4, v5, v9>>,
         NEW more \in SUBSET M!New, v1' = v1 \cup more, v3' = v3 \cup more,
         v6' \subseteq v3'
  PROVE  MediaInv'
<1>1. v7' \in [CallsOf -> M!Call] /\ v7'[c] = new /\ \A d \in CallsOf \ {c} : v7'[d] = v7[d]
  BY MediaGo
<1>2. more \subseteq Names \ (v2 \cup v3)
  BY DEF M!New
<1>3. MediaTyped'
  BY <1>1, <1>2 DEF MediaInv, MediaTyped
<1>4. M!OnlyPicturesGo'
  BY <1>1 DEF MediaInv, M!OnlyPicturesGo, M!Picturing
<1>5. v1' \cap v2' = v1 \cap v2 /\ M!Served' = (M!Served)
  BY <1>2 DEF MediaInv, MediaTyped, M!Served
<1>6. \A d \in CallsOf : \/ v7'[d].pc \notin M!Picturing /\ v7[d].pc \notin M!Picturing
                        \/ v7'[d] = v7[d]
  BY <1>1
<1>7. M!PictureInHand'
  BY <1>5, <1>6 DEF MediaInv, M!PictureInHand, M!Picturing
<1> QED BY <1>3, <1>4, <1>7 DEF MediaInv

LEMMA MediaStays ==
  ASSUME MediaInv, NEW c \in CallsOf, NEW new \in M!Call, M!Go(c, new),
         v7[c].pc \notin M!Picturing, new.pc \notin M!Picturing \cup {"insert"},
         UNCHANGED <<v1, v2, v3, v4, v5, v9>>, v6' \subseteq v3
  PROVE  MediaInv'
<1>1. {} \in SUBSET M!New /\ v1' = v1 \cup {} /\ v3' = v3 \cup {}
  OBVIOUS
<1> HIDE DEF M!Go, M!New
<1> QED BY <1>1, MediaOther

LEMMA MediaUpload ==
  ASSUME MediaInv, NEW c \in CallsOf, M!UploadMedia(c)
  PROVE  MediaInv'
<1> PICK f \in M!New : /\ v1' = v1 \cup {f} /\ v3' = v3 \cup {f}
                      /\ M!Go(c, [M!Idle EXCEPT !.pc = "insert", !.file = f])
  BY DEF M!UploadMedia
<1> DEFINE new == [M!Idle EXCEPT !.pc = "insert", !.file = f]
<1>1. new \in M!Call /\ new.pc = "insert" /\ new.file = f
  BY MediaIdle DEF M!New
<1> HIDE DEF new
<1>2. M!Go(c, new)
  BY DEF new
<1>3. v7[c].pc \notin M!Picturing /\ UNCHANGED <<v2, v4, v5, v6, v9>>
  BY DEF M!UploadMedia, M!Picturing
<1>4. new.pc \notin M!Picturing /\ {f} \in SUBSET M!New
  BY <1>1 DEF M!Picturing
<1>5. v6' \subseteq v3'
  BY <1>3 DEF MediaInv, MediaTyped
<1> QED BY <1>1, <1>2, <1>3, <1>4, <1>5, MediaOther

LEMMA MediaRows ==
  ASSUME MediaInv, NEW c \in CallsOf,
         \/ M!InsertMedia(c) \/ M!CommitMedia(c) \/ M!MediaFails(c)
         \/ M!Purge(c) \/ \E rows \in SUBSET Names : M!DeleteMedia(c, rows)
  PROVE  MediaInv'
<1> USE MediaIdle DEF M!Picturing
<1>1. CASE M!InsertMedia(c) \/ M!CommitMedia(c) \/ M!MediaFails(c)
  <2>1. M!Go(c, M!Idle) /\ v7[c].pc \in {"insert", "delete", "commit"}
        /\ UNCHANGED <<v1, v2, v3, v4, v5, v9>>
    BY <1>1 DEF M!InsertMedia, M!CommitMedia, M!MediaFails
  <2>2. v6 \subseteq v3 /\ (v7[c].pc = "insert" => v7[c].file \in v3)
    BY DEF MediaInv, MediaTyped, M!OnlyPicturesGo
  <2>3. v6' \subseteq v3
    <3>1. CASE M!InsertMedia(c)
      BY <2>2, <3>1 DEF M!InsertMedia
    <3>2. CASE M!CommitMedia(c)
      BY <2>2, <3>2 DEF M!CommitMedia
    <3>3. CASE M!MediaFails(c)
      BY <2>2, <3>3 DEF M!MediaFails
    <3> QED BY <1>1, <3>1, <3>2, <3>3
  <2> HIDE DEF M!Go, M!Idle
  <2> QED BY <2>1, <2>3, MediaStays
<1>2. CASE M!Purge(c)
  <2> PICK f \in v7[c].rows :
        /\ v1' = IF f \in v6 THEN M!Purged(f) ELSE v1
        /\ M!Go(c, [v7[c] EXCEPT !.rows = @ \ {f}, !.gone = @ \cup {f},
                     !.pc = IF v7[c].rows = {f} THEN "commit" ELSE "delete"])
    BY <1>2 DEF M!Purge
  <2> DEFINE new == [v7[c] EXCEPT !.rows = @ \ {f}, !.gone = @ \cup {f},
                       !.pc = IF v7[c].rows = {f} THEN "commit" ELSE "delete"]
  <2>1. new \in M!Call /\ new.pc \in {"commit", "delete"}
    <3>1. v7[c] \in M!Call
      BY DEF MediaInv, MediaTyped
    <3>2. v7[c].gone \cup {f} \in SUBSET Names /\ v7[c].rows \ {f} \in SUBSET Names
      <4>1. v7[c].rows \subseteq Names /\ v7[c].gone \subseteq Names
        BY <3>1 DEF M!Call
      <4>2. f \in Names
        BY <4>1
      <4> HIDE DEF M!Go
      <4> QED BY <4>1, <4>2, Zenon
    <3>3. (IF v7[c].rows = {f} THEN "commit" ELSE "delete") \in {"commit", "delete"}
      OBVIOUS
    <3> HIDE DEF M!Go
    <3> QED BY <3>1, <3>2, <3>3 DEF M!Call
  <2> HIDE DEF new
  <2>2. M!Go(c, new) /\ v7[c].pc = "delete" /\ UNCHANGED <<v1, v2, v3, v4, v5, v6, v9>>
    BY <1>2 DEF new, M!Purge, M!Purged
  <2>3. v6' \subseteq v3
    BY <2>2 DEF MediaInv, MediaTyped
  <2> QED BY <2>1, <2>2, <2>3, MediaStays
<1>3. ASSUME NEW rows \in SUBSET Names, M!DeleteMedia(c, rows) PROVE MediaInv'
  <2> DEFINE new == [M!Idle EXCEPT !.pc = "delete", !.rows = rows]
  <2>1. new \in M!Call /\ new.pc = "delete"
    BY DEF M!Idle, M!Call
  <2> HIDE DEF new
  <2>2. M!Go(c, new) /\ v7[c].pc = "idle" /\ UNCHANGED <<v1, v2, v3, v4, v5, v6, v9>>
    BY <1>3 DEF new, M!DeleteMedia
  <2>3. v6' \subseteq v3
    BY <2>2 DEF MediaInv, MediaTyped
  <2> QED BY <2>1, <2>2, <2>3, MediaStays
<1> QED BY <1>1, <1>2, <1>3

\* The old picture is read: no other call has one in hand, or the history says so.
LEMMA MediaReadPicture ==
  ASSUME MediaInv, NEW c \in CallsOf, NEW pc \in {"replace", "erase"},
         M!ReadPicture(c, pc)
  PROVE  MediaInv'
<1> DEFINE new == [M!Idle EXCEPT !.pc = pc, !.file = v4]
<1>1. new \in M!Call /\ new.pc = pc /\ new.file = v4
  <2>1. v4 \in Names \cup {None}
    BY DEF MediaInv, MediaTyped
  <2> QED BY <2>1 DEF M!Call, M!Idle
<1> HIDE DEF new
<1>2. M!Go(c, new) /\ v7[c].pc = "idle" /\ v5 /\ UNCHANGED <<v1, v2, v3, v4, v5, v6>>
      /\ v9' = (v9 \/ \E d \in CallsOf \ {c} : v7[d].pc \in M!Picturing)
  BY DEF new, M!ReadPicture
<1>3. v7' \in [CallsOf -> M!Call] /\ v7'[c] = new /\ \A d \in CallsOf \ {c} : v7'[d] = v7[d]
  BY <1>1, <1>2, MediaGo
<1>4. MediaTyped'
  BY <1>2, <1>3 DEF MediaInv, MediaTyped
<1>5. M!OnlyPicturesGo'
  BY <1>1, <1>2, <1>3, <1>4 DEF MediaInv, MediaTyped, M!OnlyPicturesGo
<1>6. ASSUME ~v9' PROVE ~v9 /\ \A d \in CallsOf : v7[d].pc \notin M!Picturing
  BY <1>2, <1>6 DEF M!Picturing
<1>7. M!Served' = M!Served
  BY <1>2 DEF M!Served
<1>8. M!PictureInHand'
  <2> SUFFICES ASSUME ~v9' PROVE M!PictureInHand'
    BY DEF M!PictureInHand
  <2>1. M!Served
    BY <1>6 DEF MediaInv, M!PictureInHand
  <2>2. \A d \in CallsOf \ {c} : v7'[d].pc \notin M!Picturing
    BY <1>3, <1>6
  <2> QED BY <1>1, <1>2, <1>3, <1>7, <2>1, <2>2 DEF M!PictureInHand, M!Picturing
<1> QED BY <1>4, <1>5, <1>8 DEF MediaInv

\* A call that has the picture in hand goes on: unless the history has said so,
\* it is the only one.
LEMMA MediaPicture ==
  ASSUME MediaInv, NEW c \in CallsOf, v7[c].pc \in M!Picturing,
         NEW new \in M!Call, M!Go(c, new), new.pc \notin {"replace", "erase", "insert"},
         new.pc = "point" => new.file \in v2',
         v1' \subseteq v1 \cup v2', v1 \subseteq v1' \cup v2,
         v2 \subseteq v2', v2' \subseteq v2 \cup M!New, UNCHANGED v3,
         v4' \in v2' \cup {None}, v6' \subseteq v6, ~v9' => ~v9,
         ~v9' => \/ new.pc = "upload" /\ v1' \cap v2' = {} /\ v5'
                 \/ new.pc = "point" /\ v1' \cap v2' = {new.file} /\ v5'
                 \/ new.pc = "idle" /\ M!Served'
  PROVE  MediaInv'
<1>1. v7' \in [CallsOf -> M!Call] /\ v7'[c] = new /\ \A d \in CallsOf \ {c} : v7'[d] = v7[d]
  BY MediaGo
<1>2. v2' \subseteq v2 \cup (Names \ (v2 \cup v3))
  BY DEF M!New
<1>3. MediaTyped'
  BY <1>1, <1>2 DEF MediaInv, MediaTyped
<1>4. M!OnlyPicturesGo'
  BY <1>1, <1>2 DEF MediaInv, MediaTyped, M!OnlyPicturesGo
<1>5. M!PictureInHand'
  <2> SUFFICES ASSUME ~v9' PROVE M!PictureInHand'
    BY DEF M!PictureInHand
  <2>1. \A d \in CallsOf \ {c} : v7'[d].pc \notin M!Picturing
    BY <1>1 DEF MediaInv, M!PictureInHand
  <2>2. CASE new.pc = "upload" /\ v1' \cap v2' = {} /\ v5'
    BY <1>1, <2>1, <2>2 DEF M!PictureInHand, M!Picturing
  <2>3. CASE new.pc = "point" /\ v1' \cap v2' = {new.file} /\ v5'
    BY <1>1, <2>1, <2>3 DEF M!PictureInHand, M!Picturing
  <2>4. CASE new.pc = "idle" /\ M!Served'
    BY <1>1, <2>1, <2>4 DEF M!PictureInHand, M!Picturing
  <2> QED BY <2>2, <2>3, <2>4
<1> QED BY <1>3, <1>4, <1>5 DEF MediaInv

LEMMA MediaDeleteOld ==
  ASSUME MediaInv, NEW c \in CallsOf, M!DeleteOld(c)
  PROVE  MediaInv'
<1> DEFINE new == [M!Idle EXCEPT !.pc = "upload"]
<1>1. new \in M!Call /\ new.pc = "upload"
  BY MediaIdle
<1> HIDE DEF new
<1>2. /\ M!Go(c, new) /\ v7[c].pc = "replace" /\ UNCHANGED <<v2, v3, v4, v5, v6>>
      /\ \/ v1' = v1 \ {v7[c].file} /\ v9' = v9
         \/ v9' /\ v1' = v1
  BY DEF new, M!DeleteOld, M!WithoutOld
<1>3. v7[c].file \in v2 \cup {None} /\ v1 \subseteq v2 \cup v3 /\ v4 \in v2 \cup {None}
  BY <1>2 DEF MediaInv, MediaTyped, M!OnlyPicturesGo
<1>4. v1 \subseteq v1' \cup v2
  BY <1>2, <1>3, ServicesAssumption DEF MediaInv, MediaTyped
<1>5. ASSUME ~v9' PROVE v1' \cap v2' = {} /\ v5'
  BY <1>2, <1>5 DEF MediaInv, M!PictureInHand, M!Served, M!Picturing
<1>6. v7[c].pc \in M!Picturing
  BY <1>2 DEF M!Picturing
<1> QED BY <1>1, <1>2, <1>3, <1>4, <1>5, <1>6, MediaPicture

LEMMA MediaUploadNew ==
  ASSUME MediaInv, NEW c \in CallsOf, M!UploadNew(c)
  PROVE  MediaInv'
<1> PICK f \in M!New : /\ v1' = v1 \cup {f} /\ v2' = v2 \cup {f}
                      /\ M!Go(c, [M!Idle EXCEPT !.pc = "point", !.file = f])
  BY DEF M!UploadNew
<1> DEFINE new == [M!Idle EXCEPT !.pc = "point", !.file = f]
<1>1. new \in M!Call /\ new.pc = "point" /\ new.file = f
  BY MediaIdle DEF M!New
<1> HIDE DEF new
<1>2. M!Go(c, new) /\ v7[c].pc = "upload" /\ UNCHANGED <<v3, v4, v5, v6, v9>>
  BY DEF new, M!UploadNew
<1>3. f \in v2' /\ v4' \in v2' \cup {None}
  BY <1>2 DEF MediaInv, MediaTyped
<1>4. ASSUME ~v9' PROVE v1' \cap v2' = {f} /\ v5'
  <2>1. v1 \cap v2 = {} /\ v5
    BY <1>2, <1>4 DEF MediaInv, M!PictureInHand, M!Picturing
  <2>2. f \notin v1
    BY DEF M!New, MediaInv, MediaTyped
  <2> QED BY <1>2, <2>1, <2>2
<1>5. v7[c].pc \in M!Picturing
  BY <1>2 DEF M!Picturing
<1> QED BY <1>1, <1>2, <1>3, <1>4, <1>5, MediaPicture

LEMMA MediaPoint ==
  ASSUME MediaInv, NEW c \in CallsOf, M!Point(c)
  PROVE  MediaInv'
<1>1. /\ M!Go(c, M!Idle) /\ v7[c].pc = "point" /\ UNCHANGED <<v1, v2, v3, v5, v6, v9>>
      /\ v4' = IF v5 THEN v7[c].file ELSE v4
  BY DEF M!Point
<1>2. v4' \in v2' \cup {None}
  BY <1>1 DEF MediaInv, MediaTyped, M!OnlyPicturesGo
<1>3. ASSUME ~v9' PROVE M!Served'
  BY <1>1, <1>3 DEF MediaInv, M!PictureInHand, M!Served, M!Picturing
<1>4. v7[c].pc \in M!Picturing
  BY <1>1 DEF M!Picturing
<1> QED BY <1>1, <1>2, <1>3, <1>4, MediaPicture, MediaIdle

LEMMA MediaErase ==
  ASSUME MediaInv, NEW c \in CallsOf, M!Erase(c) \/ M!EraseFails(c)
  PROVE  MediaInv'
<1>1. /\ M!Go(c, M!Idle) /\ v7[c].pc = "erase" /\ UNCHANGED <<v2, v3>>
      /\ \/ v1' = v1 \ {v7[c].file} /\ v4' = None /\ v6' = {} /\ v9' = v9
         \/ v1' = v1 \ {v7[c].file} /\ v4' = v4 /\ v6' = v6 /\ v9'
         \/ UNCHANGED <<v1, v4, v6, v9>>
  BY DEF M!Erase, M!EraseFails
<1>2. v7[c].file \in v2 \cup {None} /\ v4' \in v2' \cup {None} /\ v6' \subseteq v6
      /\ v1' \subseteq v1
  BY <1>1 DEF MediaInv, MediaTyped, M!OnlyPicturesGo
<1>3. v1 \subseteq v1' \cup v2
  BY <1>1, <1>2, ServicesAssumption DEF MediaInv, MediaTyped
<1>4. ASSUME ~v9' PROVE M!Served'
  <2>1. v7[c].file = v4 /\ M!Served
    BY <1>1, <1>4 DEF MediaInv, M!PictureInHand, M!Picturing
  <2> QED BY <1>1, <1>4, <2>1 DEF M!Served
<1>5. v7[c].pc \in M!Picturing /\ (v9 => v9')
  BY <1>1 DEF M!Picturing
<1> QED BY <1>1, <1>2, <1>3, <1>4, <1>5, MediaPicture, MediaIdle

LEMMA MediaPictureFails ==
  ASSUME MediaInv, NEW c \in CallsOf, M!PictureFails(c)
  PROVE  MediaInv'
<1>1. /\ M!Go(c, M!Idle) /\ v7[c].pc \in M!Picturing /\ v9'
      /\ UNCHANGED <<v1, v2, v3, v4, v5, v6>>
  BY DEF M!PictureFails
<1>2. v4' \in v2' \cup {None}
  BY <1>1 DEF MediaInv, MediaTyped
<1> QED BY <1>1, <1>2, MediaPicture, MediaIdle

LEMMA MediaStep == MediaInv /\ M!Next => MediaInv'
BY MediaUpload, MediaRows, MediaReadPicture, MediaDeleteOld, MediaUploadNew, MediaPoint,
   MediaErase, MediaPictureFails DEF M!Next, M!CallStep

LEMMA MediaServed == MediaInv => M!ObjectsServed
BY DEF MediaInv, MediaTyped, M!OnlyPicturesGo, M!PictureInHand, M!Served, M!ObjectsServed

\* The picture an account points to is in the bucket and no other picture of the user
\* is, unless calls overlapped or one failed halfway; every media row has its object;
\* and every row of a turf's pictures has its object, but while the turf is removed
\* and after a removal that was rolled back.
THEOREM FilesServed == Spec => []ObjectsServed
<1> DEFINE Inv == (which = "media" => MediaInv) /\ (which = "pictures" => PicturesInv)
<1>1. Init => Inv
  BY MediaBegin, PicturesBegin DEF Init
<1>2. Inv /\ [Next]_vars => Inv'
  <2> SUFFICES ASSUME Inv, [Next]_vars PROVE Inv'
    OBVIOUS
  <2>1. ASSUME which' = "media" PROVE MediaInv'
    <3>1. CASE UNCHANGED vars
      BY <2>1, <3>1 DEF vars, MediaInv, MediaTyped, M!OnlyPicturesGo,
                        M!PictureInHand, M!Served, M!Picturing
    <3>2. CASE Next
      <4>1. which = "media" /\ M!Next
        BY <2>1, <3>2 DEF Next
      <4> QED BY <4>1, MediaStep
    <3> QED BY <3>1, <3>2
  <2>2. ASSUME which' = "pictures" PROVE PicturesInv'
    <3>1. CASE UNCHANGED vars
      BY <2>2, <3>1 DEF vars, PicturesInv, PicturesTyped, J!SentWithItsRow,
                        J!PicturesStored
    <3>2. CASE Next
      <4>1. which = "pictures" /\ J!Next
        BY <2>2, <3>2 DEF Next
      <4> QED BY <4>1, PicturesStep
    <3> QED BY <3>1, <3>2
  <2> QED BY <2>1, <2>2
<1>3. Inv => ObjectsServed
  BY MediaServed DEF ObjectsServed, PicturesInv
<1> QED BY <1>1, <1>2, <1>3, PTL DEF Spec

-----------------------------------------------------------------------------
(* Coupons: coupon, left, rule, call, now, said and meddled are v1 to v7.  *)

CouponsTyped ==
  /\ v1 \in N!Coupon \cup {None} /\ v2 \in [Guests -> Nat \cup {None}]
  /\ v4 \in [CallsOf -> N!Coupon \cup {None}]
  /\ v5 \in Nat /\ v6 \in N!Coupon \cup {None}
NobodyHolds == v1 = None => v3 = None /\ \A u \in Guests : v2[u] = None
CouponsInv == CouponsTyped /\ N!EditInHand /\ NobodyHolds

LEMMA CouponsBegin == N!Init => CouponsInv
BY DEF N!Init, CouponsInv, CouponsTyped, N!EditInHand, NobodyHolds

\* Somebody is granted the coupon there is, uses it or gives it up.
LEMMA CouponsHeld ==
  ASSUME CouponsInv, NEW u \in Guests, NEW uses \in Nat \cup {None},
         v1 = None => uses = None,
         v2' = [v2 EXCEPT ![u] = uses], UNCHANGED <<v1, v3, v4, v5, v6, v7>>
  PROVE  CouponsInv'
BY DEF CouponsInv, CouponsTyped, N!EditInHand, NobodyHolds

LEMMA CouponsUsed ==
  ASSUME CouponsInv, NEW u \in Guests,
         N!Grant(u) \/ N!Revoke(u) \/ N!PreviewDiscount(u) \/ N!Take(u)
  PROVE  CouponsInv'
<1>1. v1 # None => v1 \in N!Coupon
  BY DEF CouponsInv, CouponsTyped
<1>2. v1 # None => v1.max \in Nat
  BY <1>1 DEF N!Coupon
<1>3. CASE N!Grant(u) \/ N!PreviewDiscount(u)
  BY <1>2, <1>3, CouponsHeld DEF N!Grant, N!PreviewDiscount, N!Offered
<1>4. CASE N!Revoke(u)
  BY <1>4, CouponsHeld DEF N!Revoke
<1>5. CASE N!Take(u)
  <2>1. v2[u] \in Nat /\ v2[u] > 0
    BY <1>5 DEF N!Take, CouponsInv, CouponsTyped
  <2>2. v2[u] - 1 \in Nat
    BY <2>1
  <2> QED BY <1>5, <2>2, CouponsHeld DEF N!Take, N!Offered
<1> QED BY <1>3, <1>4, <1>5

\* The rules, the clock and what an edit reads.
LEMMA CouponsRead ==
  ASSUME CouponsInv, UNCHANGED <<v1, v2, v6, v7>>, v5' \in Nat,
         v3' = v3 \/ v3' = None \/ v1 # None,
         v4' = v4 \/ \E c \in CallsOf : v4' = [v4 EXCEPT ![c] = v1]
  PROVE  CouponsInv'
<1>1. CouponsTyped' /\ NobodyHolds'
  BY DEF CouponsInv, CouponsTyped, NobodyHolds
<1>2. N!EditInHand'
  BY DEF CouponsInv, CouponsTyped, N!EditInHand
<1> QED BY <1>1, <1>2 DEF CouponsInv

LEMMA CouponsCreate == CouponsInv /\ N!CreateCoupon => CouponsInv'
<1> SUFFICES ASSUME CouponsInv, N!CreateCoupon PROVE CouponsInv'
  OBVIOUS
<1> PICK new \in N!Coupon : N!Write(new, new, N!InHand(None))
  BY DEF N!CreateCoupon
<1>1. v1' = new /\ v6' = new /\ UNCHANGED <<v2, v3, v4, v5>>
      /\ (v7' <=> (v7 \/ N!InHand(None)))
  BY DEF N!CreateCoupon, N!Write
<1>2. ~v7' => \A c \in CallsOf : v4[c] = None
  BY <1>1, ServicesAssumption DEF N!InHand
<1>3. CouponsTyped'
  BY <1>1 DEF CouponsInv, CouponsTyped
<1>4. N!EditInHand' /\ NobodyHolds'
  BY <1>1, <1>2, NoCoupon DEF N!EditInHand, NobodyHolds
<1> QED BY <1>3, <1>4 DEF CouponsInv

LEMMA CouponsDelete == CouponsInv /\ N!DeleteCoupon => CouponsInv'
<1> SUFFICES ASSUME CouponsInv, N!DeleteCoupon PROVE CouponsInv'
  OBVIOUS
<1>1. /\ v1' = None /\ v6' = None /\ v3' = None /\ UNCHANGED <<v4, v5>>
      /\ v2' = [u \in Guests |-> None]
      /\ (v7' <=> (v7 \/ N!InHand(None)))
  BY DEF N!DeleteCoupon, N!Write, N!Dropped
<1>2. ~v7' => \A c \in CallsOf : v4[c] = None
  BY <1>1, ServicesAssumption DEF N!InHand
<1>3. CouponsTyped'
  BY <1>1 DEF CouponsInv, CouponsTyped
<1>4. N!EditInHand' /\ NobodyHolds'
  BY <1>1, <1>2 DEF N!EditInHand, NobodyHolds
<1> QED BY <1>3, <1>4 DEF CouponsInv

\* What is saved and what was asked for are the same, where what was read is as
\* the admins have asked.
LEMMA PatchedAlike ==
  ASSUME NEW row \in N!Coupon, NEW told \in N!Coupon, NEW p \in N!Patched(row, told)
  PROVE  /\ p[1] \in N!Coupon /\ p[2] \in N!Coupon
         /\ row = told => p[1] = p[2]
<1>1. CASE \E m \in 1 .. MaxUses : p = <<[row EXCEPT !.max = m], [told EXCEPT !.max = m]>>
  BY <1>1 DEF N!Coupon
<1>2. CASE \E t \in N!Times \cup {None} :
             p = <<[row EXCEPT !.starts = t], [told EXCEPT !.starts = t]>>
  BY <1>2 DEF N!Coupon
<1>3. CASE \E t \in N!Times \cup {None} :
             p = <<[row EXCEPT !.expires = t], [told EXCEPT !.expires = t]>>
  BY <1>3 DEF N!Coupon
<1>4. CASE \E e \in BOOLEAN :
             p = <<[row EXCEPT !.enabled = e], [told EXCEPT !.enabled = e]>>
  BY <1>4 DEF N!Coupon
<1> QED BY <1>1, <1>2, <1>3, <1>4 DEF N!Patched

LEMMA CouponsSave ==
  ASSUME CouponsInv, NEW c \in CallsOf, N!SaveEdit(c)
  PROVE  CouponsInv'
<1> PICK told : told = IF v6 = None THEN v4[c] ELSE v6
  OBVIOUS
<1> PICK p \in N!Patched(v4[c], told) : N!Write(p[1], p[2], N!InHand(c))
  BY DEF N!SaveEdit
<1>1. /\ v1' = p[1] /\ v6' = p[2] /\ UNCHANGED <<v2, v3, v5>> /\ v4[c] # None
      /\ (v7' <=> (v7 \/ N!InHand(c))) /\ v4' = [v4 EXCEPT ![c] = None]
  BY DEF N!SaveEdit, N!Write
<1>2. v4[c] \in N!Coupon /\ told \in N!Coupon
  BY <1>1 DEF CouponsInv, CouponsTyped
<1>3. p[1] \in N!Coupon /\ p[2] \in N!Coupon /\ (v4[c] = told => p[1] = p[2])
  BY <1>2, PatchedAlike
<1>4. CouponsTyped' /\ NobodyHolds'
  BY <1>1, <1>3, NoCoupon DEF CouponsInv, CouponsTyped, NobodyHolds
<1>5. N!EditInHand'
  <2> SUFFICES ASSUME ~v7' PROVE N!EditInHand'
    BY DEF N!EditInHand
  <2>1. v1 = v6 /\ v4[c] = v1
    BY <1>1 DEF CouponsInv, N!EditInHand
  <2>2. v4[c] = told
    BY <1>1, <2>1
  <2>3. \A d \in CallsOf : v4'[d] = None
    BY <1>1 DEF CouponsInv, CouponsTyped, N!InHand
  <2> QED BY <1>1, <1>3, <2>2, <2>3 DEF N!EditInHand
<1> QED BY <1>4, <1>5 DEF CouponsInv

LEMMA CouponsStep == CouponsInv /\ N!Next => CouponsInv'
<1> SUFFICES ASSUME CouponsInv, N!Next PROVE CouponsInv'
  OBVIOUS
<1>1. v5 \in Nat
  BY DEF CouponsInv, CouponsTyped
<1>2. CASE N!SetRule \/ N!DeleteRule
  BY <1>1, <1>2, CouponsRead DEF N!SetRule, N!DeleteRule
<1>3. CASE N!Tick
  <2>1. v5' \in Nat
    BY <1>1, <1>3 DEF N!Tick
  <2> QED BY <1>3, <2>1, CouponsRead DEF N!Tick
<1>4. ASSUME NEW c \in CallsOf, N!EditCoupon(c) PROVE CouponsInv'
  BY <1>1, <1>4, CouponsRead DEF N!EditCoupon
<1> QED BY <1>2, <1>3, <1>4, CouponsCreate, CouponsDelete, CouponsSave, CouponsUsed
        DEF N!Next

LEMMA CouponsAgree == CouponsInv => N!CouponsTold
<1> SUFFICES ASSUME CouponsInv PROVE N!CouponsTold
  OBVIOUS
<1>1. ASSUME NEW u \in Guests, v2[u] # None PROVE N!Active(u) <=> N!Priced(u)
  <2>1. v1 # None /\ v1 \in N!Coupon /\ v5 \in Nat
    BY <1>1 DEF CouponsInv, CouponsTyped, NobodyHolds
  <2>2. /\ v1.starts # None => v1.starts \in Nat
        /\ v1.expires # None => v1.expires \in Nat
    BY <2>1, ServicesAssumption DEF N!Coupon, N!Times
  <2>3. N!Listable(v1) <=> N!InWindow(v1)
    BY <2>1, <2>2 DEF N!Listable, N!InWindow
  <2> QED BY <1>1, <2>1, <2>3 DEF N!Active, N!Priced, N!Offered
<1> QED BY <1>1 DEF N!CouponsTold, CouponsInv, N!EditInHand, NobodyHolds

-----------------------------------------------------------------------------
(* What is unlocked: pays, shares, rate and call are v1 to v4.             *)

UnlockKinds == {"icon", "mine", "quote", "gate", "playback", "preview"}
UnlockCall == [pc : {"icon", "mine", "siblings", "quote", "answered"},
               kind : UnlockKinds, user : {"me"}, rec : Nights,
               see : SUBSET Nights, todo : SUBSET Nights,
               shown : SUBSET {"full", "shorts"}, price : Nat, bill : Nat,
               read : BOOLEAN, open : BOOLEAN, must : SUBSET Nat, may : SUBSET Nat]

UnlocksTyped ==
  /\ v1 \in Seq(U!Pay) /\ v3 \in Rates
  /\ v4 \in UnlockCall \cup {None}
  /\ v4 # None => v4.must \subseteq DOMAIN v1 /\ v4.may \subseteq DOMAIN v1
UnlocksInv == UnlocksTyped /\ U!CountedSoFar /\ U!UnlocksAgree

LEMMA UnlocksBegin == U!Init => UnlocksInv
<1> SUFFICES ASSUME U!Init PROVE UnlocksInv
  OBVIOUS
<1>1. v1 = <<>> /\ v3 \in Rates /\ v4 = None
  BY DEF U!Init
<1> QED BY <1>1 DEF UnlocksInv, UnlocksTyped, U!CountedSoFar, U!UnlocksAgree, U!At

\* The payments stay as they are, and the request goes on.
LEMMA UnlocksQuiet ==
  ASSUME UnlocksInv, NEW new \in UnlockCall, v4' = new, UNCHANGED <<v1, v3>>,
         new.must \subseteq DOMAIN v1, new.may \subseteq DOMAIN v1,
         new.pc = "answered" => U!Told(new),
         new.pc # "answered" => U!Counts(new)
  PROVE  UnlocksInv'
<1>1. UnlocksTyped'
  BY DEF UnlocksInv, UnlocksTyped
<1>2. (U!Told(new))' = U!Told(new) /\ (U!Counts(new))' = U!Counts(new)
  BY DEF U!Told, U!Counts, U!PaidItems, U!OfRecs, U!Completed
<1>3. U!CountedSoFar' /\ U!UnlocksAgree'
  BY <1>2 DEF U!CountedSoFar, U!UnlocksAgree, U!At
<1> QED BY <1>1, <1>3 DEF UnlocksInv

\* What the payments are for does not change.
LEMMA UnlocksSame ==
  ASSUME \A n \in DOMAIN v1 : v1'[n].item = v1[n].item /\ v1'[n].rec = v1[n].rec,
         NEW set \in SUBSET DOMAIN v1
  PROVE  /\ (U!PaidItems(set))' = U!PaidItems(set)
         /\ \A recs : (U!PaidItems(U!OfRecs(set, recs)))' = U!PaidItems(U!OfRecs(set, recs))
<1>1. (U!PaidItems(set))' = U!PaidItems(set)
  BY DEF U!PaidItems
<1>2. ASSUME NEW recs
      PROVE  (U!PaidItems(U!OfRecs(set, recs)))' = U!PaidItems(U!OfRecs(set, recs))
  <2>1. (U!OfRecs(set, recs))' = U!OfRecs(set, recs)
    BY DEF U!OfRecs
  <2> QED BY <2>1 DEF U!PaidItems, U!OfRecs
<1> QED BY <1>1, <1>2

LEMMA PaymentNumbers ==
  ASSUME NEW s \in Seq(U!Pay)
  PROVE  DOMAIN s \subseteq Nat
<1>1. DOMAIN s = 1 .. Len(s) /\ Len(s) \in Nat
  OBVIOUS
<1> QED BY <1>1

\* A payment is made, completed or refunded while the request goes on.
LEMMA UnlocksMoved ==
  ASSUME UnlocksInv, v1' \in Seq(U!Pay), v3' \in Rates, ~U!At("answered"),
         DOMAIN v1 \subseteq DOMAIN v1',
         \A n \in DOMAIN v1 : /\ v1'[n].item = v1[n].item /\ v1'[n].rec = v1[n].rec
                              /\ v1'[n].amount = v1[n].amount,
         \/ v4 = None /\ v4' = None
         \/ /\ v4 # None
            /\ \E must \in SUBSET v4.must, may \in SUBSET DOMAIN v1' :
                 /\ v4' = [v4 EXCEPT !.must = must, !.may = may]
                 /\ v4.may \subseteq may /\ must \subseteq U!Completed'
                 /\ v4.kind # "quote" => U!Completed' \subseteq may
  PROVE  UnlocksInv'
<1>1. CASE v4 = None /\ v4' = None
  BY <1>1 DEF UnlocksInv, UnlocksTyped, U!CountedSoFar, U!UnlocksAgree, U!At
<1>2. ASSUME v4 # None, NEW must \in SUBSET v4.must, NEW may \in SUBSET DOMAIN v1',
             v4' = [v4 EXCEPT !.must = must, !.may = may],
             v4.may \subseteq may, must \subseteq U!Completed',
             v4.kind # "quote" => U!Completed' \subseteq may
      PROVE  UnlocksInv'
  <2>1. v4 \in UnlockCall /\ v4.must \subseteq DOMAIN v1 /\ v4.may \subseteq DOMAIN v1
    BY <1>2 DEF UnlocksInv, UnlocksTyped
  <2>2. v1 \in Seq(U!Pay) /\ DOMAIN v1 \subseteq Nat /\ DOMAIN v1' \subseteq Nat
    BY PaymentNumbers DEF UnlocksInv, UnlocksTyped
  <2> PICK old : old = v4
    OBVIOUS
  <2> PICK new : new = [old EXCEPT !.must = must, !.may = may]
    OBVIOUS
  <2>3. /\ new \in UnlockCall /\ new.must = must /\ new.may = may
        /\ new.pc = old.pc /\ new.kind = old.kind /\ new.rec = old.rec
        /\ new.see = old.see /\ new.todo = old.todo /\ new.shown = old.shown
        /\ new.price = old.price /\ new.bill = old.bill
    BY <2>1, <2>2 DEF UnlockCall
  <2>4. v4' = new /\ old.pc # "answered" /\ U!Counts(old)
    BY <1>2 DEF UnlocksInv, U!CountedSoFar, U!At
  <2>5. UnlocksTyped'
    BY <1>2, <2>1, <2>3, <2>4 DEF UnlocksTyped
  <2>6. U!Counts(new)'
    <3>3. \A set, more : set \subseteq more => U!PaidItems(set) \subseteq U!PaidItems(more)
      BY DEF U!PaidItems
    <3>4. \A recs : U!OfRecs(must, recs) \subseteq U!OfRecs(old.must, recs)
      BY DEF U!OfRecs
    <3>5. must \subseteq DOMAIN v1 /\ old.must \subseteq DOMAIN v1
      BY <2>1
    <3>6. (U!PaidItems(old.may))' = U!PaidItems(old.may)
      BY <2>1, UnlocksSame
    <3>7. (U!PaidItems(old.may))' \subseteq (U!PaidItems(may))'
      BY <1>2 DEF U!PaidItems
    <3>8. new.shown \subseteq (U!PaidItems(new.may))'
      <4>1. old.shown \subseteq U!PaidItems(old.may)
        BY <2>4 DEF U!Counts
      <4>2. old.shown \subseteq (U!PaidItems(may))'
        BY <3>6, <3>7, <4>1
      <4> QED BY <2>3, <4>2 DEF U!PaidItems
    <3>9. \A recs : U!PaidItems(U!OfRecs(old.must, recs)) \subseteq old.shown
                      => (U!PaidItems(U!OfRecs(must, recs)))' \subseteq new.shown
      <4> SUFFICES ASSUME NEW recs, U!PaidItems(U!OfRecs(old.must, recs)) \subseteq old.shown
                   PROVE  (U!PaidItems(U!OfRecs(must, recs)))' \subseteq new.shown
        OBVIOUS
      <4>1. (U!PaidItems(U!OfRecs(must, recs)))' = U!PaidItems(U!OfRecs(must, recs))
        BY <3>5, UnlocksSame
      <4>2. U!PaidItems(U!OfRecs(must, recs)) \subseteq U!PaidItems(U!OfRecs(old.must, recs))
        BY <3>3, <3>4
      <4> QED BY <2>3, <4>1, <4>2
    <3>10. new.bill # 0 =>
             new.price \in {new.bill} \cup {v1'[n].amount : n \in DOMAIN v1'}
      <4>1. old.bill # 0 => old.price \in {old.bill} \cup {v1[n].amount : n \in DOMAIN v1}
        BY <2>4 DEF U!Counts
      <4>2. {v1[n].amount : n \in DOMAIN v1} \subseteq {v1'[n].amount : n \in DOMAIN v1'}
        OBVIOUS
      <4> QED BY <2>3, <4>1, <4>2
    <3>11. IF new.kind = "quote" THEN new.must = {} ELSE U!Completed' \subseteq new.may
      BY <1>2, <2>3, <2>4 DEF U!Counts
    <3> QED BY <1>2, <2>3, <2>4, <3>8, <3>9, <3>10, <3>11 DEF U!Counts
  <2> QED BY <2>3, <2>4, <2>5, <2>6 DEF UnlocksInv, U!CountedSoFar, U!UnlocksAgree, U!At
<1> QED BY <1>1, <1>2

LEMMA UnlocksPaid ==
  ASSUME UnlocksInv
  PROVE  U!Completed \subseteq DOMAIN v1 /\ U!Completed \subseteq Nat
<1>1. DOMAIN v1 \subseteq Nat
  BY PaymentNumbers DEF UnlocksInv, UnlocksTyped
<1> QED BY <1>1 DEF U!Completed

\* What a request starts from.
LEMMA UnlocksAsked ==
  ASSUME UnlocksInv, NEW new \in UnlockCall, v4' = new, UNCHANGED <<v1, v3>>,
         new.shown = {}, new.must \subseteq U!Completed, new.may \subseteq U!Completed,
         new.pc # "answered" =>
           /\ new.kind = new.pc /\ new.pc # "siblings"
           /\ IF new.kind = "quote" THEN new.must = {} ELSE new.may = U!Completed
           /\ new.kind = "icon" => new.see \subseteq new.todo
           /\ new.kind = "mine" => new.todo # {}
           /\ new.bill # 0 => new.price = new.bill,
         new.pc = "answered" =>
           /\ new.kind \in {"gate", "playback", "preview"}
           /\ new.kind \in {"gate", "playback"} /\ new.open => new.may # {}
  PROVE  UnlocksInv'
<1>1. U!Completed \subseteq DOMAIN v1 /\ U!Completed \subseteq Nat
  BY UnlocksPaid
<1>2. new.must \subseteq DOMAIN v1 /\ new.may \subseteq DOMAIN v1
  BY <1>1
<1>3. ASSUME new.pc # "answered" PROVE U!Counts(new)
  <2>1. U!PaidItems({}) = {} /\ \A recs : recs = {} => U!OfRecs(new.must, recs) = {}
    BY DEF U!PaidItems, U!OfRecs
  <2>2. new.kind = "icon" => U!PaidItems(U!OfRecs(new.must, new.see \ new.todo)) = {}
    BY <1>3, <2>1
  <2> QED BY <1>3, <2>2 DEF U!Counts
<1>4. ASSUME new.pc = "answered" PROVE U!Told(new)
  BY <1>4 DEF U!Told
<1> HIDE DEF U!Completed
<1> QED BY <1>2, <1>3, <1>4, UnlocksQuiet

LEMMA UnlocksBeginIcons ==
  ASSUME UnlocksInv, NEW u \in {"me"}, NEW r \in Nights, U!BeginIcons(u)
  PROVE  UnlocksInv'
<1> PICK see \in SUBSET Nights : see = U!Visible(u)
  BY DEF U!Visible
<1> PICK rec \in Nights : rec = CHOOSE x \in Nights : TRUE
  OBVIOUS
<1> PICK paid : paid = U!Completed
  OBVIOUS
<1> PICK new :
      new = [pc |-> "icon", kind |-> "icon", user |-> u, rec |-> rec, see |-> see,
             todo |-> see, shown |-> {}, price |-> 0, bill |-> 0, read |-> FALSE,
             open |-> FALSE, must |-> paid, may |-> paid]
  OBVIOUS
<1>1. U!Completed \subseteq Nat
  BY UnlocksPaid
<1>2. new \in UnlockCall
  BY <1>1 DEF UnlockCall, UnlockKinds
<1>3. /\ v4' = [pc |-> "icon", kind |-> "icon", user |-> u, rec |-> rec, see |-> see,
                todo |-> see, shown |-> {}, price |-> 0, bill |-> 0, read |-> FALSE,
                open |-> FALSE, must |-> paid, may |-> paid]
      /\ UNCHANGED <<v1, v3>>
  BY DEF U!BeginIcons, U!Asked, U!Go, U!Quiet
<1>4. /\ new.shown = {} /\ new.must = U!Completed /\ new.may = U!Completed
      /\ new.pc = "icon" /\ new.kind = "icon" /\ new.see = new.todo /\ new.bill = 0
  OBVIOUS
<1> QED BY <1>2, <1>3, <1>4, UnlocksAsked

\* What is asked for the block, and what an order costs.
LEMMA UnlocksPrice ==
  ASSUME UnlocksInv, NEW timed \in BOOLEAN
  PROVE  /\ U!Price("order", timed) \in Nat
         /\ U!Price("quote", timed) = U!Price("order", timed)
         /\ U!Price("mine", timed) \in Nat
         /\ timed => U!Price("mine", timed) = U!Price("order", timed)
<1>1. v3 \in Nat
  BY ServicesAssumption DEF UnlocksInv, UnlocksTyped
<1>2. v3 * 1 \in Nat /\ v3 * 2 \in Nat
  BY <1>1
<1> QED BY <1>2 DEF U!Price

LEMMA UnlocksBeginMine ==
  ASSUME UnlocksInv, NEW u \in {"me"}, NEW r \in Nights, NEW timed \in BOOLEAN,
         U!BeginMine(u, r, timed)
  PROVE  UnlocksInv'
<1> PICK price \in Nat : price = U!Price("mine", timed)
  BY UnlocksPrice
<1> PICK bill \in Nat : bill = IF timed THEN U!Price("order", timed) ELSE 0
  BY UnlocksPrice
<1> PICK paid : paid = U!Completed
  OBVIOUS
<1> PICK new :
      new = [pc |-> "mine", kind |-> "mine", user |-> u, rec |-> r, see |-> {},
             todo |-> {r}, shown |-> {}, price |-> price, bill |-> bill,
             read |-> FALSE, open |-> FALSE, must |-> paid, may |-> paid]
  OBVIOUS
<1>1. U!Completed \subseteq Nat
  BY UnlocksPaid
<1>2. new \in UnlockCall
  BY <1>1 DEF UnlockCall, UnlockKinds
<1>3. /\ v4' = [pc |-> "mine", kind |-> "mine", user |-> u, rec |-> r, see |-> {},
                todo |-> {r}, shown |-> {}, price |-> price, bill |-> bill,
                read |-> FALSE, open |-> FALSE, must |-> paid, may |-> paid]
      /\ UNCHANGED <<v1, v3>>
  BY DEF U!BeginMine, U!Asked, U!Go, U!Quiet
<1>4. bill # 0 => price = bill
  BY UnlocksPrice
<1>5. /\ new.shown = {} /\ new.must = U!Completed /\ new.may = U!Completed
      /\ new.pc = "mine" /\ new.kind = "mine" /\ new.todo = {r}
      /\ new.bill = bill /\ new.price = price
  OBVIOUS
<1> QED BY <1>2, <1>3, <1>4, <1>5, UnlocksAsked

LEMMA UnlocksBeginQuote ==
  ASSUME UnlocksInv, NEW u \in {"me"}, NEW r \in Nights, NEW timed \in BOOLEAN,
         U!BeginQuote(u, r, timed)
  PROVE  UnlocksInv'
<1> PICK price \in Nat : price = U!Price("quote", timed)
  BY UnlocksPrice
<1> PICK new :
      new = [pc |-> "quote", kind |-> "quote", user |-> u, rec |-> r, see |-> {},
             todo |-> {}, shown |-> {}, price |-> price, bill |-> price,
             read |-> FALSE, open |-> FALSE, must |-> {}, may |-> {}]
  OBVIOUS
<1>1. new \in UnlockCall
  BY DEF UnlockCall, UnlockKinds
<1>2. /\ v4' = [pc |-> "quote", kind |-> "quote", user |-> u, rec |-> r, see |-> {},
                todo |-> {}, shown |-> {}, price |-> price, bill |-> price,
                read |-> FALSE, open |-> FALSE, must |-> {}, may |-> {}]
      /\ UNCHANGED <<v1, v3>>
  BY UnlocksPrice DEF U!BeginQuote, U!Asked, U!Go, U!Quiet
<1>3. /\ new.shown = {} /\ new.must = {} /\ new.may = {}
      /\ new.pc = "quote" /\ new.kind = "quote" /\ new.price = new.bill
  OBVIOUS
<1> QED BY <1>1, <1>2, <1>3, UnlocksAsked

\* The gates, answered at once.
LEMMA UnlocksAskGate ==
  ASSUME UnlocksInv, NEW u \in {"me"}, NEW r \in Nights,
         \/ U!AskGate(u, r) \/ U!Metadata(u, r) \/ U!HighlightMetadata(u, r)
         \/ \E long \in BOOLEAN : U!Playback(u, r, long)
  PROVE  UnlocksInv'
<1>1. \E kind \in {"gate", "playback", "preview"}, open \in BOOLEAN :
        /\ v4' = [pc |-> "answered", kind |-> kind, user |-> u, rec |-> r, see |-> {},
                  todo |-> {}, shown |-> {}, price |-> 0, bill |-> 0, read |-> FALSE,
                  open |-> open, must |-> {}, may |-> U!Completed]
        /\ UNCHANGED <<v1, v3>>
        /\ kind # "preview" /\ open => U!Gate(r)
  <2>1. CASE U!AskGate(u, r)
    BY <2>1 DEF U!AskGate, U!Asked, U!Go, U!Quiet, U!Gate
  <2>2. CASE U!Metadata(u, r)
    BY <2>2 DEF U!Metadata, U!Asked, U!Go, U!Quiet, U!Access
  <2>3. CASE U!HighlightMetadata(u, r)
    BY <2>3 DEF U!HighlightMetadata, U!Asked, U!Go, U!Quiet, U!Access
  <2>4. ASSUME NEW long \in BOOLEAN, U!Playback(u, r, long)
        PROVE  \E kind \in {"gate", "playback", "preview"}, open \in BOOLEAN :
                 /\ v4' = [pc |-> "answered", kind |-> kind, user |-> u, rec |-> r,
                           see |-> {}, todo |-> {}, shown |-> {}, price |-> 0, bill |-> 0,
                           read |-> FALSE, open |-> open, must |-> {}, may |-> U!Completed]
                 /\ UNCHANGED <<v1, v3>>
                 /\ kind # "preview" /\ open => U!Gate(r)
    BY <2>4 DEF U!Playback, U!Asked, U!Go, U!Quiet, U!Access, U!Gate
  <2> QED BY <2>1, <2>2, <2>3, <2>4
<1>2. U!Gate(r) => U!Completed # {}
  BY DEF U!Gate, U!On
<1> PICK kind \in {"gate", "playback", "preview"}, open \in BOOLEAN :
      /\ v4' = [pc |-> "answered", kind |-> kind, user |-> u, rec |-> r, see |-> {},
                todo |-> {}, shown |-> {}, price |-> 0, bill |-> 0, read |-> FALSE,
                open |-> open, must |-> {}, may |-> U!Completed]
      /\ UNCHANGED <<v1, v3>>
      /\ kind # "preview" /\ open => U!Gate(r)
  BY <1>1
<1> PICK new :
      new = [pc |-> "answered", kind |-> kind, user |-> u, rec |-> r, see |-> {},
             todo |-> {}, shown |-> {}, price |-> 0, bill |-> 0, read |-> FALSE,
             open |-> open, must |-> {}, may |-> U!Completed]
  OBVIOUS
<1>3. U!Completed \subseteq Nat
  BY UnlocksPaid
<1>4. new \in UnlockCall
  BY <1>3 DEF UnlockCall, UnlockKinds
<1>5. /\ new.shown = {} /\ new.must = {} /\ new.may = U!Completed
      /\ new.pc = "answered" /\ new.kind = kind /\ new.open = open
  OBVIOUS
<1>6. v4' = new
  OBVIOUS
<1>7. new.kind \in {"gate", "playback"} /\ new.open => new.may # {}
  BY <1>2, <1>5
<1> QED BY <1>4, <1>5, <1>6, <1>7, UnlocksAsked

\* A step of the request: it keeps who asks for what, what has been counted and what
\* an order costs.
Carries(new) ==
  /\ new.kind = v4.kind /\ new.rec = v4.rec /\ new.see = v4.see
  /\ new.must = v4.must /\ new.may = v4.may /\ new.bill = v4.bill

LEMMA UnlocksGo ==
  ASSUME UnlocksInv, v4 # None, v4.pc # "answered",
         NEW new \in UnlockCall, v4' = new, UNCHANGED <<v1, v3>>, Carries(new),
         new.shown \subseteq U!PaidItems(new.may),
         new.price = v4.price \/ new.price \in {v1[n].amount : n \in DOMAIN v1},
         new.pc # "answered" => new.kind = IF new.pc = "siblings" THEN "mine" ELSE new.pc,
         new.pc = "siblings" => new.todo = {},
         new.kind = "icon" =>
           /\ U!PaidItems(U!OfRecs(new.must, new.see \ new.todo)) \subseteq new.shown
           /\ new.pc = "answered" => new.todo = {},
         new.kind = "mine" =>
           IF new.pc = "answered" THEN U!PaidItems(new.must) \subseteq new.shown
           ELSE new.todo = {} => U!PaidItems(U!OfRecs(new.must, {new.rec})) \subseteq new.shown
  PROVE  UnlocksInv'
<1>1. /\ v4 \in UnlockCall /\ v4.must \subseteq DOMAIN v1 /\ v4.may \subseteq DOMAIN v1
      /\ U!Counts(v4)
  BY DEF UnlocksInv, UnlocksTyped, U!CountedSoFar, U!At
<1>2. new.must \subseteq DOMAIN v1 /\ new.may \subseteq DOMAIN v1
  BY <1>1 DEF Carries
<1>3. new.bill # 0 => new.price \in {new.bill} \cup {v1[n].amount : n \in DOMAIN v1}
  BY <1>1 DEF U!Counts, Carries
<1>4. ASSUME new.pc # "answered" PROVE U!Counts(new)
  BY <1>1, <1>3, <1>4 DEF U!Counts, Carries
<1>5. ASSUME new.pc = "answered" PROVE U!Told(new)
  <2>1. new.kind \in {"icon", "mine", "quote"}
    BY <1>1 DEF U!Counts, UnlockCall, Carries
  <2>2. new.see \ {} = new.see
    OBVIOUS
  <2> QED BY <1>3, <1>5, <2>1, <2>2 DEF U!Told
<1>6. UNCHANGED <<v1, v3>>
  OBVIOUS
<1> QED BY <1>2, <1>4, <1>5, <1>6, UnlocksQuiet

\* What is known of a request under way.
LEMMA UnlocksAt ==
  ASSUME UnlocksInv, v4 # None, v4.pc # "answered"
  PROVE  /\ v4 \in UnlockCall /\ v4.must \subseteq DOMAIN v1 /\ v4.may \subseteq DOMAIN v1
         /\ U!Counts(v4) /\ v1 \in Seq(U!Pay) /\ DOMAIN v1 \subseteq Nat
<1>1. DOMAIN v1 \subseteq Nat
  BY PaymentNumbers DEF UnlocksInv, UnlocksTyped
<1> QED BY <1>1 DEF UnlocksInv, UnlocksTyped, U!CountedSoFar, U!At

LEMMA PaymentFields ==
  ASSUME UnlocksInv, NEW n \in DOMAIN v1
  PROVE  /\ v1[n] \in U!Pay /\ v1[n].item \in {"full", "shorts"}
         /\ v1[n].rec \in Nights /\ v1[n].amount \in Nat
<1>1. v1[n] \in U!Pay
  BY DEF UnlocksInv, UnlocksTyped
<1> QED BY <1>1 DEF U!Pay

\* What a query of payments returns, and what it is worth.
LEMMA ItemsRead ==
  ASSUME UnlocksInv, v4 # None, v4.pc # "answered", v4.kind # "quote", NEW recs
  PROVE  /\ U!ItemsOf(U!On(recs)) \in SUBSET {"full", "shorts"}
         /\ U!ItemsOf(U!On(recs)) \subseteq U!PaidItems(v4.may)
         /\ U!PaidItems(U!OfRecs(v4.must, recs)) \subseteq U!ItemsOf(U!On(recs))
<1>1. U!Completed \subseteq v4.may /\ v4.must \subseteq U!Completed
  BY UnlocksAt DEF U!Counts
<1>2. \A n \in DOMAIN v1 : v1[n].item \in {"full", "shorts"}
  BY PaymentFields
<1>3. U!On(recs) \subseteq U!Completed /\ U!Completed \subseteq DOMAIN v1
  BY DEF U!On, U!Completed
<1>4. U!OfRecs(v4.must, recs) \subseteq U!On(recs)
  BY <1>1 DEF U!OfRecs, U!On
<1> QED BY <1>1, <1>2, <1>3, <1>4 DEF U!ItemsOf, U!PaidItems

LEMMA UnlocksIconRead ==
  ASSUME UnlocksInv, U!IconRead
  PROVE  UnlocksInv'
<1>1. v4 # None /\ v4.pc = "icon" /\ v4.kind = "icon" /\ UNCHANGED <<v1, v3>>
  BY UnlocksAt DEF U!IconRead, U!At, U!Quiet, U!Counts
<1>2. v4 \in UnlockCall /\ U!Counts(v4)
  BY <1>1, UnlocksAt
<1>3. /\ U!PaidItems(U!OfRecs(v4.must, v4.see \ v4.todo)) \subseteq v4.shown
      /\ v4.shown \subseteq U!PaidItems(v4.may)
  BY <1>1, <1>2 DEF U!Counts
<1>4. ASSUME NEW r \in v4.todo,
             v4' = [v4 EXCEPT !.todo = @ \ {r}, !.shown = @ \cup U!ItemsOf(U!On({r}))]
      PROVE  UnlocksInv'
  <2> PICK items : items = U!ItemsOf(U!On({r}))
    OBVIOUS
  <2>1. /\ items \in SUBSET {"full", "shorts"} /\ items \subseteq U!PaidItems(v4.may)
        /\ U!PaidItems(U!OfRecs(v4.must, {r})) \subseteq items
    BY <1>1, ItemsRead
  <2> PICK new : new = [v4 EXCEPT !.todo = @ \ {r}, !.shown = @ \cup items]
    OBVIOUS
  <2>2. /\ new \in UnlockCall /\ Carries(new) /\ new.pc = "icon" /\ new.kind = "icon"
        /\ new.todo = v4.todo \ {r} /\ new.shown = v4.shown \cup items
        /\ new.price = v4.price /\ v4' = new
    BY <1>1, <1>2, <1>4, <2>1 DEF UnlockCall, Carries
  <2>3. new.shown \subseteq U!PaidItems(new.may)
    BY <1>3, <2>1, <2>2 DEF Carries
  <2>4. U!PaidItems(U!OfRecs(new.must, new.see \ new.todo)) \subseteq new.shown
    <3>1. /\ new.must = v4.must /\ new.see \ new.todo \subseteq (v4.see \ v4.todo) \cup {r}
          /\ new.shown = v4.shown \cup items
      BY <2>2 DEF Carries
    <3>2. U!OfRecs(v4.must, new.see \ new.todo)
            \subseteq U!OfRecs(v4.must, v4.see \ v4.todo) \cup U!OfRecs(v4.must, {r})
      BY <3>1 DEF U!OfRecs
    <3>3. U!PaidItems(U!OfRecs(v4.must, new.see \ new.todo))
            \subseteq U!PaidItems(U!OfRecs(v4.must, v4.see \ v4.todo))
                      \cup U!PaidItems(U!OfRecs(v4.must, {r}))
      BY <3>2 DEF U!PaidItems
    <3> QED BY <1>3, <2>1, <3>1, <3>3
  <2> QED BY <1>1, <2>2, <2>3, <2>4, UnlocksGo
<1>5. ASSUME v4.todo = {}, v4' = [v4 EXCEPT !.pc = "answered"]
      PROVE  UnlocksInv'
  <2> PICK new : new = [v4 EXCEPT !.pc = "answered"]
    OBVIOUS
  <2>1. /\ new \in UnlockCall /\ Carries(new) /\ new.pc = "answered" /\ new.kind = "icon"
        /\ new.todo = {} /\ new.shown = v4.shown /\ new.price = v4.price /\ v4' = new
    BY <1>1, <1>2, <1>5 DEF UnlockCall, Carries
  <2>2. /\ U!PaidItems(U!OfRecs(new.must, new.see \ new.todo)) \subseteq new.shown
        /\ new.shown \subseteq U!PaidItems(new.may)
    BY <1>3, <1>5, <2>1 DEF Carries
  <2> QED BY <1>1, <2>1, <2>2, UnlocksGo
<1> QED BY <1>4, <1>5 DEF U!IconRead, U!Go

LEMMA UnlocksMineRead ==
  ASSUME UnlocksInv, U!MineRead
  PROVE  UnlocksInv'
<1>1. v4 # None /\ v4.pc = "mine" /\ v4.kind = "mine" /\ UNCHANGED <<v1, v3>>
  BY UnlocksAt DEF U!MineRead, U!At, U!Quiet, U!Counts
<1>2. v4 \in UnlockCall /\ U!Counts(v4)
  BY <1>1, UnlocksAt
<1>3. /\ v4.shown \subseteq U!PaidItems(v4.may)
      /\ v4.todo = {} => U!PaidItems(U!OfRecs(v4.must, {v4.rec})) \subseteq v4.shown
  BY <1>1, <1>2 DEF U!Counts
<1>4. ASSUME v4.todo # {},
             v4' = [v4 EXCEPT !.todo = {}, !.shown = U!ItemsOf(U!On({v4.rec}))]
      PROVE  UnlocksInv'
  <2> PICK items : items = U!ItemsOf(U!On({v4.rec}))
    OBVIOUS
  <2>1. /\ items \in SUBSET {"full", "shorts"} /\ items \subseteq U!PaidItems(v4.may)
        /\ U!PaidItems(U!OfRecs(v4.must, {v4.rec})) \subseteq items
    BY <1>1, ItemsRead
  <2> PICK new : new = [v4 EXCEPT !.todo = {}, !.shown = items]
    OBVIOUS
  <2>2. /\ new \in UnlockCall /\ Carries(new) /\ new.pc = "mine" /\ new.kind = "mine"
        /\ new.shown = items /\ new.price = v4.price /\ v4' = new
    BY <1>1, <1>2, <1>4, <2>1 DEF UnlockCall, Carries
  <2>3. /\ U!PaidItems(U!OfRecs(new.must, {new.rec})) \subseteq new.shown
        /\ new.shown \subseteq U!PaidItems(new.may)
    BY <2>1, <2>2 DEF Carries
  <2> QED BY <1>1, <2>2, <2>3, UnlocksGo
<1>5. ASSUME NEW paid, paid = v4.price \/ paid \in {v1[n].amount : n \in DOMAIN v1},
             v4' = [v4 EXCEPT !.read = TRUE, !.price = paid]
      PROVE  UnlocksInv'
  <2>1. paid \in Nat
    BY <1>2, <1>5, PaymentFields DEF UnlockCall
  <2> PICK new : new = [v4 EXCEPT !.read = TRUE, !.price = paid]
    OBVIOUS
  <2>2. /\ new \in UnlockCall /\ Carries(new) /\ new.pc = "mine" /\ new.kind = "mine"
        /\ new.todo = v4.todo /\ new.shown = v4.shown /\ new.price = paid /\ v4' = new
    BY <1>1, <1>2, <1>5, <2>1 DEF UnlockCall, Carries
  <2>3. /\ new.todo = {} => U!PaidItems(U!OfRecs(new.must, {new.rec})) \subseteq new.shown
        /\ new.shown \subseteq U!PaidItems(new.may)
    BY <1>3, <2>2 DEF Carries
  <2>4. new.price = v4.price \/ new.price \in {v1[n].amount : n \in DOMAIN v1}
    BY <1>5, <2>2
  <2> QED BY <1>1, <2>2, <2>3, <2>4, UnlocksGo
<1>6. ASSUME v4.todo = {}, v4' = [v4 EXCEPT !.pc = "siblings"]
      PROVE  UnlocksInv'
  <2> PICK new : new = [v4 EXCEPT !.pc = "siblings"]
    OBVIOUS
  <2>1. /\ new \in UnlockCall /\ Carries(new) /\ new.pc = "siblings" /\ new.kind = "mine"
        /\ new.todo = {} /\ new.shown = v4.shown /\ new.price = v4.price /\ v4' = new
    BY <1>1, <1>2, <1>6 DEF UnlockCall, Carries
  <2>2. /\ U!PaidItems(U!OfRecs(new.must, {new.rec})) \subseteq new.shown
        /\ new.shown \subseteq U!PaidItems(new.may)
    BY <1>3, <1>6, <2>1 DEF Carries
  <2> QED BY <1>1, <2>1, <2>2, UnlocksGo
<1>7. ASSUME v4' = [v4 EXCEPT !.read = TRUE,
                              !.price = IF U!OwnPays(v4.user, v4.rec) = {} THEN @
                                        ELSE v1[U!Latest(U!OwnPays(v4.user, v4.rec))].amount]
      PROVE  UnlocksInv'
  <2> PICK own \in SUBSET DOMAIN v1 : own = U!OwnPays(v4.user, v4.rec)
    BY DEF U!OwnPays
  <2>1. own # {} => U!Latest(own) \in own
    <3> SUFFICES ASSUME own # {} PROVE U!Latest(own) \in own
      OBVIOUS
    <3>1. Len(v1) \in Nat /\ own \in SUBSET (1 .. Len(v1))
      BY <1>1, UnlocksAt
    <3>2. \E n \in own : \A m \in own : m <= n
      BY <3>1, Greatest
    <3> QED BY <3>2 DEF U!Latest
  <2> PICK paid : paid = IF own = {} THEN v4.price ELSE v1[U!Latest(own)].amount
    OBVIOUS
  <2>2. v4' = [v4 EXCEPT !.read = TRUE, !.price = paid]
    BY <1>7
  <2>3. paid = v4.price \/ paid \in {v1[n].amount : n \in DOMAIN v1}
    BY <2>1
  <2> QED BY <1>5, <2>2, <2>3
<1> QED BY <1>4, <1>6, <1>7 DEF U!MineRead, U!Go

LEMMA UnlocksSiblings ==
  ASSUME UnlocksInv, U!Siblings
  PROVE  UnlocksInv'
<1>1. /\ v4 # None /\ v4.pc = "siblings" /\ v4.kind = "mine" /\ v4.todo = {}
      /\ UNCHANGED <<v1, v3>>
  BY UnlocksAt DEF U!Siblings, U!At, U!Quiet, U!Counts
<1>2. v4 \in UnlockCall /\ U!Counts(v4) /\ v4.must \subseteq DOMAIN v1
  BY <1>1, UnlocksAt
<1>3. /\ v4.shown \subseteq U!PaidItems(v4.may)
      /\ U!PaidItems(U!OfRecs(v4.must, {v4.rec})) \subseteq v4.shown
  BY <1>1, <1>2 DEF U!Counts
<1>4. \A n \in v4.must : v1[n].rec \in Nights
  BY <1>2, PaymentFields
<1> PICK more : more = IF U!Cardinality(Nights) > 1 THEN U!ItemsOf(U!On(Nights)) ELSE {}
  OBVIOUS
<1>5. more \in SUBSET {"full", "shorts"} /\ more \subseteq U!PaidItems(v4.may)
  BY <1>1, ItemsRead
<1>6. U!PaidItems(v4.must) \subseteq v4.shown \cup more
  <2>1. CASE U!Cardinality(Nights) > 1
    <3>1. U!PaidItems(U!OfRecs(v4.must, Nights)) \subseteq more
      BY <1>1, <2>1, ItemsRead
    <3>2. U!OfRecs(v4.must, Nights) = v4.must
      BY <1>4 DEF U!OfRecs
    <3> QED BY <3>1, <3>2
  <2>2. CASE ~(U!Cardinality(Nights) > 1)
    <3>1. U!Cardinality(Nights) = Cardinality(Nights)
      BY DEF U!Cardinality, Cardinality
    <3>2. IsFiniteSet(Nights) /\ Cardinality(Nights) \in Nat
      BY ServicesAssumption, FS_CardinalityType
    <3>3. v4.rec \in Nights
      BY <1>2 DEF UnlockCall
    <3>4. Nights = {v4.rec}
      <4>1. Cardinality({v4.rec}) = 1 /\ IsFiniteSet({v4.rec})
        BY FS_Singleton
      <4>2. Cardinality(Nights) <= 1
        BY <2>2, <3>1, <3>2
      <4>3. SUFFICES ASSUME {v4.rec} # Nights PROVE FALSE
        OBVIOUS
      <4>4. Cardinality({v4.rec}) < Cardinality(Nights)
        BY <3>2, <3>3, <4>3, FS_Subset, FS_CardinalityType
      <4> QED BY <3>2, <4>1, <4>2, <4>4
    <3>5. U!OfRecs(v4.must, {v4.rec}) = v4.must
      BY <1>4, <3>4 DEF U!OfRecs
    <3> QED BY <1>3, <3>5
  <2> QED BY <2>1, <2>2
<1> PICK new : new = [v4 EXCEPT !.pc = "answered", !.shown = @ \cup more]
  OBVIOUS
<1>7. v4' = new
  BY DEF U!Siblings, U!Go
<1>8. /\ new \in UnlockCall /\ Carries(new) /\ new.pc = "answered" /\ new.kind = "mine"
      /\ new.shown = v4.shown \cup more /\ new.price = v4.price
  BY <1>1, <1>2, <1>5 DEF UnlockCall, Carries
<1>9. /\ U!PaidItems(new.must) \subseteq new.shown
      /\ new.shown \subseteq U!PaidItems(new.may)
  BY <1>3, <1>5, <1>6, <1>8 DEF Carries
<1> QED BY <1>1, <1>7, <1>8, <1>9, UnlocksGo

LEMMA UnlocksQuote ==
  ASSUME UnlocksInv, U!Quote
  PROVE  UnlocksInv'
<1>1. v4 # None /\ v4.pc = "quote" /\ v4.kind = "quote" /\ UNCHANGED <<v1, v3>>
  BY UnlocksAt DEF U!Quote, U!At, U!Quiet, U!Counts
<1>2. v4 \in UnlockCall /\ U!Counts(v4)
  BY <1>1, UnlocksAt
<1>3. \E paid \in Nat : /\ paid = v4.price \/ paid \in {v1[n].amount : n \in DOMAIN v1}
                        /\ v4' = [v4 EXCEPT !.pc = "answered", !.price = paid]
  <2>1. v4.price \in Nat /\ \A n \in DOMAIN v1 : v1[n].amount \in Nat
    BY <1>2, PaymentFields DEF UnlockCall
  <2>2. CASE v4' = [v4 EXCEPT !.pc = "answered"]
    <3>1. [v4 EXCEPT !.pc = "answered"] = [v4 EXCEPT !.pc = "answered", !.price = v4.price]
      BY <1>2 DEF UnlockCall
    <3> QED BY <2>1, <2>2, <3>1
  <2>3. ASSUME NEW n \in U!OwnPays(v4.user, v4.rec),
               v4' = [v4 EXCEPT !.pc = "answered", !.price = v1[n].amount]
        PROVE  \E paid \in Nat :
                 /\ paid = v4.price \/ paid \in {v1[m].amount : m \in DOMAIN v1}
                 /\ v4' = [v4 EXCEPT !.pc = "answered", !.price = paid]
    <3>1. n \in DOMAIN v1
      BY DEF U!OwnPays
    <3> QED BY <2>1, <2>3, <3>1
  <2> QED BY <2>2, <2>3 DEF U!Quote, U!Go
<1> PICK price \in Nat : /\ price = v4.price \/ price \in {v1[n].amount : n \in DOMAIN v1}
                         /\ v4' = [v4 EXCEPT !.pc = "answered", !.price = price]
  BY <1>3
<1> PICK new : new = [v4 EXCEPT !.pc = "answered", !.price = price]
  OBVIOUS
<1>4. /\ new \in UnlockCall /\ Carries(new) /\ new.pc = "answered" /\ new.kind = "quote"
      /\ new.shown = v4.shown /\ new.price = price /\ v4' = new
  BY <1>1, <1>2 DEF UnlockCall, Carries
<1>5. new.shown \subseteq U!PaidItems(new.may)
  BY <1>2, <1>4 DEF U!Counts, Carries
<1> QED BY <1>1, <1>4, <1>5, UnlocksGo

LEMMA UnlocksAnswer ==
  ASSUME UnlocksInv, U!Answer
  PROVE  UnlocksInv'
BY DEF U!Answer, U!Go, U!Quiet, UnlocksInv, UnlocksTyped, U!CountedSoFar, U!UnlocksAgree,
       U!At

\* A request that nothing was told, since nothing that it asks for moved.
LEMMA UnlocksUntold ==
  ASSUME UnlocksInv, NEW mustNow, NEW mayNow, v4 # None, v4.pc # "answered",
         mustNow = v4.must, mayNow = v4.may
  PROVE  v4 = [v4 EXCEPT !.must = mustNow, !.may = mayNow]
BY UnlocksAt DEF UnlockCall

LEMMA UnlocksOrder ==
  ASSUME UnlocksInv, NEW u \in {"me", "other"}, NEW r \in Nights,
         NEW x \in {"full", "shorts"}, U!Order(u, r, x)
  PROVE  UnlocksInv'
<1>1. v1 \in Seq(U!Pay) /\ v3 \in Rates /\ ~U!At("answered") /\ v3' = v3 /\ v4' = v4
  BY DEF UnlocksInv, UnlocksTyped, U!Order
<1> PICK made : made = [by |-> u, rec |-> r, item |-> x, status |-> "pending",
                        amount |-> U!Price("order", TRUE)]
  OBVIOUS
<1>2. made \in U!Pay /\ made.status = "pending" /\ v1' = Append(v1, made)
  BY UnlocksPrice DEF U!Pay, U!Order
<1>3. /\ v1' \in Seq(U!Pay) /\ DOMAIN v1 \subseteq DOMAIN v1'
      /\ \A n \in DOMAIN v1 : v1'[n] = v1[n]
      /\ \A n \in DOMAIN v1' : n \in DOMAIN v1 \/ v1'[n] = made
  <2>1. Len(v1) \in Nat /\ DOMAIN v1 = 1 .. Len(v1) /\ v1' \in Seq(U!Pay)
    BY <1>1, <1>2
  <2>2. DOMAIN v1' = 1 .. (Len(v1) + 1) /\ v1'[Len(v1) + 1] = made
    BY <1>1, <1>2
  <2>3. \A n \in 1 .. Len(v1) : v1'[n] = v1[n]
    BY <1>1, <1>2
  <2>4. \A n \in 1 .. (Len(v1) + 1) : n \in 1 .. Len(v1) \/ n = Len(v1) + 1
    BY <2>1
  <2>5. 1 .. Len(v1) \subseteq 1 .. (Len(v1) + 1)
    BY <2>1
  <2> QED BY <2>1, <2>2, <2>3, <2>4, <2>5
<1>4. U!Completed' = U!Completed
  BY <1>2, <1>3 DEF U!Completed
<1>5. ASSUME v4 # None
      PROVE  \E must \in SUBSET v4.must, may \in SUBSET DOMAIN v1' :
                 /\ v4' = [v4 EXCEPT !.must = must, !.may = may]
                 /\ v4.may \subseteq may /\ must \subseteq U!Completed'
                 /\ v4.kind # "quote" => U!Completed' \subseteq may
  <2>1. v4.pc # "answered"
    BY <1>1, <1>5 DEF U!At
  <2>2. v4.may \subseteq DOMAIN v1 /\ U!Counts(v4)
    BY <1>5, <2>1, UnlocksAt
  <2>3. v4 = [v4 EXCEPT !.must = v4.must, !.may = v4.may]
    BY <1>5, <2>1, UnlocksUntold
  <2>4. v4.must \subseteq U!Completed /\ (v4.kind # "quote" => U!Completed \subseteq v4.may)
    BY <2>2 DEF U!Counts
  <2> HIDE DEF U!Completed
  <2> QED BY <1>1, <1>3, <1>4, <2>2, <2>3, <2>4
<1>6. \A n \in DOMAIN v1 : /\ v1'[n].item = v1[n].item /\ v1'[n].rec = v1[n].rec
                           /\ v1'[n].amount = v1[n].amount
  BY <1>3
<1>7. v3' \in Rates /\ (v4 = None => v4' = None)
  BY <1>1
<1> QED BY <1>1, <1>3, <1>5, <1>6, <1>7, UnlocksMoved

LEMMA UnlocksMove ==
  ASSUME UnlocksInv, NEW n \in DOMAIN v1, NEW old,
         NEW new \in {"completed", "refunded"}, U!Move(n, old, new)
  PROVE  UnlocksInv'
<1>1. v1 \in Seq(U!Pay) /\ v3 \in Rates /\ ~U!At("answered") /\ v3' = v3
  BY DEF UnlocksInv, UnlocksTyped, U!Move
<1>2. v1' = [v1 EXCEPT ![n].status = new] /\ v1[n] \in U!Pay
  BY <1>1 DEF U!Move
<1> PICK row : row = [v1[n] EXCEPT !.status = new]
  OBVIOUS
<1>3. /\ row \in U!Pay /\ row.status = new /\ row.item = v1[n].item
      /\ row.rec = v1[n].rec /\ row.amount = v1[n].amount
  BY <1>2 DEF U!Pay
<1>4. v1' = [v1 EXCEPT ![n] = row]
  BY <1>2
<1>5. v1' \in Seq(U!Pay) /\ DOMAIN v1' = DOMAIN v1
  BY <1>1, <1>3, <1>4
<1>6. /\ v1'[n] = row /\ \A m \in DOMAIN v1 \ {n} : v1'[m] = v1[m]
  BY <1>1, <1>4
<1>7. /\ new = "completed" => U!Completed' = U!Completed \cup {n}
      /\ new = "refunded" => U!Completed' = U!Completed \ {n}
  BY <1>3, <1>5, <1>6 DEF U!Completed
<1>8. ASSUME v4 # None
      PROVE  \E must \in SUBSET v4.must, may \in SUBSET DOMAIN v1' :
                 /\ v4' = [v4 EXCEPT !.must = must, !.may = may]
                 /\ v4.may \subseteq may /\ must \subseteq U!Completed'
                 /\ v4.kind # "quote" => U!Completed' \subseteq may
  <2>1. v4.pc # "answered"
    BY <1>1, <1>8 DEF U!At
  <2>2. v4 \in UnlockCall /\ v4.may \subseteq DOMAIN v1 /\ U!Counts(v4)
    BY <1>8, <2>1, UnlocksAt
  <2>3. /\ v4.must \subseteq U!Completed
        /\ IF v4.kind = "quote" THEN v4.must = {} ELSE U!Completed \subseteq v4.may
        /\ v4.pc = "quote" <=> v4.kind = "quote"
    BY <2>1, <2>2 DEF U!Counts, UnlockCall
  <2>4. CASE v4.kind = "quote"
    <3>1. v4' = v4 /\ v4.must = {}
      BY <1>8, <2>3, <2>4 DEF U!Move, U!At
    <3>2. v4 = [v4 EXCEPT !.must = v4.must, !.may = v4.may]
      BY <1>8, <2>1, UnlocksUntold
    <3> HIDE DEF U!Completed
    <3> QED BY <1>5, <2>2, <2>4, <3>1, <3>2
  <2>5. CASE v4.kind # "quote" /\ new = "completed"
    <3>1. v4' = [v4 EXCEPT !.may = @ \cup {n}]
      BY <1>8, <2>3, <2>5 DEF U!Move, U!At
    <3>2. v4' = [v4 EXCEPT !.must = v4.must, !.may = v4.may \cup {n}]
      BY <2>2, <3>1 DEF UnlockCall
    <3>3. v4.may \cup {n} \in SUBSET DOMAIN v1' /\ v4.must \in SUBSET v4.must
      BY <1>5, <2>2
    <3>4. v4.must \subseteq U!Completed' /\ U!Completed' \subseteq v4.may \cup {n}
      BY <1>7, <2>3, <2>5
    <3> HIDE DEF U!Completed
    <3> QED BY <3>2, <3>3, <3>4
  <2>6. CASE v4.kind # "quote" /\ new = "refunded"
    <3>1. v4' = [v4 EXCEPT !.must = @ \ {n}]
      BY <1>8, <2>3, <2>6 DEF U!Move, U!At
    <3>2. v4' = [v4 EXCEPT !.must = v4.must \ {n}, !.may = v4.may]
      BY <2>2, <3>1 DEF UnlockCall
    <3>3. v4.may \in SUBSET DOMAIN v1' /\ v4.must \ {n} \in SUBSET v4.must
      BY <1>5, <2>2
    <3>4. v4.must \ {n} \subseteq U!Completed' /\ U!Completed' \subseteq v4.may
      BY <1>7, <2>3, <2>6
    <3> HIDE DEF U!Completed
    <3> QED BY <3>2, <3>3, <3>4
  <2> QED BY <2>4, <2>5, <2>6
<1>9. v4 = None => v4' = None
  BY DEF U!Move
<1>10. \A m \in DOMAIN v1 : /\ v1'[m].item = v1[m].item /\ v1'[m].rec = v1[m].rec
                            /\ v1'[m].amount = v1[m].amount
  BY <1>3, <1>6
<1>11. v3' \in Rates /\ DOMAIN v1 \subseteq DOMAIN v1'
  BY <1>1, <1>5
<1> QED BY <1>1, <1>5, <1>8, <1>9, <1>10, <1>11, UnlocksMoved

LEMMA UnlocksElsewhere ==
  ASSUME UnlocksInv, UNCHANGED <<v1, v4>>, v3' \in Rates
  PROVE  UnlocksInv'
BY DEF UnlocksInv, UnlocksTyped, U!CountedSoFar, U!UnlocksAgree, U!At, U!Told, U!Counts,
       U!PaidItems, U!OfRecs, U!Completed

LEMMA UnlocksStep == UnlocksInv /\ U!Next => UnlocksInv'
<1> SUFFICES ASSUME UnlocksInv, U!Next PROVE UnlocksInv'
  OBVIOUS
<1>1. v3 \in Rates
  BY DEF UnlocksInv, UnlocksTyped
<1>2. ASSUME NEW u \in {"me"}, NEW r \in Nights, U!Share(u, r) PROVE UnlocksInv'
  BY <1>1, <1>2, UnlocksElsewhere DEF U!Share
<1>3. ASSUME NEW x \in Rates, U!UpdateConfig(x) PROVE UnlocksInv'
  BY <1>3, UnlocksElsewhere DEF U!UpdateConfig
<1>4. CASE \E u \in {"me"}, r \in Nights :
             \/ U!BeginIcons(u) \/ U!AskGate(u, r) \/ U!Share(u, r)
             \/ U!Metadata(u, r) \/ U!HighlightMetadata(u, r)
             \/ \E b \in BOOLEAN : \/ U!BeginMine(u, r, b) \/ U!BeginQuote(u, r, b)
                                   \/ U!Playback(u, r, b)
  BY <1>2, <1>4, UnlocksBeginIcons, UnlocksBeginMine, UnlocksBeginQuote, UnlocksAskGate
<1>5. CASE U!IconRead \/ U!MineRead \/ U!Siblings \/ U!Quote \/ U!Answer
  BY <1>5, UnlocksIconRead, UnlocksMineRead, UnlocksSiblings, UnlocksQuote, UnlocksAnswer
<1>6. CASE \E u \in {"me", "other"}, r \in Nights, x \in {"full", "shorts"} :
             U!Order(u, r, x)
  BY <1>6, UnlocksOrder
<1>7. CASE \E n \in DOMAIN v1 : \/ U!Move(n, "pending", "completed")
                                \/ U!Move(n, "completed", "refunded")
  BY <1>7, UnlocksMove
<1> QED BY <1>3, <1>4, <1>5, <1>6, <1>7 DEF U!Next

\* What the icons and the lists show as unlocked was paid for while the answer was
\* made, what was paid for all the time is shown, no gate of an export or of the
\* playback is open that nobody has paid for, and the price shown is an order's or a payment's; a
\* coupon is listed to whom it gives a price, as an admin last set it, unless an edit
\* had the row in hand while it was written.
THEOREM UnlocksTold == Spec => []UnlocksAgree
<1> DEFINE Inv == (which = "unlocks" => UnlocksInv) /\ (which = "coupons" => CouponsInv)
<1>1. Init => Inv
  BY UnlocksBegin, CouponsBegin DEF Init
<1>2. Inv /\ [Next]_vars => Inv'
  <2> SUFFICES ASSUME Inv, [Next]_vars PROVE Inv'
    OBVIOUS
  <2>1. ASSUME which' = "unlocks" PROVE UnlocksInv'
    <3>1. CASE UNCHANGED vars
      BY <2>1, <3>1 DEF vars, UnlocksInv, UnlocksTyped, U!CountedSoFar,
                        U!UnlocksAgree, U!At, U!Told, U!Counts, U!PaidItems,
                        U!OfRecs, U!Completed
    <3>2. CASE Next
      <4>1. which = "unlocks" /\ U!Next
        BY <2>1, <3>2 DEF Next
      <4> QED BY <4>1, UnlocksStep
    <3> QED BY <3>1, <3>2
  <2>2. ASSUME which' = "coupons" PROVE CouponsInv'
    <3>1. CASE UNCHANGED vars
      BY <2>2, <3>1 DEF vars, CouponsInv, CouponsTyped, N!EditInHand, N!InHand,
                        NobodyHolds
    <3>2. CASE Next
      <4>1. which = "coupons" /\ N!Next
        BY <2>2, <3>2 DEF Next
      <4> QED BY <4>1, CouponsStep
    <3> QED BY <3>1, <3>2
  <2> QED BY <2>1, <2>2
<1>3. Inv => UnlocksAgree
  BY CouponsAgree DEF UnlocksAgree, UnlocksInv
<1> QED BY <1>1, <1>2, <1>3, PTL DEF Spec

-----------------------------------------------------------------------------
(* The upload Lambda: row, assets, call, answer and disturbed are v1 to v5.*)

UploadTyped == /\ v1 \in [Videos -> I!Row] /\ v2 \in Seq(I!Asset)
               /\ v3 \in [CallsOf -> I!Call]
               /\ \A c \in CallsOf : /\ v3[c].rec = None <=> v3[c].pc = "idle"
                                     /\ v3[c].pc = "idle" => v3[c] = I!Idle
                                     /\ v3[c].ok => v3[c].pc = "mark"
UploadInv == UploadTyped /\ I!OneWatermark /\ \A r \in Videos : v1[r].play = v1[r].asset

LEMMA UploadIdle == /\ I!Idle \in I!Call /\ I!Idle.pc = "idle" /\ I!Idle.rec = None
                    /\ ~I!Idle.ok
BY ServicesAssumption DEF I!Idle, I!Call

LEMMA UploadBegin == I!Init => UploadInv
<1> SUFFICES ASSUME I!Init PROVE UploadInv
  OBVIOUS
<1>1. /\ v1 = [r \in Videos |-> I!NewRow] /\ v2 = <<>> /\ v3 = [c \in CallsOf |-> I!Idle]
  BY DEF I!Init
<1>2. I!NewRow \in I!Row /\ I!NewRow.play = I!NewRow.asset /\ I!NewRow.status = "uploaded"
  BY ServicesAssumption DEF I!NewRow, I!Row
<1> HIDE DEF I!Idle, I!NewRow
<1>3. UploadTyped
  BY <1>1, <1>2, UploadIdle DEF UploadTyped
<1>4. I!OneWatermark
  BY <1>1, <1>2, UploadIdle, ServicesAssumption DEF I!OneWatermark, I!Making
<1> QED BY <1>1, <1>2, <1>3, <1>4 DEF UploadInv

\* What is said of one call, and of one recording.
Marked(k) == k.pc = "save" \/ (k.pc = "mark" /\ k.ok) =>
               k.asset \in DOMAIN v2 /\ v2[k.asset].mark = k.mark
LEMMA UploadMarked ==
  UploadInv => \A c \in CallsOf : Marked(v3[c])
BY DEF UploadInv, I!OneWatermark, I!Making, Marked

\* A step of one call, about one recording: what the call is then, and that the
\* row tells what it should.
Fits(k) == /\ k.rec = None <=> k.pc = "idle"
           /\ k.pc = "idle" => k = I!Idle
           /\ k.ok => k.pc = "mark"
Alone(c, r) == \A d \in CallsOf \ {c} : v3[d].rec # r
Tells(r, k) ==
  v1[r].status = "completed" =>
    /\ v1[r].asset \in DOMAIN v2
    /\ k.pc = "mark" => k.ok /\ v1[r].asset = k.asset
    /\ k.pc # "mark" => v1[r].mark = v2[v1[r].asset].mark
RowsFit(r) == /\ v1' \in [Videos -> I!Row] /\ v1'[r].play = v1'[r].asset
              /\ \A s \in Videos \ {r} : v1'[s] = v1[s]
AssetsStay == /\ v2' \in Seq(I!Asset) /\ DOMAIN v2 \subseteq DOMAIN v2'
              /\ \A a \in DOMAIN v2 : v2'[a] = v2[a]

LEMMA UploadGoes ==
  ASSUME UploadInv, NEW c \in CallsOf, NEW r \in Videos, NEW new \in I!Call,
         v3' = [v3 EXCEPT ![c] = new], Fits(new), Marked(new)',
         v3[c].rec \in {r, None}, new.rec \in {r, None},
         AssetsStay, RowsFit(r), v5 \subseteq v5',
         r \notin v5' => Alone(c, r), r \notin v5' => Tells(r, new)'
  PROVE  UploadInv'
<1> USE DEF Fits, Alone, Tells, RowsFit, AssetsStay
<1>1. v3' \in [CallsOf -> I!Call] /\ v3'[c] = new /\ \A d \in CallsOf \ {c} : v3'[d] = v3[d]
  BY DEF UploadInv, UploadTyped
<1>2. UploadTyped'
  BY <1>1 DEF UploadInv, UploadTyped
<1>3. ASSUME NEW d \in CallsOf, I!Making(d)'
      PROVE  v3'[d].asset \in DOMAIN v2' /\ v2'[v3'[d].asset].mark = v3'[d].mark
  <2>1. CASE d = c
    BY <1>1, <1>3, <2>1 DEF I!Making, Marked
  <2>2. CASE d # c
    <3>1. v3'[d] = v3[d] /\ Marked(v3[d])
      BY <1>1, <2>2, UploadMarked
    <3> QED BY <1>3, <3>1 DEF I!Making, Marked
  <2> QED BY <2>1, <2>2
<1>4. ASSUME NEW s \in Videos \ v5'
      PROVE  /\ \A d, e \in CallsOf : v3'[d].rec = s /\ v3'[e].rec = s => d = e
             /\ v1'[s].status = "completed" =>
                  /\ v1'[s].asset \in DOMAIN v2'
                  /\ \A d \in CallsOf : v3'[d].rec = s /\ v3'[d].pc = "mark" =>
                       v3'[d].ok /\ v1'[s].asset = v3'[d].asset
                  /\ (\A d \in CallsOf : v3'[d].rec = s => v3'[d].pc # "mark") =>
                       v1'[s].mark = v2'[v1'[s].asset].mark
  <2>1. CASE s = r
    <3>1. \A d \in CallsOf \ {c} : v3'[d].rec # s
      BY <1>1, <1>4, <2>1
    <3>2. new.pc = "mark" => v3'[c].rec = s
      BY <1>1, <2>1
    <3> QED BY <1>1, <1>4, <2>1, <3>1, <3>2
  <2>2. CASE s # r
    <3>1. \A d \in CallsOf : v3[d].rec = s <=> v3'[d].rec = s
      BY <1>1, <2>2, ServicesAssumption
    <3>2. \A d \in CallsOf : v3[d].rec = s => v3'[d] = v3[d]
      BY <1>1, <2>2, ServicesAssumption
    <3>3. v1'[s] = v1[s] /\ s \in Videos \ v5
      BY <2>2
    <3>4. /\ \A d, e \in CallsOf : v3[d].rec = s /\ v3[e].rec = s => d = e
          /\ v1[s].status = "completed" =>
               /\ v1[s].asset \in DOMAIN v2
               /\ \A d \in CallsOf : v3[d].rec = s /\ v3[d].pc = "mark" =>
                    v3[d].ok /\ v1[s].asset = v3[d].asset
               /\ (\A d \in CallsOf : v3[d].rec = s => v3[d].pc # "mark") =>
                    v1[s].mark = v2[v1[s].asset].mark
      BY <3>3 DEF UploadInv, I!OneWatermark
    <3> QED BY <3>1, <3>2, <3>3, <3>4
  <2> QED BY <2>1, <2>2
<1>5. I!OneWatermark'
  BY <1>3, <1>4 DEF I!OneWatermark
<1>6. \A s \in Videos : v1'[s].play = v1'[s].asset
  BY DEF UploadInv
<1> QED BY <1>2, <1>5, <1>6 DEF UploadInv

\* What is known of a call at work.
LEMMA UploadFacts ==
  ASSUME UploadInv, NEW c \in CallsOf, v3[c].pc # "idle"
  PROVE  /\ v3[c] \in I!Call /\ v3[c].rec \in Videos /\ Marked(v3[c]) /\ Fits(v3[c])
         /\ v3[c].rec \notin v5 => Alone(c, v3[c].rec) /\ Tells(v3[c].rec, v3[c])
         /\ UploadTyped /\ v1[v3[c].rec].play = v1[v3[c].rec].asset
<1>1. v3[c] \in I!Call /\ Marked(v3[c]) /\ UploadTyped /\ Fits(v3[c])
  BY UploadMarked DEF UploadInv, UploadTyped, Fits
<1>2. v3[c].rec \in Videos
  BY <1>1 DEF I!Call, Fits
<1>3. v3[c].rec \notin v5 => Alone(c, v3[c].rec)
  BY <1>2 DEF UploadInv, I!OneWatermark, Alone
<1>4. v3[c].rec \notin v5 => Tells(v3[c].rec, v3[c])
  BY <1>2, <1>3 DEF UploadInv, I!OneWatermark, Alone, Tells
<1> QED BY <1>1, <1>2, <1>3, <1>4 DEF UploadInv

\* A call goes on, and the rows and the assets stay.
LEMMA UploadStay ==
  ASSUME UploadInv, NEW r \in Videos, UNCHANGED <<v1, v2>>
  PROVE  AssetsStay /\ RowsFit(r)
BY DEF UploadInv, UploadTyped, AssetsStay, RowsFit

LEMMA UploadMoves ==
  ASSUME UploadInv, NEW c \in CallsOf, v3[c].pc \notin {"idle", "mark"}, NEW new \in I!Call,
         v3' = [v3 EXCEPT ![c] = new], new.pc # "idle", new.rec = v3[c].rec, ~new.ok,
         UNCHANGED <<v1, v2>>, v5' \in {v5, v5 \cup {v3[c].rec}},
         new.pc = "save" => Marked(new), new.pc = "mark" => v3[c].rec \in v5'
  PROVE  UploadInv'
<1> PICK r \in Videos : r = v3[c].rec
  BY UploadFacts
<1>1. r \notin v5' => Alone(c, r) /\ Tells(r, v3[c])
  BY UploadFacts
<1>2. Marked(new)'
  BY DEF Marked
<1>3. r \notin v5' => Tells(r, new)'
  BY <1>1 DEF Tells
<1>4. Fits(new)
  BY ServicesAssumption DEF Fits
<1> QED BY <1>1, <1>2, <1>3, <1>4, UploadStay, UploadGoes

LEMMA UploadEvent ==
  ASSUME UploadInv, NEW c \in CallsOf, NEW tags \in I!Tags \cup {I!NoTags}, NEW name,
         I!Event(c, tags, name)
  PROVE  UploadInv'
<1> PICK r \in I!Found(I!Identifier(tags, name)) :
      /\ v3' = [v3 EXCEPT ![c] = [I!Idle EXCEPT !.pc = "sign", !.rec = r,
                                                !.mark = tags.mark]]
      /\ v5' = IF \E d \in CallsOf : v3[d].rec = r THEN v5 \cup {r} ELSE v5
  BY DEF I!Event, I!Go
<1> PICK new : new = [I!Idle EXCEPT !.pc = "sign", !.rec = r, !.mark = tags.mark]
  OBVIOUS
<1>1. r \in Videos /\ tags.mark \in Marks \cup {None}
  BY DEF I!Found, I!Tags, I!NoTags
<1>2. /\ new \in I!Call /\ new.pc = "sign" /\ new.rec = r /\ ~new.ok
  BY <1>1, UploadIdle DEF I!Idle, I!Call
<1>3. v3[c].pc = "idle" /\ UNCHANGED <<v1, v2>>
  BY DEF I!Event
<1>4. r \notin v5' => \A d \in CallsOf : v3[d].rec # r
  OBVIOUS
<1>5. r \notin v5' => Alone(c, r)
  BY <1>4 DEF Alone
<1>6. r \notin v5' => Tells(r, new)'
  BY <1>1, <1>2, <1>3, <1>4 DEF UploadInv, I!OneWatermark, Tells
<1>7. Marked(new)' /\ Fits(new)
  BY <1>1, <1>2, ServicesAssumption DEF Marked, Fits
<1>8. v3[c].rec = None
  BY <1>3 DEF UploadInv, UploadTyped
<1> QED BY <1>1, <1>2, <1>3, <1>5, <1>6, <1>7, <1>8, UploadStay, UploadGoes

LEMMA UploadCreate ==
  ASSUME UploadInv, NEW c \in CallsOf, I!CreateAsset(c)
  PROVE  UploadInv'
<1> PICK k \in I!Call : k = v3[c]
  BY DEF UploadInv, UploadTyped
<1> PICK r \in Videos : r = k.rec
  BY UploadFacts DEF I!CreateAsset
<1>1. v2 \in Seq(I!Asset) /\ Len(v2) \in Nat /\ DOMAIN v2 = 1 .. Len(v2)
  BY DEF UploadInv, UploadTyped
<1> PICK n : n = Len(v2) + 1
  OBVIOUS
<1>2. I!Cardinality(DOMAIN v2) + 1 = n
  <2>1. I!Cardinality(DOMAIN v2) = Cardinality(DOMAIN v2)
    BY DEF I!Cardinality, Cardinality
  <2> PICK m \in Nat : m = Len(v2)
    BY <1>1
  <2>2. m \in Int /\ 1 \in Int
    OBVIOUS
  <2>3. Cardinality(1 .. m) = IF 1 > m THEN 0 ELSE m - 1 + 1
    BY <2>2, FS_Interval
  <2>4. (IF 1 > m THEN 0 ELSE m - 1 + 1) = m
    OBVIOUS
  <2> QED BY <1>1, <2>1, <2>3, <2>4
<1> PICK new : new = [k EXCEPT !.pc = "save", !.asset = n]
  OBVIOUS
<1> PICK made : made = [rec |-> r, mark |-> k.mark]
  OBVIOUS
<1>3. /\ k.pc = "sign" /\ k.mark # None /\ n <= MaxAssets
      /\ v2' = [a \in 1 .. n |-> IF a = n THEN made ELSE v2[a]]
      /\ v3' = [v3 EXCEPT ![c] = new] /\ UNCHANGED <<v1, v5>>
  BY <1>2 DEF I!CreateAsset, I!Go
<1>4. made \in I!Asset /\ made.mark = k.mark
  BY <1>3 DEF I!Asset, I!Call
<1>5. n \in Nat /\ n >= 1 /\ n \in 0 .. MaxAssets
  BY <1>1, <1>3, ServicesAssumption
<1>6. /\ v2' \in Seq(I!Asset) /\ DOMAIN v2 \subseteq DOMAIN v2'
      /\ \A a \in DOMAIN v2 : v2'[a] = v2[a]
      /\ n \in DOMAIN v2' /\ v2'[n] = made
  <2>1. \A a \in 1 .. n : v2'[a] \in I!Asset
    BY <1>1, <1>3, <1>4
  <2>2. DOMAIN v2' = 1 .. n
    BY <1>3
  <2>3. v2' \in [1 .. n -> I!Asset]
    BY <1>3, <2>1
  <2> QED BY <1>1, <1>3, <1>5, <2>2, <2>3
<1>7. /\ new \in I!Call /\ new.pc = "save" /\ new.asset = n /\ new.rec = r
      /\ new.mark = k.mark /\ ~new.ok
  BY <1>3, <1>5, UploadFacts DEF I!Call, Fits
<1>8. Marked(new)' /\ Fits(new)
  BY <1>4, <1>6, <1>7, ServicesAssumption DEF Marked, Fits
<1>9. r \notin v5' => Alone(c, r) /\ Tells(r, k)
  BY <1>3, UploadFacts
<1>10. r \notin v5' => Tells(r, new)'
  BY <1>3, <1>6, <1>7, <1>9 DEF Tells
<1>11. AssetsStay /\ RowsFit(r)
  BY <1>3, <1>6 DEF UploadInv, UploadTyped, AssetsStay, RowsFit
<1> QED BY <1>3, <1>7, <1>8, <1>9, <1>10, <1>11, UploadGoes

LEMMA UploadFails ==
  ASSUME UploadInv, NEW c \in CallsOf,
         I!CreateFails(c) \/ I!SaveFails(c) \/ I!MarkFailedFails(c)
  PROVE  UploadInv'
<1> PICK k \in I!Call : k = v3[c]
  BY DEF UploadInv, UploadTyped
<1> PICK to \in {"fail", "mark"} :
      /\ k.pc \in {"sign", "save", "fail"} /\ v3' = [v3 EXCEPT ![c] = [k EXCEPT !.pc = to]]
      /\ UNCHANGED <<v1, v2>> /\ v5' \in {v5, v5 \cup {k.rec}}
      /\ to = "mark" => k.rec \in v5'
  BY DEF I!CreateFails, I!SaveFails, I!MarkFailedFails, I!Go, I!Disturb
<1> PICK new : new = [k EXCEPT !.pc = to]
  OBVIOUS
<1>1. new \in I!Call /\ new.pc = to /\ new.rec = k.rec /\ ~new.ok
  BY UploadFacts DEF I!Call, Fits
<1> QED BY <1>1, UploadMoves

\* The row of the call's recording is written.
LEMMA UploadWrites ==
  ASSUME UploadInv, NEW c \in CallsOf, NEW r \in Videos, NEW new \in I!Call,
         NEW row \in I!Row, v3[c].pc # "idle", r = v3[c].rec,
         v3' = [v3 EXCEPT ![c] = new], v1' = [v1 EXCEPT ![r] = row],
         UNCHANGED <<v2, v5>>, new.rec \in {r, None}, Fits(new), Marked(new),
         row.play = row.asset, r \notin v5' => Tells(r, new)'
  PROVE  UploadInv'
<1>1. AssetsStay /\ RowsFit(r)
  BY DEF UploadInv, UploadTyped, AssetsStay, RowsFit
<1>2. Marked(new)'
  BY DEF Marked
<1>3. r \notin v5' => Alone(c, r)
  BY UploadFacts
<1> QED BY <1>1, <1>2, <1>3, UploadGoes

\* The row is completed with the asset, or failed.
LEMMA UploadSave ==
  ASSUME UploadInv, NEW c \in CallsOf, I!SaveAsset(c)
  PROVE  UploadInv'
<1> PICK k \in I!Call : k = v3[c]
  BY DEF UploadInv, UploadTyped
<1> PICK r \in Videos : r = k.rec
  BY UploadFacts DEF I!SaveAsset
<1> PICK new : new = [k EXCEPT !.pc = "mark", !.ok = TRUE]
  OBVIOUS
<1> PICK row \in I!Row : row = v1[r]
  BY DEF UploadInv, UploadTyped
<1> PICK saved : saved = [row EXCEPT !.status = "completed", !.asset = k.asset,
                                     !.play = k.asset]
  OBVIOUS
<1>1. /\ k.pc = "save" /\ v3' = [v3 EXCEPT ![c] = new] /\ UNCHANGED <<v2, v5>>
      /\ v1' = [v1 EXCEPT ![r] = saved]
  BY DEF I!SaveAsset, I!Go, I!WithAsset
<1>2. /\ new \in I!Call /\ new.pc = "mark" /\ new.ok /\ new.asset = k.asset
      /\ new.rec = r /\ new.mark = k.mark
  BY DEF I!Call
<1>3. /\ saved \in I!Row /\ saved.asset = k.asset /\ saved.play = k.asset
  BY DEF I!Row, I!Call
<1>4. k.asset \in DOMAIN v2 /\ v2[k.asset].mark = k.mark
  BY <1>1, UploadFacts DEF Marked
<1>5. Marked(new) /\ Fits(new)
  BY <1>2, <1>4, ServicesAssumption DEF Marked, Fits
<1>6. v1'[r] = saved
  BY <1>1 DEF UploadInv, UploadTyped
<1>7. Tells(r, new)'
  BY <1>1, <1>2, <1>3, <1>4, <1>6 DEF Tells
<1> QED BY <1>1, <1>2, <1>3, <1>5, <1>7, UploadWrites

LEMMA UploadFailed ==
  ASSUME UploadInv, NEW c \in CallsOf, I!MarkFailed(c)
  PROVE  UploadInv'
<1> PICK k \in I!Call : k = v3[c]
  BY DEF UploadInv, UploadTyped
<1> PICK r \in Videos : r = k.rec
  BY UploadFacts DEF I!MarkFailed
<1> PICK new : new = [k EXCEPT !.pc = "mark"]
  OBVIOUS
<1> PICK row \in I!Row : row = v1[r]
  BY DEF UploadInv, UploadTyped
<1> PICK saved : saved = [row EXCEPT !.status = "failed"]
  OBVIOUS
<1>1. /\ k.pc = "fail" /\ v3' = [v3 EXCEPT ![c] = new] /\ UNCHANGED <<v2, v5>>
      /\ v1' = [v1 EXCEPT ![r] = saved]
  BY DEF I!MarkFailed, I!Go, I!AsFailed
<1>2. /\ new \in I!Call /\ new.pc = "mark" /\ ~new.ok /\ new.rec = r
  BY <1>1, UploadFacts DEF I!Call, Fits
<1>3. saved \in I!Row /\ saved.status = "failed" /\ saved.play = saved.asset
  BY DEF I!Row, UploadInv
<1>4. Marked(new) /\ Fits(new)
  BY <1>2, ServicesAssumption DEF Marked, Fits
<1>5. v1'[r] = saved
  BY <1>1 DEF UploadInv, UploadTyped
<1>6. Tells(r, new)'
  BY <1>3, <1>5 DEF Tells
<1> QED BY <1>1, <1>2, <1>3, <1>4, <1>6, UploadWrites

\* Where the watermark is, is stored.
LEMMA UploadStore ==
  ASSUME UploadInv, NEW c \in CallsOf, I!StoreMark(c)
  PROVE  UploadInv'
<1> PICK k \in I!Call : k = v3[c]
  BY DEF UploadInv, UploadTyped
<1> PICK r \in Videos : r = k.rec
  BY UploadFacts DEF I!StoreMark
<1> PICK row \in I!Row : row = v1[r]
  BY DEF UploadInv, UploadTyped
<1> PICK stored : stored = [row EXCEPT !.mark = k.mark]
  OBVIOUS
<1>1. /\ k.pc = "mark" /\ k.mark # None /\ v3' = [v3 EXCEPT ![c] = I!Idle]
      /\ UNCHANGED <<v2, v5>> /\ v1' = [v1 EXCEPT ![r].mark = k.mark]
  BY DEF I!StoreMark, I!Go, I!End
<1>2. /\ stored \in I!Row /\ stored.status = row.status /\ stored.play = row.play
      /\ stored.asset = row.asset /\ stored.mark = k.mark
  BY DEF I!Row, I!Call
<1>3. /\ row.play = row.asset /\ Marked(k)
      /\ r \notin v5 => Tells(r, k)
  BY <1>1, UploadFacts
<1>4. v1' = [v1 EXCEPT ![r] = stored]
  BY <1>1
<1>5. v1'[r] = stored
  BY <1>4 DEF UploadInv, UploadTyped
<1>6. Marked(I!Idle) /\ Fits(I!Idle)
  BY UploadIdle DEF Marked, Fits
<1>7. r \notin v5' => Tells(r, I!Idle)'
  <2>1. ASSUME r \notin v5, row.status = "completed"
        PROVE  row.asset \in DOMAIN v2 /\ v2[row.asset].mark = k.mark
    <3>1. v1[r].status = "completed" /\ Tells(r, k) /\ k.pc = "mark"
      BY <1>1, <1>3, <2>1
    <3>2. v1[r].asset \in DOMAIN v2 /\ k.ok /\ v1[r].asset = k.asset
      BY <3>1, Zenon DEF Tells
    <3>3. v2[k.asset].mark = k.mark
      BY <1>3, <3>1, <3>2, Zenon DEF Marked
    <3> QED BY <3>2, <3>3
  <2>2. I!Idle.pc # "mark" /\ UNCHANGED <<v2, v5>>
    BY <1>1, UploadIdle
  <2> QED BY <1>2, <1>5, <2>1, <2>2 DEF Tells
<1>8. /\ v3[c].pc # "idle" /\ r = v3[c].rec /\ v3' = [v3 EXCEPT ![c] = I!Idle]
      /\ UNCHANGED <<v2, v5>> /\ I!Idle.rec \in {r, None}
      /\ stored \in I!Row /\ stored.play = stored.asset /\ I!Idle \in I!Call
  BY <1>1, <1>2, <1>3, UploadIdle
<1> QED BY <1>4, <1>6, <1>7, <1>8, UploadWrites

\* The call ends, and the row stays.
LEMMA UploadEnds ==
  ASSUME UploadInv, NEW c \in CallsOf, I!StoreMarkFails(c) \/ I!CutOff(c)
  PROVE  UploadInv'
<1>1. /\ v3[c].pc # "idle" /\ v3' = [v3 EXCEPT ![c] = I!Idle] /\ UNCHANGED <<v1, v2>>
      /\ \/ v5' = v5 \cup {v3[c].rec}
         \/ v5' = v5 /\ v3[c].pc = "mark" /\ v3[c].mark = None
  BY DEF I!StoreMarkFails, I!CutOff, I!End, I!Go, I!Disturb
<1> PICK r \in Videos : r = v3[c].rec
  BY <1>1, UploadFacts
<1>2. /\ UploadTyped /\ Marked(v3[c])
      /\ r \notin v5 => Alone(c, r) /\ Tells(r, v3[c])
  BY <1>1, UploadFacts
<1>3. Marked(I!Idle)' /\ Fits(I!Idle)
  BY UploadIdle DEF Marked, Fits
<1>4. r \notin v5' => Alone(c, r)
  BY <1>1, <1>2
<1>5. r \notin v5' => Tells(r, I!Idle)'
  <2>1. CASE v5' = v5 /\ v3[c].pc = "mark" /\ v3[c].mark = None
    <3>1. \A a \in DOMAIN v2 : v2[a] \in I!Asset
      BY <1>2 DEF UploadTyped
    <3>2. \A a \in I!Asset : a.mark # None
      BY ServicesAssumption DEF I!Asset
    <3>3. ~v3[c].ok
      BY <1>2, <2>1, <3>1, <3>2 DEF Marked
    <3> QED BY <1>1, <1>2, <2>1, <3>3 DEF Tells
  <2> QED BY <1>1, <2>1
<1> QED BY <1>1, <1>3, <1>4, <1>5, UploadIdle, UploadStay, UploadGoes

\* What needs no call: nothing is found, or Mux has an asset ready.
LEMMA UploadIgnored ==
  ASSUME UploadInv, NEW c \in CallsOf, NEW tags, NEW name, I!EventIgnored(c, tags, name)
  PROVE  UploadInv'
<1>1. v3[c].pc = "idle" /\ v3' = [v3 EXCEPT ![c] = I!Idle] /\ UNCHANGED <<v1, v2, v5>>
  BY DEF I!EventIgnored, I!End, I!Go
<1>2. UNCHANGED <<v1, v2, v3, v5>>
  BY <1>1 DEF UploadInv, UploadTyped
<1> QED BY <1>2 DEF UploadInv, UploadTyped, I!OneWatermark, I!Making

LEMMA UploadReady ==
  ASSUME UploadInv, NEW n \in 1 .. MaxAssets, I!AssetReady(n)
  PROVE  UploadInv'
<1>1. n \in DOMAIN v2 /\ v2 \in Seq(I!Asset) /\ v1 \in [Videos -> I!Row] /\ UploadTyped
  BY DEF I!AssetReady, UploadInv, UploadTyped
<1> PICK made \in I!Asset : made = v2[n]
  BY <1>1
<1> PICK r \in Videos : r = made.rec
  BY DEF I!Asset
<1> PICK row \in I!Row : row = v1[r]
  BY <1>1
<1> PICK ready : ready = [row EXCEPT !.status = "ready", !.asset = n, !.play = n]
  OBVIOUS
<1>2. v1' = [v1 EXCEPT ![r] = ready] /\ UNCHANGED <<v2, v3, v5>>
  BY DEF I!AssetReady
<1>3. n \in 0 .. MaxAssets
  BY ServicesAssumption
<1>4. ready \in I!Row /\ ready.status = "ready" /\ ready.asset = n /\ ready.play = n
  BY <1>3 DEF I!Row
<1>5. /\ v1' \in [Videos -> I!Row] /\ v1'[r] = ready
      /\ \A s \in Videos \ {r} : v1'[s] = v1[s]
  BY <1>1, <1>2, <1>4
<1>6. UploadTyped' /\ \A s \in Videos : v1'[s].play = v1'[s].asset
  BY <1>1, <1>2, <1>4, <1>5 DEF UploadTyped, UploadInv
<1>7. I!OneWatermark'
  <2>1. \A c \in CallsOf : I!Making(c)' <=> I!Making(c)
    BY <1>2 DEF I!Making
  <2>2. \A s \in Videos : v1'[s].status = "completed" => v1'[s] = v1[s]
    BY <1>4, <1>5
  <2> QED BY <1>2, <2>1, <2>2 DEF UploadInv, I!OneWatermark
<1> QED BY <1>6, <1>7 DEF UploadInv

LEMMA UploadStep == UploadInv /\ I!Next => UploadInv'
<1> SUFFICES ASSUME UploadInv, I!Next PROVE UploadInv'
  OBVIOUS
<1>1. ASSUME NEW c \in CallsOf, NEW tags \in I!Tags \cup {I!NoTags},
             NEW name \in I!Ids \cup {I!NoId},
             I!Event(c, tags, name) \/ I!EventIgnored(c, tags, name)
      PROVE  UploadInv'
  BY <1>1, UploadEvent, UploadIgnored
<1>2. ASSUME NEW c \in CallsOf,
             \/ I!CreateAsset(c) \/ I!CreateFails(c) \/ I!SaveAsset(c) \/ I!SaveFails(c)
             \/ I!MarkFailed(c) \/ I!MarkFailedFails(c) \/ I!StoreMark(c)
             \/ I!StoreMarkFails(c) \/ I!CutOff(c)
      PROVE  UploadInv'
  BY <1>2, UploadCreate, UploadFails, UploadSave, UploadFailed, UploadStore, UploadEnds
<1>3. ASSUME NEW n \in 1 .. MaxAssets, I!AssetReady(n) PROVE UploadInv'
  BY <1>3, UploadReady
<1> QED BY <1>1, <1>2, <1>3 DEF I!Next

LEMMA UploadTold == UploadInv => I!AssetTold
<1> SUFFICES ASSUME UploadInv, NEW r \in Videos, v1[r].status = "completed", r \notin v5,
                    \A c \in CallsOf : v3[c].rec # r
             PROVE  v1[r].mark = v2[v1[r].asset].mark
  BY DEF UploadInv, I!AssetTold
<1> QED BY DEF UploadInv, I!OneWatermark

-----------------------------------------------------------------------------
(* The converter: phase, list, work, output, left, object, answer, asked   *)
(* and failed are v1 to v9.                                                *)

\* A line of the playlist that is being localized, its URI rewritten or not.
FileNames == {"key", "seg"} \X Nat
Rewritten == [is : {"key", "seg", "nokey", "map"},
              uri : {"k", "a", "b", "i"} \cup FileNames]

ConvTyped ==
  /\ v1 \in {"idle", "direct", "resolve", "fetch", "local", "upload"}
  /\ v1 # "idle" => v8 \in O!Media \cup O!Masters
  /\ v1 \in {"fetch", "local"} =>
       /\ v2.lines \in Seq(O!Lines)
       /\ v3.pos \in Nat /\ v3.seq \in Nat /\ v3.out \in Seq(Rewritten)
       /\ Len(v3.out) = v3.pos /\ DOMAIN v3.dir \subseteq FileNames
  /\ v5 \in Nat /\ v9 \in Nat /\ v3.made \in Nat
ConvInv == ConvTyped /\ O!InTheMaking /\ O!ConvertedWhole

LEMMA ConvBegin == O!Init => ConvInv
<1> SUFFICES ASSUME O!Init PROVE ConvInv
  OBVIOUS
<1>1. /\ v1 = "idle" /\ v3.made = 0 /\ v4 = O!Nothing /\ v5 = 0 /\ v9 = 0
      /\ v6 = O!Nothing /\ v7 = None
  BY DEF O!Init, O!NoWork
<1>2. ConvTyped /\ O!InTheMaking
  BY <1>1 DEF ConvTyped, O!InTheMaking
<1>3. O!ConvertedWhole
  BY <1>1, NoAnswer DEF O!ConvertedWhole
<1> QED BY <1>2, <1>3 DEF ConvInv

LEMMA ConvLines ==
  ASSUME NEW set, NEW n \in Nat, NEW lines \in O!BoundedSeq(set, n)
  PROVE  lines \in Seq(set) /\ \A i \in DOMAIN lines : i \in Nat /\ lines[i] \in set
<1> PICK k \in 0 .. n : lines \in [1 .. k -> set]
  BY DEF O!BoundedSeq, O!SeqOf
<1>1. k \in Nat /\ lines \in Seq(set)
  OBVIOUS
<1> QED BY <1>1

\* A master playlist names a variant of the highest bandwidth that is the first.
LEMMA ConvBest ==
  ASSUME NEW m \in O!Masters, O!Usable(m) # {}
  PROVE  /\ O!BestOf(m) \in O!Usable(m)
         /\ \A k \in O!Usable(m) : m.lines[k].bandwidth <= m.lines[O!BestOf(m)].bandwidth
<1>1. \A i \in DOMAIN m.lines : i \in Nat /\ m.lines[i] \in O!Variants
  <2>1. m.lines \in O!BoundedSeq(O!Variants, 2)
    BY DEF O!Masters
  <2> QED BY <2>1, ConvLines
<1>2. /\ O!Usable(m) \subseteq Nat
      /\ \A i \in O!Usable(m) : m.lines[i].bandwidth \in 0 .. 2
  BY <1>1 DEF O!Usable, O!Variants
<1> DEFINE Band(i) == m.lines[i].bandwidth
           bands == {Band(i) + 1 : i \in O!Usable(m)}
<1>3. bands \in SUBSET (1 .. 3) /\ bands # {}
  BY <1>2
<1> HIDE DEF Band
<1>4. \E n \in bands : \A k \in bands : k <= n
  <2> HIDE DEF bands
  <2> QED BY <1>3, Greatest
<1> PICK top \in O!Usable(m) : \A k \in bands : k <= Band(top) + 1
  BY <1>4
<1>5. \A k \in O!Usable(m) : Band(k) \in Nat
  BY <1>2 DEF Band
<1>6. \A k \in O!Usable(m) : Band(k) <= Band(top)
  BY <1>5
<1> DEFINE tops == {i \in O!Usable(m) : Band(i) = Band(top)}
<1>7. tops \in SUBSET Nat /\ tops # {}
  BY <1>2
<1>8. \E n \in tops : \A k \in tops : n <= k
  <2> HIDE DEF tops
  <2> QED BY <1>7, Least
<1> PICK i \in O!Usable(m) : Band(i) = Band(top) /\ \A k \in tops : i <= k
  BY <1>8
<1>9. \A j \in O!Usable(m) : Band(j) <= Band(i) /\ (j < i => Band(j) < Band(i))
  <2> TAKE j \in O!Usable(m)
  <2>1. Band(j) <= Band(i)
    BY <1>6
  <2>2. ASSUME j < i PROVE Band(j) < Band(i)
    <3>1. j \notin tops
      BY <1>2, <2>2
    <3> QED BY <1>5, <2>1, <3>1
  <2> QED BY <2>1, <2>2
<1>10. \E b \in O!Usable(m) : \A j \in O!Usable(m) :
         /\ m.lines[j].bandwidth <= m.lines[b].bandwidth
         /\ j < b => m.lines[j].bandwidth < m.lines[b].bandwidth
  BY <1>9 DEF Band
<1> QED BY <1>10 DEF O!BestOf

\* The media playlist that is fetched is one that ffmpeg would open.
LEMMA ConvResolved ==
  ASSUME ConvInv, O!Resolve
  PROVE  v2' \in O!DirectOpens(v8) /\ v2'.lines \in Seq(O!Lines)
<1>1. v2 = v8 /\ v8 \in O!Media \cup O!Masters /\ O!Playable(v8)
  BY DEF ConvInv, ConvTyped, O!InTheMaking, O!Resolve
<1>2. v2' = IF v8.master THEN O!MediaOf(v8.lines[O!BestOf(v8)].uri) ELSE v8
  BY <1>1 DEF O!Resolve
<1>3. CASE v8 \in O!Masters
  <2>1. v8.master /\ O!Usable(v8) # {}
    BY <1>1, <1>3 DEF O!Playable, O!Masters
  <2>2. /\ O!BestOf(v8) \in O!Usable(v8)
        /\ \A k \in O!Usable(v8) :
             v8.lines[k].bandwidth <= v8.lines[O!BestOf(v8)].bandwidth
    BY <1>3, <2>1, ConvBest
  <2> PICK b \in O!Usable(v8) :
        b = O!BestOf(v8) /\ \A k \in O!Usable(v8) : v8.lines[k].bandwidth <= v8.lines[b].bandwidth
    BY <2>2
  <2>3. v2' = O!MediaOf(v8.lines[b].uri)
    BY <1>2, <2>1
  <2>4. v2' \in O!DirectOpens(v8)
    BY <2>1, <2>3 DEF O!DirectOpens
  <2>5. \A i \in DOMAIN v8.lines : v8.lines[i] \in O!Variants
    <3>1. v8.lines \in O!BoundedSeq(O!Variants, 2)
      BY <1>3 DEF O!Masters
    <3> QED BY <3>1, ConvLines
  <2>6. v8.lines[b].uri \in {"a", "b"}
    BY <2>5 DEF O!Usable, O!Variants
  <2>7. v2'.lines \in Seq(O!Lines)
    BY <2>3, <2>6 DEF O!MediaOf, O!Lines
  <2> QED BY <2>4, <2>7
<1>4. CASE v8 \in O!Media
  <2>1. ~v8.master /\ v8.lines \in O!BoundedSeq(O!Lines, MaxLines)
    BY <1>4 DEF O!Media
  <2>2. v8.lines \in Seq(O!Lines)
    BY <2>1, ServicesAssumption, ConvLines
  <2> QED BY <1>2, <2>1, <2>2 DEF O!DirectOpens
<1> QED BY <1>1, <1>3, <1>4

LEMMA ConvResolve == ConvInv /\ O!Resolve => ConvInv'
<1> SUFFICES ASSUME ConvInv, O!Resolve PROVE ConvInv'
  OBVIOUS
<1>1. /\ v1 = "resolve" /\ v1' = "fetch" /\ v5' = v5 + 1
      /\ v3' = [v3 EXCEPT !.made = 1] /\ UNCHANGED <<v4, v6, v7, v8, v9>>
  BY DEF O!Resolve
<1>2. /\ v3 = O!NoWork /\ v6 = O!Nothing /\ v7 = None /\ v5 = v9
      /\ v8 \in O!Media \cup O!Masters /\ v5 \in Nat
  BY <1>1 DEF ConvInv, ConvTyped, O!InTheMaking, O!NoWork
<1>3. v3'.made = 1 /\ v3'.pos = 0 /\ v3'.seq = 0 /\ v3'.out = <<>> /\ v3'.dir = <<>>
  BY <1>1, <1>2 DEF O!NoWork
<1>4. v2' \in O!DirectOpens(v8) /\ v2'.lines \in Seq(O!Lines)
  BY ConvResolved
<1>5. ConvTyped'
  <2>1. v3'.out \in Seq(Rewritten) /\ Len(v3'.out) = 0 /\ DOMAIN v3'.dir \subseteq FileNames
    BY <1>3
  <2> QED BY <1>1, <1>2, <1>3, <1>4, <2>1 DEF ConvTyped
<1>6. O!InTheMaking'
  BY <1>1, <1>2, <1>3, <1>4 DEF O!InTheMaking, O!Fetched
<1>7. O!ConvertedWhole'
  BY <1>1, <1>2, NoAnswer DEF O!ConvertedWhole
<1> QED BY <1>5, <1>6, <1>7 DEF ConvInv

\* A line is fetched: what was fetched before stays where it is.
LEMMA ConvFetch == ConvInv /\ O!FetchLine => ConvInv'
<1> SUFFICES ASSUME ConvInv, O!FetchLine PROVE ConvInv'
  OBVIOUS
<1>1. v1 = "fetch" /\ v3.pos < Len(v2.lines) /\ UNCHANGED <<v1, v2, v4, v5, v6, v7, v8, v9>>
  BY DEF O!FetchLine
<1>2. /\ v2.lines \in Seq(O!Lines) /\ v3.pos \in Nat /\ v3.seq \in Nat
      /\ v3.out \in Seq(Rewritten) /\ Len(v3.out) = v3.pos
      /\ DOMAIN v3.dir \subseteq FileNames
      /\ v8 \in O!Media \cup O!Masters /\ v5 \in Nat /\ v9 \in Nat
      /\ v6 = O!Nothing /\ v7 = None /\ v2 \in O!DirectOpens(v8) /\ v3.made = 1
      /\ \A i \in 1 .. v3.pos : O!Fetched(i)
      /\ \A f \in DOMAIN v3.dir : f[2] < v3.seq
      /\ v5 = v9 + v3.made
  BY <1>1 DEF ConvInv, ConvTyped, O!InTheMaking
<1> PICK l \in O!Lines : l = v2.lines[v3.pos + 1]
  BY <1>1, <1>2
<1> DEFINE fetched == l.is \in {"key", "seg"}
<1> PICK file : file = <<l.is, v3.seq>>
  OBVIOUS
<1> PICK out : out = IF fetched THEN [l EXCEPT !.uri = file] ELSE l
  OBVIOUS
<1>3. /\ v3'.made = 1 /\ v3'.pos = v3.pos + 1 /\ v3'.out = Append(v3.out, out)
      /\ v3'.seq = IF fetched THEN v3.seq + 1 ELSE v3.seq
      /\ v3'.dir = IF fetched
                   THEN [f \in DOMAIN v3.dir \cup {file} |->
                           IF f = file THEN l.uri ELSE v3.dir[f]]
                   ELSE v3.dir
  BY DEF O!FetchLine, O!Counted
<1>4. out \in Rewritten
  <2>1. fetched => file \in FileNames
    BY <1>2 DEF FileNames
  <2> QED BY <2>1 DEF O!Lines, Rewritten
<1>5. /\ v3'.pos \in Nat /\ v3'.seq \in Nat /\ v3.seq <= v3'.seq
      /\ v3'.pos <= Len(v2.lines)
  BY <1>1, <1>2, <1>3
<1>6. /\ v3'.out \in Seq(Rewritten) /\ Len(v3'.out) = v3'.pos
      /\ \A i \in 1 .. v3.pos : v3'.out[i] = v3.out[i]
      /\ v3'.out[v3.pos + 1] = out
  BY <1>2, <1>3, <1>4
<1>7. file[1] = l.is /\ file[2] = v3.seq
  OBVIOUS
<1>8. /\ \A f \in DOMAIN v3.dir : f \in DOMAIN v3'.dir /\ v3'.dir[f] = v3.dir[f]
      /\ \A f \in DOMAIN v3'.dir : f[2] < v3'.seq
      /\ fetched => file \in DOMAIN v3'.dir /\ v3'.dir[file] = l.uri
  <2>1. CASE fetched
    <3>1. file \notin DOMAIN v3.dir
      BY <1>2, <1>7
    <3>2. DOMAIN v3'.dir = DOMAIN v3.dir \cup {file}
      BY <1>3, <2>1
    <3>3. \A f \in DOMAIN v3'.dir : f[2] < v3'.seq
      <4> TAKE f \in DOMAIN v3'.dir
      <4>1. CASE f = file
        BY <1>2, <1>3, <1>7, <2>1, <4>1
      <4>2. CASE f \in DOMAIN v3.dir
        <5>1. f[2] < v3.seq /\ f[2] \in Nat
          BY <1>2, <4>2 DEF FileNames
        <5> QED BY <1>2, <1>3, <2>1, <5>1
      <4> QED BY <3>2, <4>1, <4>2
    <3> QED BY <1>3, <2>1, <3>1, <3>2, <3>3
  <2>2. CASE ~fetched
    BY <1>2, <1>3, <2>2
  <2> QED BY <2>1, <2>2
<1>9. \A i \in 1 .. v3'.pos : O!Fetched(i)'
  <2> TAKE i \in 1 .. v3'.pos
  <2>1. CASE i = v3.pos + 1
    <3>1. CASE fetched
      <4>1. v3.seq \in 0 .. v3'.seq - 1
        BY <1>2, <1>3, <3>1
      <4> QED BY <1>1, <1>6, <1>8, <2>1, <3>1, <4>1 DEF O!Fetched
    <3>2. CASE ~fetched
      BY <1>1, <1>6, <2>1, <3>2 DEF O!Fetched
    <3> QED BY <3>1, <3>2
  <2>2. CASE i \in 1 .. v3.pos
    <3>1. O!Fetched(i) /\ v3'.out[i] = v3.out[i] /\ v2' = v2
      BY <1>1, <1>2, <1>6, <2>2
    <3>2. 0 .. v3.seq - 1 \subseteq 0 .. v3'.seq - 1
      BY <1>2, <1>5
    <3> QED BY <1>8, <3>1, <3>2 DEF O!Fetched
  <2> QED BY <1>2, <1>3, <2>1, <2>2
<1>10. ConvTyped'
  <2>1. DOMAIN v3'.dir \subseteq FileNames
    BY <1>2, <1>3 DEF FileNames
  <2>2. /\ v2'.lines \in Seq(O!Lines) /\ v3'.made \in Nat /\ v5' \in Nat /\ v9' \in Nat
        /\ v1' = "fetch" /\ v8' \in O!Media \cup O!Masters
    BY <1>1, <1>2, <1>3
  <2> QED BY <1>5, <1>6, <2>1, <2>2 DEF ConvTyped
<1>11. DOMAIN v3'.out = 1 .. v3'.pos
  BY <1>6
<1>12. O!InTheMaking'
  BY <1>1, <1>2, <1>3, <1>5, <1>8, <1>9, <1>11 DEF O!InTheMaking
<1>13. O!ConvertedWhole'
  BY <1>1, <1>2, NoAnswer DEF O!ConvertedWhole
<1> QED BY <1>10, <1>12, <1>13 DEF ConvInv

\* What was written plays what the playlist does.
LEMMA ConvFiles ==
  ASSUME ConvInv, v1 = "local"
  PROVE  O!Files = v2.lines
<1>1. /\ v2.lines \in Seq(O!Lines) /\ v3.out \in Seq(Rewritten)
      /\ Len(v3.out) = Len(v2.lines) /\ v3.pos = Len(v2.lines)
      /\ \A i \in 1 .. v3.pos : O!Fetched(i)
  BY DEF ConvInv, ConvTyped, O!InTheMaking
<1>2. /\ DOMAIN v3.out = 1 .. Len(v2.lines)
      /\ v2.lines = [i \in 1 .. Len(v2.lines) |-> v2.lines[i]]
  BY <1>1
<1>3. ASSUME NEW i \in 1 .. Len(v2.lines)
      PROVE  (IF v3.out[i].is \in {"key", "seg"}
              THEN [v3.out[i] EXCEPT !.uri = v3.dir[@]] ELSE v3.out[i]) = v2.lines[i]
  <2> PICK l \in O!Lines : l = v2.lines[i]
    BY <1>1
  <2>1. O!Fetched(i)
    BY <1>1
  <2>2. CASE l.is \in {"key", "seg"}
    <3> PICK file : v3.out[i] = [l EXCEPT !.uri = file] /\ v3.dir[file] = l.uri
      BY <2>1, <2>2 DEF O!Fetched
    <3>1. v3.out[i].is = l.is /\ v3.out[i].uri = file
      BY DEF O!Lines
    <3>2. [v3.out[i] EXCEPT !.uri = v3.dir[@]] = [l EXCEPT !.uri = l.uri]
      BY <3>1 DEF O!Lines
    <3>3. [l EXCEPT !.uri = l.uri] = l
      BY DEF O!Lines
    <3> QED BY <2>2, <3>1, <3>2, <3>3
  <2>3. CASE l.is \notin {"key", "seg"}
    BY <2>1, <2>3 DEF O!Fetched
  <2> QED BY <2>2, <2>3
<1>4. O!Files = [i \in 1 .. Len(v2.lines) |-> v2.lines[i]]
  BY <1>2, <1>3 DEF O!Files
<1> QED BY <1>2, <1>4

\* The other steps.
LEMMA ConvLocalStep == ConvInv /\ (O!Localized \/ O!Local \/ O!LocalFails) => ConvInv'
<1> SUFFICES ASSUME ConvInv PROVE (O!Localized \/ O!Local \/ O!LocalFails) => ConvInv'
  OBVIOUS
<1>1. CASE O!Localized
  <2>1. /\ v1 = "fetch" /\ v1' = "local" /\ v3.pos = Len(v2.lines)
        /\ UNCHANGED <<v2, v3, v4, v5, v6, v7, v8, v9>>
    BY <1>1 DEF O!Localized
  <2>2. ConvTyped' /\ O!ConvertedWhole'
    BY <2>1 DEF ConvInv, ConvTyped, O!ConvertedWhole
  <2>3. \A i \in 1 .. v3.pos : O!Fetched(i) => O!Fetched(i)'
    BY <2>1 DEF O!Fetched
  <2>4. O!InTheMaking'
    BY <2>1, <2>3 DEF ConvInv, O!InTheMaking
  <2> QED BY <2>2, <2>4 DEF ConvInv
<1>2. CASE O!Local
  <2>1. /\ v1 = "local" /\ v1' = "upload" /\ v4' = O!Video(O!Plays(O!Files))
        /\ UNCHANGED <<v2, v3, v5, v6, v7, v8, v9>>
    BY <1>2 DEF O!Local
  <2>2. v4' = O!Video(O!Plays(v2.lines))
    BY <2>1, ConvFiles
  <2>3. ConvTyped' /\ O!ConvertedWhole'
    BY <2>1 DEF ConvInv, ConvTyped, O!ConvertedWhole
  <2>4. \E m \in O!DirectOpens(v8) : v4' = O!Video(O!Plays(m.lines))
    BY <2>1, <2>2 DEF ConvInv, O!InTheMaking
  <2>5. O!InTheMaking'
    BY <2>1, <2>4 DEF ConvInv, O!InTheMaking
  <2> QED BY <2>3, <2>5 DEF ConvInv
<1>3. CASE O!LocalFails
  <2>1. /\ v1 = "local" /\ v1' = "idle" /\ v4' = O!Nothing /\ v5' = v5 - v3.made
        /\ v7' = FALSE /\ UNCHANGED <<v2, v3, v6, v8, v9>>
    BY <1>3 DEF O!LocalFails, O!End
  <2>2. v6 = O!Nothing /\ v5 = v9 + v3.made /\ v9 \in Nat /\ v3.made \in Nat
    BY <2>1 DEF ConvInv, ConvTyped, O!InTheMaking
  <2>3. v5' = v9
    BY <2>1, <2>2
  <2> QED BY <2>1, <2>2, <2>3 DEF ConvInv, ConvTyped, O!InTheMaking, O!ConvertedWhole
<1> QED BY <1>1, <1>2, <1>3

LEMMA ConvUpload == ConvInv /\ (O!Upload \/ O!UploadFails) => ConvInv'
<1> SUFFICES ASSUME ConvInv, O!Upload \/ O!UploadFails PROVE ConvInv'
  OBVIOUS
<1>1. /\ v1 = "upload" /\ v1' = "idle" /\ v4' = O!Nothing /\ v5' = v5 - v3.made
      /\ UNCHANGED <<v2, v3, v8, v9>>
      /\ \/ v6' = v4
         \/ v6' = v6 /\ v7' = FALSE
  BY DEF O!Upload, O!UploadFails, O!End
<1>2. /\ v6 = O!Nothing /\ v5 = v9 + v3.made /\ v9 \in Nat /\ v3.made \in Nat
      /\ \E m \in O!DirectOpens(v8) : v4 = O!Video(O!Plays(m.lines))
  BY <1>1 DEF ConvInv, ConvTyped, O!InTheMaking
<1>3. v5' = v9 /\ v4 # O!Nothing
  BY <1>1, <1>2 DEF O!Video, O!Nothing
<1>4. ConvTyped' /\ O!InTheMaking'
  BY <1>1, <1>2, <1>3 DEF ConvTyped, O!InTheMaking
<1>5. O!ConvertedWhole'
  <2>1. CASE v6' = v4
    BY <1>1, <1>2, <1>3, <2>1 DEF O!ConvertedWhole
  <2>2. CASE v6' = v6 /\ v7' = FALSE
    BY <1>1, <1>2, <1>3, <2>2 DEF O!ConvertedWhole
  <2> QED BY <1>1, <2>1, <2>2
<1> QED BY <1>4, <1>5 DEF ConvInv

LEMMA ConvDirect == ConvInv /\ O!Direct => ConvInv'
<1> SUFFICES ASSUME ConvInv, O!Direct PROVE ConvInv'
  OBVIOUS
<1>1. /\ v1 = "direct" /\ UNCHANGED <<v2, v3, v5, v6, v7, v8, v9>>
      /\ \/ /\ \E m \in O!DirectOpens(v2) : v4' = O!Video(O!Plays(m.lines))
            /\ v1' = "upload"
         \/ v1' = "resolve"
  BY DEF O!Direct
<1>2. v2 = v8
  BY <1>1 DEF ConvInv, O!InTheMaking
<1>3. ConvTyped' /\ O!ConvertedWhole'
  BY <1>1 DEF ConvInv, ConvTyped, O!ConvertedWhole
<1>4. CASE v1' = "upload"
  <2>1. \E m \in O!DirectOpens(v8) : v4' = O!Video(O!Plays(m.lines))
    BY <1>1, <1>2, <1>4
  <2>2. O!InTheMaking'
    BY <1>1, <1>4, <2>1 DEF ConvInv, O!InTheMaking
  <2> QED BY <1>3, <2>2 DEF ConvInv
<1>5. CASE v1' = "resolve"
  <2>1. O!InTheMaking'
    BY <1>1, <1>5 DEF ConvInv, O!InTheMaking
  <2> QED BY <1>3, <2>1 DEF ConvInv
<1> QED BY <1>1, <1>4, <1>5

LEMMA ConvFails == ConvInv /\ O!LocalizeFails => ConvInv'
<1> SUFFICES ASSUME ConvInv, O!LocalizeFails PROVE ConvInv'
  OBVIOUS
<1>1. /\ v1 \in {"resolve", "fetch"} /\ v1' = "idle" /\ v4' = O!Nothing /\ v9' = v9 + 1
      /\ v5' = IF v1 = "resolve" THEN v5 + 1 ELSE v5
      /\ v7' = FALSE /\ UNCHANGED <<v2, v3, v6, v8>>
  BY DEF O!LocalizeFails
<1>2. v6 = O!Nothing /\ v5 = v9 + v3.made /\ v9 \in Nat
  BY <1>1 DEF ConvInv, ConvTyped, O!InTheMaking
<1>3. v3.made = IF v1 = "resolve" THEN 0 ELSE 1
  BY <1>1 DEF ConvInv, O!InTheMaking, O!NoWork
<1>4. v5' = v9' /\ v9' \in Nat /\ v3.made \in Nat
  BY <1>1, <1>2, <1>3
<1> QED BY <1>1, <1>2, <1>4 DEF ConvInv, ConvTyped, O!InTheMaking, O!ConvertedWhole

LEMMA ConvEvents ==
  ASSUME ConvInv, \/ \E m \in O!Media \cup O!Masters, force \in BOOLEAN : O!Invoke(m, force)
                  \/ O!Refuse \/ O!Return \/ O!Recycle
  PROVE  ConvInv'
<1>1. ASSUME NEW m \in O!Media \cup O!Masters, NEW force \in BOOLEAN, O!Invoke(m, force)
      PROVE  ConvInv'
  <2>1. /\ v1 = "idle" /\ v1' \in {"direct", "resolve"} /\ v2' = m /\ v8' = m
        /\ v7' = None /\ v6' = O!Nothing /\ v3' = O!NoWork /\ UNCHANGED <<v4, v5, v9>>
    BY <1>1 DEF O!Invoke
  <2>2. v5 = v9 /\ v5 \in Nat /\ v9 \in Nat /\ v3'.made = 0
    BY <2>1 DEF ConvInv, ConvTyped, O!ConvertedWhole, O!NoWork
  <2>3. ConvTyped' /\ O!InTheMaking'
    BY <2>1, <2>2 DEF ConvTyped, O!InTheMaking
  <2>4. O!ConvertedWhole'
    BY <2>1, NoAnswer DEF O!ConvertedWhole
  <2> QED BY <2>3, <2>4 DEF ConvInv
<1>2. CASE O!Refuse \/ O!Return
  <2>1. /\ v1 = "idle" /\ v6' = O!Nothing /\ v7' \in {FALSE, None} /\ UNCHANGED <<v1, v4, v5, v9>>
        /\ v3' \in {v3, O!NoWork}
    BY <1>2 DEF O!Refuse, O!Return
  <2>2. v3'.made \in Nat
    BY <2>1 DEF ConvInv, ConvTyped, O!NoWork
  <2>3. v4 = O!Nothing /\ v5 = v9 /\ v5 \in Nat
    BY <2>1 DEF ConvInv, ConvTyped, O!ConvertedWhole
  <2> QED BY <2>1, <2>2, <2>3, NoAnswer DEF ConvInv, ConvTyped, O!InTheMaking, O!ConvertedWhole
<1>3. CASE O!Recycle
  <2>1. /\ v1' = "idle" /\ v4' = O!Nothing /\ v5' = 0 /\ v9' = 0 /\ v3'.made = 0
        /\ v6' = O!Nothing /\ v7' = None
    BY <1>3 DEF O!Recycle, O!NoWork
  <2>2. ConvTyped' /\ O!InTheMaking'
    BY <2>1 DEF ConvTyped, O!InTheMaking
  <2>3. O!ConvertedWhole'
    BY <2>1, NoAnswer DEF O!ConvertedWhole
  <2> QED BY <2>2, <2>3 DEF ConvInv
<1> QED BY <1>1, <1>2, <1>3

LEMMA ConvStep == ConvInv /\ O!Next => ConvInv'
BY ConvEvents, ConvDirect, ConvResolve, ConvFetch, ConvLocalStep, ConvFails, ConvUpload
   DEF O!Next

LEMMA ConvStays == ConvInv /\ UNCHANGED vars => ConvInv'
BY DEF vars, ConvInv, ConvTyped, O!InTheMaking, O!ConvertedWhole, O!Fetched

\* What the converter puts into the bucket is a whole video of the playlist it was
\* asked for, and /tmp keeps only the directories of localizations that failed;
\* and a recording the upload Lambda has completed plays the asset it names, which
\* has the watermark of its row, unless invocations for it overlapped or were cut.
THEOREM LambdasAgree == Spec => []LambdasTold
<1> DEFINE Inv == (which = "converter" => ConvInv) /\ (which = "upload" => UploadInv)
<1>1. Init => Inv
  BY ConvBegin, UploadBegin DEF Init
<1>2. Inv /\ [Next]_vars => Inv'
  <2> SUFFICES ASSUME Inv, [Next]_vars PROVE Inv'
    OBVIOUS
  <2>1. ASSUME which' = "converter" PROVE ConvInv'
    <3>1. CASE UNCHANGED vars
      BY <2>1, <3>1, ConvStays DEF vars
    <3>2. CASE Next
      <4>1. which = "converter" /\ O!Next
        BY <2>1, <3>2 DEF Next
      <4> QED BY <4>1, ConvStep
    <3> QED BY <3>1, <3>2
  <2>2. ASSUME which' = "upload" PROVE UploadInv'
    <3>1. CASE UNCHANGED vars
      BY <2>2, <3>1 DEF vars, UploadInv, UploadTyped, I!OneWatermark, I!Making
    <3>2. CASE Next
      <4>1. which = "upload" /\ I!Next
        BY <2>2, <3>2 DEF Next
      <4> QED BY <4>1, UploadStep
    <3> QED BY <3>1, <3>2
  <2> QED BY <2>1, <2>2
<1>3. Inv => LambdasTold
  BY UploadTold DEF LambdasTold, ConvInv
<1> QED BY <1>1, <1>2, <1>3, PTL DEF Spec
=============================================================================
