---------------------------- MODULE VenuePictures ----------------------------
(***************************************************************************)
(* The pictures of a turf: a row for each, and an object in the bucket.    *)
(* Removing the turf deletes the objects first, without waiting, and then  *)
(* all the rows in one transaction, which a court that refers to the turf  *)
(* makes fail.                                                             *)
(***************************************************************************)
EXTENDS Naturals

CONSTANTS Pictures, Calls

VARIABLES
  turf,      \* whether the turf is there,
  court,     \* and whether a court refers to it
  rows,      \* the pictures that have a row
  bucket,    \* those that have an object
  call,
  pulled     \* history: the objects a removal deleted that did not go through

vars == <<turf, court, rows, bucket, call, pulled>>

Call == [pc : {"idle", "removing"}, images : SUBSET Pictures, sent : SUBSET Pictures]
Idle == [pc |-> "idle", images |-> {}, sent |-> {}]

TypeOK ==
  /\ turf \in BOOLEAN /\ court \in BOOLEAN
  /\ rows \subseteq Pictures /\ bucket \subseteq Pictures
  /\ call \in [Calls -> Call]
  /\ pulled \subseteq Pictures

Init ==
  /\ turf = TRUE /\ court = FALSE
  /\ rows = {} /\ bucket = {}
  /\ call = [c \in Calls |-> Idle]
  /\ pulled = {}

Go(c, new) == call' = [call EXCEPT ![c] = new]

\* The browser puts a picture into the bucket, ...
Upload(p) ==
  /\ p \notin bucket \cup rows \cup pulled
  /\ bucket' = bucket \cup {p}
  /\ UNCHANGED <<turf, court, rows, call, pulled>>

\* ... and has rows inserted, all of them or none.
Insert(images) ==
  /\ turf /\ images # {} /\ images \subseteq bucket \ rows
  /\ rows' = rows \cup images
  /\ UNCHANGED <<turf, court, bucket, call, pulled>>

\* A court is set up at the turf, or removed.
AddCourt ==
  /\ turf /\ court' = ~court
  /\ UNCHANGED <<turf, rows, bucket, call, pulled>>

\* removeTurfById: the turf is found, and its images; their objects' deletions
\* are sent, ...
Remove(c) ==
  /\ call[c].pc = "idle" /\ turf
  /\ Go(c, [pc |-> "removing", images |-> rows, sent |-> rows])
  /\ UNCHANGED <<turf, court, rows, bucket, pulled>>

\* ... take effect whenever they do, or fail, ...
Sent(c, p) ==
  /\ p \in call[c].sent
  /\ Go(c, [call[c] EXCEPT !.sent = @ \ {p}])
  /\ \/ bucket' = bucket \ {p}
     \/ UNCHANGED bucket
  /\ UNCHANGED <<turf, court, rows, pulled>>

\* ... and the rows go with the turf.  (The mutant deletes the turf's row alone,
\* as if the pictures' referred to nothing.)
TurfOnly == rows
WithTurf == {}

Removed(c) ==
  /\ call[c].pc = "removing" /\ ~court
  /\ turf' = FALSE /\ rows' = WithTurf
  /\ Go(c, [call[c] EXCEPT !.pc = "idle", !.images = {}])
  /\ UNCHANGED <<court, bucket, pulled>>

\* The transaction fails: on the court, or for another reason.
RolledBack(c) ==
  /\ call[c].pc = "removing"
  /\ pulled' = pulled \cup call[c].images
  /\ Go(c, [call[c] EXCEPT !.pc = "idle", !.images = {}])
  /\ UNCHANGED <<turf, court, rows, bucket>>

Next ==
  \/ \E p \in Pictures : Upload(p)
  \/ \E images \in SUBSET Pictures : Insert(images)
  \/ AddCourt
  \/ \E c \in Calls :
       \/ Remove(c) \/ Removed(c) \/ RolledBack(c)
       \/ \E p \in Pictures : Sent(c, p)

\* A picture's row has its object, but while its turf is being removed, and
\* unless a removal had it deleted and was then rolled back.
PicturesStored ==
  \A p \in rows \ (bucket \cup pulled) :
    \E c \in Calls : call[c].pc = "removing" /\ p \in call[c].images

\* What PicturesStored rests on: an object whose deletion is under way has no row
\* that lasts.
SentWithItsRow ==
  /\ ~turf => rows = {}
  /\ \A c \in Calls : \A p \in call[c].sent :
       \/ ~turf \/ p \in pulled
       \/ call[c].pc = "removing" /\ p \in call[c].images
=============================================================================
