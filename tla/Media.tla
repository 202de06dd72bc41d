-------------------------------- MODULE Media --------------------------------
(***************************************************************************)
(* Files of a user: the profile picture (uploadProfilePic and the deletion *)
(* of the account) and the media of the media-upload module (uploadMedia-  *)
(* ToS3, deleteUserMedia).  The bucket and the database change one after   *)
(* the other, and either may fail.                                         *)
(***************************************************************************)
EXTENDS Naturals, FiniteSets

CONSTANTS
  Files,    \* bound: names of objects; each is given once
  Calls, None

VARIABLES
  bucket,     \* the objects that S3 holds
  pictures,   \* names that have been given to pictures
  files,      \* and to other media
  picture,    \* the user's profile_image_path, or None
  account,    \* the user's row exists
  media,      \* media_uploads: the objects of the rows
  call,
  dropped,    \* objects of the rows that a committed delete removed
  (* history: two calls with the picture overlapped, or one failed halfway  *)
  disturbed

vars == <<bucket, pictures, files, picture, account, media, call, dropped, disturbed>>

Call == [pc : {"idle", "replace", "upload", "point", "erase", "insert",
               "delete", "purge", "commit"},
         file : Files \cup {None},       \* the object it has put or read
         rows : SUBSET Files,            \* media rows still to be deleted
         gone : SUBSET Files]            \* deleted, and not yet committed
Idle == [pc |-> "idle", file |-> None, rows |-> {}, gone |-> {}]
Picturing == {"replace", "upload", "point", "erase"}

TypeOK ==
  /\ pictures \subseteq Files /\ files \subseteq Files \ pictures
  /\ bucket \subseteq pictures \cup files
  /\ picture \in Files \cup {None} /\ account \in BOOLEAN
  /\ media \subseteq files /\ dropped \subseteq files
  /\ call \in [Calls -> Call]
  /\ disturbed \in BOOLEAN

Init ==
  /\ bucket = {} /\ pictures = {} /\ files = {} /\ picture = None /\ account = TRUE
  /\ media = {} /\ dropped = {}
  /\ call = [c \in Calls |-> Idle]
  /\ disturbed = FALSE

-----------------------------------------------------------------------------
Go(c, new) == call' = [call EXCEPT ![c] = new]
New == Files \ (pictures \cup files)

\* uploadProfilePic: the old picture is read ...
ReadPicture(c, pc) ==
  /\ call[c].pc = "idle"
  /\ account
  /\ Go(c, [Idle EXCEPT !.pc = pc, !.file = picture])
  /\ disturbed' = (disturbed \/ \E d \in Calls \ {c} : call[d].pc \in Picturing)
  /\ UNCHANGED <<bucket, pictures, files, picture, account, media, dropped>>

\* ... deleted, which may fail without a word, ...  (A mutant: kept.)
Kept(c) == bucket
WithoutOld(c) == bucket \ {call[c].file}

DeleteOld(c) ==
  /\ call[c].pc = "replace"
  /\ \/ bucket' = WithoutOld(c) /\ UNCHANGED disturbed
     \/ disturbed' = TRUE /\ UNCHANGED bucket
  /\ Go(c, [Idle EXCEPT !.pc = "upload"])
  /\ UNCHANGED <<pictures, files, picture, account, media, dropped>>

\* ... the new one is put into the bucket, ...
UploadNew(c) ==
  /\ call[c].pc = "upload"
  /\ \E f \in New : /\ bucket' = bucket \cup {f}
                    /\ pictures' = pictures \cup {f}
                    /\ Go(c, [Idle EXCEPT !.pc = "point", !.file = f])
  /\ UNCHANGED <<files, picture, account, media, dropped, disturbed>>

\* ... and the row points to it, if it is still there.
Point(c) ==
  /\ call[c].pc = "point"
  /\ picture' = IF account THEN call[c].file ELSE picture
  /\ Go(c, Idle)
  /\ UNCHANGED <<bucket, pictures, files, account, media, dropped, disturbed>>

\* permanentlyDeleteUser: the picture first, then all the rows in one
\* transaction, the media's among them but not their objects.
Erase(c) ==
  /\ call[c].pc = "erase"
  /\ bucket' = bucket \ {call[c].file}
  /\ account' = FALSE /\ picture' = None
  /\ media' = {}
  /\ Go(c, Idle)
  /\ UNCHANGED <<pictures, files, dropped, disturbed>>

\* S3 refuses, or the transaction is rolled back when the picture is gone.
EraseFails(c) ==
  /\ call[c].pc = "erase"
  /\ \/ bucket' = bucket \ {call[c].file} /\ disturbed' = TRUE
     \/ UNCHANGED <<bucket, disturbed>>
  /\ Go(c, Idle)
  /\ UNCHANGED <<pictures, files, picture, account, media, dropped>>

PictureFails(c) ==
  /\ call[c].pc \in Picturing \ {"erase"}
  /\ disturbed' = TRUE
  /\ Go(c, Idle)
  /\ UNCHANGED <<bucket, pictures, files, picture, account, media, dropped>>

-----------------------------------------------------------------------------
(* Media.                                                                  *)

UploadMedia(c) ==
  /\ call[c].pc = "idle" /\ account
  /\ \E f \in New : /\ bucket' = bucket \cup {f}
                    /\ files' = files \cup {f}
                    /\ Go(c, [Idle EXCEPT !.pc = "insert", !.file = f])
  /\ UNCHANGED <<pictures, picture, account, media, dropped, disturbed>>

InsertMedia(c) ==
  /\ call[c].pc = "insert" /\ account
  /\ media' = media \cup {call[c].file}
  /\ Go(c, Idle)
  /\ UNCHANGED <<bucket, pictures, files, picture, account, dropped, disturbed>>

\* deleteUserMedia: one row after the other, in a transaction.
DeleteMedia(c, rows) ==
  /\ call[c].pc = "idle"
  /\ rows # {} /\ rows \subseteq media
  /\ Go(c, [Idle EXCEPT !.pc = "delete", !.rows = rows])
  /\ UNCHANGED <<bucket, pictures, files, picture, account, media, dropped, disturbed>>

\* Its object.  The two arguments are swapped: S3 is asked to delete the name
\* of the bucket from a bucket with the name of the file, and whatever it
\* answers is logged.  (A mutant: the object is deleted.)
Deleted(f) == bucket \ {f}
Purged(f) == bucket

Purge(c) ==
  /\ call[c].pc = "delete"
  /\ \E f \in call[c].rows :
       /\ bucket' = IF f \in media THEN Purged(f) ELSE bucket
       /\ Go(c, [call[c] EXCEPT !.rows = @ \ {f}, !.gone = @ \cup {f},
                   !.pc = IF call[c].rows = {f} THEN "commit" ELSE "delete"])
  /\ UNCHANGED <<pictures, files, picture, account, media, dropped, disturbed>>

CommitMedia(c) ==
  /\ call[c].pc = "commit"
  /\ media' = media \ call[c].gone
  /\ dropped' = dropped \cup call[c].gone
  /\ Go(c, Idle)
  /\ UNCHANGED <<bucket, pictures, files, picture, account, disturbed>>

\* The row is not inserted, or the delete is rolled back: the objects stay as
\* they are.
MediaFails(c) ==
  /\ call[c].pc \in {"insert", "delete", "commit"}
  /\ Go(c, Idle)
  /\ UNCHANGED <<bucket, pictures, files, picture, account, media, dropped, disturbed>>

CallStep(c) ==
  \/ DeleteOld(c) \/ UploadNew(c) \/ Point(c) \/ Erase(c) \/ EraseFails(c)
  \/ PictureFails(c) \/ UploadMedia(c) \/ InsertMedia(c) \/ Purge(c)
  \/ CommitMedia(c) \/ MediaFails(c)
  \/ ReadPicture(c, "replace") \/ ReadPicture(c, "erase")
  \/ \E rows \in SUBSET Files : DeleteMedia(c, rows)

Next == \E c \in Calls : CallStep(c)

-----------------------------------------------------------------------------
(* Properties.                                                             *)

\* The picture an account points to is in the bucket, and no other picture of
\* the user is, unless two of its calls overlapped or one failed halfway; and a
\* row of the media has its object, whatever failed.  (So it is while the
\* delete does not reach the bucket: the objects of a delete that is rolled
\* back are needed still.)
ObjectsServed ==
  /\ (~disturbed /\ \A c \in Calls : call[c].pc \notin Picturing) =>
       /\ picture # None => picture \in bucket
       /\ bucket \cap pictures \subseteq {picture}
  /\ media \subseteq bucket

\* deleteUserMedia "Delete from S3 first": the object of a row that has been
\* deleted is gone.
DeletedMediaGone == dropped \cap bucket = {}

\* What ObjectsServed rests on: only pictures leave the bucket; and while one
\* call has the picture in hand, the bucket has what its step says.
OnlyPicturesGo ==
  /\ files \subseteq bucket
  /\ \A c \in Calls :
       /\ call[c].pc \in {"replace", "erase"} => call[c].file \in pictures \cup {None}
       /\ call[c].pc = "point" => call[c].file \in pictures
       /\ call[c].pc = "insert" => call[c].file \in files

Served == /\ picture # None => picture \in bucket
          /\ bucket \cap pictures \subseteq {picture}

PictureInHand ==
  ~disturbed =>
    /\ \A c, d \in Calls : call[c].pc \in Picturing /\ call[d].pc \in Picturing => c = d
    /\ \A c \in Calls :
         /\ call[c].pc \in Picturing => account
         /\ call[c].pc \in {"replace", "erase"} => call[c].file = picture /\ Served
         /\ call[c].pc = "upload" => bucket \cap pictures = {}
         /\ call[c].pc = "point" => bucket \cap pictures = {call[c].file}
    /\ (\A c \in Calls : call[c].pc \notin Picturing) => Served
=============================================================================
