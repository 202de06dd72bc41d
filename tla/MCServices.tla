----------------------------- MODULE MCServices -----------------------------
(***************************************************************************)
(* The services around the clip pipeline, checked side by side.  They      *)
(* share no state at the level they are modelled, so that a behaviour is   *)
(* one of theirs: the variables are those of the service it is about, in   *)
(* the order of its declarations, and the ones it has no use for rest.     *)
(***************************************************************************)
EXTENDS Naturals, Sequences, FiniteSets, TLC

CONSTANTS
  None, CallsOf, UsersOf, Boss, Links, Mux, SlotsOf, Cups,
  Numbers, Otps, Google, Names, Cuts, Uploads, Nights,
  Tries, Channels, MaxClaims, MaxLikes, MaxCounts, MaxPlaces, MaxSeats,
  Guests, MaxColumns, Rates, MaxPays, MaxUses, MaxHours,
  MaxTime, Cams, MaxClips, MaxHealed, Videos, Marks, MaxAssets,
  MaxLines, MaxFails, MaxNotes, PerPage, MaxTold

\* What the theorems about the services need of them.
ASSUME ServicesAssumption ==
  /\ IsFiniteSet(UsersOf) /\ IsFiniteSet(CallsOf)
  /\ Tries \in Nat /\ Channels \in Nat /\ MaxClaims \in Nat
  /\ MaxCounts \in Nat /\ MaxPlaces \in Nat
  /\ None \notin CallsOf \cup UsersOf \cup Numbers \cup Links \cup Mux \cup Names
  /\ None \notin Videos /\ None \notin Marks
  /\ IsFiniteSet(Nights) /\ Cuts # {}
  /\ Rates \subseteq Nat /\ MaxHours \in Nat
  /\ MaxTime \in Nat /\ Cams \in Nat \ {0} /\ MaxClips \in Nat /\ MaxHealed \in Nat
  /\ MaxAssets \in Nat /\ MaxLines \in Nat /\ MaxFails \in Nat
  /\ MaxNotes \in Nat /\ PerPage \in Nat /\ MaxTold \in Nat

VARIABLES
  which,   \* the service the behaviour is about
  v1, v2, v3, v4, v5, v6, v7, v8, v9, v10

vars == <<which, v1, v2, v3, v4, v5, v6, v7, v8, v9, v10>>

L == INSTANCE LiveCourt WITH
       Sessions <- UsersOf, Calls <- CallsOf, Tries <- Tries, row <- v1,
       age <- v2, planned <- v3, pi <- v4, stopping <- v5, call <- v6,
       together <- v7, doubled <- v8, faulty <- v9, done <- v10
C == INSTANCE Claims WITH
       Users <- UsersOf, Calls <- CallsOf, Channels <- Channels,
       MaxRows <- MaxClaims, rows <- v1, shares <- v2, call <- v3,
       answer <- v4, excused <- v5
S == INSTANCE Sharing WITH
       Owner <- Boss, Others <- Guests, Calls <- CallsOf, Tokens <- Links,
       MaxVideo <- MaxColumns, row <- v1, shares <- v2, paid <- v3, call <- v4,
       given <- v5, meddled <- v6, doubled <- v7, written <- v8
V == INSTANCE CourtStreams WITH
       Streams <- Mux, Slots <- SlotsOf, Tournaments <- Cups,
       Calls <- CallsOf, lists <- v1, open <- v2, mux <- v3, fed <- v4,
       call <- v5, disturbed <- v6
H == INSTANCE HighlightAttach WITH
       Windows <- (0 .. MaxTime) \X (0 .. MaxTime), MinWindow <- 1,
       Calls <- CallsOf, MaxRows <- MaxClips, numbered <- v1,
       bucket <- v2, elsewhere <- v3, rows <- v4, video <- v5, call <- v6,
       meddled <- v7
E == INSTANCE Engagement WITH
       Users <- UsersOf, Calls <- CallsOf, MaxLikes <- MaxLikes, alive <- v1,
       likedBy <- v2, savedBy <- v3, likes <- v4, call <- v5, raced <- v6
F == INSTANCE FlickShorts WITH
       Shorts <- Cuts, Users <- UsersOf, Calls <- CallsOf, Max <- MaxCounts,
       row <- v1, access <- v2, call <- v3, used <- v4, crowded <- v5,
       meddled <- v6
T == INSTANCE Tournaments WITH
       Users <- UsersOf, Calls <- CallsOf, Max <- MaxPlaces, MaxSeats <- MaxSeats,
       fee <- v1, exists <- v2, count <- v3, enrolled <- v4, paid <- v5, call <- v6,
       disturbed <- v7
A == INSTANCE Accounts WITH
       Phones <- Numbers, Codes <- Otps, Calls <- CallsOf, Ids <- UsersOf,
       store <- v1, inbox <- v2, user <- v3, welcomes <- v4, call <- v5,
       spent <- v6, greeted <- v7, raced <- v8, clash <- v9
M == INSTANCE Media WITH
       Files <- Names, Calls <- CallsOf, bucket <- v1, pictures <- v2,
       files <- v3, picture <- v4, account <- v5, media <- v6, call <- v7,
       dropped <- v8, disturbed <- v9
X == INSTANCE ClipExport WITH
       Clips <- Cuts, Old <- CHOOSE m \in Cuts : TRUE, Calls <- CallsOf,
       Strategies <- {"mux_static", "mux_then_lambda"}, row <- v1,
       strategy <- v2, paid <- v3, clip <- v4, mp4 <- v5, bucket <- v6,
       call <- v7, overwritten <- v8
Y == INSTANCE MuxCycle WITH
       Recs <- Nights, Chunk <- 1, MaxScans <- 4, MaxIdle <- 2, rec <- v1,
       running <- v2, progress <- v3, pc <- v4, scans <- v5, idle <- v6,
       results <- v7, todo <- v8, got <- v9, seen <- v10
K == INSTANCE LambdaClips WITH
       Presses <- 1 .. 2, Clips <- UsersOf, Calls <- CallsOf, MaxLimits <- 1,
       MaxRetries <- 2, MaxFaults <- 1, row <- v1, usable <- v2, queue <- v3,
       lock <- v4, mux <- v5, call <- v6, faults <- v7, lost <- v8,
       broken <- v9, crossed <- v10
U == INSTANCE Unlocks WITH
       Users <- {"me", "other"}, Readers <- {"me"}, Recs <- Nights,
       Owner <- [r \in Nights |-> IF r = 1 THEN "me" ELSE "other"],
       Items <- {"full", "shorts"}, Shorts <- "shorts", Rates <- Rates,
       MaxPays <- MaxPays, pays <- v1, shares <- v2, rate <- v3, call <- v4
P == INSTANCE PiClient WITH
       Calls <- CallsOf, servers <- v1, live <- v2, told <- v3, call <- v4,
       crossed <- v5, crowded <- v6
W == INSTANCE Venues WITH
       Turfs <- Nights, Cameras <- UsersOf, VenueNames <- Nights,
       Calls <- CallsOf, turf <- v1, camera <- v2, call <- v3, joined <- v4
J == INSTANCE VenuePictures WITH
       Pictures <- Names, Calls <- CallsOf, turf <- v1, court <- v2,
       rows <- v3, bucket <- v4, call <- v5, pulled <- v6
G == INSTANCE MatchRows WITH
       Recs <- UsersOf, Clips <- UsersOf, Match <- [r \in UsersOf |-> 1],
       ClipOf <- [h \in UsersOf |-> h], rec <- v1, mux <- v2, clip <- v3,
       list <- v4, told <- v5
B == INSTANCE Leaderboard WITH
       Users <- Names, Limit <- 2, MaxPoints <- 2, Levels <- Nights,
       Marks <- {0, 2}, points <- v1, level <- v2, call <- v3, told <- v4
O == INSTANCE Converter WITH
       MaxFailed <- MaxFails, phase <- v1, list <- v2, work <- v3,
       output <- v4, left <- v5, object <- v6, answer <- v7, asked <- v8,
       failed <- v9
I == INSTANCE UploadLambda WITH
       Recs <- Videos, Calls <- CallsOf, row <- v1, assets <- v2, call <- v3,
       answer <- v4, disturbed <- v5
N == INSTANCE CouponBook WITH
       Users <- Guests, Calls <- CallsOf, Maxima <- 1 .. MaxUses, End <- MaxHours,
       coupon <- v1, left <- v2, rule <- v3, call <- v4, now <- v5,
       said <- v6, meddled <- v7
Q == INSTANCE ClipOrder WITH
       Presses <- CallsOf, MaxTime <- 1, MinGap <- 1, MaxRows <- 2,
       rows <- v1, press <- v2, event <- v3, worker <- v4, sweep <- v5,
       meddled <- v6, unsorted <- v7
Z == INSTANCE Notifications WITH
       Phones <- Links, Calls <- CallsOf, Events <- UsersOf, Matches <- {1},
       MaxRows <- MaxTold, device <- v1, known <- v2, total <- v3, rows <- v4,
       call <- v5, happened <- v6, silent <- v7, odd <- v8
R == INSTANCE NotificationList WITH
       MaxRows <- MaxNotes, Limit <- PerPage, Types <- {"award", "match"}, clock <- v1,
       coming <- v2, rows <- v3, screen <- v4
D == INSTANCE Dashboard WITH
       Recs <- 1 .. 3, Of <- [r \in 1 .. 3 |-> (r + 1) \div 2],
       Minutes <- {13, 14}, Days <- {6, 7}, rec <- v1, unlocked <- v2,
       today <- v3
Gap == INSTANCE GapHeal WITH
         Recs <- 1 .. MaxHealed, Servers <- CallsOf, rec <- v1, bucket <- v2, clip <- v3,
         heal <- v4, revived <- v5, lost <- v6

\* None is no file, no coupon, no answer and no account.
ASSUME NoFile == None \notin H!Files
ASSUME NoCoupon == None \notin N!Coupon
ASSUME NoAnswer == None # TRUE
ASSUME NoAccount == None \notin A!Account

Init ==
  \/ which = "live" /\ L!Init
  \/ /\ which = "claims" /\ C!Init
     /\ v6 = None /\ v7 = None /\ v8 = None /\ v9 = None /\ v10 = None
  \/ which = "sharing" /\ S!Init /\ v9 = None /\ v10 = None
  \/ /\ which = "streams" /\ V!Init
     /\ v7 = None /\ v8 = None /\ v9 = None /\ v10 = None
  \/ which = "attach" /\ H!Init /\ v8 = None /\ v9 = None /\ v10 = None
  \/ /\ which = "likes" /\ E!Init
     /\ v7 = None /\ v8 = None /\ v9 = None /\ v10 = None
  \/ /\ which = "shorts" /\ F!Init
     /\ v7 = None /\ v8 = None /\ v9 = None /\ v10 = None
  \/ which = "cups" /\ T!Init /\ v8 = None /\ v9 = None /\ v10 = None
  \/ which = "accounts" /\ A!Init /\ v10 = None
  \/ which = "media" /\ M!Init /\ v10 = None
  \/ which = "export" /\ X!Init /\ v9 = None /\ v10 = None
  \/ which = "cycle" /\ Y!Init
  \/ which = "lambda" /\ K!Init
  \/ /\ which = "unlocks" /\ U!Init
     /\ v5 = None /\ v6 = None /\ v7 = None /\ v8 = None /\ v9 = None /\ v10 = None
  \/ /\ which = "pis" /\ P!Init
     /\ v7 = None /\ v8 = None /\ v9 = None /\ v10 = None
  \/ /\ which = "venues" /\ W!Init
     /\ v5 = None /\ v6 = None /\ v7 = None /\ v8 = None /\ v9 = None /\ v10 = None
  \/ /\ which = "pictures" /\ J!Init
     /\ v7 = None /\ v8 = None /\ v9 = None /\ v10 = None
  \/ /\ which = "ledger" /\ G!Init
     /\ v6 = None /\ v7 = None /\ v8 = None /\ v9 = None /\ v10 = None
  \/ /\ which = "board" /\ B!Init
     /\ v5 = None /\ v6 = None /\ v7 = None /\ v8 = None /\ v9 = None /\ v10 = None
  \/ which = "converter" /\ O!Init /\ v10 = None
  \/ /\ which = "upload" /\ I!Init
     /\ v6 = None /\ v7 = None /\ v8 = None /\ v9 = None /\ v10 = None
  \/ which = "coupons" /\ N!Init /\ v8 = None /\ v9 = None /\ v10 = None
  \/ which = "order" /\ Q!Init /\ v8 = None /\ v9 = None /\ v10 = None
  \/ which = "told" /\ Z!Init /\ v9 = None /\ v10 = None
  \/ /\ which = "list" /\ R!Init
     /\ v5 = None /\ v6 = None /\ v7 = None /\ v8 = None /\ v9 = None /\ v10 = None
  \/ /\ which = "home" /\ D!Init
     /\ v4 = None /\ v5 = None /\ v6 = None /\ v7 = None /\ v8 = None /\ v9 = None /\ v10 = None
  \/ /\ which = "gaps" /\ Gap!Init
     /\ v7 = None /\ v8 = None /\ v9 = None /\ v10 = None

Next ==
  \/ which = "live" /\ L!Next /\ UNCHANGED <<which>>
  \/ which = "claims" /\ C!Next /\ UNCHANGED <<which, v6, v7, v8, v9, v10>>
  \/ which = "sharing" /\ S!Next /\ UNCHANGED <<which, v9, v10>>
  \/ which = "streams" /\ V!Next /\ UNCHANGED <<which, v7, v8, v9, v10>>
  \/ which = "attach" /\ H!Next /\ UNCHANGED <<which, v8, v9, v10>>
  \/ which = "likes" /\ E!Next /\ UNCHANGED <<which, v7, v8, v9, v10>>
  \/ which = "shorts" /\ F!Next /\ UNCHANGED <<which, v7, v8, v9, v10>>
  \/ which = "cups" /\ T!Next /\ UNCHANGED <<which, v8, v9, v10>>
  \/ which = "accounts" /\ A!Next /\ UNCHANGED <<which, v10>>
  \/ which = "media" /\ M!Next /\ UNCHANGED <<which, v10>>
  \/ which = "export" /\ X!Next /\ UNCHANGED <<which, v9, v10>>
  \/ which = "cycle" /\ Y!Next /\ UNCHANGED <<which>>
  \/ which = "lambda" /\ K!Next /\ UNCHANGED <<which>>
  \/ which = "unlocks" /\ U!Next /\ UNCHANGED <<which, v5, v6, v7, v8, v9, v10>>
  \/ which = "pis" /\ P!Next /\ UNCHANGED <<which, v7, v8, v9, v10>>
  \/ which = "venues" /\ W!Next /\ UNCHANGED <<which, v5, v6, v7, v8, v9, v10>>
  \/ which = "pictures" /\ J!Next /\ UNCHANGED <<which, v7, v8, v9, v10>>
  \/ which = "ledger" /\ G!Next /\ UNCHANGED <<which, v6, v7, v8, v9, v10>>
  \/ which = "board" /\ B!Next /\ UNCHANGED <<which, v5, v6, v7, v8, v9, v10>>
  \/ which = "converter" /\ O!Next /\ UNCHANGED <<which, v10>>
  \/ which = "upload" /\ I!Next /\ UNCHANGED <<which, v6, v7, v8, v9, v10>>
  \/ which = "coupons" /\ N!Next /\ UNCHANGED <<which, v8, v9, v10>>
  \/ which = "order" /\ Q!Next /\ UNCHANGED <<which, v8, v9, v10>>
  \/ which = "told" /\ Z!Next /\ UNCHANGED <<which, v9, v10>>
  \/ which = "list" /\ R!Next /\ UNCHANGED <<which, v5, v6, v7, v8, v9, v10>>
  \/ which = "home" /\ D!Next /\ UNCHANGED <<which, v4, v5, v6, v7, v8, v9, v10>>
  \/ which = "gaps" /\ Gap!Next /\ UNCHANGED <<which, v7, v8, v9, v10>>

Spec == Init /\ [][Next]_vars

Symmetry == Permutations(CallsOf) \cup Permutations(UsersOf)

\* A behaviour is followed as far as its service's property speaks of it: what
\* excuses it from then on is never taken back.  And what has nothing to do with
\* one another is followed apart (the modules say what).
Telling ==
  /\ which = "lambda" => K!Telling
  /\ which = "attach" => H!Telling
  /\ which = "venues" => W!Telling
  /\ which = "order" => Q!Telling
  /\ which = "board" => B!Apart
  /\ which = "unlocks" => U!Apart
  /\ which = "ledger" => G!Apart

-----------------------------------------------------------------------------
\* Every service's state has its type.
TypeOK ==
  /\ which = "live" => L!TypeOK
  /\ which = "claims" => C!TypeOK
  /\ which = "sharing" => S!TypeOK
  /\ which = "streams" => V!TypeOK
  /\ which = "attach" => H!TypeOK
  /\ which = "likes" => E!TypeOK
  /\ which = "shorts" => F!TypeOK
  /\ which = "cups" => T!TypeOK
  /\ which = "accounts" => A!TypeOK
  /\ which = "media" => M!TypeOK
  /\ which = "export" => X!TypeOK
  /\ which = "cycle" => Y!TypeOK
  /\ which = "lambda" => K!TypeOK
  /\ which = "unlocks" => U!TypeOK
  /\ which = "pis" => P!TypeOK
  /\ which = "venues" => W!TypeOK
  /\ which = "pictures" => J!TypeOK
  /\ which = "ledger" => G!TypeOK
  /\ which = "board" => B!TypeOK
  /\ which = "converter" => O!TypeOK
  /\ which = "upload" => I!TypeOK
  /\ which = "coupons" => N!TypeOK
  /\ which = "order" => Q!TypeOK
  /\ which = "told" => Z!TypeOK
  /\ which = "list" => R!TypeOK
  /\ which = "home" => D!TypeOK
  /\ which = "gaps" => Gap!TypeOK

\* One recording at a time is in progress on a camera, unless two starts were
\* under way at once, each told before the other was done that there is none.
\* When everything is at rest and nothing has failed, every session that the
\* Pi still records is one that can be stopped: its row is in progress.
SessionsAgree ==
  /\ which = "live" => L!OneLive
  /\ which = "live" => L!NoStraySession

\* A recording that is completed stays so, unless two calls have read it as
\* in progress before either saved it (the second then stops it again).
CompletedStays == which = "live" => L!CompletedStays

\* Whatever other claims do meanwhile, each recording a claim has answered
\* with is one the user owns or that is shared with them.
\* A match is extracted once: two recordings of a channel that have not failed
\* come only from claims that overlap, from a failure taken back, or from a
\* claim made just when the video was waiting for Mux.
ClaimsAgree ==
  /\ which = "claims" => C!AnswerIsVisible
  /\ which = "claims" => C!ExtractedOnce

\* Unless the row was written between a handler's read and its save, every
\* link that was given out still opens the recording, and nothing extraction
\* or a new name has written is lost.
\* The recording is in a user's list once, and the user in the owner's list
\* once, unless two of the user's requests looked for the share at the same
\* time.
SharingAgrees ==
  /\ which = "sharing" => S!RowKept
  /\ which = "sharing" => S!SharedOnce

\* What is in the bucket, however it was made and also when the answer is an
\* error, is the whole video of the best variant, each segment with its key;
\* and between two events /tmp has nothing but the directories of localizations
\* that failed.
\* A recording plays the asset it names; and unless invocations for it
\* overlapped, or one was cut off or could not write, the watermark in the row of
\* a recording that the Lambda has completed is that of its asset: an invocation
\* that stored another one after it has failed, and the row says so.
LambdasTold ==
  /\ which = "converter" => O!ConvertedWhole
  /\ which = "upload" => I!AssetTold

\* Unless handlers overlap or tournaments come and go, a stream that a
\* tournament shows as live is one that Mux still serves, once its slot is
\* not being stopped.
ShownIsServed == which = "streams" => V!ShownIsServed

\* However often the window is attached, and wherever a call failed, a file
\* is one row, a press that reached the recording as a file is not copied from
\* another recording as well, nor copied twice, and no two rows have the number
\* that orders the clips; unless two calls for the court overlap.
\* Unless a recording came back while a heal that had read it as failed had
\* still to clear it: one that is ready can be watched, one that is extracted
\* keeps the upload it waits for, and no finished highlight is deleted.  And
\* what a heal has cleared, and nobody has touched since it was read, names no
\* video and no upload and has no highlight that would wait for ever.
AttachedOnce ==
  /\ which = "attach" => H!AttachedOnce
  /\ which = "gaps" => Gap!HealSpares

\* likes_count is the number of users whose row says they like the highlight,
\* whatever other users do at the same time, as long as no user's own toggles
\* overlap.
LikesAgree == which = "likes" => E!LikesAgree

\* A highlight has one short: a second one is made only by a submission that
\* overlapped another, or by a save that put back a row deleted meanwhile.
OneShort == which = "shorts" => F!OneShort

\* Unless two calls overlapped or one failed between its two saves, the count
\* that closes a tournament is the number of its enrolments (but for the one
\* in progress), nobody holds two places, and no more are given than there are.
SeatsAgree == which = "cups" => T!SeatsAgree

\* The code that a phone shows last is the one the server expects, also after
\* sends that failed; unless it was used, its time is over, the server has
\* restarted, the provider's answer was lost, two sends overlapped, or an
\* administrator's broadcast came after it.
\* An account that has logged in by phone has one welcome, although its first
\* login may have failed halfway or was by Google; unless two logins overlapped.
\* What has been committed is in the player's list as often as it has been
\* committed, and what was rolled back is not, although the phones may have rung
\* for it: an award and a broadcast unless their row could not be saved, a
\* recording unless there was no phone to tell.  The total an award's row tells
\* counts the points of every award told before it, unless two were told at once.
\* No phone rings for an account it is not registered to.
\* Pages read one after the other miss no row that was there at the first and
\* has not been deleted or read since, whatever came in between.
AccountsAgree ==
  /\ which = "accounts" => A!LatestCodeWorks
  /\ which = "accounts" => A!WelcomedOnce
  /\ which = "told" => Z!PlayerIsTold
  /\ which = "list" => R!PagesWhole

\* The picture an account points to is in the bucket, and no other picture of
\* the user is, unless two of its calls overlapped or one failed halfway; and a
\* row of the media has its object, whatever failed.  (So it is while the
\* delete does not reach the bucket: the objects of a delete that is rolled
\* back are needed still.)
\* A picture's row has its object, but while its turf is being removed, and
\* unless a removal had it deleted and was then rolled back.
ObjectsServed ==
  /\ which = "media" => M!ObjectsServed
  /\ which = "pictures" => J!PicturesStored

\* An export that succeeds gives a file that is there to be downloaded: one in
\* the bucket, or the finished MP4 of a clip that Mux still had when the
\* export began; unless a heal had written over a newer clip.  And nothing is
\* exported before somebody has paid.
ExportServes == which = "export" => X!ExportServes

\* A cycle that says it is complete has one result for each recording it
\* counts, and has left none behind: what its last scan found waiting has a
\* final result, unless the scans have run out; and each recording that could
\* be watched by the end of the scans has had its highlights healed.
CycleReports == which = "cycle" => Y!CycleReports

\* "ALWAYS enqueue next highlight": while highlights wait, there is a message,
\* sent or being handled, for the first of them or one before it; unless a
\* highlight was given up (the orders close up under the message that is being
\* handled), or was found settled or deleted, or the message could not be sent.
\* A clip that Mux was made to produce, and still has, is on a row, or the
\* handler that made it is about to record it there; unless the answer or the
\* transaction was lost, the retry service took it from a row that said it had
\* failed, or the retry service and another call were at the row together (its
\* writes leave the version alone).
\* Unless the numbers changed between the moment one was read and the moment
\* it was used, no highlight that still waits is out of the chain (the processor
\* would take it last and nothing but another asset-ready event would put it
\* back), no two highlights hold one number, and the numbers follow the match:
\* a press told in time is cut before a later one.
ChainAgrees ==
  /\ which = "lambda" => K!ChainGoesOn
  /\ which = "lambda" => K!ClipsKept
  /\ which = "order" => Q!OrderKept

\* Whatever is paid or refunded between the queries: what is shown as unlocked
\* was paid for by somebody while the answer was made, what was paid for all
\* the time is shown (in the list for the whole session, by the icons for the
\* recordings the user may see), and no gate is open that nobody has paid for.
\* The list and the quote show the price an order costs where the duration is
\* known, or the amount of a payment there is, unless the rate has changed.
\* Unless an edit had the row in hand while it was written, each field of the
\* coupon is as an admin last set it.  What is listed to a user is what entering
\* the code gives a price for, and who is given one without a grant has it listed
\* too; and no one holds a coupon, and no rule names one, that is gone.
UnlocksAgree ==
  /\ which = "unlocks" => U!UnlocksAgree
  /\ which = "coupons" => N!CouponsTold

\* The fleet's page calls a venue hidden exactly when the app shows none of its
\* courts, at every moment of the two updates, of overlapping ones and of whole
\* rows saved over them; unless a turf came to the venue's name from elsewhere.
FleetTellsApp == which = "venues" => W!FleetTellsApp

\* What the ledger says of a match, whatever went on while it was asked: a match
\* that is ready can be watched on every channel that has not failed, and on
\* one; one that has failed had nothing to watch; and its highlights are ready
\* when those that have not failed are, and there is one.
MatchTold == which = "ledger" => G!MatchTold

\* The process looks names up with its own servers whenever no lookup is at
\* its second attempt, unless two lookups ever were at it together: then the
\* one that came second remembered the public servers as the process's own.
\* What a command for a court's stream was just answered is so at the Pi,
\* when no two commands were under way at once: started is live, stopped is
\* not; of assumed and failed nothing is known.
CourtsAnswer ==
  /\ which = "pis" => P!ServersRestored
  /\ which = "pis" => P!CommandsTold

\* Every rank of the rows is one more than the number of users who have more
\* points, and so is the caller's own, listed or not, unless something was
\* awarded, deleted or begun anew while the leaderboard was made.
\* However the levels are edited, a user who has reached one is told the highest
\* whose points he has, the least he lacks, and that nothing is left when there
\* is nothing.
\* The home screen and the analytics agree on the week, in which today lies,
\* and which differs from the one the week before is compared with; the
\* comparison is positive exactly when there is more than there was; and a match
\* is counted once, unless some of its recordings lack the key of others, or
\* all lack it and do not start in the same minute.
BoardsAgree ==
  /\ which = "board" => B!RanksAgree
  /\ which = "board" => B!LevelsAgree
  /\ which = "home" => D!DashboardAgrees

\* deleteUserMedia "Delete from S3 first": the object of a row that has been
\* deleted is gone.
DeletedMediaGone == which = "media" => M!DeletedMediaGone
=============================================================================
