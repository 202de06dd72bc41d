------------------------------ MODULE Unlocks ------------------------------
(***************************************************************************)
(* What the payments of a session unlock, as its players are told: the     *)
(* lock icons, the list of a user's own recordings, the quote before an    *)
(* order, and the gates of export and of playback.  The recordings of one  *)
(* session (one camera, one start, one end) are unlocked together; each    *)
(* answer is put together from several queries, between which others pay,  *)
(* are refunded, or get a share, and an admin changes the rate.  Ordering  *)
(* and paying are in Payments; one instance of the application.            *)
(***************************************************************************)
EXTENDS Naturals, Sequences, FiniteSets

CONSTANTS
  Users,
  Readers,    \* the users whose requests are looked at
  Recs,       \* the recordings of the session
  Owner,      \* recordings: userId
  Items,      \* what is sold: shorts, and what opens the gates as well
  Shorts,
  Rates,      \* of half an hour
  None,
  MaxPays     \* bound: payments made

VARIABLES
  pays,       \* payments, in the order of their creation
  shares,     \* shared_recordings
  rate,       \* PricingConfigService.cachedConfig
  call        \* the request of a reader (they write nothing: one is enough)

vars == <<pays, shares, rate, call>>

Pay == [by : Users, rec : Recs, item : Items,
        status : {"pending", "completed", "refunded"}, amount : Nat]
\* must, may (history): the payments that are complete all the time, or at
\* some time, from the request to its answer.
Call == [pc : {"idle", "icon", "mine", "siblings", "quote", "answered"},
         kind : {"icon", "mine", "quote", "gate", "playback", "preview"},
         user : Readers, rec : Recs,
         see : SUBSET Recs, todo : SUBSET Recs,
         shown : SUBSET Items, price : Nat, bill : Nat, read : BOOLEAN, open : BOOLEAN,
         must : SUBSET (1 .. MaxPays), may : SUBSET (1 .. MaxPays)]

TypeOK ==
  /\ pays \in Seq(Pay) /\ Len(pays) <= MaxPays
  /\ shares \subseteq Users \X Recs
  /\ rate \in Rates
  /\ call \in Call \cup {None}

Init ==
  /\ pays = <<>> /\ shares = {}
  /\ rate \in {x \in Rates : \A y \in Rates : x <= y}
  /\ call = None

-----------------------------------------------------------------------------
Completed == {n \in DOMAIN pays : pays[n].status = "completed"}
On(S) == {n \in Completed : pays[n].rec \in S}

\* What the payments of S unlock in the views: recording, highlight and media
\* access.  (The mutant leaves out the last, the type of shorts.)
ItemsButShorts(S) == {pays[n].item : n \in S} \ {Shorts}
ItemsOf(S) == {pays[n].item : n \in S}

\* hasAnyCompletedPaymentForRecording, of the two types that are no shorts.
Gate(r) == \E n \in On({r}) : pays[n].item # Shorts

\* One half-hour block; where the metadata has no planned duration, the order
\* and the quote take one block and the list takes two (timed: it has one).
Price(kind, timed) == rate * (IF ~timed /\ kind = "mine" THEN 2 ELSE 1)

Visible(u) == {r \in Recs : Owner[r] = u \/ <<u, r>> \in shares}
OwnPays(u, r) ==
  {n \in DOMAIN pays : /\ pays[n].by = u /\ pays[n].rec = r
                       /\ pays[n].status \in {"pending", "completed"}}

Go(new) == call' = new
At(pc) == call # None /\ call.pc = pc
Quiet == UNCHANGED <<pays, shares, rate>>

Asked(kind, u, r) ==
  [pc |-> kind, kind |-> kind, user |-> u, rec |-> r, see |-> {}, todo |-> {},
   shown |-> {}, price |-> 0, bill |-> 0, read |-> FALSE, open |-> FALSE,
   must |-> {}, may |-> Completed]

BeginIcons(u) ==
  /\ call = None
  /\ Go([Asked("icon", u, CHOOSE r \in Recs : TRUE) EXCEPT
            !.see = Visible(u), !.todo = Visible(u), !.must = Completed])
  /\ Quiet

BeginMine(u, r, timed) ==
  /\ call = None /\ Owner[r] = u
  /\ Go([Asked("mine", u, r) EXCEPT !.todo = {r}, !.must = Completed,
            !.price = Price("mine", timed),
            !.bill = IF timed THEN Price("order", timed) ELSE 0])
  /\ Quiet

BeginQuote(u, r, timed) ==
  /\ call = None
  /\ Go([Asked("quote", u, r) EXCEPT !.may = {}, !.price = Price("quote", timed),
                                     !.bill = Price("order", timed)])
  /\ Quiet

\* hasAccessToMedia, for an export.
AskGate(u, r) ==
  /\ call = None
  /\ Go([Asked("gate", u, r) EXCEPT !.pc = "answered", !.open = Gate(r)])
  /\ Quiet

\* checkRecordingAccess: somebody has paid, or no more than three minutes are
\* asked for.
Access(paid, long) == paid \/ ~long

\* getRecordingPlaybackUrl: the URL comes in any case, and is said to be paid
\* when there is access.
Playback(u, r, long) ==
  /\ call = None
  /\ Go([Asked(IF long THEN "playback" ELSE "preview", u, r) EXCEPT
            !.pc = "answered", !.open = Access(Gate(r), long)])
  /\ Quiet

\* The metadata ask for no duration, so that they say paid to whoever asks.
Metadata(u, r) ==
  /\ call = None
  /\ Go([Asked("preview", u, r) EXCEPT !.pc = "answered", !.open = Access(Gate(r), FALSE)])
  /\ Quiet

\* Those of a highlight ask with the highlight's id, under which nobody has paid.
HighlightMetadata(u, r) ==
  /\ call = None
  /\ Go([Asked("preview", u, r) EXCEPT !.pc = "answered", !.open = Access(FALSE, FALSE)])
  /\ Quiet

\* getUnlockedItemsByRecordingForUser reads the payments of one visible
\* recording after another, and merges those of the session.
IconRead ==
  /\ At("icon")
  /\ \/ \E r \in call.todo :
          Go([call EXCEPT !.todo = @ \ {r}, !.shown = @ \cup ItemsOf(On({r}))])
     \/ call.todo = {} /\ Go([call EXCEPT !.pc = "answered"])
  /\ Quiet

\* getMyRecordings asks for the recording's payments and, side by side, for the
\* user's latest one, whose amount is shown when there is one.
Latest(S) == CHOOSE n \in S : \A m \in S : m <= n
MineRead ==
  LET own == OwnPays(call.user, call.rec) IN
  /\ At("mine")
  /\ \/ call.todo # {} /\ Go([call EXCEPT !.todo = {}, !.shown = ItemsOf(On({call.rec}))])
     \/ ~call.read
        /\ Go([call EXCEPT !.read = TRUE,
                           !.price = IF own = {} THEN @ ELSE pays[Latest(own)].amount])
     \/ call.todo = {} /\ call.read /\ Go([call EXCEPT !.pc = "siblings"])
  /\ Quiet

\* Then, when there are any, for those of the other recordings of the session.
Siblings ==
  /\ At("siblings")
  /\ Go([call EXCEPT !.pc = "answered",
              !.shown = @ \cup (IF Cardinality(Recs) > 1 THEN ItemsOf(On(Recs)) ELSE {})])
  /\ Quiet

\* getRecordingUnlockQuote: the price, or the amount of a payment the user has
\* already, whichever item it is for.
Quote ==
  LET own == OwnPays(call.user, call.rec) IN
  /\ At("quote")
  /\ \/ own = {} /\ Go([call EXCEPT !.pc = "answered"])
     \/ \E n \in own : Go([call EXCEPT !.pc = "answered",
                                             !.price = pays[n].amount])
  /\ Quiet

Answer ==
  /\ At("answered")
  /\ Go(None)
  /\ Quiet

-----------------------------------------------------------------------------
(* The rest of the system.                                                 *)

\* An order (Payments).
Order(u, r, x) ==
  /\ ~At("answered") /\ Len(pays) < MaxPays
  /\ \A n \in DOMAIN pays : ~(pays[n].rec = r /\ pays[n].item = x)
  /\ pays' = Append(pays, [by |-> u, rec |-> r, item |-> x, status |-> "pending",
                           amount |-> Price("order", TRUE)])
  /\ UNCHANGED <<shares, rate, call>>

Move(n, old, new) ==
  /\ ~At("answered") /\ pays[n].status = old
  /\ pays' = [pays EXCEPT ![n].status = new]
  /\ call' = CASE call = None \/ At("quote") -> call
               [] call # None /\ ~At("quote") /\ new = "completed" -> [call EXCEPT !.may = @ \cup {n}]
               [] OTHER -> [call EXCEPT !.must = @ \ {n}]
  /\ UNCHANGED <<shares, rate>>

Share(u, r) ==
  /\ ~At("answered") /\ Owner[r] # u /\ <<u, r>> \notin shares
  /\ shares' = shares \cup {<<u, r>>}
  /\ UNCHANGED <<pays, rate, call>>

\* updateConfig saves the row and refreshes the cache (bound: the rate goes up).
UpdateConfig(x) ==
  /\ ~At("answered") /\ x > rate
  /\ rate' = x
  /\ UNCHANGED <<pays, shares, call>>

Next ==
  \/ \E u \in Readers, r \in Recs :
       \/ BeginIcons(u) \/ AskGate(u, r) \/ Share(u, r)
       \/ Metadata(u, r) \/ HighlightMetadata(u, r)
       \/ \E b \in BOOLEAN : BeginMine(u, r, b) \/ BeginQuote(u, r, b) \/ Playback(u, r, b)
  \/ IconRead \/ MineRead \/ Siblings \/ Quote \/ Answer
  \/ \E u \in Users, r \in Recs, x \in Items : Order(u, r, x)
  \/ \E n \in DOMAIN pays : \/ Move(n, "pending", "completed")
                            \/ Move(n, "completed", "refunded")
  \/ \E x \in Rates : UpdateConfig(x)

-----------------------------------------------------------------------------
(* Properties.                                                             *)

\* Bound: what is unlocked has nothing to do with the rate, so that a changed one
\* is followed with a single payment.
Apart == Len(pays) <= 1 \/ \A x \in Rates : rate <= x

PaidItems(S) == {pays[n].item : n \in S}
OfRecs(S, recs) == {n \in S : pays[n].rec \in recs}

\* An answer, put together while the payments of may were made.
Told(k) ==
  /\ k.shown \subseteq PaidItems(k.may)
  /\ k.kind = "icon" => PaidItems(OfRecs(k.must, k.see)) \subseteq k.shown
  /\ k.kind = "mine" => PaidItems(k.must) \subseteq k.shown
  /\ (k.kind \in {"gate", "playback"} /\ k.open) => k.may # {}
  /\ (k.kind \in {"mine", "quote"} /\ k.bill # 0) =>
       k.price \in {k.bill} \cup {pays[n].amount : n \in DOMAIN pays}

\* Whatever is paid or refunded between the queries: what is shown as unlocked
\* was paid for by somebody while the answer was made, what was paid for all
\* the time is shown (in the list for the whole session, by the icons for the
\* recordings the user may see), and no gate is open that nobody has paid for.
\* The list and the quote show the price an order costs where the duration is
\* known, or the amount of a payment there is, unless the rate has changed.
UnlocksAgree == At("answered") => Told(call)

\* What it rests on: an answer that is being made has counted what is complete,
\* and shows what it has read so far.
Counts(k) ==
  /\ k.kind = IF k.pc = "siblings" THEN "mine" ELSE k.pc
  /\ k.must \subseteq Completed /\ k.shown \subseteq PaidItems(k.may)
  /\ IF k.kind = "quote" THEN k.must = {} ELSE Completed \subseteq k.may
  /\ k.kind = "icon" => PaidItems(OfRecs(k.must, k.see \ k.todo)) \subseteq k.shown
  /\ k.kind = "mine" /\ k.todo = {} => PaidItems(OfRecs(k.must, {k.rec})) \subseteq k.shown
  /\ k.pc = "siblings" => k.todo = {}
  /\ k.bill # 0 => k.price \in {k.bill} \cup {pays[n].amount : n \in DOMAIN pays}

CountedSoFar == call # None /\ ~At("answered") => Counts(call)
=============================================================================
