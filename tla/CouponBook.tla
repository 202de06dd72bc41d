----------------------------- MODULE CouponBook -----------------------------
(***************************************************************************)
(* A coupon in the hands of the admins and in those of the users: it is    *)
(* created, edited and deleted, granted to a user and taken back, named by *)
(* a rule of the leaderboard, listed to the users who can use it, and      *)
(* priced when one enters its code.  Uses are taken by Payments.  An edit  *)
(* reads the row and saves it with what it changes, whatever another edit  *)
(* did in between; saving a row that is gone inserts it.                   *)
(***************************************************************************)
EXTENDS Naturals, FiniteSets

CONSTANTS
  Users,
  Calls,    \* slots for edits in progress
  None,
  Maxima,   \* the values admins give to maxRecordings
  End       \* bound: the clock

VARIABLES
  coupon,    \* coupons: the row with the code, or None
  left,      \* coupon_assignments: the uses each user has left, or None
  rule,      \* leaderboard_auto_rules: of a rank, whether enabled, or None
  call,      \* what each edit has read, or None
  now,
  (* history: the row with each field as an admin last set it; whether it    *)
  (* was written while an edit had it in hand                                *)
  said, meddled

vars == <<coupon, left, rule, call, now, said, meddled>>

\* startsAt and expiresAt are a time, or null.
Times == 1 .. End
Coupon == [max : Maxima, starts : Times \cup {None}, expires : Times \cup {None},
           enabled : BOOLEAN]

TypeOK ==
  /\ coupon \in Coupon \cup {None}
  /\ left \in [Users -> Nat \cup {None}]
  /\ rule \in BOOLEAN \cup {None}
  /\ call \in [Calls -> Coupon \cup {None}]
  /\ now \in 0 .. End
  /\ said \in Coupon \cup {None} /\ meddled \in BOOLEAN

Init ==
  /\ coupon = None
  /\ left = [u \in Users |-> None]
  /\ rule = None
  /\ call = [c \in Calls |-> None]
  /\ now = 0
  /\ said = None /\ meddled = FALSE

-----------------------------------------------------------------------------
(* The admins.                                                             *)

InHand(c) == \E d \in Calls \ {c} : call[d] # None

\* The row is written; an admin has asked for what is said.
Write(new, asked, others) ==
  /\ coupon' = new /\ said' = asked
  /\ meddled' = (meddled \/ others)

\* createCoupon: a code there is already is refused, by the look before or by
\* the index.
CreateCoupon ==
  /\ coupon = None
  /\ \E new \in Coupon : Write(new, new, InHand(None))
  /\ UNCHANGED <<left, rule, call, now>>

\* updateCoupon reads the row ...
EditCoupon(c) ==
  /\ coupon # None /\ call[c] = None
  /\ call' = [call EXCEPT ![c] = coupon]
  /\ UNCHANGED <<coupon, left, rule, now, said, meddled>>

\* ... and saves it with what the body has.
Patched(row, told) ==
  {<<[row EXCEPT !.max = m], [told EXCEPT !.max = m]>> : m \in Maxima}
    \cup {<<[row EXCEPT !.starts = t], [told EXCEPT !.starts = t]>> : t \in Times \cup {None}}
    \cup {<<[row EXCEPT !.expires = t], [told EXCEPT !.expires = t]>> : t \in Times \cup {None}}
    \cup {<<[row EXCEPT !.enabled = e], [told EXCEPT !.enabled = e]>> : e \in BOOLEAN}

SaveEdit(c) ==
  /\ call[c] # None
  /\ \E p \in Patched(call[c], IF said = None THEN call[c] ELSE said) :
       Write(p[1], p[2], InHand(c))
  /\ call' = [call EXCEPT ![c] = None]
  /\ UNCHANGED <<left, rule, now>>

\* deleteCoupon: assignments and rules go with the row.  (A mutant: they do
\* not.)
Kept(old) == old
Dropped(old) == [u \in Users |-> None]
DeleteCoupon ==
  /\ coupon # None
  /\ Write(None, None, InHand(None))
  /\ left' = Dropped(left)
  /\ rule' = None
  /\ UNCHANGED <<call, now>>

\* assignCouponToUser.
Grant(u) ==
  /\ coupon # None /\ coupon.enabled
  /\ left[u] = None
  /\ left' = [left EXCEPT ![u] = coupon.max]
  /\ UNCHANGED <<coupon, rule, call, now, said, meddled>>

Revoke(u) ==
  /\ left[u] # None
  /\ left' = [left EXCEPT ![u] = None]
  /\ UNCHANGED <<coupon, rule, call, now, said, meddled>>

\* upsertAutoRule and deleteAutoRule.
SetRule ==
  /\ coupon # None
  /\ rule' \in IF rule = None THEN BOOLEAN ELSE {rule, TRUE, FALSE}
  /\ UNCHANGED <<coupon, left, call, now, said, meddled>>

DeleteRule ==
  /\ rule # None /\ rule' = None
  /\ UNCHANGED <<coupon, left, call, now, said, meddled>>

-----------------------------------------------------------------------------
(* The users.                                                              *)

\* listActiveForUser.  (A mutant lists a coupon before it starts.)
NotExpired(c) == c.enabled /\ (c.expires = None \/ c.expires > now)
Listable(c) ==
  /\ c.enabled
  /\ c.starts # None => c.starts <= now
  /\ c.expires # None => c.expires > now
Active(u) == /\ left[u] # None /\ left[u] > 0
             /\ coupon # None /\ Listable(coupon)

\* previewDiscount: no price where the coupon is off or out of its window; who
\* has no assignment gets one; and no price without a use left.
InWindow(c) ==
  ~\/ ~c.enabled
   \/ c.starts # None /\ c.starts > now
   \/ c.expires # None /\ c.expires <= now
Offered == coupon # None /\ InWindow(coupon)
Priced(u) == Offered /\ (left[u] # None => left[u] > 0)

PreviewDiscount(u) ==
  /\ Offered /\ left[u] = None
  /\ left' = [left EXCEPT ![u] = coupon.max]
  /\ UNCHANGED <<coupon, rule, call, now, said, meddled>>

\* redeem takes a use (Payments).
Take(u) ==
  /\ Offered /\ left[u] # None /\ left[u] > 0
  /\ left' = [left EXCEPT ![u] = @ - 1]
  /\ UNCHANGED <<coupon, rule, call, now, said, meddled>>

Tick ==
  /\ now < End /\ now' = now + 1
  /\ UNCHANGED <<coupon, left, rule, call, said, meddled>>

Next ==
  \/ CreateCoupon \/ DeleteCoupon \/ SetRule \/ DeleteRule \/ Tick
  \/ \E c \in Calls : EditCoupon(c) \/ SaveEdit(c)
  \/ \E u \in Users : Grant(u) \/ Revoke(u) \/ PreviewDiscount(u) \/ Take(u)

-----------------------------------------------------------------------------
(* Properties.                                                             *)

\* Unless an edit had the row in hand while it was written, each field of the
\* coupon is as an admin last set it.  What is listed to a user is what entering
\* the code gives a price for, and who is given one without a grant has it listed
\* too; and no one holds a coupon, and no rule names one, that is gone.
CouponsTold ==
  /\ ~meddled => coupon = said
  /\ \A u \in Users : left[u] # None => (Active(u) <=> Priced(u))
  /\ coupon = None => rule = None /\ \A u \in Users : left[u] = None

\* What the first of them rests on: an edit has the row in hand as it is.
EditInHand ==
  ~meddled => /\ coupon = said
              /\ \A c \in Calls : call[c] # None => call[c] = coupon
=============================================================================
