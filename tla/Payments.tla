------------------------------ MODULE Payments ------------------------------
(***************************************************************************)
(* Unlocking recordings for money: the rows of payments, the orders at     *)
(* Razorpay, and the coupons that cut the price of an order.  An HTTP call *)
(* is a process: it reads a row, waits for Razorpay or for Postgres, and   *)
(* then writes the whole row it has read, by id.  Nothing serialises two   *)
(* calls on one payment except the transaction of redeem.                  *)
(*                                                                         *)
(* There is one coupon.  Its percentage and its number of uses may be      *)
(* edited at any time, so each use of them chooses.  Amounts are left out: *)
(* an order is priced with a coupon or without, or it is free.  The client *)
(* is the application's own: it claims "completed" with the signature of   *)
(* the checkout, that is, after the money has moved.                       *)
(***************************************************************************)
EXTENDS Integers, FiniteSets

CONSTANTS
  Users,
  Recordings,
  Items,           \* what can be unlocked: an unlock item of a recording
  RecordingOf,     \* the recording of an item
  Calls,           \* slots for HTTP calls in progress
  Maxima,          \* the values an admin gives to coupon.maxRecordings
  None,
  MaxOrders,       \* bound: payment rows
  MaxAssignments,  \* bound: coupon assignments ever made
  MaxFaults        \* bound: failures of any kind in one behaviour

ASSUME RecordingOfAssumption == RecordingOf \in [Items -> Recordings]
ASSUME NoneAssumption == None \notin Users \cup Items
ASSUME BoundsAssumption ==
  MaxOrders \in Nat /\ MaxAssignments \in Nat /\ MaxFaults \in Nat
ASSUME MaximaAssumption == Maxima \subseteq Nat \ {0}

Orders == 1 .. MaxOrders
Assignments == 1 .. MaxAssignments
NoOrder == 0
NoCoupon == 0

VARIABLES
  row,         \* payments: status, and metadata.coupon.assignmentId
  buyer, item, \* payments: user_id, and recording_id with the unlock item
  money,       \* the order at Razorpay; "free" has none
  open,        \* coupons: enabled and inside its validity window
  assigned,    \* coupon_assignments, of each user (coupon and user are unique)
  made,        \* how many assignments were ever made
  redeemed,    \* coupon_redemptions: the assignment a payment has used
  call,        \* what each call is doing and has read
  (* history: the payments that a verification has found completed (and    *)
  (* given points for), the payments two calls had in hand at once or a    *)
  (* dying refund left behind, and the failures so far                     *)
  verified, disturbed, faults

rowVars == <<row, buyer, item>>
couponVars == <<open, assigned, made, redeemed>>
historyVars == <<verified, disturbed>>
vars == <<rowVars, money, couponVars, call, historyVars, faults>>

Row == [status : {"none", "pending", "completed", "failed", "refunded",
                  "removed"},
        coupon : Assignments \cup {NoCoupon}]
NoRow == [status |-> "none", coupon |-> NoCoupon]

Call == [pc : {"idle", "stale", "cut", "free", "stash", "save", "write",
               "redeem", "take", "refund", "returned"},
         user : Users \cup {None},
         item : Items \cup {None},
         stale : SUBSET Orders,
         order : Orders \cup {NoOrder},
         seen : Row,
         claim : {"none", "completed", "failed"}]
Idle == [pc |-> "idle", user |-> None, item |-> None, stale |-> {},
         order |-> NoOrder, seen |-> NoRow, claim |-> "none"]

Assignment == [id : Assignments \cup {NoCoupon}, left : Nat, total : Nat]
NoAssignment == [id |-> NoCoupon, left |-> 0, total |-> 0]

Exists(o) == row[o].status \notin {"none", "removed"}

RowsTyped ==
  /\ row \in [Orders -> Row]
  /\ buyer \in [Orders -> Users \cup {None}]
  /\ item \in [Orders -> Items \cup {None}]
  /\ money \in [Orders -> {"none", "free", "open", "paid", "returned"}]
  /\ \A o \in Orders : Exists(o) => buyer[o] \in Users

CouponsTyped ==
  /\ open \in BOOLEAN
  /\ assigned \in [Users -> Assignment]
  /\ made \in 0 .. MaxAssignments
  /\ redeemed \in [Orders -> Assignments \cup {NoCoupon}]

CallsTyped ==
  /\ call \in [Calls -> Call]
  /\ \A k \in Calls :
       /\ call[k].pc \in {"stale", "cut", "free"} => call[k].user \in Users
       /\ call[k].pc \in {"stash", "save", "write", "redeem", "take",
                          "refund", "returned"} =>
            /\ call[k].order \in Orders
            /\ buyer[call[k].order] \in Users

HistoryTyped ==
  /\ verified \subseteq Orders
  /\ disturbed \subseteq Orders
  /\ faults \in 0 .. MaxFaults

TypeOK == RowsTyped /\ CouponsTyped /\ CallsTyped /\ HistoryTyped

Init ==
  /\ row = [o \in Orders |-> NoRow]
  /\ buyer = [o \in Orders |-> None]
  /\ item = [o \in Orders |-> None]
  /\ money = [o \in Orders |-> "none"]
  /\ open = TRUE
  /\ assigned = [u \in Users |-> NoAssignment]
  /\ made = 0
  /\ redeemed = [o \in Orders |-> NoCoupon]
  /\ call = [k \in Calls |-> Idle]
  /\ verified = {}
  /\ disturbed = {}
  /\ faults = 0

-----------------------------------------------------------------------------
(* Helpers.                                                                *)

Fault == faults < MaxFaults /\ faults' = faults + 1

Go(k, new) == call' = [call EXCEPT ![k] = new]
Return(k) == Go(k, Idle)

\* The payments a call has read and will still write or remove.
InHand(k) ==
  IF call[k].pc \in {"save", "write", "refund", "returned"}
  THEN {call[k].order} ELSE call[k].stale

\* A call takes the payments of S in hand.
TakeInHand(S) ==
  disturbed' = disturbed \cup {o \in S : \E k \in Calls : o \in InHand(k)}

-----------------------------------------------------------------------------
(* Ordering (createPaymentOrderForRecording).                              *)

\* Someone has paid for the item: the whole group sees it.
Unlocked(i) == \E o \in Orders : item[o] = i /\ row[o].status = "completed"

PendingOf(u) == {o \in Orders : buyer[o] = u /\ row[o].status = "pending"}

\* Mutant: every payment of the user for the recording is removed.
EveryPayment(u, i) ==
  {o \in Orders : /\ buyer[o] = u /\ Exists(o)
                  /\ item[o] # None /\ RecordingOf[item[o]] = RecordingOf[i]}

\* The pending payments of the user for other items of the recording.
StaleOf(u, i) ==
  {o \in PendingOf(u) :
     item[o] # None /\ RecordingOf[item[o]] = RecordingOf[i]}

\* Unless the item is unlocked, or the user has a pending payment for it, which
\* the call then returns.  (The bound on payments ends ordering.)
Order(k, u, i) ==
  /\ call[k] = Idle
  /\ \E o \in Orders : buyer[o] = None
  /\ ~Unlocked(i)
  /\ \A o \in PendingOf(u) : item[o] # i
  /\ Go(k, [Idle EXCEPT !.pc = "stale", !.user = u, !.item = i,
                        !.stale = StaleOf(u, i)])
  /\ TakeInHand(StaleOf(u, i))
  /\ UNCHANGED <<rowVars, money, couponVars, verified, faults>>

\* remove(stale): DELETE by id, whatever the row has become.
RemoveStale(k, o) ==
  /\ call[k].pc = "stale"
  /\ o \in call[k].stale
  /\ row' = [row EXCEPT ![o] = [status |-> "removed", coupon |-> NoCoupon]]
  /\ Go(k, [call[k] EXCEPT !.stale = @ \ {o}])
  /\ UNCHANGED <<buyer, item, money, couponVars, historyVars, faults>>

\* A new row of coupon_assignments for u, with the coupon's present maximum.
NewAssignment(u) ==
  /\ made < MaxAssignments
  /\ made' = made + 1
  /\ \E n \in Maxima :
       assigned' = [assigned EXCEPT ![u] =
         [id |-> made + 1, left |-> n, total |-> n]]

\* previewDiscount finds the assignment of the user, or makes one.
PriceWithCoupon(k) ==
  LET u == call[k].user IN
  /\ call[k].pc = "stale"
  /\ call[k].stale = {}
  /\ open
  /\ \/ /\ assigned[u].id = NoCoupon
        /\ NewAssignment(u)
     \/ /\ assigned[u].left > 0
        /\ UNCHANGED <<assigned, made>>
  /\ \E pc \in {"cut", "free"} :
       Go(k, [call[k] EXCEPT !.pc = pc, !.seen.coupon = assigned'[u].id])
  /\ UNCHANGED <<rowVars, money, open, redeemed, historyVars, faults>>

\* The next row of payments, for user u and item i.
NewRow(o, u, i, new, where) ==
  /\ buyer[o] = None
  /\ \A p \in Orders : p < o => buyer[p] # None
  /\ buyer' = [buyer EXCEPT ![o] = u]
  /\ item' = [item EXCEPT ![o] = i]
  /\ money' = [money EXCEPT ![o] = where]
  /\ row' = [row EXCEPT ![o] = new]

Pending == [status |-> "pending", coupon |-> NoCoupon]

\* createPaymentOrder: an order at Razorpay and then the INSERT.  (An order
\* whose INSERT fails is never paid: nobody was told its id.)  Here without a
\* coupon code, or one for which previewDiscount returns null.
OrderInFull(k) ==
  /\ call[k].pc = "stale"
  /\ call[k].stale = {}
  /\ \E o \in Orders : NewRow(o, call[k].user, call[k].item, Pending, "open")
  /\ Return(k)
  /\ UNCHANGED <<couponVars, historyVars, faults>>

\* A plan or a tournament entry is ordered at once; one plan is free.
OrderPlain(u) ==
  /\ \E o \in Orders :
       \/ NewRow(o, u, None, Pending, "open")
       \/ NewRow(o, u, None, [Pending EXCEPT !.status = "completed"], "free")
  /\ UNCHANGED <<couponVars, call, historyVars, faults>>

\* With a coupon, whose assignment is still to be put into the row.
OrderCut(k) ==
  /\ call[k].pc = "cut"
  /\ \E o \in Orders :
       /\ NewRow(o, call[k].user, call[k].item, Pending, "open")
       /\ Go(k, [Idle EXCEPT !.pc = "stash", !.order = o,
                             !.seen.coupon = call[k].seen.coupon])
  /\ UNCHANGED <<couponVars, historyVars, faults>>

\* The discount takes the whole price: a completed row, and the redemption.
OrderFree(k) ==
  LET a == call[k].seen.coupon IN
  /\ call[k].pc = "free"
  /\ \E o \in Orders :
       /\ NewRow(o, call[k].user, call[k].item,
                 [status |-> "completed", coupon |-> a], "free")
       /\ Go(k, [Idle EXCEPT !.pc = "redeem", !.order = o, !.seen.coupon = a])
  /\ UNCHANGED <<couponVars, historyVars, faults>>

\* The new row is read again ...
StashRead(k) ==
  LET o == call[k].order IN
  /\ call[k].pc = "stash"
  /\ IF Exists(o)
       THEN /\ Go(k, [call[k] EXCEPT !.pc = "save",
                                     !.seen.status = row[o].status])
            /\ TakeInHand({o})
       ELSE Return(k) /\ UNCHANGED disturbed
  /\ UNCHANGED <<rowVars, money, couponVars, verified, faults>>

\* ... and saved as it was read, with the coupon.  (save() inserts a row that
\* has been removed meanwhile.)
StashSave(k) ==
  /\ call[k].pc = "save"
  /\ row' = [row EXCEPT ![call[k].order] = call[k].seen]
  /\ Return(k)
  /\ UNCHANGED <<buyer, item, money, couponVars, historyVars, faults>>

-----------------------------------------------------------------------------
(* Razorpay (external): the user pays the order in the checkout.           *)

Pay(o) ==
  /\ money[o] = "open"
  /\ money' = [money EXCEPT ![o] = "paid"]
  /\ UNCHANGED <<rowVars, couponVars, call, historyVars, faults>>

-----------------------------------------------------------------------------
(* Verifying (verifyPayment).                                              *)

\* Mutant: Razorpay is not asked what became of the payment.
AnyOrder(o) == TRUE

\* The payment Razorpay reports is captured or authorized, for this order.
Payable(o) == money[o] = "paid"

VerifyRead(k, o, claim) ==
  /\ call[k] = Idle
  /\ row[o].status = "pending"
  /\ claim = "completed" => Payable(o)
  /\ Go(k, [Idle EXCEPT !.pc = "write", !.order = o, !.seen = row[o],
                        !.claim = claim])
  /\ TakeInHand({o})
  /\ UNCHANGED <<rowVars, money, couponVars, verified, faults>>

\* update(payment.id, payment), and the points for a completed payment, which
\* nothing waits for.
VerifyWrite(k) ==
  LET o == call[k].order
      done == call[k].claim = "completed" IN
  /\ call[k].pc = "write"
  /\ row' = [row EXCEPT ![o] =
       IF Exists(o) THEN [call[k].seen EXCEPT !.status = call[k].claim] ELSE @]
  /\ verified' = IF done THEN verified \cup {o} ELSE verified
  /\ IF done /\ call[k].seen.coupon # NoCoupon
       THEN Go(k, [Idle EXCEPT !.pc = "redeem", !.order = o,
                               !.seen.coupon = call[k].seen.coupon])
       ELSE Return(k)
  /\ UNCHANGED <<buyer, item, money, couponVars, disturbed, faults>>

-----------------------------------------------------------------------------
(* Redeeming a coupon (redeem), for a verified or a free payment.          *)

\* The transaction looks for a redemption of this payment before it has the
\* lock of the assignment.
RedeemRead(k) ==
  /\ call[k].pc = "redeem"
  /\ IF redeemed[call[k].order] # NoCoupon
       THEN Return(k)
       ELSE Go(k, [call[k] EXCEPT !.pc = "take"])
  /\ UNCHANGED <<rowVars, money, couponVars, historyVars, faults>>

\* Mutant: no unique index on paymentId.
RedeemAgain(o) == TRUE

\* The unique index on paymentId lets the INSERT pass.
Unredeemed(o) == redeemed[o] = NoCoupon

\* Mutant: the assignment is not read again under the lock.
NotReread(o, a) == open

\* What redeem finds of the assignment under the lock.
Usable(o, a) ==
  /\ assigned[buyer[o]].id = a
  /\ assigned[buyer[o]].left > 0
  /\ open

\* Under the lock, the decrement and the INSERT, or neither: a duplicate
\* paymentId aborts the transaction.
RedeemTake(k) ==
  LET o == call[k].order
      a == call[k].seen.coupon IN
  /\ call[k].pc = "take"
  /\ IF Usable(o, a) /\ Unredeemed(o)
       THEN /\ assigned' = [assigned EXCEPT ![buyer[o]].left = @ - 1]
            /\ redeemed' = [redeemed EXCEPT ![o] = a]
       ELSE UNCHANGED <<assigned, redeemed>>
  /\ Return(k)
  /\ UNCHANGED <<rowVars, money, open, made, historyVars,
                 faults>>

-----------------------------------------------------------------------------
(* Refunding (refundPayment).                                              *)

RefundRead(k, o) ==
  /\ call[k] = Idle
  /\ row[o].status = "completed"
  /\ money[o] # "free"
  /\ Go(k, [Idle EXCEPT !.pc = "refund", !.order = o, !.seen = row[o]])
  /\ TakeInHand({o})
  /\ UNCHANGED <<rowVars, money, couponVars, verified, faults>>

\* Razorpay gives the money back, or refuses what it has given back already.
RefundPost(k) ==
  LET o == call[k].order IN
  /\ call[k].pc = "refund"
  /\ IF money[o] = "paid"
       THEN /\ money' = [money EXCEPT ![o] = "returned"]
            /\ Go(k, [call[k] EXCEPT !.pc = "returned"])
       ELSE Return(k) /\ UNCHANGED money
  /\ UNCHANGED <<rowVars, couponVars, historyVars, faults>>

RefundSave(k) ==
  /\ call[k].pc = "returned"
  /\ row' = [row EXCEPT ![call[k].order] =
       [call[k].seen EXCEPT !.status = "refunded"]]
  /\ Return(k)
  /\ UNCHANGED <<buyer, item, money, couponVars, historyVars, faults>>

-----------------------------------------------------------------------------
\* A call ends early: the backend dies, or Razorpay or Postgres refuses it.
Abandon(k) ==
  /\ call[k] # Idle
  /\ Fault
  /\ Return(k)
  /\ disturbed' = IF call[k].pc = "returned"
                    THEN disturbed \cup {call[k].order} ELSE disturbed
  /\ UNCHANGED <<rowVars, money, couponVars, verified>>

-----------------------------------------------------------------------------
(* Coupons: the application's preview, the admin and the clock.            *)

\* POST coupons/me/preview, for a user without an assignment.
Preview(u) ==
  /\ open
  /\ assigned[u].id = NoCoupon
  /\ NewAssignment(u)
  /\ UNCHANGED <<rowVars, money, open, redeemed, call, historyVars, faults>>

\* assignCouponToUser, for a user without an assignment.  The coupon must be
\* enabled, and may well be outside its window.
Grant(u) ==
  /\ assigned[u].id = NoCoupon
  /\ NewAssignment(u)
  /\ UNCHANGED <<rowVars, money, open, redeemed, call, historyVars, faults>>

\* Mutant: the redemptions of a deleted assignment stay.
NoneDropped(a) == redeemed

\* The redemptions left when the assignment is deleted (ON DELETE CASCADE).
Dropped(a) ==
  [o \in Orders |-> IF redeemed[o] = a THEN NoCoupon ELSE redeemed[o]]

Revoke(u) ==
  /\ assigned[u].id # NoCoupon
  /\ assigned' = [assigned EXCEPT ![u] = NoAssignment]
  /\ redeemed' = Dropped(assigned[u].id)
  /\ UNCHANGED <<rowVars, money, open, made, call, historyVars, faults>>

\* updateCoupon, or the validity window opens or closes.
CouponChanges ==
  /\ open' = ~open
  /\ UNCHANGED <<rowVars, money, assigned, made, redeemed, call, historyVars,
                 faults>>

-----------------------------------------------------------------------------
Next ==
  \/ \E k \in Calls :
       \/ \E u \in Users, i \in Items : Order(k, u, i)
       \/ \E o \in Orders :
            \/ RemoveStale(k, o)
            \/ RefundRead(k, o)
            \/ \E c \in {"completed", "failed"} : VerifyRead(k, o, c)
       \/ PriceWithCoupon(k)
       \/ OrderFree(k)
       \/ OrderInFull(k)
       \/ OrderCut(k)
       \/ StashRead(k)
       \/ StashSave(k)
       \/ VerifyWrite(k)
       \/ RedeemRead(k)
       \/ RedeemTake(k)
       \/ RefundPost(k)
       \/ RefundSave(k)
       \/ Abandon(k)
  \/ \E o \in Orders : Pay(o)
  \/ \E u \in Users : OrderPlain(u) \/ Preview(u) \/ Grant(u) \/ Revoke(u)
  \/ CouponChanges

Spec == Init /\ [][Next]_vars

-----------------------------------------------------------------------------
(* What payments and coupons promise.                                      *)

\* Every use of an assignment is accounted for: what is left and what was
\* redeemed make up what was granted, however many verifications of a payment
\* redeem at once; and no redemption outlives its assignment.
UsesConserved ==
  /\ \A u \in Users : assigned[u].id # NoCoupon =>
       assigned[u].left
         + Cardinality({o \in Orders : redeemed[o] = assigned[u].id})
       = assigned[u].total
  /\ \A o \in Orders : redeemed[o] # NoCoupon =>
       buyer[o] \in Users /\ assigned[buyer[o]].id = redeemed[o]

\* Nothing is unlocked, no coupon is used up and no points are given for a
\* payment unless Razorpay took the money for it, or it was free.
EarnedByPayment ==
  \A o \in Orders :
    \/ row[o].status \in {"completed", "refunded"}
    \/ redeemed[o] # NoCoupon
    \/ o \in verified
    => money[o] \in {"free", "paid", "returned"}

\* A payment that no two calls had in hand at once, and no refund died on, says
\* what Razorpay says: it is completed exactly while the money is there, once
\* its verification has reported so.
UndisturbedAgrees ==
  \A o \in Orders \ disturbed :
    (\A k \in Calls : o \notin InHand(k)) =>
      /\ row[o].status = "completed" => money[o] \in {"free", "paid"}
      /\ o \in verified /\ money[o] = "paid" => row[o].status = "completed"
      /\ money[o] = "returned" => row[o].status = "refunded"
=============================================================================
