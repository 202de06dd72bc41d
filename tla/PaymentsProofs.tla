--------------------------- MODULE PaymentsProofs ---------------------------
(***************************************************************************)
(* Payments, proved for every number of users, items, calls and coupons:   *)
(* first its types, and from them its safety.  Without the money nothing   *)
(* is unlocked, because every call that will still write an unlocked       *)
(* status saw the money first.  The uses of a coupon are conserved,        *)
(* because an assignment's id is never given again and the unique index    *)
(* lets a payment redeem once.  And a payment that only one call at a time *)
(* had in hand agrees with Razorpay, because that call writes what it      *)
(* knows of the row and of the money.                                      *)
(***************************************************************************)
EXTENDS Payments, FiniteSetTheorems, TLAPS

USE DEF vars, rowVars, couponVars, historyVars

-----------------------------------------------------------------------------
(* Types.                                                                  *)

LEMMA Constants ==
  /\ NoRow \in Row /\ Pending \in Row
  /\ [status |-> "removed", coupon |-> NoCoupon] \in Row
  /\ Idle \in Call
  /\ NoAssignment \in Assignment
  /\ NoOrder \notin Orders /\ NoCoupon \notin Assignments
  BY DEF NoRow, Row, Pending, Idle, Call, NoAssignment, Assignment, NoOrder,
         Orders, NoCoupon, Assignments

\* A call that ends or moves on keeps the calls typed.
LEMMA GoTyped ==
  ASSUME CallsTyped, NEW k \in Calls, NEW new \in Call, Go(k, new),
         \A o \in Orders : buyer[o] \in Users => buyer'[o] \in Users,
         new.pc \in {"stale", "cut", "free"} => new.user \in Users,
         new.pc \in {"stash", "save", "write", "redeem", "take", "refund",
                     "returned"} =>
           new.order \in Orders /\ buyer'[new.order] \in Users
  PROVE  CallsTyped'
<1>1. call' \in [Calls -> Call]
  BY DEF CallsTyped, Go
<1>2. ASSUME NEW j \in Calls
      PROVE  /\ call'[j].pc \in {"stale", "cut", "free"} =>
                  call'[j].user \in Users
             /\ call'[j].pc \in {"stash", "save", "write", "redeem", "take",
                                 "refund", "returned"} =>
                  /\ call'[j].order \in Orders
                  /\ buyer'[call'[j].order] \in Users
  <2>1. CASE j = k
    BY <2>1 DEF CallsTyped, Go
  <2>2. CASE j # k
    BY <2>2 DEF CallsTyped, Go
  <2> QED
    BY <2>1, <2>2
<1> QED
  BY <1>1, <1>2 DEF CallsTyped

LEMMA ReturnTyped ==
  ASSUME CallsTyped, NEW k \in Calls, Return(k),
         \A o \in Orders : buyer[o] \in Users => buyer'[o] \in Users
  PROVE  CallsTyped'
<1>1. Idle \in Call /\ Idle.pc = "idle"
  BY Constants DEF Idle
<1> QED
  BY <1>1, GoTyped DEF Return

LEMMA CallsKept ==
  ASSUME CallsTyped, call' = call,
         \A o \in Orders : buyer[o] \in Users => buyer'[o] \in Users
  PROVE  CallsTyped'
  BY DEF CallsTyped

LEMMA NewRowTyped ==
  ASSUME RowsTyped, NEW o \in Orders, NEW u \in Users,
         NEW i \in Items \cup {None}, NEW new \in Row,
         NEW where \in {"free", "open"}, NewRow(o, u, i, new, where)
  PROVE  /\ RowsTyped'
         /\ buyer'[o] = u
         /\ \A p \in Orders : buyer[p] \in Users => buyer'[p] \in Users
  BY DEF RowsTyped, NewRow, Exists

LEMMA NewAssignmentTyped ==
  ASSUME CouponsTyped, NEW u \in Users, NewAssignment(u),
         UNCHANGED <<open, redeemed>>
  PROVE  /\ CouponsTyped'
         /\ made' = made + 1
         /\ assigned'[u].id = made + 1
         /\ \A v \in Users \ {u} : assigned'[v] = assigned[v]
  BY BoundsAssumption, MaximaAssumption
  DEF CouponsTyped, NewAssignment, Assignment, Assignments

LEMMA TakeTyped ==
  ASSUME HistoryTyped, NEW S \in SUBSET Orders, TakeInHand(S),
         UNCHANGED <<verified, faults>>
  PROVE  HistoryTyped'
  BY DEF HistoryTyped, TakeInHand

LEMMA RowsKept ==
  ASSUME RowsTyped, UNCHANGED <<rowVars, money>> PROVE RowsTyped'
  BY DEF RowsTyped, Exists

LEMMA CouponsKept ==
  ASSUME CouponsTyped, UNCHANGED couponVars PROVE CouponsTyped'
  BY DEF CouponsTyped

LEMMA HistoryKept ==
  ASSUME HistoryTyped, UNCHANGED <<historyVars, faults>> PROVE HistoryTyped'
  BY DEF HistoryTyped

-----------------------------------------------------------------------------
(* Ordering keeps the types.                                               *)

LEMMA TypeOrder ==
  ASSUME TypeOK, NEW k \in Calls, NEW u \in Users, NEW i \in Items,
         Order(k, u, i)
  PROVE  TypeOK'
<1> DEFINE new == [Idle EXCEPT !.pc = "stale", !.user = u, !.item = i,
                               !.stale = StaleOf(u, i)]
<1>1. StaleOf(u, i) \in SUBSET Orders
  BY DEF StaleOf, PendingOf
<1>2. /\ new \in Call /\ new.pc = "stale" /\ new.user = u
      /\ Go(k, new) /\ UNCHANGED buyer
  BY <1>1, Constants DEF Order, Call, Idle
<1>3. CallsTyped'
  <2> HIDE DEF new
  <2> QED
    BY <1>2, GoTyped DEF TypeOK
<1> QED
  BY <1>1, <1>3, RowsKept, CouponsKept, TakeTyped DEF TypeOK, Order

LEMMA TypeRemoveStale ==
  ASSUME TypeOK, NEW k \in Calls, NEW o \in Orders, RemoveStale(k, o)
  PROVE  TypeOK'
<1> DEFINE new == [call[k] EXCEPT !.stale = @ \ {o}]
<1>1. /\ new \in Call /\ new.pc = "stale" /\ new.user \in Users
      /\ Go(k, new) /\ UNCHANGED buyer
  BY DEF TypeOK, CallsTyped, RemoveStale, Call
<1>2. CallsTyped'
  <2> HIDE DEF new
  <2> QED
    BY <1>1, GoTyped DEF TypeOK
<1>3. RowsTyped'
  BY Constants DEF TypeOK, RowsTyped, Exists, RemoveStale
<1> QED
  BY <1>2, <1>3, CouponsKept, HistoryKept DEF TypeOK, RemoveStale

LEMMA TypePriceWithCoupon ==
  ASSUME TypeOK, NEW k \in Calls, PriceWithCoupon(k)
  PROVE  TypeOK'
<1> DEFINE u == call[k].user
<1>1. u \in Users
  BY DEF TypeOK, CallsTyped, PriceWithCoupon
<1>2. CouponsTyped'
  <2>1. CASE NewAssignment(u)
    BY <1>1, <2>1, NewAssignmentTyped DEF TypeOK, PriceWithCoupon
  <2>2. CASE UNCHANGED <<assigned, made>>
    BY <2>2, CouponsKept DEF TypeOK, PriceWithCoupon
  <2> QED
    BY <2>1, <2>2 DEF PriceWithCoupon
<1>3. PICK pc \in {"cut", "free"} :
        Go(k, [call[k] EXCEPT !.pc = pc, !.seen.coupon = assigned'[u].id])
  BY DEF PriceWithCoupon
<1> DEFINE new == [call[k] EXCEPT !.pc = pc, !.seen.coupon = assigned'[u].id]
<1>4. assigned'[u].id \in Assignments \cup {NoCoupon}
  BY <1>1, <1>2 DEF CouponsTyped, Assignment
<1>5. /\ new \in Call /\ new.pc = pc /\ new.user = u
      /\ Go(k, new) /\ UNCHANGED buyer
  BY ZenonT(60), <1>3, <1>4 DEF TypeOK, CallsTyped, Call, Row, PriceWithCoupon
<1>6. CallsTyped'
  <2> HIDE DEF new
  <2> QED
    BY <1>1, <1>5, GoTyped DEF TypeOK
<1> QED
  BY <1>2, <1>6, RowsKept, HistoryKept DEF TypeOK, PriceWithCoupon

LEMMA TypeOrderInFull ==
  ASSUME TypeOK, NEW k \in Calls, OrderInFull(k)
  PROVE  TypeOK'
<1>1. call[k].user \in Users /\ call[k].item \in Items \cup {None}
  BY DEF TypeOK, CallsTyped, Call, OrderInFull
<1>2. /\ RowsTyped'
      /\ \A o \in Orders : buyer[o] \in Users => buyer'[o] \in Users
  BY <1>1, Constants, NewRowTyped DEF TypeOK, OrderInFull
<1> QED
  BY <1>2, ReturnTyped, CouponsKept, HistoryKept DEF TypeOK, OrderInFull

LEMMA TypeOrderPlain ==
  ASSUME TypeOK, NEW u \in Users, OrderPlain(u)
  PROVE  TypeOK'
<1>1. [Pending EXCEPT !.status = "completed"] \in Row
  BY Constants DEF Row, Pending
<1>2. /\ RowsTyped'
      /\ \A o \in Orders : buyer[o] \in Users => buyer'[o] \in Users
  BY <1>1, Constants, NewRowTyped DEF TypeOK, OrderPlain
<1> QED
  BY <1>2, CallsKept, CouponsKept, HistoryKept DEF TypeOK, OrderPlain

LEMMA TypeOrderCut ==
  ASSUME TypeOK, NEW k \in Calls, OrderCut(k)
  PROVE  TypeOK'
<1>1. PICK o \in Orders :
        /\ NewRow(o, call[k].user, call[k].item, Pending, "open")
        /\ Go(k, [Idle EXCEPT !.pc = "stash", !.order = o,
                              !.seen.coupon = call[k].seen.coupon])
  BY DEF OrderCut
<1> DEFINE new == [Idle EXCEPT !.pc = "stash", !.order = o,
                               !.seen.coupon = call[k].seen.coupon]
<1>2. call[k].user \in Users /\ call[k].item \in Items \cup {None}
  BY DEF TypeOK, CallsTyped, Call, OrderCut
<1>3. /\ RowsTyped' /\ buyer'[o] \in Users
      /\ \A p \in Orders : buyer[p] \in Users => buyer'[p] \in Users
  BY <1>1, <1>2, Constants, NewRowTyped DEF TypeOK
<1>4. /\ new \in Call /\ new.pc = "stash" /\ new.order = o /\ Go(k, new)
  BY <1>1 DEF TypeOK, CallsTyped, Call, Row, Idle, NoRow
<1>5. CallsTyped'
  <2> HIDE DEF new
  <2> QED
    BY <1>3, <1>4, GoTyped DEF TypeOK
<1> QED
  BY <1>3, <1>5, CouponsKept, HistoryKept DEF TypeOK, OrderCut

LEMMA TypeOrderFree ==
  ASSUME TypeOK, NEW k \in Calls, OrderFree(k)
  PROVE  TypeOK'
<1> DEFINE a == call[k].seen.coupon
           paid == [status |-> "completed", coupon |-> a]
<1>1. PICK o \in Orders :
        /\ NewRow(o, call[k].user, call[k].item, paid, "free")
        /\ Go(k, [Idle EXCEPT !.pc = "redeem", !.order = o, !.seen.coupon = a])
  BY DEF OrderFree
<1> DEFINE new == [Idle EXCEPT !.pc = "redeem", !.order = o, !.seen.coupon = a]
<1>2. /\ call[k].user \in Users /\ call[k].item \in Items \cup {None}
      /\ paid \in Row
  BY DEF TypeOK, CallsTyped, Call, Row, OrderFree
<1>3. /\ RowsTyped' /\ buyer'[o] \in Users
      /\ \A p \in Orders : buyer[p] \in Users => buyer'[p] \in Users
  BY <1>1, <1>2, NewRowTyped DEF TypeOK
<1>4. new \in Call /\ new.pc = "redeem" /\ new.order = o /\ Go(k, new)
  BY <1>1 DEF TypeOK, CallsTyped, Call, Row, Idle, NoRow
<1>5. CallsTyped'
  <2> HIDE DEF new
  <2> QED
    BY <1>3, <1>4, GoTyped DEF TypeOK
<1> QED
  BY <1>3, <1>5, CouponsKept, HistoryKept DEF TypeOK, OrderFree

LEMMA TypeStashRead ==
  ASSUME TypeOK, NEW k \in Calls, StashRead(k)
  PROVE  TypeOK'
<1> DEFINE o == call[k].order
<1>1. o \in Orders /\ buyer[o] \in Users /\ UNCHANGED buyer
  BY DEF TypeOK, CallsTyped, StashRead
<1>2. CASE Exists(o)
  <2> DEFINE new == [call[k] EXCEPT !.pc = "save",
                                    !.seen.status = row[o].status]
  <2>1. call[k] \in Call /\ row[o] \in Row
    BY <1>1 DEF TypeOK, CallsTyped, RowsTyped
  <2>2. new \in Call /\ new.pc = "save" /\ new.order = o
    BY <2>1 DEF Call, Row
  <2>3. Go(k, new)
    BY <1>2 DEF StashRead
  <2>4. CallsTyped'
    <3> HIDE DEF new
    <3> QED
      BY <1>1, <2>2, <2>3, GoTyped DEF TypeOK
  <2>5. HistoryTyped'
    BY <1>1, <1>2, TakeTyped DEF TypeOK, StashRead
  <2> QED
    BY <2>4, <2>5, RowsKept, CouponsKept DEF TypeOK, StashRead
<1>3. CASE ~Exists(o)
  BY <1>3, RowsKept, ReturnTyped, CouponsKept, HistoryKept
  DEF TypeOK, StashRead
<1> QED
  BY <1>2, <1>3

LEMMA TypeStashSave ==
  ASSUME TypeOK, NEW k \in Calls, StashSave(k)
  PROVE  TypeOK'
<1>1. RowsTyped'
  BY DEF TypeOK, RowsTyped, Exists, CallsTyped, Call, StashSave
<1> QED
  BY <1>1, ReturnTyped, CouponsKept, HistoryKept DEF TypeOK, StashSave

-----------------------------------------------------------------------------
(* So do paying, verifying, redeeming and refunding.                       *)

LEMMA TypePay ==
  ASSUME TypeOK, NEW o \in Orders, Pay(o)
  PROVE  TypeOK'
<1>1. RowsTyped'
  BY DEF TypeOK, RowsTyped, Exists, Pay
<1> QED
  BY <1>1, CallsKept, CouponsKept, HistoryKept DEF TypeOK, Pay

LEMMA TypeVerifyRead ==
  ASSUME TypeOK, NEW k \in Calls, NEW o \in Orders,
         NEW c \in {"completed", "failed"}, VerifyRead(k, o, c)
  PROVE  TypeOK'
<1> DEFINE new == [Idle EXCEPT !.pc = "write", !.order = o, !.seen = row[o],
                               !.claim = c]
<1>1. /\ new \in Call /\ new.pc = "write" /\ new.order = o
      /\ Go(k, new) /\ UNCHANGED buyer
  BY Constants DEF TypeOK, RowsTyped, VerifyRead, Call, Idle
<1>2. buyer[o] \in Users
  BY DEF TypeOK, RowsTyped, Exists, VerifyRead
<1>3. CallsTyped'
  <2> HIDE DEF new
  <2> QED
    BY <1>1, <1>2, GoTyped DEF TypeOK
<1> QED
  BY <1>3, RowsKept, CouponsKept, TakeTyped DEF TypeOK, VerifyRead

LEMMA TypeVerifyWrite ==
  ASSUME TypeOK, NEW k \in Calls, VerifyWrite(k)
  PROVE  TypeOK'
<1> DEFINE o == call[k].order
           new == [Idle EXCEPT !.pc = "redeem", !.order = o,
                               !.seen.coupon = call[k].seen.coupon]
<1>1. /\ o \in Orders /\ buyer[o] \in Users /\ UNCHANGED buyer
      /\ call[k].seen \in Row /\ call[k].claim \in {"none", "completed", "failed"}
  BY DEF TypeOK, CallsTyped, Call, VerifyWrite
<1>2. RowsTyped' /\ HistoryTyped'
  BY <1>1 DEF TypeOK, RowsTyped, HistoryTyped, VerifyWrite, Row, Exists
<1>3. CASE Go(k, new)
  <2>1. new \in Call /\ new.pc = "redeem" /\ new.order = o
    BY <1>1 DEF Call, Row, Idle, NoRow
  <2>2. CallsTyped'
    <3> HIDE DEF new
    <3> QED
      BY <1>1, <1>3, <2>1, GoTyped DEF TypeOK
  <2> QED
    BY <1>2, <2>2, CouponsKept DEF TypeOK, VerifyWrite
<1>4. CASE Return(k)
  BY <1>1, <1>2, <1>4, ReturnTyped, CouponsKept DEF TypeOK, VerifyWrite
<1> QED
  BY <1>3, <1>4 DEF VerifyWrite
LEMMA TypeRedeemRead ==
  ASSUME TypeOK, NEW k \in Calls, RedeemRead(k)
  PROVE  TypeOK'
<1>1. CASE redeemed[call[k].order] = NoCoupon
  <2> DEFINE new == [call[k] EXCEPT !.pc = "take"]
  <2>1. /\ call[k] \in Call
        /\ call[k].order \in Orders /\ buyer[call[k].order] \in Users
    BY DEF TypeOK, CallsTyped, RedeemRead
  <2>2. /\ new \in Call /\ new.pc = "take" /\ new.order = call[k].order
        /\ Go(k, new) /\ UNCHANGED buyer
    BY <1>1, <2>1 DEF Call, RedeemRead
  <2>3. CallsTyped'
    <3> HIDE DEF new
    <3> QED
      BY <2>1, <2>2, GoTyped DEF TypeOK
  <2> QED
    BY <2>3, RowsKept, CouponsKept, HistoryKept DEF TypeOK, RedeemRead
<1>2. CASE redeemed[call[k].order] # NoCoupon
  BY <1>2, RowsKept, ReturnTyped, CouponsKept, HistoryKept
  DEF TypeOK, RedeemRead
<1> QED
  BY <1>1, <1>2

LEMMA TypeRedeemTake ==
  ASSUME TypeOK, NEW k \in Calls, RedeemTake(k)
  PROVE  TypeOK'
<1>1. CouponsTyped'
  <2>1. /\ call[k].order \in Orders /\ buyer[call[k].order] \in Users
        /\ call[k].seen.coupon \in Assignments \cup {NoCoupon}
    BY DEF TypeOK, CallsTyped, Call, Row, RedeemTake
  <2> QED
    BY <2>1 DEF TypeOK, CouponsTyped, Assignment, Usable, RedeemTake
<1> QED
  BY <1>1, RowsKept, ReturnTyped, HistoryKept DEF TypeOK, RedeemTake

LEMMA TypeRefundRead ==
  ASSUME TypeOK, NEW k \in Calls, NEW o \in Orders, RefundRead(k, o)
  PROVE  TypeOK'
<1> DEFINE new == [Idle EXCEPT !.pc = "refund", !.order = o, !.seen = row[o]]
<1>1. /\ new \in Call /\ new.pc = "refund" /\ new.order = o
      /\ Go(k, new) /\ UNCHANGED buyer
  BY Constants DEF TypeOK, RowsTyped, RefundRead, Call, Idle
<1>2. buyer[o] \in Users
  BY DEF TypeOK, RowsTyped, Exists, RefundRead
<1>3. CallsTyped'
  <2> HIDE DEF new
  <2> QED
    BY <1>1, <1>2, GoTyped DEF TypeOK
<1> QED
  BY <1>3, RowsKept, CouponsKept, TakeTyped DEF TypeOK, RefundRead

LEMMA TypeRefundPost ==
  ASSUME TypeOK, NEW k \in Calls, RefundPost(k)
  PROVE  TypeOK'
<1> DEFINE o == call[k].order
<1>1. call[k] \in Call /\ o \in Orders /\ buyer[o] \in Users /\ UNCHANGED buyer
  BY DEF TypeOK, CallsTyped, RefundPost
<1>2. RowsTyped'
  BY <1>1 DEF TypeOK, RowsTyped, Exists, RefundPost
<1>3. CASE money[o] = "paid"
  <2> DEFINE new == [call[k] EXCEPT !.pc = "returned"]
  <2>1. new \in Call /\ new.pc = "returned" /\ new.order = o /\ Go(k, new)
    BY <1>1, <1>3 DEF Call, RefundPost
  <2>2. CallsTyped'
    <3> HIDE DEF new
    <3> QED
      BY <1>1, <2>1, GoTyped DEF TypeOK
  <2> QED
    BY <1>2, <2>2, CouponsKept, HistoryKept DEF TypeOK, RefundPost
<1>4. CASE money[o] # "paid"
  BY <1>2, <1>4, ReturnTyped, CouponsKept, HistoryKept DEF TypeOK, RefundPost
<1> QED
  BY <1>3, <1>4

LEMMA TypeRefundSave ==
  ASSUME TypeOK, NEW k \in Calls, RefundSave(k)
  PROVE  TypeOK'
<1>1. call[k].order \in Orders /\ buyer[call[k].order] \in Users
      /\ call[k].seen \in Row
  BY DEF TypeOK, CallsTyped, Call, RefundSave
<1>2. RowsTyped'
  BY <1>1 DEF TypeOK, RowsTyped, Exists, Row, RefundSave
<1> QED
  BY <1>2, ReturnTyped, CouponsKept, HistoryKept DEF TypeOK, RefundSave

LEMMA TypeAbandon ==
  ASSUME TypeOK, NEW k \in Calls, Abandon(k)
  PROVE  TypeOK'
<1>1. HistoryTyped'
  BY BoundsAssumption
  DEF TypeOK, HistoryTyped, CallsTyped, Abandon, Fault
<1> QED
  BY <1>1, RowsKept, ReturnTyped, CouponsKept DEF TypeOK, Abandon

-----------------------------------------------------------------------------
(* So do the coupons.                                                      *)

LEMMA TypeNewAssignment ==
  ASSUME TypeOK, NEW u \in Users, Preview(u) \/ Grant(u)
  PROVE  TypeOK'
  BY NewAssignmentTyped, RowsKept, CallsKept, HistoryKept
  DEF TypeOK, Preview, Grant

LEMMA TypeRevoke ==
  ASSUME TypeOK, NEW u \in Users, Revoke(u)
  PROVE  TypeOK'
<1>1. CouponsTyped'
  BY Constants DEF TypeOK, CouponsTyped, Revoke, Dropped
<1> QED
  BY <1>1, RowsKept, CallsKept, HistoryKept DEF TypeOK, Revoke

LEMMA TypeCouponChanges ==
  ASSUME TypeOK, CouponChanges
  PROVE  TypeOK'
<1>1. CouponsTyped'
  BY DEF TypeOK, CouponsTyped, CouponChanges
<1> QED
  BY <1>1, RowsKept, CallsKept, HistoryKept DEF TypeOK, CouponChanges

LEMMA TypeInit == ASSUME Init PROVE TypeOK
  BY BoundsAssumption, Constants
  DEF Init, TypeOK, RowsTyped, Exists, NoRow, CouponsTyped, CallsTyped, Idle,
      HistoryTyped, Assignments

LEMMA TypeStep == ASSUME TypeOK, [Next]_vars PROVE TypeOK'
<1>1. CASE Next
  BY <1>1, TypeOrder, TypeRemoveStale, TypePriceWithCoupon, TypeOrderFree,
     TypeOrderInFull, TypeOrderCut, TypeOrderPlain, TypeStashRead,
     TypeStashSave, TypePay, TypeVerifyRead, TypeVerifyWrite, TypeRedeemRead,
     TypeRedeemTake, TypeRefundRead, TypeRefundPost, TypeRefundSave,
     TypeAbandon, TypeNewAssignment, TypeRevoke, TypeCouponChanges DEF Next
<1>2. CASE UNCHANGED vars
  BY <1>2, RowsKept, CouponsKept, CallsKept, HistoryKept DEF TypeOK
<1> QED
  BY <1>1, <1>2

\* Every variable of payments and coupons keeps to its type: a row has a buyer,
\* a call has the payment or the user that its point in the code calls for, and
\* no assignment is ever used below zero.
THEOREM TypeCorrect == Spec => []TypeOK
<1>1. Init => TypeOK
  BY TypeInit
<1>2. TypeOK /\ [Next]_vars => TypeOK'
  BY TypeStep
<1> QED
  BY <1>1, <1>2, PTL DEF Spec

-----------------------------------------------------------------------------
(* No unlock without the money.                                            *)

Taken == {"free", "paid", "returned"}
Unlocking == {"completed", "refunded"}

\* What a call in state c implies of the money m.
Knows(c, m) ==
  /\ c.pc = "write" /\ c.claim = "completed" => m[c.order] \in Taken
  /\ c.pc \in {"redeem", "take", "refund", "returned"} => m[c.order] \in Taken
  /\ c.pc = "save" /\ c.seen.status \in Unlocking => m[c.order] \in Taken

CallsSawMoney == \A k \in Calls : Knows(call[k], money)

\* Without a row there is no order at Razorpay.
MoneyHasBuyer == \A o \in Orders : buyer[o] = None => money[o] = "none"

MoneyInv == TypeOK /\ MoneyHasBuyer /\ EarnedByPayment /\ CallsSawMoney

\* Money that was taken stays taken.
TakenStays == \A o \in Orders : money[o] \in Taken => money'[o] \in Taken

LEMMA NewRowMoney ==
  ASSUME TypeOK, MoneyHasBuyer, NEW o \in Orders, NEW u \in Users,
         NEW i \in Items \cup {None}, NEW new, NEW where \in {"free", "open"},
         NewRow(o, u, i, new, where)
  PROVE  TakenStays /\ MoneyHasBuyer'
  BY NoneAssumption DEF TypeOK, RowsTyped, MoneyHasBuyer, TakenStays, Taken,
                        NewRow

LEMMA EarnedKept ==
  ASSUME EarnedByPayment, TakenStays,
         \A o \in Orders : row'[o].status \in Unlocking =>
           row[o].status \in Unlocking \/ money'[o] \in Taken,
         \A o \in Orders : redeemed'[o] # NoCoupon =>
           redeemed[o] # NoCoupon \/ money'[o] \in Taken,
         \A o \in verified' : o \in verified \/ money'[o] \in Taken
  PROVE  EarnedByPayment'
  BY DEF EarnedByPayment, TakenStays, Taken, Unlocking

\* A call keeps its knowledge while it stays where it is.
LEMMA KnowledgeKept ==
  ASSUME CallsTyped, NEW k \in Calls, Knows(call[k], money), TakenStays
  PROVE  Knows(call[k], money')
<1>1. call[k].pc \in {"write", "redeem", "take", "refund", "returned", "save"}
        => call[k].order \in Orders
  BY DEF CallsTyped
<1> QED
  BY <1>1 DEF Knows, TakenStays

LEMMA IdleKnows == ASSUME NEW m PROVE Knows(Idle, m)
  BY DEF Knows, Idle

LEMMA GoKnows ==
  ASSUME CallsTyped, CallsSawMoney, TakenStays, NEW k \in Calls, NEW new,
         Go(k, new), Knows(new, money')
  PROVE  CallsSawMoney'
<1>1. ASSUME NEW j \in Calls PROVE Knows(call'[j], money')
  <2>1. CASE j = k
    BY <2>1 DEF Go, CallsTyped
  <2>2. CASE j # k
    BY <2>2, KnowledgeKept DEF Go, CallsTyped, CallsSawMoney
  <2> QED
    BY <2>1, <2>2
<1> QED
  BY <1>1 DEF CallsSawMoney

LEMMA ReturnKnows ==
  ASSUME CallsTyped, CallsSawMoney, TakenStays, NEW k \in Calls, Return(k)
  PROVE  CallsSawMoney'
  BY GoKnows, IdleKnows DEF Return

LEMMA StayKnows ==
  ASSUME CallsTyped, CallsSawMoney, TakenStays, call' = call
  PROVE  CallsSawMoney'
  BY KnowledgeKept DEF CallsSawMoney

\* A step in which no money moves, nothing is redeemed or verified, and no
\* status unlocks.
Quiet ==
  /\ UNCHANGED <<money, buyer, redeemed, verified>>
  /\ \A o \in Orders :
       row'[o].status \in Unlocking => row[o].status \in Unlocking

LEMMA QuietKeeps ==
  ASSUME MoneyInv, Quiet
  PROVE  MoneyHasBuyer' /\ EarnedByPayment' /\ TakenStays
<1>1. TakenStays
  BY DEF Quiet, TakenStays
<1>2. EarnedByPayment'
  BY <1>1, EarnedKept DEF MoneyInv, Quiet
<1> QED
  BY <1>1, <1>2 DEF MoneyInv, MoneyHasBuyer, Quiet

Kept == MoneyHasBuyer' /\ EarnedByPayment' /\ CallsSawMoney'

LEMMA MoneyOrder ==
  ASSUME MoneyInv, NEW k \in Calls, NEW u \in Users, NEW i \in Items,
         Order(k, u, i)
  PROVE  Kept
<1> DEFINE new == [Idle EXCEPT !.pc = "stale", !.user = u, !.item = i,
                               !.stale = StaleOf(u, i)]
<1>1. Quiet /\ Go(k, new)
  BY DEF Order, Quiet
<1>2. Knows(new, money')
  BY DEF Knows, Idle
<1> QED
  BY <1>1, <1>2, QuietKeeps, GoKnows DEF Kept, MoneyInv, TypeOK

LEMMA MoneyRemoveStale ==
  ASSUME MoneyInv, NEW k \in Calls, NEW o \in Orders, RemoveStale(k, o)
  PROVE  Kept
<1> DEFINE new == [call[k] EXCEPT !.stale = @ \ {o}]
<1>1. Quiet /\ Go(k, new)
  BY DEF RemoveStale, Quiet, MoneyInv, TypeOK, RowsTyped, Unlocking
<1>2. Knows(new, money')
  BY DEF Knows, RemoveStale, MoneyInv, TypeOK, CallsTyped, Call
<1> QED
  BY <1>1, <1>2, QuietKeeps, GoKnows DEF Kept, MoneyInv, TypeOK

LEMMA MoneyPriceWithCoupon ==
  ASSUME MoneyInv, NEW k \in Calls, PriceWithCoupon(k)
  PROVE  Kept
<1>1. Quiet
  BY DEF PriceWithCoupon, Quiet
<1>2. PICK pc \in {"cut", "free"} :
        Go(k, [call[k] EXCEPT !.pc = pc,
                 !.seen.coupon = assigned'[call[k].user].id])
  BY DEF PriceWithCoupon
<1>3. Knows([call[k] EXCEPT !.pc = pc,
               !.seen.coupon = assigned'[call[k].user].id], money')
  BY DEF Knows, MoneyInv, TypeOK, CallsTyped, Call
<1> QED
  BY <1>1, <1>2, <1>3, QuietKeeps, GoKnows DEF Kept, MoneyInv, TypeOK

LEMMA MoneyAbandon ==
  ASSUME MoneyInv, NEW k \in Calls, Abandon(k)
  PROVE  Kept
<1>1. Quiet /\ Return(k)
  BY DEF Abandon, Quiet
<1> QED
  BY <1>1, QuietKeeps, ReturnKnows DEF Kept, MoneyInv, TypeOK

\* A new row unlocks at once only when it is free.
LEMMA MoneyNewRow ==
  ASSUME MoneyInv, NEW o \in Orders, NEW u \in Users,
         NEW i \in Items \cup {None}, NEW new \in Row,
         NEW where \in {"free", "open"}, NewRow(o, u, i, new, where),
         new.status \in Unlocking => where = "free",
         UNCHANGED <<redeemed, verified>>
  PROVE  /\ MoneyHasBuyer' /\ EarnedByPayment' /\ TakenStays
         /\ money'[o] = where
<1>1. TakenStays /\ MoneyHasBuyer' /\ money'[o] = where
  BY NewRowMoney DEF MoneyInv, TypeOK, RowsTyped, NewRow
<1>2. \A p \in Orders : row'[p].status \in Unlocking =>
        row[p].status \in Unlocking \/ money'[p] \in Taken
  BY <1>1 DEF MoneyInv, TypeOK, RowsTyped, NewRow, Taken
<1> QED
  BY <1>1, <1>2, EarnedKept DEF MoneyInv

LEMMA PendingLocks == Pending \in Row /\ Pending.status \notin Unlocking
  BY Constants DEF Pending, Unlocking

LEMMA MoneyOrderInFull ==
  ASSUME MoneyInv, NEW k \in Calls, OrderInFull(k)
  PROVE  Kept
<1>1. call[k].user \in Users /\ call[k].item \in Items \cup {None}
  BY DEF MoneyInv, TypeOK, CallsTyped, Call, OrderInFull
<1> QED
  BY <1>1, MoneyNewRow, PendingLocks, ReturnKnows
  DEF Kept, MoneyInv, TypeOK, OrderInFull

LEMMA MoneyOrderPlain ==
  ASSUME MoneyInv, NEW u \in Users, OrderPlain(u)
  PROVE  Kept
<1>1. [Pending EXCEPT !.status = "completed"] \in Row
  BY Constants DEF Row, Pending
<1> QED
  BY <1>1, MoneyNewRow, PendingLocks, StayKnows
  DEF Kept, MoneyInv, TypeOK, OrderPlain

LEMMA MoneyOrderCut ==
  ASSUME MoneyInv, NEW k \in Calls, OrderCut(k)
  PROVE  Kept
<1>1. PICK o \in Orders :
        /\ NewRow(o, call[k].user, call[k].item, Pending, "open")
        /\ Go(k, [Idle EXCEPT !.pc = "stash", !.order = o,
                              !.seen.coupon = call[k].seen.coupon])
  BY DEF OrderCut
<1>2. call[k].user \in Users /\ call[k].item \in Items \cup {None}
  BY DEF MoneyInv, TypeOK, CallsTyped, Call, OrderCut
<1>3. MoneyHasBuyer' /\ EarnedByPayment' /\ TakenStays
  BY <1>1, <1>2, MoneyNewRow, PendingLocks DEF OrderCut
<1>4. Knows([Idle EXCEPT !.pc = "stash", !.order = o,
                         !.seen.coupon = call[k].seen.coupon], money')
  BY DEF Knows, Idle
<1> QED
  BY <1>1, <1>3, <1>4, GoKnows DEF Kept, MoneyInv, TypeOK

LEMMA MoneyOrderFree ==
  ASSUME MoneyInv, NEW k \in Calls, OrderFree(k)
  PROVE  Kept
<1> DEFINE paid == [status |-> "completed", coupon |-> call[k].seen.coupon]
<1>1. PICK o \in Orders :
        /\ NewRow(o, call[k].user, call[k].item, paid, "free")
        /\ Go(k, [Idle EXCEPT !.pc = "redeem", !.order = o,
                              !.seen.coupon = call[k].seen.coupon])
  BY DEF OrderFree
<1>2. /\ call[k].user \in Users /\ call[k].item \in Items \cup {None}
      /\ paid \in Row
  BY DEF MoneyInv, TypeOK, CallsTyped, Call, Row, OrderFree
<1>3. MoneyHasBuyer' /\ EarnedByPayment' /\ TakenStays /\ money'[o] = "free"
  BY <1>1, <1>2, MoneyNewRow DEF OrderFree
<1>4. Knows([Idle EXCEPT !.pc = "redeem", !.order = o,
                         !.seen.coupon = call[k].seen.coupon], money')
  BY <1>3 DEF Knows, Idle, Taken
<1> QED
  BY <1>1, <1>3, <1>4, GoKnows DEF Kept, MoneyInv, TypeOK

\* A row that unlocks has money, and the call that saves it knows.
LEMMA MoneyStashRead ==
  ASSUME MoneyInv, NEW k \in Calls, StashRead(k)
  PROVE  Kept
<1> DEFINE o == call[k].order
<1>1. Quiet /\ o \in Orders /\ call[k] \in Call
  BY DEF StashRead, Quiet, MoneyInv, TypeOK, CallsTyped
<1>2. CASE Exists(o)
  <2> DEFINE new == [call[k] EXCEPT !.pc = "save",
                                    !.seen.status = row[o].status]
  <2>1. Go(k, new)
    BY <1>2 DEF StashRead
  <2>2. /\ new.pc = "save" /\ new.order = o
        /\ new.seen.status = row[o].status
    BY <1>1 DEF Call, Row
  <2>3. row[o].status \in Unlocking => money'[o] \in Taken
    BY <1>1 DEF MoneyInv, EarnedByPayment, Quiet, Unlocking, Taken
  <2>4. Knows(new, money')
    <3> HIDE DEF new
    <3> QED
      BY <2>2, <2>3 DEF Knows
  <2> QED
    BY <1>1, <2>1, <2>4, QuietKeeps, GoKnows DEF Kept, MoneyInv, TypeOK
<1>3. CASE ~Exists(o)
  BY <1>1, <1>3, QuietKeeps, ReturnKnows DEF Kept, MoneyInv, TypeOK, StashRead
<1> QED
  BY <1>2, <1>3

LEMMA MoneyStashSave ==
  ASSUME MoneyInv, NEW k \in Calls, StashSave(k)
  PROVE  Kept
<1> DEFINE o == call[k].order
<1>1. o \in Orders /\ UNCHANGED <<money, buyer, redeemed, verified>>
  BY DEF StashSave, MoneyInv, TypeOK, CallsTyped
<1>2. TakenStays
  BY <1>1 DEF TakenStays
<1>3. call[k].seen.status \in Unlocking => money'[o] \in Taken
  BY <1>1 DEF MoneyInv, CallsSawMoney, Knows, StashSave
<1>4. \A p \in Orders : row'[p].status \in Unlocking =>
        row[p].status \in Unlocking \/ money'[p] \in Taken
  BY <1>1, <1>3 DEF MoneyInv, TypeOK, RowsTyped, StashSave
<1> QED
  BY <1>1, <1>2, <1>4, EarnedKept, ReturnKnows
  DEF Kept, MoneyInv, MoneyHasBuyer, TypeOK, StashSave

LEMMA MoneyPay ==
  ASSUME MoneyInv, NEW o \in Orders, Pay(o)
  PROVE  Kept
<1>1. TakenStays /\ MoneyHasBuyer'
  BY DEF Pay, TakenStays, Taken, MoneyHasBuyer, MoneyInv, TypeOK, RowsTyped
<1> QED
  BY <1>1, EarnedKept, StayKnows DEF Kept, MoneyInv, TypeOK, Pay

LEMMA MoneyVerifyRead ==
  ASSUME MoneyInv, NEW k \in Calls, NEW o \in Orders,
         NEW c \in {"completed", "failed"}, VerifyRead(k, o, c)
  PROVE  Kept
<1> DEFINE new == [Idle EXCEPT !.pc = "write", !.order = o, !.seen = row[o],
                               !.claim = c]
<1>1. Quiet /\ Go(k, new)
  BY DEF VerifyRead, Quiet
<1>2. Knows(new, money')
  BY DEF Knows, Idle, VerifyRead, Payable, Taken
<1> QED
  BY <1>1, <1>2, QuietKeeps, GoKnows DEF Kept, MoneyInv, TypeOK

LEMMA MoneyVerifyWrite ==
  ASSUME MoneyInv, NEW k \in Calls, VerifyWrite(k)
  PROVE  Kept
<1> DEFINE o == call[k].order
           done == call[k].claim = "completed"
<1>1. /\ o \in Orders /\ UNCHANGED <<money, buyer, redeemed>>
      /\ call[k].seen \in Row /\ call[k].claim \in {"none", "completed", "failed"}
  BY DEF VerifyWrite, MoneyInv, TypeOK, CallsTyped, Call
<1>2. TakenStays
  BY <1>1 DEF TakenStays
<1>3. done => money'[o] \in Taken
  BY <1>1 DEF MoneyInv, CallsSawMoney, Knows, VerifyWrite
<1>4. \A p \in Orders : row'[p].status \in Unlocking =>
        row[p].status \in Unlocking \/ money'[p] \in Taken
  BY <1>1, <1>3
  DEF MoneyInv, TypeOK, RowsTyped, Row, VerifyWrite, Unlocking
<1>5. \A p \in verified' : p \in verified \/ money'[p] \in Taken
  BY <1>3 DEF VerifyWrite
<1>6. EarnedByPayment' /\ MoneyHasBuyer'
  BY <1>1, <1>2, <1>4, <1>5, EarnedKept DEF MoneyInv, MoneyHasBuyer
<1>7. CallsSawMoney'
  <2>1. CASE done /\ call[k].seen.coupon # NoCoupon
    <3>1. Go(k, [Idle EXCEPT !.pc = "redeem", !.order = o,
                             !.seen.coupon = call[k].seen.coupon])
      BY <2>1 DEF VerifyWrite
    <3>2. Knows([Idle EXCEPT !.pc = "redeem", !.order = o,
                             !.seen.coupon = call[k].seen.coupon], money')
      BY <1>3, <2>1 DEF Knows, Idle
    <3> QED
      BY <1>2, <3>1, <3>2, GoKnows DEF MoneyInv, TypeOK
  <2>2. CASE ~(done /\ call[k].seen.coupon # NoCoupon)
    BY <1>2, <2>2, ReturnKnows DEF MoneyInv, TypeOK, VerifyWrite
  <2> QED
    BY <2>1, <2>2
<1> QED
  BY <1>6, <1>7 DEF Kept

LEMMA MoneyRedeemRead ==
  ASSUME MoneyInv, NEW k \in Calls, RedeemRead(k)
  PROVE  Kept
<1>1. Quiet /\ call[k] \in Call
  BY DEF RedeemRead, Quiet, MoneyInv, TypeOK, CallsTyped
<1>2. CASE redeemed[call[k].order] = NoCoupon
  <2> DEFINE new == [call[k] EXCEPT !.pc = "take"]
  <2>1. Go(k, new) /\ new.pc = "take" /\ new.order = call[k].order
    BY <1>1, <1>2 DEF RedeemRead, Call
  <2>2. money'[call[k].order] \in Taken
    BY <1>1 DEF MoneyInv, CallsSawMoney, Knows, Quiet, RedeemRead
  <2>3. Knows(new, money')
    <3> HIDE DEF new
    <3> QED
      BY <2>1, <2>2 DEF Knows
  <2> QED
    BY <1>1, <2>1, <2>3, QuietKeeps, GoKnows DEF Kept, MoneyInv, TypeOK
<1>3. CASE redeemed[call[k].order] # NoCoupon
  BY <1>1, <1>3, QuietKeeps, ReturnKnows
  DEF Kept, MoneyInv, TypeOK, RedeemRead
<1> QED
  BY <1>2, <1>3

LEMMA MoneyRedeemTake ==
  ASSUME MoneyInv, NEW k \in Calls, RedeemTake(k)
  PROVE  Kept
<1> DEFINE o == call[k].order
<1>1. /\ UNCHANGED <<money, buyer, row, verified>> /\ TakenStays
      /\ o \in Orders
  BY DEF RedeemTake, TakenStays, MoneyInv, TypeOK, CallsTyped
<1>2. money'[o] \in Taken
  BY <1>1 DEF MoneyInv, CallsSawMoney, Knows, RedeemTake
<1>3. \A p \in Orders : redeemed'[p] # NoCoupon =>
        redeemed[p] # NoCoupon \/ money'[p] \in Taken
  BY <1>1, <1>2 DEF RedeemTake, MoneyInv, TypeOK, CouponsTyped
<1> QED
  BY <1>1, <1>3, EarnedKept, ReturnKnows
  DEF Kept, MoneyInv, MoneyHasBuyer, TypeOK, RedeemTake

LEMMA MoneyRefundRead ==
  ASSUME MoneyInv, NEW k \in Calls, NEW o \in Orders, RefundRead(k, o)
  PROVE  Kept
<1> DEFINE new == [Idle EXCEPT !.pc = "refund", !.order = o, !.seen = row[o]]
<1>1. Quiet /\ Go(k, new)
  BY DEF RefundRead, Quiet
<1>2. money'[o] \in Taken
  BY <1>1 DEF MoneyInv, EarnedByPayment, RefundRead, Taken
<1>3. Knows(new, money')
  BY <1>2 DEF Knows, Idle
<1> QED
  BY <1>1, <1>3, QuietKeeps, GoKnows DEF Kept, MoneyInv, TypeOK

LEMMA MoneyRefundPost ==
  ASSUME MoneyInv, NEW k \in Calls, RefundPost(k)
  PROVE  Kept
<1> DEFINE o == call[k].order
<1>1. /\ o \in Orders /\ call[k] \in Call
      /\ UNCHANGED <<buyer, row, redeemed, verified>>
  BY DEF RefundPost, MoneyInv, TypeOK, CallsTyped
<1>2. TakenStays /\ MoneyHasBuyer'
  BY <1>1 DEF RefundPost, TakenStays, MoneyHasBuyer, Taken, MoneyInv, TypeOK,
              RowsTyped
<1>3. EarnedByPayment'
  BY <1>1, <1>2, EarnedKept DEF MoneyInv
<1>4. CASE money[o] = "paid"
  <2> DEFINE new == [call[k] EXCEPT !.pc = "returned"]
  <2>1. Go(k, new) /\ new.pc = "returned" /\ new.order = o
    BY <1>1, <1>4 DEF RefundPost, Call
  <2>2. money'[o] \in Taken
    BY <1>1, <1>2, <1>4 DEF TakenStays, Taken
  <2>3. Knows(new, money')
    <3> HIDE DEF new
    <3> QED
      BY <2>1, <2>2 DEF Knows
  <2> QED
    BY <1>2, <1>3, <2>1, <2>3, GoKnows DEF Kept, MoneyInv, TypeOK
<1>5. CASE money[o] # "paid"
  BY <1>2, <1>3, <1>5, ReturnKnows DEF Kept, MoneyInv, TypeOK, RefundPost
<1> QED
  BY <1>4, <1>5

LEMMA MoneyRefundSave ==
  ASSUME MoneyInv, NEW k \in Calls, RefundSave(k)
  PROVE  Kept
<1> DEFINE o == call[k].order
<1>1. /\ o \in Orders /\ UNCHANGED <<money, buyer, redeemed, verified>>
      /\ TakenStays
  BY DEF RefundSave, TakenStays, MoneyInv, TypeOK, CallsTyped
<1>2. money'[o] \in Taken
  BY <1>1 DEF MoneyInv, CallsSawMoney, Knows, RefundSave
<1>3. \A p \in Orders : row'[p].status \in Unlocking =>
        row[p].status \in Unlocking \/ money'[p] \in Taken
  BY <1>1, <1>2 DEF MoneyInv, TypeOK, RowsTyped, RefundSave
<1> QED
  BY <1>1, <1>3, EarnedKept, ReturnKnows
  DEF Kept, MoneyInv, MoneyHasBuyer, TypeOK, RefundSave

LEMMA MoneyCoupons ==
  ASSUME MoneyInv,
         \/ \E u \in Users : Preview(u) \/ Grant(u) \/ Revoke(u)
         \/ CouponChanges
         \/ UNCHANGED vars
  PROVE  Kept
<1>1. UNCHANGED <<money, buyer, row, verified, call>> /\ TakenStays
  BY DEF Preview, Grant, Revoke, CouponChanges, TakenStays
<1>2. \A p \in Orders : redeemed'[p] # NoCoupon => redeemed[p] # NoCoupon
  BY DEF Preview, Grant, Revoke, Dropped, CouponChanges
<1> QED
  BY <1>1, <1>2, EarnedKept, StayKnows
  DEF Kept, MoneyInv, MoneyHasBuyer, TypeOK

LEMMA MoneyStep == ASSUME MoneyInv, [Next]_vars PROVE MoneyInv'
<1>1. TypeOK'
  BY TypeStep DEF MoneyInv
<1>2. Kept
  BY MoneyOrder, MoneyRemoveStale, MoneyPriceWithCoupon, MoneyAbandon,
     MoneyOrderInFull, MoneyOrderPlain, MoneyOrderCut, MoneyOrderFree,
     MoneyStashRead, MoneyStashSave, MoneyPay, MoneyVerifyRead,
     MoneyVerifyWrite, MoneyRedeemRead, MoneyRedeemTake, MoneyRefundRead,
     MoneyRefundPost, MoneyRefundSave, MoneyCoupons DEF Next
<1> QED
  BY <1>1, <1>2 DEF MoneyInv, Kept

\* Nothing is unlocked, no coupon is used up and no points are given for a
\* payment unless Razorpay took the money for it or it was free, however calls
\* on it overlap and overwrite each other.
THEOREM NothingForNothing == Spec => []EarnedByPayment
<1>1. Init => MoneyInv
  BY TypeInit, IdleKnows
  DEF Init, MoneyInv, MoneyHasBuyer, EarnedByPayment, CallsSawMoney, NoRow
<1>2. MoneyInv /\ [Next]_vars => MoneyInv'
  BY MoneyStep
<1>3. MoneyInv => EarnedByPayment
  BY DEF MoneyInv
<1> QED
  BY <1>1, <1>2, <1>3, PTL DEF Spec

-----------------------------------------------------------------------------
(* The uses of a coupon.                                                   *)

\* The payments that have used assignment a, in the redemptions r.
UsedBy(a, r) == {o \in Orders : r[o] = a}

\* An assignment's id is never given again, and belongs to one user.
IdsMade ==
  /\ \A u \in Users : assigned[u].id \in Nat /\ assigned[u].id <= made
  /\ \A u, v \in Users :
       assigned[u].id = assigned[v].id /\ assigned[u].id # NoCoupon => u = v

Counted ==
  \A u \in Users : assigned[u].id # NoCoupon =>
    assigned[u].left + Cardinality(UsedBy(assigned[u].id, redeemed))
    = assigned[u].total

Owned ==
  \A o \in Orders : redeemed[o] # NoCoupon =>
    buyer[o] \in Users /\ assigned[buyer[o]].id = redeemed[o]

UsesInv == TypeOK /\ IdsMade /\ Counted /\ Owned

LEMMA UsedByFinite ==
  ASSUME NEW a, NEW r
  PROVE  /\ IsFiniteSet(UsedBy(a, r))
         /\ Cardinality(UsedBy(a, r)) \in Nat
<1>1. IsFiniteSet(Orders)
  BY BoundsAssumption, FS_Interval DEF Orders
<1>2. UsedBy(a, r) \in SUBSET Orders
  BY DEF UsedBy
<1> QED
  BY <1>1, <1>2, FS_Subset, FS_CardinalityType

UsesKept == IdsMade' /\ Counted' /\ Owned'

\* A step that leaves the coupons alone may only give a new row its buyer.
LEMMA UsesStay ==
  ASSUME UsesInv, UNCHANGED <<assigned, made, redeemed>>,
         \A o \in Orders : buyer'[o] = buyer[o] \/ buyer[o] = None
  PROVE  UsesKept
<1>1. IdsMade' /\ Counted'
  BY DEF UsesInv, IdsMade, Counted
<1>2. Owned'
  BY NoneAssumption DEF UsesInv, Owned
<1> QED
  BY <1>1, <1>2 DEF UsesKept

LEMMA UsesNewRow ==
  ASSUME UsesInv, NEW o \in Orders, NEW u, NEW i, NEW new, NEW where,
         NewRow(o, u, i, new, where), UNCHANGED <<assigned, made, redeemed>>
  PROVE  UsesKept
<1>1. \A p \in Orders : buyer'[p] = buyer[p] \/ buyer[p] = None
  BY DEF NewRow, UsesInv, TypeOK, RowsTyped
<1> QED
  BY <1>1, UsesStay

LEMMA UsesNewAssignment ==
  ASSUME UsesInv, NEW u \in Users, assigned[u].id = NoCoupon,
         NewAssignment(u), UNCHANGED <<redeemed, buyer>>
  PROVE  UsesKept
<1> DEFINE a == made + 1
<1>1. PICK n \in Maxima : assigned' = [assigned EXCEPT ![u] =
                            [id |-> a, left |-> n, total |-> n]]
  BY DEF NewAssignment
<1>2. made \in Nat /\ made' = a /\ n \in Nat
  BY BoundsAssumption, MaximaAssumption
  DEF NewAssignment, UsesInv, TypeOK, CouponsTyped
<1>3. /\ assigned'[u] = [id |-> a, left |-> n, total |-> n]
      /\ \A v \in Users : v # u => assigned'[v] = assigned[v]
  BY <1>1 DEF UsesInv, TypeOK, CouponsTyped
<1>4. IdsMade'
  BY <1>2, <1>3 DEF UsesInv, IdsMade
<1>5. UsedBy(a, redeemed) = {}
  BY <1>2 DEF UsedBy, UsesInv, Owned, IdsMade, NoCoupon
<1>6. Cardinality(UsedBy(a, redeemed)) = 0
  BY <1>5, FS_EmptySet
<1>7. ASSUME NEW v \in Users, assigned'[v].id # NoCoupon
      PROVE  assigned'[v].left
               + Cardinality(UsedBy(assigned'[v].id, redeemed'))
             = assigned'[v].total
  <2>1. CASE v = u
    BY <1>2, <1>3, <1>6, <2>1
  <2>2. CASE v # u
    BY <1>3, <1>7, <2>2 DEF UsesInv, Counted
  <2> QED
    BY <2>1, <2>2
<1>8. Counted'
  BY <1>7 DEF Counted, UsedBy
<1>9. Owned'
  BY <1>3 DEF UsesInv, Owned
<1> QED
  BY <1>4, <1>8, <1>9 DEF UsesKept

LEMMA UsesPriceWithCoupon ==
  ASSUME UsesInv, NEW k \in Calls, PriceWithCoupon(k)
  PROVE  UsesKept
<1>1. call[k].user \in Users /\ UNCHANGED <<redeemed, buyer>>
  BY DEF PriceWithCoupon, UsesInv, TypeOK, CallsTyped
<1>2. CASE /\ assigned[call[k].user].id = NoCoupon
           /\ NewAssignment(call[k].user)
  BY <1>1, <1>2, UsesNewAssignment
<1>3. CASE UNCHANGED <<assigned, made>>
  BY <1>1, <1>3, UsesStay
<1> QED
  BY <1>2, <1>3 DEF PriceWithCoupon

\* The use that is taken is the use that is recorded, and nobody else's.
LEMMA UsesRedeemTake ==
  ASSUME UsesInv, NEW k \in Calls, RedeemTake(k)
  PROVE  UsesKept
<1> DEFINE o == call[k].order
           a == call[k].seen.coupon
           b == buyer[o]
<1>1. o \in Orders /\ b \in Users /\ UNCHANGED <<buyer, made>>
  BY DEF RedeemTake, UsesInv, TypeOK, CallsTyped
<1>2. CASE ~(Usable(o, a) /\ Unredeemed(o))
  BY <1>2, UsesStay DEF RedeemTake
<1>3. CASE Usable(o, a) /\ Unredeemed(o)
  <2>1. /\ assigned[b].id = a /\ assigned[b].left > 0
        /\ redeemed[o] = NoCoupon
    BY <1>3 DEF Usable, Unredeemed
  <2>2. /\ assigned' = [assigned EXCEPT ![b].left = @ - 1]
        /\ redeemed' = [redeemed EXCEPT ![o] = a]
    BY <1>3 DEF RedeemTake
  <2>3. \A v \in Users : /\ assigned[v] \in Assignment
                         /\ assigned'[v].id = assigned[v].id
                         /\ assigned'[v].total = assigned[v].total
                         /\ assigned'[v].left =
                              IF v = b THEN assigned[v].left - 1
                                       ELSE assigned[v].left
    BY <1>1, <2>2 DEF UsesInv, TypeOK, CouponsTyped, Assignment
  <2>4. IdsMade'
    BY <1>1, <2>3 DEF UsesInv, IdsMade
  <2>5. \A p \in Orders : redeemed'[p] = IF p = o THEN a ELSE redeemed[p]
    BY <1>1, <2>2 DEF UsesInv, TypeOK, CouponsTyped
  <2>6. Owned'
    BY <1>1, <2>1, <2>3, <2>5 DEF UsesInv, Owned
  <2>7. ASSUME NEW v \in Users, assigned[v].id # NoCoupon
        PROVE  assigned'[v].left
                 + Cardinality(UsedBy(assigned[v].id, redeemed'))
               = assigned'[v].total
    <3>1. /\ Cardinality(UsedBy(assigned[v].id, redeemed)) \in Nat
          /\ IsFiniteSet(UsedBy(assigned[v].id, redeemed))
      BY UsedByFinite
    <3>2. assigned[v].left \in Nat /\ assigned[v].total \in Nat
      BY <2>3 DEF Assignment
    <3>3. assigned[v].left + Cardinality(UsedBy(assigned[v].id, redeemed))
          = assigned[v].total
      BY <2>7 DEF UsesInv, Counted
    <3>4. CASE v = b
      <4>1. UsedBy(assigned[v].id, redeemed')
            = UsedBy(assigned[v].id, redeemed) \cup {o}
        BY <1>1, <2>1, <2>5, <3>4 DEF UsedBy
      <4>2. o \notin UsedBy(assigned[v].id, redeemed)
        BY <2>1, <2>7 DEF UsedBy
      <4>3. Cardinality(UsedBy(assigned[v].id, redeemed'))
            = Cardinality(UsedBy(assigned[v].id, redeemed)) + 1
        BY <3>1, <4>1, <4>2, FS_AddElement
      <4> QED
        BY <2>3, <3>1, <3>2, <3>3, <3>4, <4>3
    <3>5. CASE v # b
      <4>1. assigned[v].id # a
        BY <1>1, <2>1, <2>7, <3>5 DEF UsesInv, IdsMade
      <4>2. UsedBy(assigned[v].id, redeemed')
            = UsedBy(assigned[v].id, redeemed)
        BY <1>1, <2>1, <2>5, <2>7, <4>1 DEF UsedBy
      <4> QED
        BY <2>3, <3>3, <3>5, <4>2
    <3> QED
      BY <3>4, <3>5
  <2>8. Counted'
    BY <2>3, <2>7 DEF Counted, UsedBy
  <2> QED
    BY <2>4, <2>6, <2>8 DEF UsesKept
<1> QED
  BY <1>2, <1>3

\* The redemptions of a deleted assignment go with it, and no others.
LEMMA UsesRevoke ==
  ASSUME UsesInv, NEW u \in Users, Revoke(u)
  PROVE  UsesKept
<1> DEFINE a == assigned[u].id
<1>1. /\ a # NoCoupon /\ UNCHANGED <<buyer, made>>
      /\ assigned' = [assigned EXCEPT ![u] = NoAssignment]
      /\ redeemed' = Dropped(a)
  BY DEF Revoke
<1>2. /\ assigned'[u] = NoAssignment
      /\ \A v \in Users : v # u => assigned'[v] = assigned[v]
  BY <1>1 DEF UsesInv, TypeOK, CouponsTyped
<1>3. made \in Nat
  BY DEF UsesInv, TypeOK, CouponsTyped
<1>4. IdsMade'
  BY <1>1, <1>2, <1>3 DEF UsesInv, IdsMade, NoAssignment, NoCoupon
<1>5. \A p \in Orders : redeemed'[p] = IF redeemed[p] = a THEN NoCoupon
                                                          ELSE redeemed[p]
  BY <1>1 DEF Dropped
<1>6. ASSUME NEW v \in Users, assigned'[v].id # NoCoupon
      PROVE  assigned'[v].left
               + Cardinality(UsedBy(assigned'[v].id, redeemed'))
             = assigned'[v].total
  <2>1. v # u
    BY <1>2, <1>6 DEF NoAssignment
  <2>2. assigned'[v] = assigned[v] /\ assigned[v].id # a
    BY <1>1, <1>2, <1>6, <2>1 DEF UsesInv, IdsMade
  <2>3. UsedBy(assigned[v].id, redeemed') = UsedBy(assigned[v].id, redeemed)
    BY <1>5, <1>6, <2>2 DEF UsedBy
  <2> QED
    BY <1>6, <2>2, <2>3 DEF UsesInv, Counted
<1>7. Counted'
  BY <1>6 DEF Counted, UsedBy
<1>8. Owned'
  BY <1>1, <1>2, <1>5 DEF UsesInv, Owned
<1> QED
  BY <1>4, <1>7, <1>8 DEF UsesKept

LEMMA UsesStep == ASSUME UsesInv, [Next]_vars PROVE UsesInv'
<1>1. TypeOK'
  BY TypeStep DEF UsesInv
<1>2. ASSUME NEW k \in Calls,
             \/ \E u \in Users, i \in Items : Order(k, u, i)
             \/ \E o \in Orders :
                  \/ RemoveStale(k, o)
                  \/ RefundRead(k, o)
                  \/ \E c \in {"completed", "failed"} : VerifyRead(k, o, c)
             \/ StashRead(k) \/ StashSave(k) \/ VerifyWrite(k)
             \/ RedeemRead(k) \/ RefundPost(k) \/ RefundSave(k) \/ Abandon(k)
      PROVE  UsesKept
  <2>1. UNCHANGED <<assigned, made, redeemed, buyer>>
    BY <1>2 DEF Order, RemoveStale, RefundRead, VerifyRead, StashRead,
                StashSave, VerifyWrite, RedeemRead, RefundPost, RefundSave,
                Abandon
  <2> QED
    BY <2>1, UsesStay
<1>3. ASSUME NEW k \in Calls, OrderFree(k) \/ OrderInFull(k) \/ OrderCut(k)
      PROVE  UsesKept
  BY <1>3, UsesNewRow DEF OrderFree, OrderInFull, OrderCut
<1>4. ASSUME NEW u \in Users, OrderPlain(u) PROVE UsesKept
  BY <1>4, UsesNewRow DEF OrderPlain
<1>5. ASSUME NEW u \in Users, Preview(u) \/ Grant(u) PROVE UsesKept
  BY <1>5, UsesNewAssignment DEF Preview, Grant
<1>6. ASSUME \/ \E o \in Orders : Pay(o)
             \/ CouponChanges
             \/ UNCHANGED vars
      PROVE  UsesKept
  BY <1>6, UsesStay DEF Pay, CouponChanges
<1>7. UsesKept
  BY <1>2, <1>3, <1>4, <1>5, <1>6, UsesPriceWithCoupon, UsesRedeemTake,
     UsesRevoke DEF Next
<1> QED
  BY <1>1, <1>7 DEF UsesInv, UsesKept

\* What is left of a granted coupon and what payments have redeemed of it make
\* up what was granted, however many verifications redeem at once and whatever
\* an admin revokes meanwhile; and no redemption outlives its assignment.
THEOREM NoUseIsLost == Spec => []UsesConserved
<1>1. Init => UsesInv
  <2> SUFFICES ASSUME Init PROVE UsesInv
    OBVIOUS
  <2>1. TypeOK
    BY TypeInit
  <2> QED
    BY <2>1 DEF Init, UsesInv, IdsMade, Counted, Owned, NoAssignment, NoCoupon
<1>2. UsesInv /\ [Next]_vars => UsesInv'
  BY UsesStep
<1>3. UsesInv => UsesConserved
  BY DEF UsesInv, Counted, Owned, UsedBy, UsesConserved
<1> QED
  BY <1>1, <1>2, <1>3, PTL DEF Spec

-----------------------------------------------------------------------------
(* A payment no two calls had in hand at once.                             *)

\* What call c has in hand.
HandOf(c) ==
  IF c.pc \in {"save", "write", "refund", "returned"}
  THEN {c.order} ELSE c.stale

\* What call c, alone with a payment in hand, knows of its status s and of its
\* money m.
Fits(c, s, m) ==
  CASE c.pc = "save" -> c.seen.status = s
    [] c.pc = "write" -> s = "pending" /\ (c.claim = "completed" => m = "paid")
    [] c.pc = "refund" -> s = "completed"
    [] c.pc = "returned" -> s = "completed" /\ m = "returned"
    [] OTHER -> s = "pending"

\* The status s, the money m and the points given agree.
Agree(s, m, given) ==
  /\ s = "completed" => m \in {"free", "paid"}
  /\ given /\ m = "paid" => s = "completed"
  /\ m = "returned" => s = "refunded"

Alone(o) ==
  \A j, k \in Calls : o \in HandOf(call[j]) /\ o \in HandOf(call[k]) => j = k

Fitting(o) ==
  \A k \in Calls :
    o \in HandOf(call[k]) => Fits(call[k], row[o].status, money[o])

\* Only the refund that gave the money back and did not save it yet disagrees.
Agreeing(o) ==
  \/ Agree(row[o].status, money[o], o \in verified)
  \/ \E k \in Calls : o \in HandOf(call[k]) /\ call[k].pc = "returned"

Sound(o) == Alone(o) /\ Fitting(o) /\ Agreeing(o)

\* Only a call that still removes stale payments has any of them in hand.
StaleDone == \A k \in Calls : call[k].pc # "stale" => call[k].stale = {}

HandInv ==
  /\ MoneyInv
  /\ StaleDone
  /\ \A o \in Orders \ disturbed : Sound(o)

HandsKept == \A o \in Orders \ disturbed' : o \notin disturbed /\ Sound(o)'

\* The same row, the same money and the same points.
Same(o) == /\ row'[o].status = row[o].status
           /\ money'[o] = money[o]
           /\ (o \in verified') = (o \in verified)

Agrees(o) == Agree(row[o].status, money[o], o \in verified)

LEMMA HandIs == ASSUME NEW k \in Calls PROVE InHand(k) = HandOf(call[k])
  BY DEF InHand, HandOf

LEMMA GoTo ==
  ASSUME CallsTyped, NEW k \in Calls, NEW new, Go(k, new)
  PROVE  call'[k] = new /\ \A j \in Calls \ {k} : call'[j] = call[j]
  BY DEF CallsTyped, Go

\* A call that has nothing to do with a payment.
LEMMA SoundApart ==
  ASSUME CallsTyped, NEW o, Sound(o), Same(o), NEW k \in Calls, NEW new,
         Go(k, new), o \notin HandOf(call[k]), o \notin HandOf(new)
  PROVE  Sound(o)'
  BY GoTo DEF Sound, Alone, Fitting, Agreeing, Same

\* A call takes a payment nobody has in hand.
LEMMA SoundTaken ==
  ASSUME CallsTyped, NEW o, Sound(o), Same(o), NEW k \in Calls, NEW new,
         Go(k, new), \A j \in Calls : o \notin HandOf(call[j]),
         Fits(new, row[o].status, money[o])
  PROVE  Sound(o)'
  BY GoTo DEF Sound, Alone, Fitting, Agreeing, Same

\* A call that has a payment in hand lets go of it ...
LEMMA SoundLetGo ==
  ASSUME CallsTyped, NEW o, Sound(o), NEW k \in Calls, NEW new,
         Go(k, new), o \in HandOf(call[k]), o \notin HandOf(new), Agrees(o)'
  PROVE  Sound(o)'
<1>1. \A j \in Calls \ {k} : o \notin HandOf(call'[j])
  BY GoTo DEF Sound, Alone
<1> QED
  BY <1>1, GoTo DEF Sound, Alone, Fitting, Agreeing, Agrees

\* ... or moves on with it.
LEMMA SoundMoved ==
  ASSUME CallsTyped, NEW o, Sound(o), NEW k \in Calls, NEW new,
         Go(k, new), o \in HandOf(call[k]), o \in HandOf(new),
         Fits(new, row'[o].status, money'[o]),
         Agrees(o)' \/ new.pc = "returned"
  PROVE  Sound(o)'
<1>1. \A j \in Calls \ {k} : o \notin HandOf(call'[j])
  BY GoTo DEF Sound, Alone
<1> QED
  BY <1>1, GoTo DEF Sound, Alone, Fitting, Agreeing, Agrees

\* What the one call that has a payment in hand knows.
LEMMA SoundKnown ==
  ASSUME NEW o, Sound(o), NEW k \in Calls, o \in HandOf(call[k])
  PROVE  /\ Fits(call[k], row[o].status, money[o])
         /\ call[k].pc # "returned" => Agrees(o)
  BY DEF Sound, Alone, Fitting, Agreeing, Agrees

LEMMA IdleHands == HandOf(Idle) = {}
  BY DEF HandOf, Idle

\* A call with nothing in hand returns, or goes on with nothing in hand.
LEMMA HandsApart ==
  ASSUME HandInv, NEW k \in Calls, NEW new, Go(k, new), HandOf(call[k]) = {},
         HandOf(new) = {}, UNCHANGED disturbed,
         \A o \in Orders \ disturbed : Same(o)
  PROVE  HandsKept
  BY SoundApart DEF HandInv, MoneyInv, TypeOK, HandsKept

\* A call with one payment in hand writes it and has nothing in hand.
LEMMA HandsWrite ==
  ASSUME HandInv, NEW k \in Calls, NEW new, NEW p \in Orders, Go(k, new),
         HandOf(call[k]) = {p}, HandOf(new) = {}, disturbed \subseteq disturbed',
         \A o \in Orders \ {p} : Same(o),
         p \notin disturbed' => Agrees(p)'
  PROVE  HandsKept
<1> SUFFICES ASSUME NEW o \in Orders \ disturbed'
             PROVE  o \notin disturbed /\ Sound(o)'
  BY DEF HandsKept
<1>1. CASE o = p
  <2>1. o \in HandOf(call[k]) /\ o \notin HandOf(new) /\ Agrees(o)'
    BY <1>1
  <2>2. CallsTyped /\ o \notin disturbed /\ Sound(o)
    BY DEF HandInv, MoneyInv, TypeOK
  <2> QED
    BY <2>1, <2>2, SoundLetGo
<1>2. CASE o # p
  BY <1>2, SoundApart DEF HandInv, MoneyInv, TypeOK
<1> QED
  BY <1>1, <1>2

\* A call with nothing in hand reads one payment, or several.
LEMMA HandsTake ==
  ASSUME HandInv, NEW k \in Calls, NEW new, Go(k, new), HandOf(call[k]) = {},
         TakeInHand(HandOf(new)),
         \A o \in Orders : Same(o),
         \A o \in Orders \ disturbed' :
           o \in HandOf(new) => Fits(new, row[o].status, money[o])
  PROVE  HandsKept
<1> SUFFICES ASSUME NEW o \in Orders \ disturbed'
             PROVE  o \notin disturbed /\ Sound(o)'
  BY DEF HandsKept
<1>1. o \notin disturbed
  BY DEF TakeInHand
<1>2. CASE o \in HandOf(new)
  <2>1. \A j \in Calls : o \notin HandOf(call[j])
    BY <1>2, HandIs DEF TakeInHand
  <2> QED
    BY <1>1, <1>2, <2>1, SoundTaken DEF HandInv, MoneyInv, TypeOK
<1>3. CASE o \notin HandOf(new)
  BY <1>1, <1>3, SoundApart DEF HandInv, MoneyInv, TypeOK
<1> QED
  BY <1>1, <1>2, <1>3

\* A new row is nobody's yet, and its status and its money agree.

\* A new row is in nobody's hands, and its status and its money agree.
LEMMA NewRowAgrees ==
  ASSUME HandInv, NEW p \in Orders, NEW u, NEW i, NEW new \in Row, NEW where,
         NewRow(p, u, i, new, where), UNCHANGED verified,
         Agree(new.status, where, FALSE)
  PROVE  /\ \A o \in Orders \ {p} : Same(o)
         /\ \A k \in Calls : p \notin disturbed => p \notin HandOf(call[k])
         /\ Agrees(p)'
<1> USE DEF HandInv, MoneyInv, TypeOK, RowsTyped
<1>1. /\ buyer[p] = None /\ money[p] = "none" /\ ~Exists(p)
      /\ row'[p] = new /\ money'[p] = where
      /\ \A o \in Orders \ {p} : row'[o] = row[o] /\ money'[o] = money[o]
  BY NoneAssumption DEF NewRow, MoneyHasBuyer
<1>2. p \notin verified
  BY <1>1 DEF EarnedByPayment
<1>3. Agrees(p)'
  BY <1>1, <1>2 DEF Agrees, Agree
<1>4. ASSUME NEW k \in Calls, p \notin disturbed PROVE p \notin HandOf(call[k])
  <2> SUFFICES ASSUME p \in HandOf(call[k]) PROVE FALSE
    OBVIOUS
  <2>1. Fits(call[k], row[p].status, money[p])
    BY <1>4, SoundKnown
  <2>2. call[k].pc \in {"save", "write", "refund", "returned"}
          => call[k].order = p /\ buyer[call[k].order] \in Users
    BY DEF HandOf, CallsTyped
  <2>3. call[k].pc \notin {"save", "write", "refund", "returned"}
          => row[p].status = "pending"
    BY <2>1 DEF Fits
  <2> QED
    BY <1>1, <2>2, <2>3, NoneAssumption DEF Exists
<1>5. \A o \in Orders \ {p} : Same(o)
  BY <1>1 DEF Same
<1> QED
  BY <1>3, <1>4, <1>5

LEMMA HandsEmptied ==
  ASSUME MoneyInv, NEW k \in Calls, NEW new, Go(k, new), HandOf(call[k]) = {},
         HandOf(new) = {}
  PROVE  \A j \in Calls : \/ call'[j] = call[j]
                          \/ HandOf(call[j]) = {} /\ HandOf(call'[j]) = {}
  BY GoTo DEF MoneyInv, TypeOK

LEMMA HandsNewRow ==
  ASSUME HandInv, NEW p \in Orders, NEW u, NEW i, NEW new \in Row, NEW where,
         NewRow(p, u, i, new, where), UNCHANGED <<verified, disturbed>>,
         Agree(new.status, where, FALSE),
         \A k \in Calls : \/ call'[k] = call[k]
                          \/ HandOf(call[k]) = {} /\ HandOf(call'[k]) = {}
  PROVE  HandsKept
<1> SUFFICES ASSUME NEW o \in Orders \ disturbed PROVE Sound(o)'
  BY DEF HandsKept
<1>1. \A j \in Calls : o \in HandOf(call'[j]) => call'[j] = call[j]
  OBVIOUS
<1>2. CASE o # p
  <2>1. Same(o) /\ Sound(o)
    BY <1>2, NewRowAgrees DEF HandInv
  <2>2. \A j \in Calls : o \in HandOf(call[j]) => call'[j] = call[j]
    OBVIOUS
  <2> QED
    BY <1>1, <2>1, <2>2 DEF Sound, Alone, Fitting, Agreeing, Same
<1>3. CASE o = p
  <2>1. Agrees(o)' /\ \A j \in Calls : o \notin HandOf(call'[j])
    BY <1>1, <1>3, NewRowAgrees
  <2> QED
    BY <2>1 DEF Sound, Alone, Fitting, Agreeing, Agrees
<1> QED
  BY <1>2, <1>3

-----------------------------------------------------------------------------
LEMMA HandsOrder ==
  ASSUME HandInv, NEW k \in Calls, NEW u \in Users, NEW i \in Items,
         Order(k, u, i)
  PROVE  HandsKept
<1> DEFINE new == [Idle EXCEPT !.pc = "stale", !.user = u, !.item = i,
                               !.stale = StaleOf(u, i)]
<1>1. HandOf(new) = StaleOf(u, i) /\ new.pc = "stale" /\ HandOf(call[k]) = {}
  BY IdleHands DEF HandOf, Idle, Order
<1>2. \A o \in HandOf(new) : Fits(new, row[o].status, money[o])
  BY <1>1 DEF Fits, StaleOf, PendingOf
<1> HIDE DEF new
<1>3. Go(k, new) /\ TakeInHand(HandOf(new)) /\ \A o \in Orders : Same(o)
  BY <1>1 DEF Order, Same, new
<1> QED
  BY <1>1, <1>2, <1>3, HandsTake

LEMMA HandsRemoveStale ==
  ASSUME HandInv, NEW k \in Calls, NEW p \in Orders, RemoveStale(k, p)
  PROVE  HandsKept
<1> DEFINE new == [call[k] EXCEPT !.stale = @ \ {p}]
<1>1. /\ CallsTyped /\ row \in [Orders -> Row] /\ call[k] \in Call
  BY DEF HandInv, MoneyInv, TypeOK, RowsTyped, CallsTyped
<1>2. /\ new.pc = "stale" /\ HandOf(new) = HandOf(call[k]) \ {p}
      /\ call[k].pc = "stale" /\ p \in HandOf(call[k])
  BY <1>1 DEF RemoveStale, HandOf, Call
<1> HIDE DEF new
<1>3. /\ Go(k, new) /\ row'[p].status = "removed"
      /\ \A o \in Orders \ {p} : Same(o)
      /\ UNCHANGED <<money, verified, disturbed>>
  BY <1>1 DEF RemoveStale, Same, new
<1> SUFFICES ASSUME NEW o \in Orders \ disturbed PROVE Sound(o)'
  BY <1>3 DEF HandsKept
<1>4. Sound(o)
  BY DEF HandInv
<1>5. CASE o = p
  <2>1. row[o].status = "pending" /\ Agrees(o)
    BY <1>2, <1>4, <1>5, SoundKnown DEF Fits
  <2>2. Agrees(o)'
    BY <1>3, <1>5, <2>1 DEF Agrees, Agree
  <2> QED
    BY <1>1, <1>2, <1>3, <1>4, <1>5, <2>2, SoundLetGo
<1>6. CASE o # p /\ o \in HandOf(call[k])
  <2>1. Fits(call[k], row[o].status, money[o]) /\ Agrees(o)
    BY <1>2, <1>4, <1>6, SoundKnown
  <2>2. Same(o)
    BY <1>3, <1>6
  <2>3. Fits(new, row'[o].status, money'[o]) /\ Agrees(o)'
    BY <1>2, <2>1, <2>2 DEF Fits, Agrees, Same
  <2> QED
    BY <1>1, <1>2, <1>3, <1>4, <1>6, <2>3, SoundMoved
<1>7. CASE o # p /\ o \notin HandOf(call[k])
  BY <1>1, <1>2, <1>3, <1>4, <1>7, SoundApart
<1> QED
  BY <1>5, <1>6, <1>7

\* A call elsewhere has nothing in hand.
LEMMA EmptyHands ==
  ASSUME StaleDone, NEW k \in Calls,
         call[k].pc \notin {"stale", "save", "write", "refund", "returned"}
  PROVE  HandOf(call[k]) = {}
  BY DEF StaleDone, HandOf

LEMMA HandsPriceWithCoupon ==
  ASSUME HandInv, NEW k \in Calls, PriceWithCoupon(k)
  PROVE  HandsKept
<1>1. PICK pc \in {"cut", "free"} :
        Go(k, [call[k] EXCEPT !.pc = pc,
                 !.seen.coupon = assigned'[call[k].user].id])
  BY DEF PriceWithCoupon
<1> DEFINE new == [call[k] EXCEPT !.pc = pc,
                     !.seen.coupon = assigned'[call[k].user].id]
<1>2. call[k] \in Call
  BY DEF HandInv, MoneyInv, TypeOK, CallsTyped
<1>3. HandOf(call[k]) = {} /\ HandOf(new) = {}
  BY <1>2 DEF PriceWithCoupon, HandOf, Call
<1> HIDE DEF new
<1>4. Go(k, new) /\ UNCHANGED disturbed /\ \A o \in Orders : Same(o)
  BY <1>1 DEF PriceWithCoupon, Same, new
<1> QED
  BY <1>3, <1>4, HandsApart

LEMMA PendingAgrees ==
  /\ Pending \in Row /\ Agree(Pending.status, "open", FALSE)
  /\ [Pending EXCEPT !.status = "completed"] \in Row
  /\ Agree([Pending EXCEPT !.status = "completed"].status, "free", FALSE)
  BY Constants DEF Pending, Row, Agree

LEMMA HandsOrderInFull ==
  ASSUME HandInv, NEW k \in Calls, OrderInFull(k)
  PROVE  HandsKept
<1>1. HandOf(call[k]) = {}
  BY DEF OrderInFull, HandOf
<1>2. \A j \in Calls : \/ call'[j] = call[j]
                       \/ HandOf(call[j]) = {} /\ HandOf(call'[j]) = {}
  <2>1. Go(k, Idle)
    BY DEF OrderInFull, Return
  <2> QED
    BY <1>1, <2>1, HandsEmptied, IdleHands DEF HandInv
<1> QED
  BY <1>2, PendingAgrees, HandsNewRow DEF OrderInFull

LEMMA HandsOrderPlain ==
  ASSUME HandInv, NEW u \in Users, OrderPlain(u)
  PROVE  HandsKept
  BY PendingAgrees, HandsNewRow DEF OrderPlain

LEMMA HandsOrderCut ==
  ASSUME HandInv, NEW k \in Calls, OrderCut(k)
  PROVE  HandsKept
<1>1. PICK o \in Orders :
        /\ NewRow(o, call[k].user, call[k].item, Pending, "open")
        /\ Go(k, [Idle EXCEPT !.pc = "stash", !.order = o,
                              !.seen.coupon = call[k].seen.coupon])
  BY DEF OrderCut
<1>2. /\ HandOf(call[k]) = {}
      /\ HandOf([Idle EXCEPT !.pc = "stash", !.order = o,
                             !.seen.coupon = call[k].seen.coupon]) = {}
  BY EmptyHands DEF OrderCut, HandInv, HandOf, Idle
<1>3. \A j \in Calls : \/ call'[j] = call[j]
                       \/ HandOf(call[j]) = {} /\ HandOf(call'[j]) = {}
  <2> DEFINE next == [Idle EXCEPT !.pc = "stash", !.order = o,
                             !.seen.coupon = call[k].seen.coupon]
  <2>1. Go(k, next) /\ HandOf(next) = {}
    BY <1>1, <1>2
  <2> HIDE DEF next
  <2> QED
    BY <1>2, <2>1, HandsEmptied DEF HandInv
<1> QED
  BY <1>1, <1>3, PendingAgrees, HandsNewRow DEF OrderCut

LEMMA HandsOrderFree ==
  ASSUME HandInv, NEW k \in Calls, OrderFree(k)
  PROVE  HandsKept
<1> DEFINE paid == [status |-> "completed", coupon |-> call[k].seen.coupon]
<1>1. PICK o \in Orders :
        /\ NewRow(o, call[k].user, call[k].item, paid, "free")
        /\ Go(k, [Idle EXCEPT !.pc = "redeem", !.order = o,
                              !.seen.coupon = call[k].seen.coupon])
  BY DEF OrderFree
<1>2. /\ HandOf(call[k]) = {}
      /\ HandOf([Idle EXCEPT !.pc = "redeem", !.order = o,
                             !.seen.coupon = call[k].seen.coupon]) = {}
  BY EmptyHands DEF OrderFree, HandInv, HandOf, Idle
<1>3. \A j \in Calls : \/ call'[j] = call[j]
                       \/ HandOf(call[j]) = {} /\ HandOf(call'[j]) = {}
  <2> DEFINE next == [Idle EXCEPT !.pc = "redeem", !.order = o,
                             !.seen.coupon = call[k].seen.coupon]
  <2>1. Go(k, next) /\ HandOf(next) = {}
    BY <1>1, <1>2
  <2> HIDE DEF next
  <2> QED
    BY <1>2, <2>1, HandsEmptied DEF HandInv
<1>4. paid \in Row /\ Agree(paid.status, "free", FALSE)
  BY DEF HandInv, MoneyInv, TypeOK, CallsTyped, Call, Row, Agree
<1> QED
  BY <1>1, <1>3, <1>4, HandsNewRow DEF OrderFree

LEMMA HandsStashRead ==
  ASSUME HandInv, NEW k \in Calls, StashRead(k)
  PROVE  HandsKept
<1> DEFINE o == call[k].order
           new == [call[k] EXCEPT !.pc = "save", !.seen.status = row[o].status]
<1>1. /\ HandOf(call[k]) = {} /\ call[k] \in Call
      /\ \A p \in Orders : Same(p)
  BY EmptyHands DEF StashRead, HandInv, MoneyInv, TypeOK, CallsTyped, Same
<1>2. CASE Exists(o)
  <2>1. new.pc = "save" /\ HandOf(new) = {o} /\ new.seen.status = row[o].status
    BY <1>1 DEF HandOf, Call, Row
  <2>2. Go(k, new) /\ TakeInHand({o})
    BY <1>2 DEF StashRead
  <2> HIDE DEF new
  <2> QED
    BY <1>1, <2>1, <2>2, HandsTake DEF Fits
<1>3. CASE ~Exists(o)
  BY <1>1, <1>3, HandsApart, IdleHands DEF StashRead, Return
<1> QED
  BY <1>2, <1>3

LEMMA HandsStashSave ==
  ASSUME HandInv, NEW k \in Calls, StashSave(k)
  PROVE  HandsKept
<1>0. PICK p \in Orders : p = call[k].order
  BY DEF StashSave, HandInv, MoneyInv, TypeOK, CallsTyped
<1>1. /\ p = call[k].order /\ call[k].pc = "save" /\ HandOf(call[k]) = {p}
      /\ UNCHANGED <<money, verified, disturbed>> /\ Go(k, Idle)
      /\ row' = [row EXCEPT ![p] = call[k].seen]
  BY <1>0 DEF StashSave, HandInv, MoneyInv, TypeOK, CallsTyped, HandOf, Return
<1>2. /\ \A o \in Orders \ {p} : Same(o)
      /\ row'[p].status = call[k].seen.status
  BY <1>1 DEF Same, HandInv, MoneyInv, TypeOK, RowsTyped
<1>3. p \notin disturbed => Agrees(p)'
  BY <1>1, <1>2, SoundKnown DEF HandInv, Fits, Agrees
<1> QED
  BY <1>1, <1>2, <1>3, HandsWrite, IdleHands

LEMMA HandsVerifyRead ==
  ASSUME HandInv, NEW k \in Calls, NEW o \in Orders,
         NEW c \in {"completed", "failed"}, VerifyRead(k, o, c)
  PROVE  HandsKept
<1> DEFINE new == [Idle EXCEPT !.pc = "write", !.order = o, !.seen = row[o],
                               !.claim = c]
<1>1. /\ HandOf(call[k]) = {} /\ HandOf(new) = {o}
      /\ new.pc = "write" /\ new.claim = c
  BY IdleHands DEF VerifyRead, HandOf, Idle
<1>2. /\ Go(k, new) /\ TakeInHand({o}) /\ \A p \in Orders : Same(p)
  BY DEF VerifyRead, Same
<1> HIDE DEF new
<1>3. Fits(new, row[o].status, money[o])
  BY <1>1 DEF VerifyRead, Payable, Fits
<1> QED
  BY <1>1, <1>2, <1>3, HandsTake

LEMMA HandsVerifyWrite ==
  ASSUME HandInv, NEW k \in Calls, VerifyWrite(k)
  PROVE  HandsKept
<1>0. PICK p \in Orders : p = call[k].order
  BY DEF VerifyWrite, HandInv, MoneyInv, TypeOK, CallsTyped
<1> DEFINE next == IF /\ call[k].claim = "completed"
                      /\ call[k].seen.coupon # NoCoupon
                     THEN [Idle EXCEPT !.pc = "redeem", !.order = p,
                                       !.seen.coupon = call[k].seen.coupon]
                     ELSE Idle
<1>1. /\ p = call[k].order /\ call[k].pc = "write" /\ HandOf(call[k]) = {p}
      /\ UNCHANGED <<money, disturbed>> /\ Go(k, next)
      /\ call[k].seen \in Row
  BY <1>0 DEF VerifyWrite, HandInv, MoneyInv, TypeOK, CallsTyped, Call, HandOf, Return
<1>2. HandOf(next) = {}
  BY DEF HandOf, Idle
<1>3. /\ \A o \in Orders \ {p} : Same(o)
      /\ Exists(p) => row'[p].status = call[k].claim
      /\ p \in verified' <=> p \in verified \/ call[k].claim = "completed"
  BY <1>1 DEF VerifyWrite, Same, HandInv, MoneyInv, TypeOK, RowsTyped, Row
<1>4. ASSUME p \notin disturbed PROVE Agrees(p)'
  <2>1. /\ row[p].status = "pending" /\ Agrees(p)
        /\ call[k].claim = "completed" => money[p] = "paid"
    BY <1>1, <1>4, SoundKnown DEF HandInv, Fits
  <2> QED
    BY <1>1, <1>3, <2>1 DEF Agrees, Agree, Exists
<1> HIDE DEF next
<1> QED
  BY <1>1, <1>2, <1>3, <1>4, HandsWrite

LEMMA HandsRedeem ==
  ASSUME HandInv, NEW k \in Calls, RedeemRead(k) \/ RedeemTake(k)
  PROVE  HandsKept
<1>1. /\ HandOf(call[k]) = {} /\ call[k] \in Call
      /\ \A o \in Orders : Same(o) /\ UNCHANGED disturbed
  BY EmptyHands DEF RedeemRead, RedeemTake, HandInv, MoneyInv, TypeOK,
                    CallsTyped, Same
<1>2. HandOf([call[k] EXCEPT !.pc = "take"]) = {}
  BY <1>1 DEF RedeemRead, RedeemTake, HandOf, Call
<1> QED
  BY <1>1, <1>2, HandsApart, IdleHands DEF RedeemRead, RedeemTake, Return

LEMMA HandsRefundRead ==
  ASSUME HandInv, NEW k \in Calls, NEW o \in Orders, RefundRead(k, o)
  PROVE  HandsKept
<1> DEFINE new == [Idle EXCEPT !.pc = "refund", !.order = o, !.seen = row[o]]
<1>1. HandOf(call[k]) = {} /\ HandOf(new) = {o} /\ new.pc = "refund"
  BY IdleHands DEF RefundRead, HandOf, Idle
<1>2. /\ Go(k, new) /\ TakeInHand({o}) /\ \A p \in Orders : Same(p)
      /\ row[o].status = "completed"
  BY DEF RefundRead, Same
<1> HIDE DEF new
<1> QED
  BY <1>1, <1>2, HandsTake DEF Fits

LEMMA HandsRefundPost ==
  ASSUME HandInv, NEW k \in Calls, RefundPost(k)
  PROVE  HandsKept
<1>0. PICK p \in Orders : p = call[k].order
  BY DEF RefundPost, HandInv, MoneyInv, TypeOK, CallsTyped
<1> DEFINE new == [call[k] EXCEPT !.pc = "returned"]
<1>1. /\ p = call[k].order /\ call[k].pc = "refund" /\ HandOf(call[k]) = {p}
      /\ call[k] \in Call /\ CallsTyped
      /\ UNCHANGED <<row, verified, disturbed>>
      /\ \A o \in Orders \ {p} : Same(o)
  BY <1>0 DEF RefundPost, HandInv, MoneyInv, TypeOK, RowsTyped, CallsTyped, Call,
         HandOf, Same
<1>2. CASE money[p] = "paid"
  <2>1. Go(k, new) /\ money'[p] = "returned"
    BY <1>1, <1>2 DEF RefundPost, HandInv, MoneyInv, TypeOK, RowsTyped
  <2>2. new.pc = "returned" /\ HandOf(new) = {p}
    BY <1>1 DEF HandOf, Call
  <2> HIDE DEF new
  <2> SUFFICES ASSUME NEW o \in Orders \ disturbed PROVE Sound(o)'
    BY <1>1 DEF HandsKept
  <2>3. Sound(o)
    BY DEF HandInv
  <2>4. CASE o = p
    <3>1. row'[o].status = "completed" /\ money'[o] = "returned"
      BY <1>1, <2>1, <2>3, <2>4, SoundKnown DEF Fits
    <3>2. Fits(new, row'[o].status, money'[o])
      BY <2>2, <3>1 DEF Fits
    <3> QED
      BY <1>1, <2>1, <2>2, <2>3, <2>4, <3>2, SoundMoved
  <2>5. CASE o # p
    BY <1>1, <2>1, <2>2, <2>3, <2>5, SoundApart
  <2> QED
    BY <2>4, <2>5
<1>3. CASE money[p] # "paid"
  <2>1. Go(k, Idle) /\ Same(p)
    BY <1>1, <1>3 DEF RefundPost, Return, Same
  <2>2. p \notin disturbed => Agrees(p)'
    BY <1>1, <2>1, SoundKnown DEF HandInv, Agrees, Same
  <2> QED
    BY <1>1, <2>1, <2>2, HandsWrite, IdleHands
<1> QED
  BY <1>2, <1>3

LEMMA HandsRefundSave ==
  ASSUME HandInv, NEW k \in Calls, RefundSave(k)
  PROVE  HandsKept
<1>0. PICK p \in Orders : p = call[k].order
  BY DEF RefundSave, HandInv, MoneyInv, TypeOK, CallsTyped
<1>1. /\ p = call[k].order /\ call[k].pc = "returned" /\ HandOf(call[k]) = {p}
      /\ UNCHANGED <<money, verified, disturbed>> /\ Go(k, Idle)
      /\ call[k].seen \in Row
      /\ row' = [row EXCEPT ![p] = [call[k].seen EXCEPT !.status = "refunded"]]
  BY <1>0 DEF RefundSave, HandInv, MoneyInv, TypeOK, CallsTyped, Call, HandOf, Return
<1>2. /\ \A o \in Orders \ {p} : Same(o)
      /\ row'[p].status = "refunded"
  BY <1>1 DEF Same, HandInv, MoneyInv, TypeOK, RowsTyped, Row
<1>3. p \notin disturbed => money[p] = "returned"
  BY <1>1, SoundKnown DEF HandInv, Fits
<1>4. p \notin disturbed => Agrees(p)'
  BY <1>1, <1>2, <1>3 DEF Agrees, Agree
<1> QED
  BY <1>1, <1>2, <1>4, HandsWrite, IdleHands

LEMMA HandsAbandon ==
  ASSUME HandInv, NEW k \in Calls, Abandon(k)
  PROVE  HandsKept
<1> SUFFICES ASSUME NEW o \in Orders \ disturbed'
             PROVE  o \notin disturbed /\ Sound(o)'
  BY DEF HandsKept
<1>1. /\ Go(k, Idle) /\ Same(o) /\ CallsTyped /\ o \notin HandOf(Idle)
      /\ o \notin disturbed
  BY IdleHands DEF Abandon, Return, Same, HandInv, MoneyInv, TypeOK
<1>2. Sound(o)
  BY <1>1 DEF HandInv
<1>3. CASE o \in HandOf(call[k])
  <2>1. call[k].pc # "returned"
    BY <1>3 DEF Abandon, HandOf
  <2>2. Agrees(o)'
    BY <1>1, <1>2, <1>3, <2>1, SoundKnown DEF Agrees, Same
  <2> QED
    BY <1>1, <1>2, <1>3, <2>2, SoundLetGo
<1>4. CASE o \notin HandOf(call[k])
  BY <1>1, <1>2, <1>4, SoundApart
<1> QED
  BY <1>1, <1>3, <1>4

LEMMA HandsOthers ==
  ASSUME HandInv,
         \/ \E o \in Orders : Pay(o)
         \/ \E u \in Users : Preview(u) \/ Grant(u) \/ Revoke(u)
         \/ CouponChanges
         \/ UNCHANGED vars
  PROVE  HandsKept
<1>1. UNCHANGED <<row, call, verified, disturbed>>
  BY DEF Pay, Preview, Grant, Revoke, CouponChanges
<1>2. \A o \in Orders : \/ money'[o] = money[o]
                        \/ money[o] = "open" /\ money'[o] = "paid"
  BY DEF Pay, Preview, Grant, Revoke, CouponChanges, HandInv, MoneyInv, TypeOK,
         RowsTyped
<1>3. ASSUME NEW o \in Orders, money[o] = "open" PROVE o \notin verified
  BY <1>3 DEF HandInv, MoneyInv, EarnedByPayment
<1>4. ASSUME NEW o \in Orders \ disturbed PROVE Sound(o)'
  <2>1. Sound(o)
    BY DEF HandInv
  <2>2. Alone(o)'
    BY <1>1, <2>1 DEF Sound, Alone
  <2>3. Fitting(o)'
    BY <1>1, <1>2, <2>1 DEF Sound, Fitting, Fits
  <2>4. Agreeing(o)'
    BY <1>1, <1>2, <1>3, <2>1 DEF Sound, Agreeing, Agree
  <2> QED
    BY <2>2, <2>3, <2>4 DEF Sound
<1> QED
  BY <1>1, <1>4 DEF HandsKept

\* A call leaves the stale payments only when it has removed them all.
LEMMA StaleStep ==
  ASSUME CallsTyped, StaleDone, [Next]_vars
  PROVE  StaleDone'
<1>1. ASSUME NEW k \in Calls, NEW new, Go(k, new),
             new.pc # "stale" => new.stale = {}
      PROVE  StaleDone'
  BY <1>1, GoTo DEF StaleDone
<1>2. Idle.stale = {}
  BY DEF Idle
<1>3. ASSUME NEW k \in Calls, NEW u \in Users, NEW i \in Items, Order(k, u, i)
      PROVE  StaleDone'
  BY <1>1, <1>3 DEF Order, Idle
<1>4. ASSUME NEW k \in Calls, NEW o \in Orders, RemoveStale(k, o)
      PROVE  StaleDone'
  BY <1>1, <1>4 DEF RemoveStale, CallsTyped, Call
<1>5. ASSUME NEW k \in Calls, NEW o \in Orders,
             \/ RefundRead(k, o)
             \/ \E c \in {"completed", "failed"} : VerifyRead(k, o, c)
      PROVE  StaleDone'
  BY <1>1, <1>5 DEF RefundRead, VerifyRead, Idle
<1>6. ASSUME NEW k \in Calls, PriceWithCoupon(k) PROVE StaleDone'
  BY <1>1, <1>6 DEF PriceWithCoupon, CallsTyped, Call
<1>7. ASSUME NEW k \in Calls, OrderFree(k) \/ OrderCut(k) PROVE StaleDone'
  BY <1>1, <1>7 DEF OrderFree, OrderCut, Idle
<1>8. ASSUME NEW k \in Calls,
             \/ OrderInFull(k) \/ StashSave(k) \/ RedeemTake(k)
             \/ RefundSave(k) \/ Abandon(k)
      PROVE  StaleDone'
  BY <1>1, <1>2, <1>8 DEF OrderInFull, StashSave, RedeemTake, RefundSave,
                          Abandon, Return
<1>9. ASSUME NEW k \in Calls, StashRead(k) \/ RedeemRead(k) \/ RefundPost(k)
      PROVE  StaleDone'
  <2>1. call[k].stale = {} /\ call[k] \in Call
    BY <1>9 DEF StashRead, RedeemRead, RefundPost, StaleDone, CallsTyped
  <2>2. ASSUME NEW new, new.stale = {}, Go(k, new) PROVE StaleDone'
    BY <1>1, <2>2
  <2>3. /\ [call[k] EXCEPT !.pc = "save",
               !.seen.status = row[call[k].order].status].stale = {}
        /\ [call[k] EXCEPT !.pc = "take"].stale = {}
        /\ [call[k] EXCEPT !.pc = "returned"].stale = {}
    BY <2>1 DEF Call
  <2> QED
    BY <1>2, <1>9, <2>2, <2>3 DEF StashRead, RedeemRead, RefundPost, Return
<1>10. ASSUME NEW k \in Calls, VerifyWrite(k) PROVE StaleDone'
  BY <1>1, <1>2, <1>10 DEF VerifyWrite, Return, Idle
<1>11. ASSUME UNCHANGED call PROVE StaleDone'
  BY <1>11 DEF StaleDone
<1> QED
  BY <1>3, <1>4, <1>5, <1>6, <1>7, <1>8, <1>9, <1>10, <1>11
  DEF Next, Pay, OrderPlain, Preview, Grant, Revoke, CouponChanges

LEMMA HandStep == ASSUME HandInv, [Next]_vars PROVE HandInv'
<1>1. MoneyInv' /\ StaleDone'
  BY MoneyStep, StaleStep DEF HandInv, MoneyInv, TypeOK
<1>2. HandsKept
  BY HandsOrder, HandsRemoveStale, HandsPriceWithCoupon, HandsOrderInFull,
     HandsOrderPlain, HandsOrderCut, HandsOrderFree, HandsStashRead,
     HandsStashSave, HandsVerifyRead, HandsVerifyWrite, HandsRedeem,
     HandsRefundRead, HandsRefundPost, HandsRefundSave, HandsAbandon,
     HandsOthers DEF Next
<1> QED
  BY <1>1, <1>2 DEF HandInv, HandsKept

\* A payment that no two calls had in hand at once, and no refund died on, says
\* what Razorpay says, whatever happens to the other payments meanwhile.
THEOREM AloneAgrees == Spec => []UndisturbedAgrees
<1>1. Init => HandInv
  <2> SUFFICES ASSUME Init PROVE HandInv
    OBVIOUS
  <2>1. MoneyInv
    BY TypeInit, IdleKnows
    DEF Init, MoneyInv, MoneyHasBuyer, EarnedByPayment, CallsSawMoney, NoRow
  <2>2. \A k \in Calls : HandOf(call[k]) = {} /\ call[k].stale = {}
    BY IdleHands DEF Init, Idle
  <2>3. \A o \in Orders : Agrees(o)
    BY DEF Init, Agrees, Agree, NoRow
  <2> QED
    BY <2>1, <2>2, <2>3 DEF HandInv, StaleDone, Sound, Alone, Fitting, Agreeing,
                            Agrees
<1>2. HandInv /\ [Next]_vars => HandInv'
  BY HandStep
<1>3. HandInv => UndisturbedAgrees
  BY HandIs DEF HandInv, UndisturbedAgrees, Sound, Agreeing, Agree
<1> QED
  BY <1>1, <1>2, <1>3, PTL DEF Spec
=============================================================================
