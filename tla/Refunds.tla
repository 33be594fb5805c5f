-------------------------------- MODULE Refunds --------------------------------
(***************************************************************************)
(* Refunds of card payments: what Stripe gave back, what the rows of the   *)
(* receipts say of it, and the handlers of admins and attendees that       *)
(* refund, cancel, credit and refresh.                                     *)
(*                                                                         *)
(* A row is a completed payment on a receipt; the rows of a cart share one *)
(* charge.  A handler asks Stripe what was refunded before it refunds, and *)
(* writes the rows when it commits: between the refund and the commit only *)
(* Stripe knows of it.  A handler that raises an error commits nothing     *)
(* more; one that ends with a redirect commits what its session holds.     *)
(*                                                                         *)
(* Taken as given: every item was paid for by card, with no hold, and      *)
(* rows belong to the department that is refunded.                         *)
(***************************************************************************)
EXTENDS Integers, FiniteSets, Functions

CONSTANTS
  Charges,     \* the charges at Stripe
  Receipts,    \* the receipts, one per registration
  Rows,        \* the completed payments on them
  ChargeOf,    \* ChargeOf[r]: the charge row r was paid by
  ReceiptOf,   \* ReceiptOf[r]: its receipt
  Amount,      \* Amount[r]: what was paid
  Fee,         \* Fee[c]: what Stripe kept as its fee for charge c
  Batches,     \* bound: the sets of receipts cancelled together
  Credits,     \* bound: the prices of the items that are comped or undone
  Workers,     \* bound: handlers in flight at once
  Requests,    \* bound: the kinds of handler that are started
  MaxCrashes,  \* bound: handlers killed
  MaxOutside   \* bound: refunds made in Stripe's own pages

ASSUME RefundConstants ==
  /\ IsFiniteSet(Rows)
  /\ ChargeOf \in [Rows -> Charges]
  /\ ReceiptOf \in [Rows -> Receipts]
  /\ Amount \in [Rows -> Nat \ {0}]
  /\ Fee \in [Charges -> Nat]
  /\ Batches \subseteq SUBSET Receipts
  /\ Credits \subseteq Nat \ {0}
  /\ MaxCrashes \in Nat /\ MaxOutside \in Nat
  /\ Requests \subseteq {"full", "batch", "comp", "undo", "credit", "settle", "refresh"}

VARIABLES
  refunded,  \* refunded[r]: the column of that name
  booked,    \* booked[r]: the refund rows made for row r, added up
  credit,    \* credit[p]: the credits on receipt p, added up
  fee,       \* fee[p]: the processing fees charged on receipt p
  closed,    \* the receipts that were closed by a cancellation
  stripe,    \* stripe[c]: what Stripe has refunded of charge c
  job,       \* job[w]: what handler w has in its session
  crashes,   \* handlers killed so far
  outside    \* refunds made outside so far

ledger == <<refunded, booked, credit, fee, closed>>
vars == <<ledger, stripe, job, crashes, outside>>

Total(f, S) == SumFunctionOnSet(f, S)

-----------------------------------------------------------------------------
Ops == {"none", "full", "batch", "comp", "undo", "settle", "refresh"}
Stages == {"idle", "check", "write", "pay", "commit", "last"}

Jobs == [ op      : Ops,
          stage   : Stages,
          todo    : SUBSET Charges,       \* charges still to be refunded
          rows    : SUBSET Rows,          \* the rows to refund, as read
          exclude : BOOLEAN,              \* processing fees are kept
          pay     : [Charges -> Int],     \* what to refund of each charge
          now     : SUBSET Rows,          \* the rows of the refund being made
          touched : SUBSET Rows,          \* the rows whose `refunded` was set
          next    : [Rows -> Int],        \* their `refunded`
          book    : [Rows -> Int],        \* refund rows added
          credit  : [Receipts -> Int],    \* credits prepared
          fee     : [Receipts -> Int],    \* processing fees prepared
          note    : SUBSET Receipts,      \* receipts these are added to
          close   : SUBSET Receipts,      \* receipts to close
          done    : SUBSET Receipts,      \* receipts with a refund
          failed  : SUBSET Receipts ]     \* receipts with a refused one

NoneOf(S) == [x \in S |-> 0]

Idle == [ op |-> "none", stage |-> "idle", todo |-> {}, rows |-> {},
          exclude |-> FALSE, pay |-> NoneOf(Charges), now |-> {}, touched |-> {},
          next |-> NoneOf(Rows), book |-> NoneOf(Rows),
          credit |-> NoneOf(Receipts), fee |-> NoneOf(Receipts),
          note |-> {}, close |-> {}, done |-> {}, failed |-> {} ]

TypeOK ==
  /\ refunded \in [Rows -> Int]
  /\ booked \in [Rows -> Int]
  /\ credit \in [Receipts -> Int]
  /\ fee \in [Receipts -> Int]
  /\ closed \subseteq Receipts
  /\ stripe \in [Charges -> Int]
  /\ job \in [Workers -> Jobs]
  /\ crashes \in 0 .. MaxCrashes
  /\ outside \in 0 .. MaxOutside

Init ==
  /\ refunded = NoneOf(Rows)
  /\ booked = NoneOf(Rows)
  /\ credit = NoneOf(Receipts)
  /\ fee = NoneOf(Receipts)
  /\ closed = {}
  /\ stripe = NoneOf(Charges)
  /\ job = [w \in Workers |-> Idle]
  /\ crashes = 0
  /\ outside = 0

-----------------------------------------------------------------------------
RowsOf(c) == {r \in Rows : ChargeOf[r] = c}
RowsOn(p) == {r \in Rows : ReceiptOf[r] = p}

Left(r) == Amount[r] - refunded[r]

(* calc_processing_fee: the share of the charge's fee in n of row r.       *)
FeeShare(r, n) ==
  (n * Fee[ChargeOf[r]]) \div Total(Amount, RowsOf(ChargeOf[r]))

Refundable(r) ==
  ReceiptOf[r] \notin closed /\ Left(r) # 0 /\ Left(r) # FeeShare(r, Amount[r])

(* Everything was paid for, so that these two say what is left of it.      *)
ItemTotal(p) == Total(Amount, RowsOn(p)) - credit[p] + fee[p]
TxnTotal(p) == Total(Amount, RowsOn(p)) - Total(booked, RowsOn(p))
CurrentReceiptAmount(p) == ItemTotal(p) - TxnTotal(p)

Least(m, n) == IF m < n THEN m ELSE n

(* Faulty: what was refunded for the other rows counts for this one too.   *)
UpdatedOfCharge(r) == Least(Amount[r], stripe[ChargeOf[r]])

(* update_amount_refunded: what Stripe refunded, less what the other rows  *)
(* of the charge say, as committed.                                        *)
UpdatedRefund(r) ==
  Least(Amount[r], stripe[ChargeOf[r]] - Total(refunded, RowsOf(ChargeOf[r]) \ {r}))

Begin(w, j) ==
  /\ job[w].stage = "idle"
  /\ job' = [job EXCEPT ![w] = j]
  /\ UNCHANGED <<ledger, stripe, crashes, outside>>

-----------------------------------------------------------------------------
(* Cancelling registrations.                                               *)

(* Faulty: the credit is for all that was paid, whatever was credited.     *)
CancelCreditAgain(p) == Total(Amount, RowsOn(p))

CancelCredit(p) == IF ItemTotal(p) > 0 THEN ItemTotal(p) ELSE 0

(* cancel_and_refund for the receipts S.  The processing fee recorded on a *)
(* receipt is that of the last row looked at.                              *)
CancelAndRefund(S, exclude) ==
  LET rows == {r \in Rows : ReceiptOf[r] \in S /\ Refundable(r)}
      kept == [r \in Rows |-> IF exclude THEN FeeShare(r, Left(r)) ELSE 0] IN
  { [Idle EXCEPT
       !.stage = "check",
       !.rows = rows,
       !.todo = {ChargeOf[r] : r \in rows},
       !.pay = [c \in Charges |->
                  Total([r \in Rows |-> Left(r) - kept[r]], rows \cap RowsOf(c))],
       !.credit = [p \in Receipts |-> IF p \in S THEN CancelCredit(p) ELSE 0],
       !.fee = [p \in Receipts |-> IF rows \cap RowsOn(p) = {} THEN 0 ELSE kept[last[p]]]] :
    last \in {f \in [Receipts -> Rows] :
                \A p \in Receipts :
                  IF rows \cap RowsOn(p) = {} THEN f[p] = CHOOSE r \in Rows : TRUE
                  ELSE f[p] \in rows \cap RowsOn(p)} }

(* process_full_refund, from an admin's page or abandon_badge: what is     *)
(* refunded is written at the end.                                         *)
ProcessFullRefund(w, p, exclude) ==
  /\ p \notin closed
  /\ \E j \in CancelAndRefund({p}, exclude) :
       Begin(w, IF j.todo = {}
                THEN [j EXCEPT !.op = "full", !.stage = "commit", !.note = {p}, !.close = {p}]
                ELSE [j EXCEPT !.op = "full"])

(* cancel_multiple, abandon_badges: the charges are refunded and committed *)
(* one by one; receipts with nothing to refund are only closed.            *)
CancelMultiple(w, S, exclude) ==
  /\ S \cap closed = {}
  /\ \E j \in CancelAndRefund(S, exclude) :
       LET skipped == {p \in S : j.rows \cap RowsOn(p) = {}} IN
       Begin(w, [j EXCEPT !.op = "batch", !.note = skipped, !.close = skipped,
                          !.stage = IF j.todo = {} THEN "last" ELSE "check"])

-----------------------------------------------------------------------------
(* Refunding what was credited.                                            *)

OneRow(op, r, n) ==
  [Idle EXCEPT !.op = op, !.stage = "check", !.rows = {r}, !.todo = {ChargeOf[r]},
               !.pay[ChargeOf[r]] = n]

(* The page offers an item once to be comped or undone.                    *)
Uncredited(p, n) == p \notin closed /\ credit[p] + n <= Total(Amount, RowsOn(p))

(* comp_receipt_item, undo_receipt_item: credits without a refund.         *)
CompReceiptItem(w, p, n) ==
  /\ job[w].stage = "idle"
  /\ Uncredited(p, n)
  /\ credit' = [credit EXCEPT ![p] = @ + n]
  /\ UNCHANGED <<refunded, booked, fee, closed, stripe, job, crashes, outside>>

(* comp_refund_receipt_item: the refund is checked, the credit committed,  *)
(* and then the refund made.                                               *)
CompRefundReceiptItem(w, r, n) ==
  /\ Uncredited(ReceiptOf[r], n)
  /\ Left(r) # 0
  /\ Begin(w, [OneRow("comp", r, Least(n, Left(r))) EXCEPT !.credit[ReceiptOf[r]] = n])

(* undo_refund_receipt_item: the credit is committed first.                *)
UndoRefundReceiptItem(w, r, n, exclude) ==
  /\ Uncredited(ReceiptOf[r], n)
  /\ Begin(w, [OneRow("undo", r, n) EXCEPT !.stage = "write", !.exclude = exclude,
                                           !.credit[ReceiptOf[r]] = n])

(* settle_up: refund all that is owed on the receipt from one payment.     *)
SettleUp(w, r) ==
  LET owed == -CurrentReceiptAmount(ReceiptOf[r]) IN
  /\ owed > 0
  /\ Refundable(r)
  /\ Left(r) >= owed
  /\ Begin(w, OneRow("settle", r, owed))

(* refresh_receipt_txn: take over what Stripe says, with a refund row for  *)
(* the difference.                                                         *)
RefreshReceiptTxn(w, r) ==
  /\ ReceiptOf[r] \notin closed
  /\ Left(r) > 0
  /\ Begin(w, [Idle EXCEPT
                 !.op = "refresh", !.stage = "commit", !.touched = {r},
                 !.next[r] = UpdatedRefund(r),
                 !.book[r] = IF refunded[r] < UpdatedRefund(r)
                             THEN UpdatedRefund(r) - refunded[r] ELSE 0])

-----------------------------------------------------------------------------
(* RefundRequest: the rows of a charge that have something left according  *)
(* to Stripe; when there is less than was asked for, the handler dies.     *)
ValidateTxns(w) ==
  LET j == job[w] IN
  /\ j.stage = "check"
  /\ \E c \in j.todo :
       LET rows == {r \in j.rows : ChargeOf[r] = c}
           good == {r \in rows : Amount[r] - UpdatedRefund(r) > 0}
           most == Total([r \in Rows |-> Amount[r] - UpdatedRefund(r)], good) IN
       job' = [job EXCEPT ![w] =
         IF good = {} \/ j.pay[c] > most THEN Idle
         ELSE [j EXCEPT !.stage = IF j.op = "comp" THEN "write" ELSE "pay",
                        !.todo = @ \ {c},
                        !.pay[c] = IF @ = 0 THEN most ELSE @,
                        !.now = good,
                        !.touched = @ \cup rows,
                        !.next = [r \in Rows |-> IF r \in rows THEN UpdatedRefund(r) ELSE @[r]]]]
  /\ UNCHANGED <<ledger, stripe, crashes, outside>>

WrittenRefunds(j) == [r \in Rows |-> IF r \in j.touched THEN j.next[r] ELSE refunded[r]]

(* The commit of the credit that the refund is for.                        *)
WriteCredit(w) ==
  LET j == job[w]
      written == [j EXCEPT !.credit = NoneOf(Receipts)] IN
  /\ j.stage = "write"
  /\ credit' = [p \in Receipts |-> credit[p] + j.credit[p]]
  /\ refunded' = WrittenRefunds(j)
  /\ job' = [job EXCEPT ![w] =
       IF j.op = "comp" THEN [written EXCEPT !.stage = "pay"]
       ELSE LET r == CHOOSE q \in j.rows : TRUE
                n == Least(j.pay[ChargeOf[r]], Left(r))
                kept == IF j.exclude THEN FeeShare(r, n) ELSE 0 IN
            IF Left(r) = 0 THEN Idle
            ELSE [written EXCEPT !.stage = "check", !.pay[ChargeOf[r]] = n - kept,
                                 !.fee[ReceiptOf[r]] = kept, !.note = {ReceiptOf[r]}]]
  /\ UNCHANGED <<booked, fee, closed, stripe, crashes, outside>>

(* Faulty: each of the rows gets the whole refund.                         *)
RecordedWhole(j, c) == [r \in Rows |-> IF r \in j.now THEN j.pay[c] ELSE 0]

(* What process_txn_refund records for each of the rows: the refund, or,   *)
(* if there are several rows, all that is left of each.                    *)
Recorded(j, c) ==
  [r \in Rows |-> IF r \notin j.now THEN 0
                  ELSE IF j.now = {r} THEN j.pay[c] ELSE Amount[r] - j.next[r]]

(* Stripe refunds as long as the charge has enough left.                   *)
StripeRefunds(w) ==
  LET j == job[w] IN
  /\ j.stage = "pay"
  /\ \E c \in {ChargeOf[r] : r \in j.now} :
       LET rec == Recorded(j, c)
           paid == {ReceiptOf[r] : r \in j.now} IN
       /\ stripe[c] + j.pay[c] <= Total(Amount, RowsOf(c))
       /\ stripe' = [stripe EXCEPT ![c] = @ + j.pay[c]]
       /\ job' = [job EXCEPT ![w] =
            [j EXCEPT !.stage = IF j.op = "full" /\ j.todo # {} THEN "check" ELSE "commit",
                      !.now = {},
                      !.next = [r \in Rows |-> @[r] + rec[r]],
                      !.book = [r \in Rows |-> @[r] + rec[r]],
                      !.done = @ \cup {ReceiptOf[r] : r \in {q \in j.rows : ChargeOf[q] = c}},
                      !.note = IF j.op = "full" THEN paid ELSE @,
                      !.close = IF j.op = "full" /\ j.todo = {} THEN paid ELSE @]]
  /\ UNCHANGED <<ledger, crashes, outside>>

(* Faulty: the whole session is rolled back.                               *)
AfterErrorLost(j) == Idle

(* A full refund that ends with an error redirects, and thereby commits    *)
(* what it has; several cancellations go on with the next charge; the      *)
(* others roll back.                                                       *)
AfterError(j) ==
  CASE j.op = "full"  -> [j EXCEPT !.stage = "commit", !.todo = {}]
    [] j.op = "batch" ->
         [j EXCEPT !.stage = IF j.todo = {} THEN "last" ELSE "check", !.now = {},
                   !.failed = @ \cup
                     {ReceiptOf[r] : r \in {q \in j.rows : \E n \in j.now : ChargeOf[q] = ChargeOf[n]}}]
    [] OTHER          -> Idle

(* Stripe refuses a refund, or cannot be reached.                          *)
RefundError(w) ==
  /\ job[w].stage = "pay"
  /\ job' = [job EXCEPT ![w] = AfterError(job[w])]
  /\ UNCHANGED <<ledger, stripe, crashes, outside>>

-----------------------------------------------------------------------------
Added(f, g, S) == [x \in DOMAIN f |-> IF x \in S THEN f[x] + g[x] ELSE f[x]]

Write(j, note, close) ==
  /\ refunded' = WrittenRefunds(j)
  /\ booked' = [r \in Rows |-> booked[r] + j.book[r]]
  /\ credit' = Added(credit, j.credit, note)
  /\ fee' = Added(fee, j.fee, note)
  /\ closed' = closed \cup close
  /\ UNCHANGED <<stripe, crashes, outside>>

(* Several cancellations commit after every charge, the others once.       *)
Commit(w) ==
  LET j == job[w] IN
  /\ j.stage = "commit"
  /\ Write(j, j.note, j.close)
  /\ job' = [job EXCEPT ![w] =
       IF j.op # "batch" THEN Idle
       ELSE [j EXCEPT !.stage = IF j.todo = {} THEN "last" ELSE "check",
                      !.touched = {}, !.book = NoneOf(Rows), !.note = {}, !.close = {}]]

(* At last the registrations are cancelled whose refunds all went through; *)
(* those with any refund get their credits and fees.                       *)
CommitCancelled(w) ==
  LET j == job[w] IN
  /\ j.stage = "last"
  /\ Write(j, j.note \cup j.done, j.close \cup (j.done \ j.failed))
  /\ job' = [job EXCEPT ![w] = Idle]

Crash(w) ==
  /\ job[w].stage # "idle"
  /\ crashes < MaxCrashes
  /\ crashes' = crashes + 1
  /\ job' = [job EXCEPT ![w] = Idle]
  /\ UNCHANGED <<ledger, stripe, outside>>

(* A refund made in Stripe's own pages; refresh_receipt_txn is for those.  *)
OutsideRefund(c, n) ==
  /\ outside < MaxOutside
  /\ stripe[c] + n <= Total(Amount, RowsOf(c))
  /\ stripe' = [stripe EXCEPT ![c] = @ + n]
  /\ outside' = outside + 1
  /\ UNCHANGED <<ledger, job, crashes>>

-----------------------------------------------------------------------------
Start(w) ==
  \/ "full" \in Requests
     /\ \E p \in Receipts, exclude \in BOOLEAN : ProcessFullRefund(w, p, exclude)
  \/ "batch" \in Requests
     /\ \E S \in Batches, exclude \in BOOLEAN : CancelMultiple(w, S, exclude)
  \/ "credit" \in Requests /\ \E p \in Receipts, n \in Credits : CompReceiptItem(w, p, n)
  \/ "comp" \in Requests /\ \E r \in Rows, n \in Credits : CompRefundReceiptItem(w, r, n)
  \/ "undo" \in Requests
     /\ \E r \in Rows, n \in Credits, exclude \in BOOLEAN : UndoRefundReceiptItem(w, r, n, exclude)
  \/ "settle" \in Requests /\ \E r \in Rows : SettleUp(w, r)
  \/ "refresh" \in Requests /\ \E r \in Rows : RefreshReceiptTxn(w, r)

Continue(w) ==
  \/ ValidateTxns(w) \/ WriteCredit(w) \/ StripeRefunds(w) \/ RefundError(w)
  \/ Commit(w) \/ CommitCancelled(w)

Next ==
  \/ \E w \in Workers : Start(w) \/ Continue(w) \/ Crash(w)
  \/ \E c \in Charges, n \in Credits : OutsideRefund(c, n)

Spec == Init /\ [][Next]_vars

-----------------------------------------------------------------------------
(* No refund stands on a receipt that the payment's own `refunded` does    *)
(* not count, and neither exceeds the payment, although one is taken from  *)
(* Stripe and the other added up.                                          *)
BookedIsTracked == \A r \in Rows : booked[r] <= refunded[r] /\ refunded[r] <= Amount[r]

(* The rows of a charge together count no more than Stripe refunded, also  *)
(* when a killed handler's refund is found later by another row.           *)
TrackedIsReal == \A c \in Charges : Total(refunded, RowsOf(c)) <= stripe[c]

Undisturbed == crashes = 0 /\ outside = 0

(* Unless a handler was killed, whatever Stripe refunded is on the         *)
(* receipts once no handler runs, whichever refunds of a cancellation      *)
(* were refused.                                                           *)
RefundsAreBooked ==
  Undisturbed /\ (\A w \in Workers : job[w].stage = "idle") =>
    \A c \in Charges : Total(booked, RowsOf(c)) = stripe[c]

(* Where Stripe keeps no fees, a cancelled registration is left with       *)
(* neither debt nor credit, after whatever credits, refunds and refused    *)
(* attempts came before.                                                   *)
ClosedIsSettled == Undisturbed => \A p \in closed : CurrentReceiptAmount(p) = 0

=============================================================================
