----------------------------- MODULE RefundsProofs -----------------------------
(***************************************************************************)
(* Proofs about the refunds: every handler's types, for any number of      *)
(* them; and, for one handler at a time and no fees kept by Stripe, that   *)
(* what Stripe refunded, the rows and the receipts agree.                  *)
(*                                                                         *)
(* The invariant has a part about what is committed (LedgerSound) and one  *)
(* about what a handler's session would write if it were committed         *)
(* (JobSound), since a refund is only on the rows long after Stripe made   *)
(* it.  With two handlers the second part is not kept: one writes what the *)
(* other one read.  With fees, several rows of a charge record more than   *)
(* is refunded.                                                            *)
(***************************************************************************)
EXTENDS Refunds, SumTheorems

(* What is known of the rows a handler reads, when it is about to use one. *)
WritersHaveRows == \A w \in Workers : job[w].stage = "write" => job[w].rows # {}

TypeInv == TypeOK /\ WritersHaveRows

(* RefundRequest for charge c: the rows of it that were read, those with   *)
(* something left, and how much that is.                                   *)
OnCharge(j, c) == {r \in j.rows : ChargeOf[r] = c}
Good(j, c) == {r \in OnCharge(j, c) : Amount[r] - UpdatedRefund(r) > 0}
LeftAtStripe == [r \in Rows |-> Amount[r] - UpdatedRefund(r)]
Most(j, c) == Total(LeftAtStripe, Good(j, c))

(* The job after the request, if it goes on, and after the refund.         *)
Checked(j, c) ==
  [j EXCEPT !.stage = IF j.op = "comp" THEN "write" ELSE "pay",
            !.todo = @ \ {c},
            !.pay[c] = IF @ = 0 THEN Most(j, c) ELSE @,
            !.now = Good(j, c),
            !.touched = @ \cup OnCharge(j, c),
            !.next = [r \in Rows |-> IF r \in OnCharge(j, c) THEN UpdatedRefund(r) ELSE @[r]]]

Refunded(j, c) ==
  [j EXCEPT !.stage = IF j.op = "full" /\ j.todo # {} THEN "check" ELSE "commit",
            !.now = {},
            !.next = [r \in Rows |-> @[r] + Recorded(j, c)[r]],
            !.book = [r \in Rows |-> @[r] + Recorded(j, c)[r]],
            !.done = @ \cup {ReceiptOf[r] : r \in OnCharge(j, c)},
            !.note = IF j.op = "full" THEN {ReceiptOf[r] : r \in j.now} ELSE @,
            !.close = IF j.op = "full" /\ j.todo = {} THEN {ReceiptOf[r] : r \in j.now} ELSE @]

-----------------------------------------------------------------------------
(* The total of a column over rows is a number.                            *)
LEMMA TotalType ==
  ASSUME NEW f, NEW S \in SUBSET Rows, \A r \in S : f[r] \in Int
  PROVE  Total(f, S) \in Int
<1>1. IsFiniteSet(S)
  BY RefundConstants, FS_Subset DEF RefundConstants
<1> QED  BY <1>1, SumType DEF Total

(* A charge with a row on it is more than nothing.                         *)
LEMMA AmountsType ==
  /\ \A c \in Charges : RowsOf(c) \in SUBSET Rows /\ Total(Amount, RowsOf(c)) \in Nat
  /\ \A p \in Receipts : RowsOn(p) \in SUBSET Rows /\ Total(Amount, RowsOn(p)) \in Nat
  /\ \A r \in Rows : Amount[r] \in Nat /\ ChargeOf[r] \in Charges /\ ReceiptOf[r] \in Receipts
  /\ \A r \in Rows : Total(Amount, RowsOf(ChargeOf[r])) > 0
<1>1. /\ \A r \in Rows : Amount[r] \in Nat /\ Amount[r] > 0
      /\ \A r \in Rows : ChargeOf[r] \in Charges /\ ReceiptOf[r] \in Receipts
  BY RefundConstants DEF RefundConstants
<1>2. ASSUME NEW S \in SUBSET Rows  PROVE Total(Amount, S) \in Nat
  <2>1. IsFiniteSet(S)
    BY RefundConstants, FS_Subset DEF RefundConstants
  <2> QED  BY <1>1, <2>1, SumNat DEF Total
<1>3. ASSUME NEW r \in Rows  PROVE Total(Amount, RowsOf(ChargeOf[r])) > 0
  <2> DEFINE S == RowsOf(ChargeOf[r])
  <2>1. r \in S /\ S \in SUBSET Rows
    BY DEF RowsOf
  <2>2. IsFiniteSet(S) /\ \A q \in S : Amount[q] \in Int
    BY <1>1, <2>1, RefundConstants, FS_Subset DEF RefundConstants
  <2>3. Total(Amount, S) = Amount[r] + Total(Amount, S \ {r})
    BY <2>1, <2>2, SumWithout DEF Total
  <2>4. Total(Amount, S \ {r}) \in Nat
    BY <1>2, <2>1
  <2> HIDE DEF S
  <2>5. Total(Amount, S) > 0
    BY <1>1, <2>3, <2>4
  <2> QED  BY <2>5 DEF S
<1> QED  BY <1>1, <1>2, <1>3 DEF RowsOf, RowsOn

(* The share of a fee is a number.                                         *)
LEMMA FeeShareType ==
  \A r \in Rows, n \in Int : FeeShare(r, n) \in Int
<1> SUFFICES ASSUME NEW r \in Rows, NEW n \in Int  PROVE FeeShare(r, n) \in Int
  OBVIOUS
<1>1. PICK d : d = Total(Amount, RowsOf(ChargeOf[r])) /\ d \in Nat /\ d > 0
  BY AmountsType
<1>2. PICK m : m = n * Fee[ChargeOf[r]] /\ m \in Int
  BY AmountsType, RefundConstants DEF RefundConstants
<1>3. m \div d \in Int
  BY <1>1, <1>2
<1> QED  BY <1>1, <1>2, <1>3 DEF FeeShare

(* What is left of a row, and what is recorded of it, are numbers.         *)
LEMMA UpdatedType ==
  ASSUME TypeOK
  PROVE  /\ \A r \in Rows : Left(r) \in Int /\ UpdatedRefund(r) \in Int
         /\ \A p \in Receipts : CancelCredit(p) \in Int /\ CurrentReceiptAmount(p) \in Int
<1>1. ASSUME NEW r \in Rows  PROVE Left(r) \in Int
  BY AmountsType DEF TypeOK, Left
<1>2. ASSUME NEW r \in Rows  PROVE UpdatedRefund(r) \in Int
  <2>1. Total(refunded, RowsOf(ChargeOf[r]) \ {r}) \in Int
    BY TotalType DEF RowsOf, TypeOK
  <2>2. stripe[ChargeOf[r]] \in Int /\ Amount[r] \in Int
    BY AmountsType DEF TypeOK
  <2> QED  BY <2>1, <2>2 DEF UpdatedRefund, Least
<1>3. ASSUME NEW p \in Receipts  PROVE CancelCredit(p) \in Int /\ CurrentReceiptAmount(p) \in Int
  <2>1. ItemTotal(p) \in Int
    BY AmountsType DEF ItemTotal, TypeOK
  <2>2. TxnTotal(p) \in Int
    <3>1. Total(booked, RowsOn(p)) \in Int
      BY TotalType DEF RowsOn, TypeOK
    <3> QED  BY <3>1, AmountsType DEF TxnTotal
  <2> QED  BY <2>1, <2>2 DEF CancelCredit, CurrentReceiptAmount
<1> QED  BY <1>1, <1>2, <1>3

(* An idle handler has a job, with nothing in it.                          *)
LEMMA IdleType == Idle \in Jobs
  BY DEF Idle, Jobs, NoneOf, Ops, Stages

-----------------------------------------------------------------------------
(* Type correctness, action by action                                      *)

(* A handler that starts has a job.                                        *)
LEMMA BeginType ==
  ASSUME TypeInv, NEW w \in Workers, NEW j \in Jobs, j.stage = "write" => j.rows # {},
         Begin(w, j)
  PROVE  TypeInv'
<1>1. job' = [job EXCEPT ![w] = j] /\ job \in [Workers -> Jobs]
  BY DEF Begin, TypeInv, TypeOK
<1>2. TypeOK'
  BY <1>1 DEF TypeInv, TypeOK, Begin, ledger
<1>3. WritersHaveRows'
  BY <1>1 DEF TypeInv, WritersHaveRows
<1> QED  BY <1>2, <1>3 DEF TypeInv

(* cancel_and_refund prepares a job.                                       *)
LEMMA CancelType ==
  ASSUME TypeInv, NEW S \in SUBSET Receipts, NEW exclude \in BOOLEAN,
         NEW j \in CancelAndRefund(S, exclude)
  PROVE  j \in Jobs /\ j.stage = "check"
<1> DEFINE rows == {r \in Rows : ReceiptOf[r] \in S /\ Refundable(r)}
           kept == [r \in Rows |-> IF exclude THEN FeeShare(r, Left(r)) ELSE 0]
           todo == {ChargeOf[r] : r \in rows}
           pay == [c \in Charges |->
                     Total([r \in Rows |-> Left(r) - kept[r]], rows \cap RowsOf(c))]
           credits == [p \in Receipts |-> IF p \in S THEN CancelCredit(p) ELSE 0]
           fees(last) == [p \in Receipts |->
                            IF rows \cap RowsOn(p) = {} THEN 0 ELSE kept[last[p]]]
<1>1. rows \in SUBSET Rows /\ todo \in SUBSET Charges
  BY AmountsType
<1>2. kept \in [Rows -> Int]
  BY FeeShareType, UpdatedType DEF TypeInv
<1>3. pay \in [Charges -> Int]
  <2> SUFFICES ASSUME NEW c \in Charges
               PROVE  Total([r \in Rows |-> Left(r) - kept[r]], rows \cap RowsOf(c)) \in Int
    OBVIOUS
  <2> DEFINE f == [r \in Rows |-> Left(r) - kept[r]]
  <2>1. \A r \in Rows : f[r] \in Int
    BY <1>2, UpdatedType DEF TypeInv
  <2>2. rows \cap RowsOf(c) \in SUBSET Rows
    OBVIOUS
  <2> HIDE DEF f
  <2>3. Total(f, rows \cap RowsOf(c)) \in Int
    BY <2>1, <2>2, TotalType
  <2> QED  BY <2>3 DEF f
<1>4. credits \in [Receipts -> Int]
  BY UpdatedType DEF TypeInv
<1>5. PICK last \in [Receipts -> Rows] :
        j = [Idle EXCEPT !.stage = "check", !.rows = rows, !.todo = todo, !.pay = pay,
                         !.credit = credits, !.fee = fees(last)]
  BY DEF CancelAndRefund
<1>6. fees(last) \in [Receipts -> Int]
  BY <1>2
<1>7. PICK fee0 \in [Receipts -> Int] : fee0 = fees(last)
  BY <1>6
<1> HIDE DEF rows, todo, pay, credits, fees, kept
<1>8. j = [Idle EXCEPT !.stage = "check", !.rows = rows, !.todo = todo, !.pay = pay,
                       !.credit = credits, !.fee = fee0]
  BY <1>5, <1>7
<1> QED  BY <1>1, <1>3, <1>4, <1>8, IdleType DEF Jobs, Stages

(* A handler of a single row has a job.                                    *)
LEMMA OneRowType ==
  ASSUME NEW op \in {"comp", "undo", "settle"}, NEW r \in Rows, NEW n \in Int
  PROVE  OneRow(op, r, n) \in Jobs
<1>1. ChargeOf[r] \in Charges /\ NoneOf(Charges) \in [Charges -> Int]
  BY AmountsType DEF NoneOf
<1>2. OneRow(op, r, n) =
        [Idle EXCEPT !.op = op, !.stage = "check", !.rows = {r}, !.todo = {ChargeOf[r]},
                     !.pay = [NoneOf(Charges) EXCEPT ![ChargeOf[r]] = n]]
  BY DEF OneRow, Idle
<1>3. PICK f \in [Charges -> Int] : f = [NoneOf(Charges) EXCEPT ![ChargeOf[r]] = n]
  BY <1>1
<1>4. OneRow(op, r, n) =
        [Idle EXCEPT !.op = op, !.stage = "check", !.rows = {r}, !.todo = {ChargeOf[r]},
                     !.pay = f]
  BY <1>2, <1>3
<1>5. op \in Ops /\ "check" \in Stages
  BY DEF Ops, Stages
<1>6. PICK i \in Jobs : i = Idle
  BY IdleType
<1>7. {r} \in SUBSET Rows /\ {ChargeOf[r]} \in SUBSET Charges
  BY <1>1
<1>8. [i EXCEPT !.op = op, !.stage = "check", !.rows = {r}, !.todo = {ChargeOf[r]}, !.pay = f]
        \in Jobs
  BY <1>5, <1>7 DEF Jobs
<1> QED  BY <1>4, <1>6, <1>8

(* A full refund prepares a job.                                           *)
LEMMA FullType ==
  ASSUME TypeInv, NEW w \in Workers, NEW p \in Receipts, NEW exclude \in BOOLEAN,
         ProcessFullRefund(w, p, exclude)
  PROVE  TypeInv'
<1>1. PICK j \in CancelAndRefund({p}, exclude) :
        Begin(w, IF j.todo = {}
                 THEN [j EXCEPT !.op = "full", !.stage = "commit", !.note = {p}, !.close = {p}]
                 ELSE [j EXCEPT !.op = "full"])
  BY DEF ProcessFullRefund
<1>2. j \in Jobs /\ j.stage = "check"
  BY CancelType
<1>3. [j EXCEPT !.op = "full", !.stage = "commit", !.note = {p}, !.close = {p}] \in Jobs
  BY <1>2 DEF Jobs, Ops, Stages
<1>4. [j EXCEPT !.op = "full"] \in Jobs /\ [j EXCEPT !.op = "full"].stage = "check"
  BY <1>2 DEF Jobs, Ops
<1>5. [j EXCEPT !.op = "full", !.stage = "commit", !.note = {p}, !.close = {p}].stage = "commit"
  BY <1>2 DEF Jobs
<1>6. CASE j.todo = {}
  BY <1>1, <1>3, <1>5, <1>6, BeginType
<1>7. CASE j.todo # {}
  BY <1>1, <1>4, <1>7, BeginType
<1> QED  BY <1>6, <1>7

(* Several cancellations prepare a job.                                    *)
LEMMA MultipleType ==
  ASSUME TypeInv, NEW w \in Workers, NEW S \in Batches, NEW exclude \in BOOLEAN,
         CancelMultiple(w, S, exclude)
  PROVE  TypeInv'
<1>0. S \in SUBSET Receipts
  BY RefundConstants DEF RefundConstants
<1>1. PICK j \in CancelAndRefund(S, exclude), skipped \in SUBSET Receipts :
        Begin(w, [j EXCEPT !.op = "batch", !.note = skipped, !.close = skipped,
                           !.stage = IF j.todo = {} THEN "last" ELSE "check"])
  <2>1. PICK j \in CancelAndRefund(S, exclude) :
          Begin(w, [j EXCEPT !.op = "batch",
                             !.note = {p \in S : j.rows \cap RowsOn(p) = {}},
                             !.close = {p \in S : j.rows \cap RowsOn(p) = {}},
                             !.stage = IF j.todo = {} THEN "last" ELSE "check"])
    BY DEF CancelMultiple
  <2>2. {p \in S : j.rows \cap RowsOn(p) = {}} \in SUBSET Receipts
    BY <1>0
  <2> QED  BY <2>1, <2>2
<1>2. PICK st \in {"last", "check"} : st = IF j.todo = {} THEN "last" ELSE "check"
  OBVIOUS
<1>3. j \in Jobs
  BY <1>0, CancelType
<1> DEFINE k == [j EXCEPT !.op = "batch", !.note = skipped, !.close = skipped, !.stage = st]
<1>4. k \in Jobs /\ k.stage = st
  BY <1>3 DEF Jobs, Ops, Stages
<1>5. Begin(w, k)
  BY <1>1, <1>2
<1> HIDE DEF k
<1> QED  BY <1>2, <1>4, <1>5, BeginType

(* comp_refund_receipt_item prepares a job.                                *)
LEMMA CompRefundType ==
  ASSUME TypeInv, NEW w \in Workers, NEW r \in Rows, NEW n \in Credits,
         CompRefundReceiptItem(w, r, n)
  PROVE  TypeInv'
<1>1. PICK m \in Int : m = Least(n, Left(r))
  BY UpdatedType, RefundConstants DEF Least, TypeInv, RefundConstants
<1>2. PICK j \in Jobs : j = OneRow("comp", r, m) /\ j.stage = "check"
  BY OneRowType DEF OneRow, Idle
<1> DEFINE k == [j EXCEPT !.credit[ReceiptOf[r]] = n]
<1>3. n \in Int
  BY RefundConstants DEF RefundConstants
<1>4. k \in Jobs /\ k.stage = "check"
  BY <1>2, <1>3, AmountsType DEF Jobs
<1>5. Begin(w, k)
  BY <1>1, <1>2 DEF CompRefundReceiptItem
<1> HIDE DEF k
<1> QED  BY <1>4, <1>5, BeginType

(* undo_refund_receipt_item prepares a job.                                *)
LEMMA UndoRefundType ==
  ASSUME TypeInv, NEW w \in Workers, NEW r \in Rows, NEW n \in Credits, NEW exclude \in BOOLEAN,
         UndoRefundReceiptItem(w, r, n, exclude)
  PROVE  TypeInv'
<1>1. n \in Int
  BY RefundConstants DEF RefundConstants
<1>2. PICK j \in Jobs : j = OneRow("undo", r, n) /\ j.rows = {r}
  BY <1>1, OneRowType DEF OneRow, Idle
<1> DEFINE k == [j EXCEPT !.stage = "write", !.exclude = exclude, !.credit[ReceiptOf[r]] = n]
<1>4. k \in Jobs /\ k.rows # {}
  BY <1>1, <1>2, AmountsType DEF Jobs, Stages
<1>5. Begin(w, k)
  BY <1>2 DEF UndoRefundReceiptItem
<1> HIDE DEF k
<1> QED  BY <1>4, <1>5, BeginType

(* settle_up prepares a job.                                               *)
LEMMA SettleType ==
  ASSUME TypeInv, NEW w \in Workers, NEW r \in Rows, SettleUp(w, r)
  PROVE  TypeInv'
<1>1. PICK n \in Int : n = -CurrentReceiptAmount(ReceiptOf[r])
  BY UpdatedType, AmountsType DEF TypeInv
<1>2. Begin(w, OneRow("settle", r, n))
  BY <1>1 DEF SettleUp
<1>3. OneRow("settle", r, n) \in Jobs
  BY <1>1, OneRowType
<1>4. OneRow("settle", r, n).stage = "check"
  BY DEF OneRow, Idle
<1> QED  BY <1>2, <1>3, <1>4, BeginType

(* refresh_receipt_txn prepares a job.                                     *)
LEMMA RefreshType ==
  ASSUME TypeInv, NEW w \in Workers, NEW r \in Rows, RefreshReceiptTxn(w, r)
  PROVE  TypeInv'
<1>1. PICK u \in Int : u = UpdatedRefund(r)
  BY UpdatedType DEF TypeInv
<1>2. PICK b \in Int : b = IF refunded[r] < u THEN u - refunded[r] ELSE 0
  <2>1. refunded[r] \in Int
    BY DEF TypeInv, TypeOK
  <2>2. u - refunded[r] \in Int
    BY <2>1
  <2> QED  BY <2>2
<1> DEFINE k == [Idle EXCEPT !.op = "refresh", !.stage = "commit", !.touched = {r},
                             !.next[r] = u, !.book[r] = b]
<1>3. k \in Jobs /\ k.stage = "commit"
  <2>1. Idle.next = NoneOf(Rows) /\ Idle.book = NoneOf(Rows) /\ NoneOf(Rows) \in [Rows -> Int]
    BY DEF Idle, NoneOf
  <2>2. PICK f \in [Rows -> Int], g \in [Rows -> Int] :
          f = [NoneOf(Rows) EXCEPT ![r] = u] /\ g = [NoneOf(Rows) EXCEPT ![r] = b]
    BY <2>1
  <2>3. k = [Idle EXCEPT !.op = "refresh", !.stage = "commit", !.touched = {r},
                         !.next = f, !.book = g]
    BY <2>1, <2>2
  <2> HIDE DEF k
  <2> QED  BY <2>3, IdleType DEF Jobs, Ops, Stages
<1>4. Begin(w, k)
  BY <1>1, <1>2 DEF RefreshReceiptTxn
<1> HIDE DEF k
<1> QED  BY <1>3, <1>4, BeginType

(* Whatever a handler starts keeps the types.                              *)
LEMMA StartType ==
  ASSUME TypeInv, NEW w \in Workers, Start(w)
  PROVE  TypeInv'
<1>1. ASSUME NEW p \in Receipts, NEW n \in Credits, CompReceiptItem(w, p, n)
      PROVE  TypeInv'
  BY <1>1, RefundConstants
     DEF CompReceiptItem, TypeInv, TypeOK, WritersHaveRows, RefundConstants
<1> QED  BY <1>1, FullType, MultipleType, CompRefundType, UndoRefundType, SettleType, RefreshType
            DEF Start

(* A handler that goes on has a job, too.                                  *)
LEMMA StepType ==
  ASSUME TypeInv, NEW w \in Workers, NEW k \in Jobs, k.stage = "write" => k.rows # {},
         job' = [job EXCEPT ![w] = k],
         refunded' \in [Rows -> Int], booked' \in [Rows -> Int],
         credit' \in [Receipts -> Int], fee' \in [Receipts -> Int],
         closed' \in SUBSET Receipts, stripe' \in [Charges -> Int],
         crashes' \in 0 .. MaxCrashes, outside' \in 0 .. MaxOutside
  PROVE  TypeInv'
<1>1. TypeOK'
  BY DEF TypeInv, TypeOK
<1>2. WritersHaveRows'
  BY DEF TypeInv, TypeOK, WritersHaveRows
<1> QED  BY <1>1, <1>2 DEF TypeInv

(* What the rows will say is a number for each.                            *)
LEMMA WrittenType ==
  ASSUME TypeOK, NEW j \in Jobs
  PROVE  WrittenRefunds(j) \in [Rows -> Int]
BY DEF WrittenRefunds, TypeOK, Jobs

(* What the steps do, in these terms.                                      *)
LEMMA ValidateStep ==
  ASSUME NEW w \in Workers, ValidateTxns(w)
  PROVE  /\ job[w].stage = "check"
         /\ \E c \in job[w].todo :
              job' = [job EXCEPT ![w] =
                        IF Good(job[w], c) = {} \/ job[w].pay[c] > Most(job[w], c) THEN Idle
                        ELSE Checked(job[w], c)]
         /\ UNCHANGED <<ledger, stripe, crashes, outside>>
BY DEF ValidateTxns, Good, OnCharge, Most, LeftAtStripe, Checked

(* What a refund at Stripe does, in the same terms.                        *)
LEMMA RefundStep ==
  ASSUME NEW w \in Workers, StripeRefunds(w)
  PROVE  /\ job[w].stage = "pay"
         /\ \E r \in job[w].now :
              /\ stripe' = [stripe EXCEPT ![ChargeOf[r]] = @ + job[w].pay[ChargeOf[r]]]
              /\ job' = [job EXCEPT ![w] = Refunded(job[w], ChargeOf[r])]
         /\ UNCHANGED <<ledger, crashes, outside>>
<1>1. PICK c \in {ChargeOf[r] : r \in job[w].now} :
        /\ stripe' = [stripe EXCEPT ![c] = @ + job[w].pay[c]]
        /\ job' = [job EXCEPT ![w] = Refunded(job[w], c)]
  BY DEF StripeRefunds, Refunded, OnCharge
<1>2. PICK r \in job[w].now : c = ChargeOf[r]
  OBVIOUS
<1>3. job[w].stage = "pay" /\ UNCHANGED <<ledger, crashes, outside>>
  BY DEF StripeRefunds
<1> QED  BY <1>1, <1>2, <1>3

(* A request to Stripe leaves a job, or an idle handler.                   *)
LEMMA ValidateType ==
  ASSUME TypeInv, NEW w \in Workers, ValidateTxns(w)
  PROVE  TypeInv'
<1>1. PICK j \in Jobs : j = job[w]
  BY DEF TypeInv, TypeOK
<1>2. PICK c \in j.todo :
        job' = [job EXCEPT ![w] =
                  IF Good(j, c) = {} \/ j.pay[c] > Most(j, c) THEN Idle ELSE Checked(j, c)]
  BY <1>1, ValidateStep
<1> DEFINE rows == OnCharge(j, c)
           good == Good(j, c)
           most == Most(j, c)
           next == [r \in Rows |-> IF r \in rows THEN UpdatedRefund(r) ELSE j.next[r]]
           st == IF j.op = "comp" THEN "write" ELSE "pay"
           pay == [j.pay EXCEPT ![c] = IF @ = 0 THEN most ELSE @]
           k == [j EXCEPT !.stage = st, !.todo = @ \ {c}, !.pay = pay, !.now = good,
                          !.touched = @ \cup rows, !.next = next]
<1>3. /\ rows \in SUBSET Rows /\ good \in SUBSET Rows /\ good \subseteq j.rows
      /\ j.pay \in [Charges -> Int] /\ j.next \in [Rows -> Int]
  BY DEF Jobs, OnCharge, Good
<1>4. next \in [Rows -> Int]
  BY <1>3, UpdatedType DEF TypeInv
<1>5. most \in Int
  <2>1. \A r \in good : LeftAtStripe[r] \in Int
    BY <1>3, AmountsType, UpdatedType DEF TypeInv, LeftAtStripe
  <2> QED  BY <1>3, <2>1, TotalType DEF Most
<1>6. pay \in [Charges -> Int]
  <2> HIDE DEF most
  <2> QED  BY <1>3, <1>5
<1>7. st \in {"write", "pay"} /\ {"write", "pay"} \subseteq Stages
  BY DEF Stages
<1>8. /\ \/ job' = [job EXCEPT ![w] = Idle]
         \/ good # {} /\ job' = [job EXCEPT ![w] = k]
  BY <1>2 DEF Checked
<1> HIDE DEF rows, good, most, next, st, pay
<1>9. k \in Jobs /\ k.rows = j.rows
  BY <1>3, <1>4, <1>6, <1>7 DEF Jobs
<1> HIDE DEF k
<1>10. PICK m \in Jobs : /\ m.stage = "write" => m.rows # {}
                         /\ job' = [job EXCEPT ![w] = m]
  <2>1. CASE job' = [job EXCEPT ![w] = Idle]
    BY <2>1, IdleType DEF Idle
  <2>2. CASE good # {} /\ job' = [job EXCEPT ![w] = k]
    BY <1>3, <1>9, <2>2
  <2> QED  BY <1>8, <2>1, <2>2
<1> QED  BY <1>10, StepType DEF ValidateTxns, ledger, TypeInv, TypeOK

(* The commit of a credit leaves a job, or an idle handler.                *)
LEMMA WriteCreditType ==
  ASSUME TypeInv, NEW w \in Workers, WriteCredit(w)
  PROVE  TypeInv'
<1>1. PICK j \in Jobs, r \in Rows : j = job[w] /\ r = CHOOSE q \in j.rows : TRUE
  <2>1. job[w] \in Jobs /\ job[w].rows # {} /\ job[w].rows \in SUBSET Rows
    BY DEF WriteCredit, TypeInv, TypeOK, WritersHaveRows, Jobs
  <2> QED  BY <2>1
<1>2. /\ j.pay \in [Charges -> Int] /\ j.fee \in [Receipts -> Int] /\ j.credit \in [Receipts -> Int]
      /\ Left(r) \in Int /\ ChargeOf[r] \in Charges /\ ReceiptOf[r] \in Receipts
  BY AmountsType, UpdatedType DEF Jobs, TypeInv
<1>3. PICK n \in Int : n = Least(j.pay[ChargeOf[r]], Left(r))
  BY <1>2 DEF Least
<1>4. PICK kept \in Int : kept = IF j.exclude THEN FeeShare(r, n) ELSE 0
  BY FeeShareType
<1>5. PICK pay \in [Charges -> Int], fees \in [Receipts -> Int], none \in [Receipts -> Int] :
        /\ pay = [j.pay EXCEPT ![ChargeOf[r]] = n - kept]
        /\ fees = [j.fee EXCEPT ![ReceiptOf[r]] = kept]
        /\ none = NoneOf(Receipts)
  <2>1. [j.pay EXCEPT ![ChargeOf[r]] = n - kept] \in [Charges -> Int]
    BY <1>2
  <2>2. [j.fee EXCEPT ![ReceiptOf[r]] = kept] \in [Receipts -> Int]
    BY <1>2
  <2>3. NoneOf(Receipts) \in [Receipts -> Int]
    BY DEF NoneOf
  <2> QED  BY <2>1, <2>2, <2>3
<1> DEFINE written == [j EXCEPT !.credit = none]
           m == [written EXCEPT !.stage = "pay"]
           k == [written EXCEPT !.stage = "check", !.pay = pay, !.fee = fees,
                                !.note = {ReceiptOf[r]}]
<1>6. written \in Jobs /\ written.pay = j.pay /\ written.fee = j.fee
  BY DEF Jobs
<1>7. \/ job' = [job EXCEPT ![w] = Idle]
      \/ job' = [job EXCEPT ![w] = m]
      \/ job' = [job EXCEPT ![w] = k]
  <2>1. job' = [job EXCEPT ![w] =
          IF j.op = "comp" THEN [written EXCEPT !.stage = "pay"]
          ELSE IF Left(r) = 0 THEN Idle
          ELSE [written EXCEPT !.stage = "check", !.pay[ChargeOf[r]] = n - kept,
                               !.fee[ReceiptOf[r]] = kept, !.note = {ReceiptOf[r]}]]
    BY <1>1, <1>3, <1>4, <1>5 DEF WriteCredit
  <2>2. [written EXCEPT !.stage = "check", !.pay[ChargeOf[r]] = n - kept,
                        !.fee[ReceiptOf[r]] = kept, !.note = {ReceiptOf[r]}] = k
    BY <1>5, <1>6
  <2> HIDE DEF written, k, m
  <2> QED  BY <2>1, <2>2 DEF m
<1> HIDE DEF written
<1>8. m \in Jobs /\ k \in Jobs /\ m.stage = "pay" /\ k.stage = "check"
  BY <1>2, <1>6 DEF Jobs, Stages
<1> HIDE DEF m, k
<1>9. PICK i \in Jobs : i.stage # "write" /\ job' = [job EXCEPT ![w] = i]
  <2>1. CASE job' = [job EXCEPT ![w] = Idle]
    BY <2>1, IdleType DEF Idle
  <2> QED  BY <1>7, <1>8, <2>1
<1>10. refunded' \in [Rows -> Int]
  BY <1>1, WrittenType DEF WriteCredit, TypeInv
<1>11. credit' \in [Receipts -> Int]
  BY <1>1, <1>2 DEF WriteCredit, TypeInv, TypeOK
<1> QED  BY <1>9, <1>10, <1>11, StepType DEF WriteCredit, TypeInv, TypeOK

(* What a refund records is a number for each row.                         *)
LEMMA RecordedType ==
  ASSUME NEW j \in Jobs, NEW c \in Charges
  PROVE  Recorded(j, c) \in [Rows -> Int]
BY AmountsType DEF Recorded, Jobs

(* A refund at Stripe leaves a job.                                        *)
LEMMA StripeRefundsType ==
  ASSUME TypeInv, NEW w \in Workers, StripeRefunds(w)
  PROVE  TypeInv'
<1>1. PICK j \in Jobs : j = job[w]
  BY DEF TypeInv, TypeOK
<1>2. j.now \in SUBSET Rows /\ j.rows \in SUBSET Rows /\ j.pay \in [Charges -> Int]
  BY DEF Jobs
<1>3. PICK c \in Charges :
        /\ stripe' = [stripe EXCEPT ![c] = @ + j.pay[c]]
        /\ job' = [job EXCEPT ![w] = Refunded(j, c)]
  <2>1. PICK r \in j.now :
          /\ stripe' = [stripe EXCEPT ![ChargeOf[r]] = @ + j.pay[ChargeOf[r]]]
          /\ job' = [job EXCEPT ![w] = Refunded(j, ChargeOf[r])]
    BY <1>1, RefundStep
  <2> QED  BY <1>2, <2>1, AmountsType
<1> DEFINE rec == Recorded(j, c)
           paid == {ReceiptOf[r] : r \in j.now}
           next == [r \in Rows |-> j.next[r] + rec[r]]
           book == [r \in Rows |-> j.book[r] + rec[r]]
           given == {ReceiptOf[r] : r \in OnCharge(j, c)}
           st == IF j.op = "full" /\ j.todo # {} THEN "check" ELSE "commit"
           note == IF j.op = "full" THEN paid ELSE j.note
           close == IF j.op = "full" /\ j.todo = {} THEN paid ELSE j.close
           k == [j EXCEPT !.stage = st, !.now = {}, !.next = next, !.book = book,
                          !.done = @ \cup given, !.note = note, !.close = close]
<1>4. next \in [Rows -> Int] /\ book \in [Rows -> Int]
  BY RecordedType DEF Jobs
<1>5. paid \in SUBSET Receipts /\ given \in SUBSET Receipts
  BY <1>2, AmountsType DEF OnCharge
<1>6. note \in SUBSET Receipts /\ close \in SUBSET Receipts
  BY <1>5 DEF Jobs
<1>7. st \in {"check", "commit"} /\ {"check", "commit"} \subseteq Stages
  BY DEF Stages
<1>8. job' = [job EXCEPT ![w] = k]
  BY <1>3 DEF Refunded
<1>9. stripe' \in [Charges -> Int]
  BY <1>2, <1>3 DEF TypeInv, TypeOK
<1> HIDE DEF rec, paid, next, book, given, st, note, close
<1>10. k \in Jobs /\ k.stage = st
  BY <1>4, <1>5, <1>6, <1>7 DEF Jobs
<1> HIDE DEF k
<1> QED  BY <1>7, <1>8, <1>9, <1>10, StepType DEF StripeRefunds, ledger, TypeInv, TypeOK

(* A refused refund leaves a job, or an idle handler.                      *)
LEMMA ErrorType ==
  ASSUME TypeInv, NEW w \in Workers, RefundError(w)
  PROVE  TypeInv'
<1>1. PICK j \in Jobs : j = job[w]
  BY DEF TypeInv, TypeOK
<1> DEFINE refused == {ReceiptOf[r] :
                         r \in {q \in j.rows : \E n \in j.now : ChargeOf[q] = ChargeOf[n]}}
           st == IF j.todo = {} THEN "last" ELSE "check"
           full == [j EXCEPT !.stage = "commit", !.todo = {}]
           batch == [j EXCEPT !.stage = st, !.now = {}, !.failed = @ \cup refused]
<1>2. job' = [job EXCEPT ![w] = full] \/ job' = [job EXCEPT ![w] = batch]
        \/ job' = [job EXCEPT ![w] = Idle]
  BY <1>1 DEF RefundError, AfterError
<1>3. refused \in SUBSET Receipts
  BY AmountsType DEF Jobs
<1>4. st \in {"last", "check"} /\ {"last", "check", "commit"} \subseteq Stages
  BY DEF Stages
<1> HIDE DEF refused, st
<1>5. full \in Jobs /\ full.stage = "commit"
  BY <1>4 DEF Jobs
<1>6. batch \in Jobs /\ batch.stage = st
  BY <1>3, <1>4 DEF Jobs
<1> HIDE DEF full, batch
<1>7. PICK i \in Jobs : i.stage # "write" /\ job' = [job EXCEPT ![w] = i]
  <2>1. CASE job' = [job EXCEPT ![w] = Idle]
    BY <2>1, IdleType DEF Idle
  <2> QED  BY <1>2, <1>4, <1>5, <1>6, <2>1
<1> QED  BY <1>7, StepType DEF RefundError, ledger, TypeInv, TypeOK

(* A commit writes numbers.                                                *)
LEMMA WriteType ==
  ASSUME TypeInv, NEW j \in Jobs, NEW note \in SUBSET Receipts, NEW close \in SUBSET Receipts,
         Write(j, note, close)
  PROVE  /\ refunded' \in [Rows -> Int] /\ booked' \in [Rows -> Int]
         /\ credit' \in [Receipts -> Int] /\ fee' \in [Receipts -> Int]
         /\ closed' \in SUBSET Receipts
<1>1. refunded' \in [Rows -> Int]
  BY WrittenType DEF Write, TypeInv
<1>2. booked' \in [Rows -> Int]
  BY DEF Write, TypeInv, TypeOK, Jobs
<1>3. credit' \in [Receipts -> Int] /\ fee' \in [Receipts -> Int]
  BY DEF Write, Added, TypeInv, TypeOK, Jobs
<1>4. closed' \in SUBSET Receipts
  BY DEF Write, TypeInv, TypeOK
<1> QED  BY <1>1, <1>2, <1>3, <1>4

(* A commit leaves a job, or an idle handler.                              *)
LEMMA CommitType ==
  ASSUME TypeInv, NEW w \in Workers, Commit(w)
  PROVE  TypeInv'
<1>1. PICK j \in Jobs : j = job[w]
  BY DEF TypeInv, TypeOK
<1> DEFINE st == IF j.todo = {} THEN "last" ELSE "check"
           k == [j EXCEPT !.stage = st, !.touched = {}, !.book = NoneOf(Rows), !.note = {},
                          !.close = {}]
<1>2. job' = [job EXCEPT ![w] = k] \/ job' = [job EXCEPT ![w] = Idle]
  BY <1>1 DEF Commit
<1>3. st \in {"last", "check"} /\ {"last", "check"} \subseteq Stages
  BY DEF Stages
<1>4. NoneOf(Rows) \in [Rows -> Int]
  BY DEF NoneOf
<1> HIDE DEF st
<1>5. k \in Jobs /\ k.stage = st
  BY <1>3, <1>4 DEF Jobs
<1> HIDE DEF k
<1>6. PICK i \in Jobs : i.stage # "write" /\ job' = [job EXCEPT ![w] = i]
  <2>1. CASE job' = [job EXCEPT ![w] = Idle]
    BY <2>1, IdleType DEF Idle
  <2> QED  BY <1>2, <1>3, <1>5, <2>1
<1>7. Write(j, j.note, j.close) /\ j.note \in SUBSET Receipts /\ j.close \in SUBSET Receipts
  BY <1>1 DEF Commit, Jobs
<1>8. /\ refunded' \in [Rows -> Int] /\ booked' \in [Rows -> Int]
      /\ credit' \in [Receipts -> Int] /\ fee' \in [Receipts -> Int]
      /\ closed' \in SUBSET Receipts
  BY <1>7, WriteType
<1> QED  BY <1>6, <1>7, <1>8, StepType DEF Write, TypeInv, TypeOK

(* The last commit of several cancellations leaves an idle handler.        *)
LEMMA CommitCancelledType ==
  ASSUME TypeInv, NEW w \in Workers, CommitCancelled(w)
  PROVE  TypeInv'
<1>1. PICK j \in Jobs : j = job[w]
  BY DEF TypeInv, TypeOK
<1>2. PICK note \in SUBSET Receipts, close \in SUBSET Receipts : Write(j, note, close)
  BY <1>1 DEF CommitCancelled, Jobs
<1>3. /\ refunded' \in [Rows -> Int] /\ booked' \in [Rows -> Int]
      /\ credit' \in [Receipts -> Int] /\ fee' \in [Receipts -> Int]
      /\ closed' \in SUBSET Receipts
  BY <1>2, WriteType
<1>4. Idle.stage = "idle" /\ job' = [job EXCEPT ![w] = Idle]
  BY DEF Idle, CommitCancelled
<1> QED  BY <1>2, <1>3, <1>4, IdleType, StepType DEF Write, TypeInv, TypeOK

(* A killed handler is an idle one.                                        *)
LEMMA CrashType ==
  ASSUME TypeInv, NEW w \in Workers, Crash(w)
  PROVE  TypeInv'
<1>1. Idle.stage = "idle" /\ job' = [job EXCEPT ![w] = Idle]
  BY DEF Idle, Crash
<1>2. crashes' \in 0 .. MaxCrashes
  BY RefundConstants DEF Crash, RefundConstants, TypeInv, TypeOK
<1> QED  BY <1>1, <1>2, IdleType, StepType DEF Crash, ledger, TypeInv, TypeOK

(* A refund in Stripe's own pages changes what Stripe says.                *)
LEMMA OutsideType ==
  ASSUME TypeInv, NEW c \in Charges, NEW n \in Credits, OutsideRefund(c, n)
  PROVE  TypeInv'
<1>1. n \in Int
  BY RefundConstants DEF RefundConstants
<1>2. stripe' \in [Charges -> Int] /\ outside' \in 0 .. MaxOutside
  BY <1>1, RefundConstants DEF OutsideRefund, RefundConstants, TypeInv, TypeOK
<1> QED  BY <1>2 DEF OutsideRefund, ledger, TypeInv, TypeOK, WritersHaveRows

(* The types at first.                                                     *)
LEMMA TypeInit == Init => TypeInv
<1> SUFFICES ASSUME Init  PROVE TypeInv
  OBVIOUS
<1>1. TypeOK
  BY IdleType, RefundConstants DEF Init, TypeOK, NoneOf, RefundConstants
<1>2. WritersHaveRows
  BY DEF Init, WritersHaveRows, Idle
<1> QED  BY <1>1, <1>2 DEF TypeInv

(* Every step keeps the types.                                             *)
LEMMA TypeStep == TypeInv /\ [Next]_vars => TypeInv'
<1> SUFFICES ASSUME TypeInv, [Next]_vars  PROVE TypeInv'
  OBVIOUS
<1>1. CASE UNCHANGED vars
  BY <1>1 DEF vars, ledger, TypeInv, TypeOK, WritersHaveRows
<1>2. ASSUME NEW w \in Workers, Start(w) \/ Continue(w) \/ Crash(w)  PROVE TypeInv'
  BY <1>2, StartType, ValidateType, WriteCreditType, StripeRefundsType, ErrorType, CommitType,
     CommitCancelledType, CrashType DEF Continue
<1>3. ASSUME NEW c \in Charges, NEW n \in Credits, OutsideRefund(c, n)  PROVE TypeInv'
  BY <1>3, OutsideType
<1> QED  BY <1>1, <1>2, <1>3 DEF Next

(* Every variable of the refunds keeps its type, for any charges, receipts *)
(* and handlers (cancel_and_refund, RefundRequest and their callers).      *)
THEOREM RefundTypeCorrect == Spec => []TypeOK
<1>1. TypeInv => TypeOK
  BY DEF TypeInv
<1> QED  BY <1>1, TypeInit, TypeStep, PTL DEF Spec
-----------------------------------------------------------------------------
(***************************************************************************)
(* The invariant                                                           *)
(***************************************************************************)

StripeKeepsNothing == \A c \in Charges : Fee[c] = 0

AllOf(p) == Total(Amount, RowsOn(p))
Whole(j) == j.op \in {"full", "batch"}
ReceiptsOf(S) == {ReceiptOf[r] : r \in S}
TouchedBy(j) == ReceiptsOf(j.rows)

(* What is left of the rows: as committed, and with what a job will write. *)
LeftNow == [r \in Rows |-> Left(r)]
LeftThen(j) == [r \in Rows |-> Amount[r] - WrittenRefunds(j)[r]]

RowsSound ==
  \A r \in Rows : 0 <= booked[r] /\ booked[r] <= refunded[r] /\ refunded[r] <= Amount[r]

LedgerSound ==
  /\ RowsSound
  /\ TrackedIsReal
  /\ \A p \in Receipts : credit[p] <= AllOf(p) /\ fee[p] = 0
  /\ Undisturbed => /\ \A r \in Rows : booked[r] = refunded[r]
                    /\ \A p \in closed : credit[p] = AllOf(p)
                    /\ \A r \in Rows : ReceiptOf[r] \in closed => refunded[r] = Amount[r]

(* What a job will write counts every refund it books and no more than     *)
(* Stripe refunded, or exactly that if nothing was disturbed.              *)
CountsSound(j) ==
  /\ \A r \in Rows : /\ 0 <= j.book[r] /\ refunded[r] + j.book[r] <= WrittenRefunds(j)[r]
                     /\ WrittenRefunds(j)[r] <= Amount[r]
  /\ \A c \in Charges : Total(WrittenRefunds(j), RowsOf(c)) <= stripe[c]
  /\ Undisturbed =>
       /\ \A r \in Rows : WrittenRefunds(j)[r] = refunded[r] + j.book[r]
       /\ \A c \in Charges : Total(WrittenRefunds(j), RowsOf(c)) = stripe[c]

ShapeSound(j) ==
  /\ j.stage = "idle" => j = Idle
  /\ j.stage = "last" => j.op = "batch" /\ j.todo = {}
  /\ j.stage = "write" => ~Whole(j)
  /\ j.op # "full" /\ j.stage # "commit" => \A r \in Rows : j.book[r] = 0
  /\ j.now # {} => \/ j.stage = "pay"
                   \/ j.op = "comp" /\ j.stage = "write"
                   \/ j.op = "full" /\ j.stage = "commit"
  /\ j.op = "full" => j.failed = {}

(* Of a charge still to be refunded nothing is written or booked, and a    *)
(* cancellation is to refund all that is left of it.                       *)
TodoSound(j) ==
  \A c \in j.todo :
    /\ \A r \in RowsOf(c) : r \notin j.touched /\ j.book[r] = 0
    /\ Whole(j) => /\ OnCharge(j, c) # {}
                   /\ \A r \in OnCharge(j, c) : refunded[r] < Amount[r]
                   /\ j.pay[c] = Total(LeftNow, OnCharge(j, c))
    /\ ~Whole(j) => 0 <= j.pay[c] /\ \E r \in Rows : j.rows = {r}

(* A refund being made is of one charge, and of no more than is left.      *)
PaySound(j) ==
  /\ j.now \subseteq j.touched \cap j.rows
  /\ \A r \in j.now :
       /\ ChargeOf[r] \notin j.todo
       /\ \A q \in j.now : ChargeOf[q] = ChargeOf[r]
       /\ 0 <= j.pay[ChargeOf[r]] /\ j.pay[ChargeOf[r]] <= Total(LeftThen(j), j.now)
       /\ Whole(j) => j.pay[ChargeOf[r]] = Total(LeftThen(j), j.now)
       /\ ~Whole(j) => j.now = {r}

(* Credits never exceed what was paid; a cancellation credits the rest.    *)
CreditSound(j) ==
  /\ \A p \in Receipts : j.fee[p] = 0
  /\ ~Whole(j) =>
       /\ j.close = {}
       /\ \A p \in Receipts : /\ credit[p] + j.credit[p] <= AllOf(p)
                              /\ p \in closed => j.credit[p] = 0
  /\ Whole(j) =>
       /\ j.close \subseteq j.note
       /\ j.done \subseteq TouchedBy(j)
       /\ j.op = "batch" => j.note \cap TouchedBy(j) = {}
       /\ j.op = "full" => \A p, q \in j.note \cup TouchedBy(j) : p = q
       /\ \A p \in j.note \cup TouchedBy(j) :
            p \notin closed /\ credit[p] + j.credit[p] = AllOf(p)

(* What is closed, or will be when no refund is refused, is refunded.      *)
CloseSound(j) ==
  Undisturbed /\ Whole(j) =>
    /\ \A r \in Rows : ReceiptOf[r] \in j.close => WrittenRefunds(j)[r] = Amount[r]
    /\ j.op = "batch" \/ j.stage # "commit" =>
         \A r \in Rows : ReceiptOf[r] \in TouchedBy(j) \ j.failed =>
           \/ WrittenRefunds(j)[r] = Amount[r]
           \/ r \in j.rows /\ ChargeOf[r] \in j.todo
           \/ r \in j.now

JobSound(j) ==
  /\ CountsSound(j) /\ ShapeSound(j) /\ TodoSound(j)
  /\ PaySound(j) /\ CreditSound(j) /\ CloseSound(j)

Sound(w) == LedgerSound /\ \A j \in {job[w]} : JobSound(j)

-----------------------------------------------------------------------------
(* Lemmas about the operators                                              *)

(* Sets of rows are finite.                                                *)
LEMMA RowsFinite == \A S \in SUBSET Rows : IsFiniteSet(S)
BY RefundConstants, FS_Subset DEF RefundConstants

(* Where Stripe keeps no fees, nothing has a share in them.                *)
LEMMA NoShare ==
  ASSUME StripeKeepsNothing
  PROVE  \A r \in Rows, n \in Int : FeeShare(r, n) = 0
<1> SUFFICES ASSUME NEW r \in Rows, NEW n \in Int  PROVE FeeShare(r, n) = 0
  OBVIOUS
<1>1. PICK d : d = Total(Amount, RowsOf(ChargeOf[r])) /\ d \in Nat /\ d > 0
  BY AmountsType
<1>2. Fee[ChargeOf[r]] = 0
  BY AmountsType DEF StripeKeepsNothing
<1>3. n * 0 = 0 /\ 0 \div d = 0
  BY <1>1
<1> QED  BY <1>1, <1>2, <1>3 DEF FeeShare

(* update_amount_refunded finds no less than was known, and no more than   *)
(* Stripe refunded beyond what the rows count.                             *)
LEMMA UpdatedSound ==
  ASSUME TypeOK, RowsSound, TrackedIsReal
  PROVE  \A r \in Rows :
           /\ UpdatedRefund(r) \in Int /\ refunded[r] <= UpdatedRefund(r)
           /\ UpdatedRefund(r) <= Amount[r]
           /\ UpdatedRefund(r)
                <= refunded[r] + (stripe[ChargeOf[r]] - Total(refunded, RowsOf(ChargeOf[r])))
<1> SUFFICES ASSUME NEW r \in Rows
             PROVE  /\ UpdatedRefund(r) \in Int /\ refunded[r] <= UpdatedRefund(r)
                    /\ UpdatedRefund(r) <= Amount[r]
                    /\ UpdatedRefund(r)
                         <= refunded[r] +
                              (stripe[ChargeOf[r]] - Total(refunded, RowsOf(ChargeOf[r])))
  OBVIOUS
<1>1. r \in RowsOf(ChargeOf[r]) /\ RowsOf(ChargeOf[r]) \in SUBSET Rows /\ ChargeOf[r] \in Charges
  BY AmountsType DEF RowsOf
<1>2. PICK c \in Charges, S \in SUBSET Rows : c = ChargeOf[r] /\ S = RowsOf(c) /\ r \in S
  BY <1>1
<1>3. \A q \in S : refunded[q] \in Int
  BY DEF TypeOK
<1>4. Total(refunded, S) = refunded[r] + Total(refunded, S \ {r})
  BY <1>2, <1>3, RowsFinite, SumWithout DEF Total
<1>5. Total(refunded, S) \in Int /\ Total(refunded, S \ {r}) \in Int
  BY <1>3, TotalType
<1>6. Total(refunded, S) <= stripe[c] /\ refunded[r] <= Amount[r]
  BY <1>2 DEF TrackedIsReal, RowsSound
<1>7. stripe[c] \in Int /\ refunded[r] \in Int /\ Amount[r] \in Int
  BY AmountsType DEF TypeOK
<1>8. UpdatedRefund(r) = Least(Amount[r], stripe[c] - Total(refunded, S \ {r}))
  BY <1>2 DEF UpdatedRefund
<1> QED  BY <1>2, <1>4, <1>5, <1>6, <1>7, <1>8 DEF Least

(* Nobody has an idle job in flight: an idle handler will write what is    *)
(* committed.                                                              *)
LEMMA IdleFields ==
  /\ Idle.op = "none" /\ Idle.stage = "idle" /\ Idle.todo = {} /\ Idle.rows = {}
  /\ Idle.now = {} /\ Idle.touched = {} /\ Idle.note = {} /\ Idle.close = {} /\ Idle.done = {}
  /\ Idle.failed = {}
  /\ \A r \in Rows : Idle.book[r] = 0
  /\ \A p \in Receipts : Idle.credit[p] = 0 /\ Idle.fee[p] = 0
BY DEF Idle, NoneOf

(* What is said of a column is said of one that agrees with it.            *)
LEMMA TotalSame ==
  ASSUME NEW f, NEW g, NEW S \in SUBSET Rows, \A r \in S : f[r] = g[r]
  PROVE  Total(f, S) = Total(g, S)
BY RowsFinite, SumSame DEF Total

(* What a step has to show.                                                *)
LEMMA SoundAgain ==
  ASSUME TypeInv, NEW w \in Workers, NEW k, job' = [job EXCEPT ![w] = k],
         LedgerSound', JobSound(k)'
  PROVE  Sound(w)'
<1>1. job'[w] = k
  BY DEF TypeInv, TypeOK
<1> QED  BY <1>1 DEF Sound

(* The ledger stays sound when nothing is written.                         *)
LEMMA LedgerKept ==
  ASSUME LedgerSound, UNCHANGED <<ledger, stripe>>, Undisturbed' => Undisturbed
  PROVE  LedgerSound'
<1>1. /\ UNCHANGED refunded /\ UNCHANGED booked /\ UNCHANGED credit /\ UNCHANGED fee
      /\ UNCHANGED closed /\ UNCHANGED stripe
  BY DEF ledger
<1>2. RowsSound' /\ TrackedIsReal'
  BY <1>1 DEF LedgerSound, RowsSound, TrackedIsReal
<1>3. Undisturbed' => Undisturbed
  OBVIOUS
<1> QED  BY <1>1, <1>2, <1>3 DEF LedgerSound

(* A handler that ends leaves a sound job behind.                          *)
LEMMA IdleSound ==
  ASSUME TypeOK', LedgerSound',
         Undisturbed' => \A c \in Charges : Total(refunded', RowsOf(c)) = stripe'[c]
  PROVE  JobSound(Idle)'
<1>1. WrittenRefunds(Idle)' = refunded'
  BY IdleFields DEF WrittenRefunds, TypeOK
<1>2. CountsSound(Idle)'
  <2>1. \A r \in Rows : Idle.book[r] = 0 /\ refunded'[r] \in Int /\ refunded'[r] <= Amount[r]
    BY IdleFields DEF TypeOK, LedgerSound, RowsSound
  <2>2. \A r \in Rows : refunded'[r] + Idle.book[r] = refunded'[r]
    BY <2>1
  <2>3. \A c \in Charges : Total(refunded', RowsOf(c)) <= stripe'[c]
    BY DEF LedgerSound, TrackedIsReal
  <2> QED  BY <1>1, <2>1, <2>2, <2>3 DEF CountsSound
<1>3. ShapeSound(Idle)' /\ TodoSound(Idle)' /\ PaySound(Idle)'
  BY IdleFields DEF ShapeSound, TodoSound, PaySound, Whole
<1>4. CreditSound(Idle)'
  <2>1. \A p \in Receipts : credit'[p] + Idle.credit[p] <= AllOf(p)
    BY IdleFields DEF TypeOK, LedgerSound
  <2> QED  BY <2>1, IdleFields DEF CreditSound, Whole
<1>5. CloseSound(Idle)'
  BY IdleFields DEF CloseSound, Whole
<1> QED  BY <1>2, <1>3, <1>4, <1>5 DEF JobSound

(* A handler without refunds to book may end without writing.              *)
LEMMA NothingBooked ==
  ASSUME TypeOK, NEW j \in Jobs, CountsSound(j), Undisturbed, \A r \in Rows : j.book[r] = 0
  PROVE  \A c \in Charges : Total(refunded, RowsOf(c)) = stripe[c]
<1>1. \A r \in Rows : WrittenRefunds(j)[r] = refunded[r]
  <2>1. \A r \in Rows : WrittenRefunds(j)[r] = refunded[r] + j.book[r] /\ refunded[r] \in Int
    BY DEF CountsSound, TypeOK
  <2> QED  BY <2>1
<1> SUFFICES ASSUME NEW c \in Charges  PROVE Total(refunded, RowsOf(c)) = stripe[c]
  OBVIOUS
<1>2. Total(WrittenRefunds(j), RowsOf(c)) = stripe[c]
  BY DEF CountsSound
<1>3. Total(WrittenRefunds(j), RowsOf(c)) = Total(refunded, RowsOf(c))
  BY <1>1, AmountsType, TotalSame
<1> QED  BY <1>2, <1>3

(* A handler that is killed leaves what is committed.                      *)
LEMMA CrashSound ==
  ASSUME TypeInv, TypeOK', NEW w \in Workers, Sound(w), Crash(w)
  PROVE  Sound(w)'
<1>1. ~Undisturbed'
  <2>1. crashes \in Nat /\ crashes' = crashes + 1
    BY RefundConstants DEF Crash, RefundConstants, TypeInv, TypeOK
  <2>2. crashes' # 0
    BY <2>1
  <2> QED  BY <2>2 DEF Undisturbed
<1>2. LedgerSound'
  BY <1>1, LedgerKept DEF Crash, Sound
<1>3. JobSound(Idle)'
  BY <1>1, <1>2, IdleSound
<1> QED  BY <1>2, <1>3, SoundAgain DEF Crash

(* A refund in Stripe's own pages only raises what Stripe refunded.        *)
LEMMA OutsideSound ==
  ASSUME TypeInv, NEW w \in Workers, Sound(w), NEW c \in Charges, NEW n \in Credits,
         OutsideRefund(c, n)
  PROVE  Sound(w)'
<1>1. n \in Nat /\ stripe \in [Charges -> Int] /\ outside \in Nat
  BY RefundConstants DEF RefundConstants, TypeInv, TypeOK
<1>2. /\ UNCHANGED ledger /\ UNCHANGED job /\ stripe' = [stripe EXCEPT ![c] = @ + n]
      /\ outside' = outside + 1
  BY DEF OutsideRefund
<1>3. ~Undisturbed'
  BY <1>1, <1>2 DEF Undisturbed
<1>4. ASSUME NEW d \in Charges, NEW m \in Int, m <= stripe[d]  PROVE m <= stripe'[d]
  BY <1>1, <1>2, <1>4
<1>5. \A S \in SUBSET Rows, f \in [Rows -> Int] : Total(f, S) \in Int
  BY TotalType
<1>6. /\ UNCHANGED refunded /\ UNCHANGED booked /\ UNCHANGED credit /\ UNCHANGED fee
      /\ UNCHANGED closed
  BY <1>2 DEF ledger
<1>7. LedgerSound'
  <2>1. TrackedIsReal'
    <3> SUFFICES ASSUME NEW d \in Charges  PROVE Total(refunded, RowsOf(d)) <= stripe'[d]
      BY <1>6 DEF TrackedIsReal
    <3>1. Total(refunded, RowsOf(d)) \in Int /\ Total(refunded, RowsOf(d)) <= stripe[d]
      BY <1>5, AmountsType DEF Sound, LedgerSound, TrackedIsReal, TypeInv, TypeOK
    <3> QED  BY <1>4, <3>1
  <2>2. RowsSound'
    BY <1>6 DEF Sound, LedgerSound, RowsSound
  <2>3. \A p \in Receipts : credit'[p] <= AllOf(p) /\ fee'[p] = 0
    BY <1>6 DEF Sound, LedgerSound
  <2> QED  BY <1>3, <2>1, <2>2, <2>3 DEF LedgerSound
<1>8. ASSUME NEW j \in Jobs, JobSound(j)  PROVE JobSound(j)'
  <2>1. WrittenRefunds(j)' = WrittenRefunds(j)
    BY <1>6 DEF WrittenRefunds
  <2>2. CountsSound(j)'
    <3>1. ASSUME NEW d \in Charges
          PROVE  Total(WrittenRefunds(j), RowsOf(d)) <= stripe'[d]
      <4>1. /\ Total(WrittenRefunds(j), RowsOf(d)) \in Int
            /\ Total(WrittenRefunds(j), RowsOf(d)) <= stripe[d]
        BY <1>5, <1>8, AmountsType, WrittenType DEF JobSound, CountsSound, TypeInv
      <4> QED  BY <1>4, <4>1
    <3>2. \A r \in Rows :
            /\ 0 <= j.book[r] /\ refunded[r] + j.book[r] <= WrittenRefunds(j)[r]
            /\ WrittenRefunds(j)[r] <= Amount[r]
      BY <1>8 DEF JobSound, CountsSound
    <3> QED  BY <1>3, <1>6, <2>1, <3>1, <3>2 DEF CountsSound
  <2>3. ShapeSound(j)' /\ CreditSound(j)'
    BY <1>6, <1>8 DEF JobSound, ShapeSound, CreditSound
  <2>4. TodoSound(j)'
    BY <1>6, <1>8 DEF JobSound, TodoSound, LeftNow, Left
  <2>5. PaySound(j)'
    BY <2>1, <1>8 DEF JobSound, PaySound, LeftThen
  <2> QED  BY <1>3, <2>2, <2>3, <2>4, <2>5 DEF JobSound, CloseSound
<1> QED  BY <1>2, <1>7, <1>8 DEF Sound, TypeInv, TypeOK

(* A refused refund: the handler goes on, commits what it has or gives up. *)
LEMMA ErrorSound ==
  ASSUME TypeInv, TypeOK', NEW w \in Workers, Sound(w), RefundError(w)
  PROVE  Sound(w)'
<1>1. PICK j \in Jobs : j = job[w] /\ JobSound(j) /\ j.stage = "pay"
  BY DEF TypeInv, TypeOK, Sound, RefundError
<1>2. /\ UNCHANGED refunded /\ UNCHANGED booked /\ UNCHANGED credit /\ UNCHANGED fee
      /\ UNCHANGED closed /\ UNCHANGED stripe /\ (Undisturbed' => Undisturbed)
  BY DEF RefundError, ledger, Undisturbed
<1>3. LedgerSound'
  BY <1>2, LedgerKept DEF Sound, ledger
<1> DEFINE refused == {ReceiptOf[r] :
                         r \in {q \in j.rows : \E n \in j.now : ChargeOf[q] = ChargeOf[n]}}
           st == IF j.todo = {} THEN "last" ELSE "check"
           full == [j EXCEPT !.stage = "commit", !.todo = {}]
           batch == [j EXCEPT !.stage = st, !.now = {}, !.failed = @ \cup refused]
<1>4. CASE j.op = "full"
  <2>1. job' = [job EXCEPT ![w] = full]
    BY <1>1, <1>4 DEF RefundError, AfterError
  <2>2. /\ full.stage = "commit" /\ full.todo = {} /\ full.op = j.op /\ full.book = j.book
        /\ full.now = j.now /\ full.touched = j.touched /\ full.rows = j.rows
        /\ full.next = j.next /\ full.pay = j.pay /\ full.close = j.close /\ full.note = j.note
        /\ full.done = j.done /\ full.failed = j.failed /\ full.credit = j.credit
        /\ full.fee = j.fee
    BY DEF Jobs
  <2> HIDE DEF full
  <2>3. WrittenRefunds(full)' = WrittenRefunds(j)
    BY <1>2, <2>2 DEF WrittenRefunds
  <2>4. CountsSound(full)'
    BY <1>1, <1>2, <2>2, <2>3 DEF JobSound, CountsSound
  <2>5. ShapeSound(full)' /\ TodoSound(full)'
    BY <1>1, <1>4, <2>2 DEF JobSound, ShapeSound, TodoSound, Whole
  <2>6. PaySound(full)'
    BY <1>1, <1>4, <2>2, <2>3 DEF JobSound, PaySound, LeftThen, Whole
  <2>7. CreditSound(full)'
    BY <1>1, <1>2, <2>2 DEF JobSound, CreditSound, Whole, TouchedBy
  <2>8. CloseSound(full)'
    BY <1>1, <1>2, <1>4, <2>2, <2>3 DEF JobSound, CloseSound, Whole
  <2> QED  BY <1>3, <2>1, <2>4, <2>5, <2>6, <2>7, <2>8, SoundAgain DEF JobSound
<1>5. CASE j.op = "batch"
  <2>1. job' = [job EXCEPT ![w] = batch]
    BY <1>1, <1>5 DEF RefundError, AfterError
  <2>2. /\ batch.stage = st /\ batch.todo = j.todo /\ batch.op = j.op /\ batch.book = j.book
        /\ batch.now = {} /\ batch.touched = j.touched /\ batch.rows = j.rows
        /\ batch.next = j.next /\ batch.pay = j.pay /\ batch.close = j.close
        /\ batch.note = j.note /\ batch.done = j.done /\ batch.failed = j.failed \cup refused
        /\ batch.credit = j.credit /\ batch.fee = j.fee
    BY DEF Jobs
  <2>3. st \in {"last", "check"} /\ (st = "last" <=> j.todo = {})
    OBVIOUS
  <2>4. \A r \in j.now : ReceiptOf[r] \in refused
    BY <1>1 DEF JobSound, PaySound
  <2> HIDE DEF batch, st, refused
  <2>5. WrittenRefunds(batch)' = WrittenRefunds(j)
    BY <1>2, <2>2 DEF WrittenRefunds
  <2>6. CountsSound(batch)'
    BY <1>1, <1>2, <2>2, <2>5 DEF JobSound, CountsSound
  <2>7. ShapeSound(batch)'
    BY <1>1, <1>5, <2>2, <2>3 DEF JobSound, ShapeSound, Whole
  <2>8. TodoSound(batch)'
    <3>1. \A d : OnCharge(batch, d) = OnCharge(j, d)
      BY <2>2 DEF OnCharge
    <3> QED  BY <1>1, <1>2, <1>5, <2>2, <3>1 DEF JobSound, TodoSound, Whole, LeftNow, Left
  <2>9. PaySound(batch)'
    BY <2>2 DEF PaySound
  <2>10. CreditSound(batch)'
    BY <1>1, <1>2, <1>5, <2>2 DEF JobSound, CreditSound, Whole, TouchedBy
  <2>11. CloseSound(batch)'
    BY <1>1, <1>2, <1>5, <2>2, <2>4, <2>5 DEF JobSound, CloseSound, Whole, TouchedBy, ReceiptsOf
  <2> QED  BY <1>3, <2>1, <2>6, <2>7, <2>8, <2>9, <2>10, <2>11, SoundAgain DEF JobSound
<1>6. CASE j.op \notin {"full", "batch"}
  <2>1. job' = [job EXCEPT ![w] = Idle]
    BY <1>1, <1>6 DEF RefundError, AfterError
  <2>2. \A r \in Rows : j.book[r] = 0
    BY <1>1, <1>6 DEF JobSound, ShapeSound
  <2>3. Undisturbed' => \A c \in Charges : Total(refunded', RowsOf(c)) = stripe'[c]
    BY <1>1, <1>2, <2>2, NothingBooked DEF JobSound, TypeInv
  <2> QED  BY <1>3, <2>1, <2>3, IdleSound, SoundAgain
<1> QED  BY <1>4, <1>5, <1>6

-----------------------------------------------------------------------------
(* Asking Stripe what is left                                              *)

(* The rows of a charge that a handler looks at are untouched and, in a    *)
(* cancellation, all have something left.                                  *)
LEMMA CheckedFields ==
  ASSUME TypeInv, NEW j \in Jobs, NEW c \in j.todo
  PROVE  LET k == Checked(j, c) IN
         /\ k.op = j.op /\ k.stage = (IF j.op = "comp" THEN "write" ELSE "pay")
         /\ k.todo = j.todo \ {c} /\ k.rows = j.rows /\ k.now = Good(j, c)
         /\ k.touched = j.touched \cup OnCharge(j, c) /\ k.book = j.book
         /\ k.credit = j.credit /\ k.fee = j.fee /\ k.note = j.note /\ k.close = j.close
         /\ k.done = j.done /\ k.failed = j.failed
         /\ k.pay[c] = (IF j.pay[c] = 0 THEN Most(j, c) ELSE j.pay[c])
         /\ \A d \in Charges \ {c} : k.pay[d] = j.pay[d]
         /\ WrittenRefunds(k) =
              [r \in Rows |-> IF r \in OnCharge(j, c) THEN UpdatedRefund(r)
                              ELSE WrittenRefunds(j)[r]]
<1> DEFINE rows == OnCharge(j, c)
           next == [r \in Rows |-> IF r \in rows THEN UpdatedRefund(r) ELSE j.next[r]]
           st == IF j.op = "comp" THEN "write" ELSE "pay"
           pay == [j.pay EXCEPT ![c] = IF @ = 0 THEN Most(j, c) ELSE @]
           k == Checked(j, c)
<1>1. k = [j EXCEPT !.stage = st, !.todo = @ \ {c}, !.pay = pay, !.now = Good(j, c),
                    !.touched = @ \cup rows, !.next = next]
  BY DEF Checked
<1>2. c \in Charges /\ j.pay \in [Charges -> Int] /\ rows \in SUBSET Rows
  BY DEF Jobs, OnCharge
<1>3. /\ pay[c] = (IF j.pay[c] = 0 THEN Most(j, c) ELSE j.pay[c])
      /\ \A d \in Charges \ {c} : pay[d] = j.pay[d]
  BY <1>2
<1> HIDE DEF rows, next, st, pay, k
<1>4. /\ k.op = j.op /\ k.stage = st /\ k.todo = j.todo \ {c} /\ k.rows = j.rows
      /\ k.now = Good(j, c) /\ k.touched = j.touched \cup rows /\ k.book = j.book
      /\ k.credit = j.credit /\ k.fee = j.fee /\ k.note = j.note /\ k.close = j.close
      /\ k.done = j.done /\ k.failed = j.failed /\ k.pay = pay /\ k.next = next
  BY <1>1 DEF Jobs
<1>5. WrittenRefunds(k) =
        [r \in Rows |-> IF r \in rows THEN UpdatedRefund(r) ELSE WrittenRefunds(j)[r]]
  <2>1. ASSUME NEW r \in Rows
        PROVE  (IF r \in k.touched THEN k.next[r] ELSE refunded[r]) =
                 IF r \in rows THEN UpdatedRefund(r) ELSE WrittenRefunds(j)[r]
    BY <1>4 DEF next, WrittenRefunds
  <2> QED  BY <2>1 DEF WrittenRefunds
<1> QED  BY <1>3, <1>4, <1>5 DEF rows, st, k

(* In a cancellation, a request that goes through found what was known.    *)
LEMMA WholeIsKnown ==
  ASSUME TypeInv, RowsSound, TrackedIsReal, NEW j \in Jobs, NEW c \in j.todo,
         TodoSound(j), Whole(j), j.pay[c] <= Most(j, c)
  PROVE  /\ \A r \in OnCharge(j, c) : UpdatedRefund(r) = refunded[r]
         /\ j.pay[c] = Most(j, c) /\ Most(j, c) > 0
<1> DEFINE S == OnCharge(j, c)
           G == Good(j, c)
<1>1. S \in SUBSET Rows /\ G \in SUBSET S /\ G \in SUBSET Rows
  BY DEF OnCharge, Good, Jobs
<1>2. \A r \in S : /\ UpdatedRefund(r) \in Int /\ refunded[r] <= UpdatedRefund(r)
                   /\ UpdatedRefund(r) <= Amount[r]
                   /\ refunded[r] \in Int /\ Amount[r] \in Int
  BY <1>1, AmountsType, UpdatedSound DEF TypeInv, TypeOK
<1>3. \A r \in S : /\ LeftAtStripe[r] = Amount[r] - UpdatedRefund(r) /\ LeftAtStripe[r] \in Nat
                   /\ LeftNow[r] = Amount[r] - refunded[r]
                   /\ LeftAtStripe[r] \in Int /\ LeftNow[r] \in Int /\ LeftAtStripe[r] <= LeftNow[r]
  BY <1>1, <1>2 DEF LeftAtStripe, LeftNow, Left
<1>4. j.pay[c] = Total(LeftNow, S) /\ S # {} /\ \A r \in S : refunded[r] < Amount[r]
  BY DEF TodoSound
<1>5. Total(LeftAtStripe, G) = Total(LeftAtStripe, S)
  <2>1. \A r \in S \ G : LeftAtStripe[r] = 0
    BY <1>2, <1>3 DEF Good
  <2> HIDE DEF S, G
  <2> QED  BY <1>1, <1>3, <2>1, RowsFinite, SumOfPart DEF Total
<1>6. Total(LeftAtStripe, S) <= Total(LeftNow, S)
  <2> HIDE DEF S, G
  <2> QED  BY <1>1, <1>3, RowsFinite, SumAtMost DEF Total
<1>7. Total(LeftAtStripe, S) \in Int /\ Total(LeftNow, S) \in Int
  <2> HIDE DEF S, G
  <2> QED  BY <1>1, <1>3, TotalType
<1>8. j.pay[c] = Most(j, c) /\ Total(LeftNow, S) <= Total(LeftAtStripe, S)
  BY <1>4, <1>5, <1>6, <1>7 DEF Most
<1>9. \A r \in S : LeftAtStripe[r] = LeftNow[r]
  <2> HIDE DEF S, G
  <2> QED  BY <1>1, <1>3, <1>8, RowsFinite, SumTight DEF Total
<1>10. \A r \in S : UpdatedRefund(r) = refunded[r]
  <2> SUFFICES ASSUME NEW r \in S  PROVE UpdatedRefund(r) = refunded[r]
    OBVIOUS
  <2>1. /\ Amount[r] - UpdatedRefund(r) = Amount[r] - refunded[r]
        /\ UpdatedRefund(r) \in Int /\ refunded[r] \in Int /\ Amount[r] \in Int
    BY <1>2, <1>3, <1>9
  <2> QED  BY <2>1
<1>11. Total(LeftNow, S) > 0
  <2> HIDE DEF S, G
  <2>1. PICK r \in S : LeftNow[r] > 0 /\ LeftNow[r] \in Int
    BY <1>2, <1>3, <1>4
  <2>2. Total(LeftNow, S) = LeftNow[r] + Total(LeftNow, S \ {r})
    BY <1>1, <1>3, RowsFinite, SumWithout DEF Total
  <2>3. Total(LeftNow, S \ {r}) \in Nat
    <3>1. S \ {r} \in SUBSET Rows /\ \A q \in S \ {r} : LeftNow[q] \in Nat
      BY <1>1, <1>3
    <3> QED  BY <3>1, RowsFinite, SumNat DEF Total
  <2> QED  BY <2>1, <2>2, <2>3
<1> QED  BY <1>4, <1>8, <1>10, <1>11

(* Undisturbed, Stripe says of a charge to be refunded what was known.     *)
LEMMA UpdatedIsKnown ==
  ASSUME TypeInv, LedgerSound, NEW j \in Jobs, JobSound(j), NEW c \in j.todo, Undisturbed
  PROVE  \A r \in RowsOf(c) : UpdatedRefund(r) = refunded[r]
<1> DEFINE W == WrittenRefunds(j)
<1>1. c \in Charges /\ RowsOf(c) \in SUBSET Rows /\ \A r \in RowsOf(c) : ChargeOf[r] = c
  BY DEF Jobs, RowsOf
<1>2. \A r \in RowsOf(c) : W[r] = refunded[r]
  BY <1>1 DEF JobSound, TodoSound, WrittenRefunds
<1>3. Total(W, RowsOf(c)) = stripe[c]
  BY <1>1 DEF JobSound, CountsSound
<1> HIDE DEF W
<1>4. Total(refunded, RowsOf(c)) = stripe[c]
  BY <1>1, <1>2, <1>3, TotalSame
<1> SUFFICES ASSUME NEW r \in RowsOf(c)  PROVE UpdatedRefund(r) = refunded[r]
  OBVIOUS
<1>5. /\ UpdatedRefund(r) \in Int /\ refunded[r] <= UpdatedRefund(r)
      /\ UpdatedRefund(r) <= refunded[r] + (stripe[c] - Total(refunded, RowsOf(c)))
  BY <1>1, UpdatedSound DEF TypeInv, LedgerSound
<1>6. refunded[r] \in Int /\ stripe[c] \in Int
  BY <1>1 DEF TypeInv, TypeOK
<1>7. stripe[c] - Total(refunded, RowsOf(c)) = 0
  BY <1>4, <1>6
<1> QED  BY <1>5, <1>6, <1>7

(* The rows of the charge count what Stripe says, and no more in all.      *)
LEMMA CheckedCounts ==
  ASSUME TypeInv, LedgerSound, NEW j \in Jobs, JobSound(j), NEW c \in j.todo,
         Good(j, c) # {}, j.pay[c] <= Most(j, c)
  PROVE  CountsSound(Checked(j, c))
<1> DEFINE S == OnCharge(j, c)
           W == WrittenRefunds(j)
           V == WrittenRefunds(Checked(j, c))
<1>1. /\ c \in Charges /\ S \in SUBSET RowsOf(c) /\ RowsOf(c) \in SUBSET Rows /\ S # {}
      /\ \A r \in Rows : r \in RowsOf(c) <=> ChargeOf[r] = c
  BY DEF OnCharge, Jobs, RowsOf, Good
<1>2. /\ V = [r \in Rows |-> IF r \in S THEN UpdatedRefund(r) ELSE W[r]]
      /\ Checked(j, c).book = j.book
  BY CheckedFields
<1>3. \A r \in RowsOf(c) : W[r] = refunded[r] /\ j.book[r] = 0
  BY <1>1 DEF JobSound, TodoSound, WrittenRefunds
<1>4. \A r \in Rows :
        /\ UpdatedRefund(r) \in Int /\ refunded[r] <= UpdatedRefund(r)
        /\ UpdatedRefund(r) <= Amount[r]
        /\ UpdatedRefund(r)
             <= refunded[r] + (stripe[ChargeOf[r]] - Total(refunded, RowsOf(ChargeOf[r])))
  BY UpdatedSound DEF TypeInv, LedgerSound
<1>5. W \in [Rows -> Int] /\ V \in [Rows -> Int] /\ refunded \in [Rows -> Int]
  BY <1>2, <1>4, WrittenType DEF TypeInv, TypeOK
<1>6. CountsSound(j) /\ TrackedIsReal
  BY DEF JobSound, LedgerSound
<1>7. /\ Total(refunded, RowsOf(c)) \in Int /\ stripe[c] \in Int
      /\ Total(refunded, RowsOf(c)) <= stripe[c]
  BY <1>1, <1>5, <1>6, TotalType DEF TrackedIsReal, TypeInv, TypeOK
<1> HIDE DEF S, W, V
<1>8. ASSUME NEW r \in Rows
      PROVE  /\ 0 <= j.book[r] /\ refunded[r] + j.book[r] <= V[r] /\ V[r] <= Amount[r]
  <2>1. CASE r \in S
    <3>1. V[r] = UpdatedRefund(r) /\ j.book[r] = 0 /\ refunded[r] \in Int
      BY <1>1, <1>2, <1>3, <1>5, <2>1
    <3> QED  BY <1>4, <3>1
  <2>2. CASE r \notin S
    BY <1>2, <1>6, <2>2 DEF CountsSound, W
  <2> QED  BY <2>1, <2>2
<1>9. ASSUME NEW d \in Charges, d # c
      PROVE  Total(V, RowsOf(d)) = Total(W, RowsOf(d))
  <2>1. \A r \in RowsOf(d) : V[r] = W[r]
    BY <1>1, <1>2, <1>9 DEF RowsOf
  <2> QED  BY <2>1, AmountsType, TotalSame
<1>10. Total(V, RowsOf(c)) <= stripe[c]
  <2>1. CASE Whole(j)
    <3>1. \A r \in S : UpdatedRefund(r) = refunded[r]
      BY <2>1, WholeIsKnown DEF S, JobSound, LedgerSound
    <3>2. \A r \in RowsOf(c) : V[r] = refunded[r]
      BY <1>1, <1>2, <1>3, <3>1
    <3>3. Total(V, RowsOf(c)) = Total(refunded, RowsOf(c))
      BY <1>1, <3>2, TotalSame
    <3> QED  BY <1>7, <3>3
  <2>2. CASE ~Whole(j)
    <3>1. PICK q \in Rows : j.rows = {q}
      BY <2>2 DEF JobSound, TodoSound
    <3>2. S = {q} /\ q \in RowsOf(c)
      BY <1>1, <3>1 DEF S, OnCharge
    <3>3. \A r \in RowsOf(c) : refunded[r] \in Int /\ V[r] \in Int
      BY <1>1, <1>5
    <3>4. \A r \in RowsOf(c) \ {q} : refunded[r] = V[r]
      BY <1>1, <1>2, <1>3, <3>2
    <3>5. Total(V, RowsOf(c)) = Total(refunded, RowsOf(c)) - refunded[q] + V[q]
      BY <1>1, <3>2, <3>3, <3>4, RowsFinite, SumChanged DEF Total
    <3>6. V[q] = UpdatedRefund(q) /\ ChargeOf[q] = c
      BY <1>1, <1>2, <3>2
    <3>7. V[q] <= refunded[q] + (stripe[c] - Total(refunded, RowsOf(c)))
      BY <1>4, <3>6
    <3> QED  BY <1>5, <1>7, <3>5, <3>7
  <2> QED  BY <2>1, <2>2
<1>11. ASSUME NEW d \in Charges  PROVE Total(V, RowsOf(d)) <= stripe[d]
  <2>1. CASE d = c
    BY <1>10, <2>1
  <2>2. CASE d # c
    BY <1>6, <1>9, <2>2 DEF CountsSound, W
  <2> QED  BY <2>1, <2>2
<1>12. ASSUME Undisturbed
       PROVE  /\ \A r \in Rows : V[r] = W[r]
              /\ \A d \in Charges : Total(V, RowsOf(d)) = Total(W, RowsOf(d))
  <2>2. \A r \in S : UpdatedRefund(r) = refunded[r]
    BY <1>1, <1>12, UpdatedIsKnown
  <2>3. \A r \in Rows : V[r] = W[r]
    BY <1>1, <1>2, <1>3, <2>2
  <2> QED  BY <2>3, AmountsType, TotalSame
<1>13. /\ Undisturbed => /\ \A r \in Rows : V[r] = refunded[r] + j.book[r]
                         /\ \A d \in Charges : Total(V, RowsOf(d)) = stripe[d]
  BY <1>6, <1>12 DEF CountsSound, W
<1> QED  BY <1>2, <1>8, <1>11, <1>13 DEF CountsSound, V

(* A job that goes on after the request stays sound.                       *)
LEMMA CheckedSound ==
  ASSUME TypeInv, LedgerSound, NEW j \in Jobs, JobSound(j), NEW c \in j.todo,
         j.stage = "check", Good(j, c) # {}, j.pay[c] <= Most(j, c)
  PROVE  JobSound(Checked(j, c))
<1> DEFINE S == OnCharge(j, c)
           G == Good(j, c)
           W == WrittenRefunds(j)
           k == Checked(j, c)
<1>1. /\ k.op = j.op /\ k.stage = (IF j.op = "comp" THEN "write" ELSE "pay")
      /\ k.todo = j.todo \ {c} /\ k.rows = j.rows /\ k.now = G
      /\ k.touched = j.touched \cup S /\ k.book = j.book
      /\ k.credit = j.credit /\ k.fee = j.fee /\ k.note = j.note /\ k.close = j.close
      /\ k.done = j.done /\ k.failed = j.failed
      /\ k.pay[c] = (IF j.pay[c] = 0 THEN Most(j, c) ELSE j.pay[c])
      /\ \A d \in Charges \ {c} : k.pay[d] = j.pay[d]
      /\ WrittenRefunds(k) = [r \in Rows |-> IF r \in S THEN UpdatedRefund(r) ELSE W[r]]
  BY CheckedFields
<1>2. /\ S = {r \in j.rows : ChargeOf[r] = c} /\ S \in SUBSET Rows /\ G \in SUBSET S
      /\ G \in SUBSET Rows /\ G # {} /\ j.todo \in SUBSET Charges /\ c \in Charges
      /\ \A r \in S \ G : ~(Amount[r] - UpdatedRefund(r) > 0)
  BY DEF OnCharge, Good, Jobs
<1>3. CountsSound(k)
  BY CheckedCounts
<1>4. \A d : OnCharge(k, d) = OnCharge(j, d)
  BY <1>1 DEF OnCharge
<1>5. k.pay[c] = Most(j, c) \/ (~Whole(j) /\ k.pay[c] = j.pay[c])
  BY <1>1, WholeIsKnown DEF JobSound, LedgerSound
<1>6. Most(j, c) = Total(LeftThen(k), G) /\ Most(j, c) \in Int
  <2>1. \A r \in G : LeftAtStripe[r] = LeftThen(k)[r] /\ LeftAtStripe[r] \in Int
    BY <1>1, <1>2, AmountsType, UpdatedType DEF LeftAtStripe, LeftThen, TypeInv
  <2> HIDE DEF G, k
  <2>2. Most(j, c) = Total(LeftAtStripe, G)
    BY DEF Most, G
  <2> QED  BY <1>2, <2>1, <2>2, TotalSame, TotalType
<1>7. 0 <= k.pay[c] /\ k.pay[c] <= Most(j, c)
  <2>1. CASE Whole(j)
    BY <1>5, <1>6, <2>1, WholeIsKnown DEF JobSound, LedgerSound
  <2>2. CASE ~Whole(j)
    <3>1. 0 <= j.pay[c] /\ j.pay[c] <= Most(j, c) /\ j.pay[c] \in Int
      BY <1>2, <2>2 DEF JobSound, TodoSound, Jobs
    <3> QED  BY <1>1, <1>6, <3>1
  <2> QED  BY <2>1, <2>2
<1> HIDE DEF k, G, S, W
<1>8. ShapeSound(k)
  BY <1>1 DEF JobSound, ShapeSound, Whole
<1>9. TodoSound(k)
  <2> SUFFICES ASSUME NEW d \in k.todo
               PROVE  /\ \A r \in RowsOf(d) : r \notin k.touched /\ k.book[r] = 0
                      /\ Whole(k) => /\ OnCharge(k, d) # {}
                                     /\ \A r \in OnCharge(k, d) : refunded[r] < Amount[r]
                                     /\ k.pay[d] = Total(LeftNow, OnCharge(k, d))
                      /\ ~Whole(k) => 0 <= k.pay[d] /\ \E r \in Rows : k.rows = {r}
    BY DEF TodoSound
  <2>1. d \in j.todo /\ d # c /\ d \in Charges /\ k.pay[d] = j.pay[d]
    BY <1>1, <1>2
  <2>2. \A r \in RowsOf(d) : r \notin S
    BY <1>2, <2>1 DEF RowsOf
  <2> QED  BY <1>1, <1>4, <2>1, <2>2 DEF JobSound, TodoSound, Whole
<1>10. PaySound(k)
  <2>1. \A r \in G : ChargeOf[r] = c /\ r \in j.rows /\ r \in S
    BY <1>2
  <2>2. ~Whole(j) => \A r \in G : G = {r}
    <3> SUFFICES ASSUME ~Whole(j), NEW r \in G  PROVE G = {r}
      OBVIOUS
    <3>1. PICK q \in Rows : j.rows = {q}
      BY DEF JobSound, TodoSound
    <3> QED  BY <2>1, <3>1
  <2> SUFFICES ASSUME NEW r \in k.now
               PROVE  /\ r \in k.touched \cap k.rows
                      /\ ChargeOf[r] \notin k.todo
                      /\ \A q \in k.now : ChargeOf[q] = ChargeOf[r]
                      /\ 0 <= k.pay[ChargeOf[r]]
                      /\ k.pay[ChargeOf[r]] <= Total(LeftThen(k), k.now)
                      /\ Whole(k) => k.pay[ChargeOf[r]] = Total(LeftThen(k), k.now)
                      /\ ~Whole(k) => k.now = {r}
    BY DEF PaySound
  <2>3. Whole(k) <=> Whole(j)
    BY <1>1 DEF Whole
  <2>4. r \in G /\ ChargeOf[r] = c
    BY <1>1, <2>1
  <2> QED  BY <1>1, <1>5, <1>6, <1>7, <2>1, <2>2, <2>3, <2>4
<1>11. CreditSound(k)
  BY <1>1 DEF JobSound, CreditSound, Whole, TouchedBy
<1>12. CloseSound(k)
  <2> SUFFICES ASSUME Undisturbed, Whole(k)
               PROVE  /\ \A r \in Rows :
                           ReceiptOf[r] \in k.close => WrittenRefunds(k)[r] = Amount[r]
                      /\ \A r \in Rows : ReceiptOf[r] \in TouchedBy(k) \ k.failed =>
                           \/ WrittenRefunds(k)[r] = Amount[r]
                           \/ r \in k.rows /\ ChargeOf[r] \in k.todo
                           \/ r \in k.now
    BY DEF CloseSound
  <2>1. Whole(j) /\ TouchedBy(k) = TouchedBy(j)
    BY <1>1 DEF Whole, TouchedBy
  <2>2. \A r \in Rows : WrittenRefunds(k)[r] = W[r]
    <3>1. \A r \in Rows : WrittenRefunds(k)[r] = refunded[r] + k.book[r]
      BY <1>3 DEF CountsSound
    <3>2. \A r \in Rows : W[r] = refunded[r] + j.book[r]
      BY DEF JobSound, CountsSound, W
    <3> QED  BY <1>1, <3>1, <3>2
  <2>3. \A r \in Rows : ReceiptOf[r] \in j.close => W[r] = Amount[r]
    BY <2>1 DEF JobSound, CloseSound, W
  <2>4. \A r \in Rows : ReceiptOf[r] \in TouchedBy(j) \ j.failed =>
          W[r] = Amount[r] \/ (r \in j.rows /\ ChargeOf[r] \in j.todo) \/ r \in j.now
    BY <2>1 DEF JobSound, CloseSound, W
  <2>5. j.now = {}
    BY DEF JobSound, ShapeSound
  <2>6. ASSUME NEW r \in S, r \notin G  PROVE WrittenRefunds(k)[r] = Amount[r]
    <3>1. /\ UpdatedRefund(r) \in Int /\ UpdatedRefund(r) <= Amount[r] /\ Amount[r] \in Int
          /\ ~(Amount[r] - UpdatedRefund(r) > 0) /\ r \in Rows
      BY <1>2, <2>6, AmountsType, UpdatedSound DEF TypeInv, LedgerSound
    <3>2. WrittenRefunds(k)[r] = UpdatedRefund(r)
      BY <1>1, <2>6, <3>1
    <3> QED  BY <3>1, <3>2
  <2>7. ASSUME NEW r \in Rows, ReceiptOf[r] \in TouchedBy(k) \ k.failed
        PROVE  \/ WrittenRefunds(k)[r] = Amount[r]
               \/ r \in k.rows /\ ChargeOf[r] \in k.todo
               \/ r \in k.now
    <3>1. CASE r \in S
      BY <1>1, <2>6, <3>1
    <3>2. CASE r \notin S
      BY <1>1, <1>2, <2>1, <2>2, <2>4, <2>5, <2>7, <3>2
    <3> QED  BY <3>1, <3>2
  <2> QED  BY <1>1, <2>2, <2>3, <2>7
<1> QED  BY <1>3, <1>8, <1>9, <1>10, <1>11, <1>12 DEF JobSound, k

(* So an undisturbed cancellation never dies here.                         *)
LEMMA WholeGoesOn ==
  ASSUME TypeInv, LedgerSound, NEW j \in Jobs, JobSound(j), NEW c \in j.todo, Undisturbed, Whole(j)
  PROVE  Good(j, c) # {} /\ ~(j.pay[c] > Most(j, c))
<1>1. /\ OnCharge(j, c) \in SUBSET RowsOf(c) /\ OnCharge(j, c) \in SUBSET Rows
  BY DEF OnCharge, RowsOf, Jobs
<1>2. \A r \in OnCharge(j, c) : UpdatedRefund(r) = refunded[r]
  BY <1>1, UpdatedIsKnown
<1>3. /\ OnCharge(j, c) # {} /\ \A r \in OnCharge(j, c) : refunded[r] < Amount[r]
      /\ j.pay[c] = Total(LeftNow, OnCharge(j, c))
  BY DEF JobSound, TodoSound
<1>4. \A r \in OnCharge(j, c) :
        /\ refunded[r] \in Int /\ Amount[r] \in Int /\ LeftNow[r] = Amount[r] - refunded[r]
        /\ LeftAtStripe[r] = Amount[r] - UpdatedRefund(r)
  BY <1>1, AmountsType DEF TypeInv, TypeOK, LeftNow, Left, LeftAtStripe
<1>5. Good(j, c) = OnCharge(j, c)
  <2>1. \A r \in OnCharge(j, c) : Amount[r] - UpdatedRefund(r) > 0
    BY <1>2, <1>3, <1>4
  <2> QED  BY <2>1 DEF Good
<1>6. Total(LeftNow, OnCharge(j, c)) = Total(LeftAtStripe, OnCharge(j, c))
  <2>1. \A r \in OnCharge(j, c) : LeftNow[r] = LeftAtStripe[r]
    BY <1>2, <1>4
  <2> QED  BY <1>1, <2>1, TotalSame
<1>7. j.pay[c] = Most(j, c) /\ j.pay[c] \in Int
  BY <1>3, <1>5, <1>6 DEF Most, Jobs
<1> QED  BY <1>3, <1>5, <1>7

(* A job stays sound when nothing is written, apart from what it counts.   *)
LEMMA OthersKept ==
  ASSUME NEW k, ShapeSound(k), TodoSound(k), PaySound(k), CreditSound(k), CloseSound(k),
         UNCHANGED ledger, Undisturbed' => Undisturbed
  PROVE  ShapeSound(k)' /\ TodoSound(k)' /\ PaySound(k)' /\ CreditSound(k)' /\ CloseSound(k)'
<1>1. UNCHANGED refunded /\ UNCHANGED credit /\ UNCHANGED closed /\ (Undisturbed' => Undisturbed)
  BY DEF ledger
<1>2. WrittenRefunds(k)' = WrittenRefunds(k)
  BY <1>1 DEF WrittenRefunds
<1>4. ShapeSound(k)' /\ CreditSound(k)'
  BY <1>1 DEF ShapeSound, CreditSound
<1>5. TodoSound(k)'
  BY <1>1 DEF TodoSound, LeftNow, Left
<1>6. PaySound(k)'
  BY <1>2 DEF PaySound, LeftThen
<1>7. CloseSound(k)'
  BY <1>1, <1>2 DEF CloseSound
<1> QED  BY <1>4, <1>5, <1>6, <1>7

(* A job stays sound when nothing is written.                              *)
LEMMA JobKept ==
  ASSUME NEW k, JobSound(k), UNCHANGED <<ledger, stripe>>, Undisturbed' => Undisturbed
  PROVE  JobSound(k)'
<1>1. UNCHANGED refunded /\ UNCHANGED stripe /\ (Undisturbed' => Undisturbed)
  BY DEF ledger
<1>2. WrittenRefunds(k)' = WrittenRefunds(k)
  BY <1>1 DEF WrittenRefunds
<1>3. CountsSound(k)'
  BY <1>1, <1>2 DEF JobSound, CountsSound
<1> QED  BY <1>3, OthersKept DEF JobSound

(* The request to Stripe (RefundRequest).                                  *)
LEMMA ValidateSound ==
  ASSUME TypeInv, TypeOK', NEW w \in Workers, Sound(w), ValidateTxns(w)
  PROVE  Sound(w)'
<1>1. PICK j \in Jobs : j = job[w] /\ JobSound(j) /\ j.stage = "check"
  BY DEF TypeInv, TypeOK, Sound, ValidateTxns
<1>2. PICK c \in j.todo :
        job' = [job EXCEPT ![w] =
                  IF Good(j, c) = {} \/ j.pay[c] > Most(j, c) THEN Idle ELSE Checked(j, c)]
  BY <1>1, ValidateStep
<1>3. UNCHANGED <<ledger, stripe>> /\ (Undisturbed' => Undisturbed)
  BY DEF ValidateTxns, Undisturbed
<1>4. LedgerSound /\ LedgerSound'
  BY <1>3, LedgerKept DEF Sound
<1>5. CASE Good(j, c) = {} \/ j.pay[c] > Most(j, c)
  <2>1. ASSUME Undisturbed  PROVE \A d \in Charges : Total(refunded, RowsOf(d)) = stripe[d]
    <3>1. j.op # "full"
      BY <1>1, <1>4, <1>5, <2>1, WholeGoesOn DEF Whole
    <3>2. \A r \in Rows : j.book[r] = 0
      BY <1>1, <3>1 DEF JobSound, ShapeSound
    <3> QED  BY <1>1, <2>1, <3>2, NothingBooked DEF JobSound, TypeInv
  <2>2. Undisturbed' => \A d \in Charges : Total(refunded', RowsOf(d)) = stripe'[d]
    BY <1>3, <2>1 DEF ledger
  <2> QED  BY <1>2, <1>4, <1>5, <2>2, IdleSound, SoundAgain
<1>6. CASE Good(j, c) # {} /\ ~(j.pay[c] > Most(j, c))
  <2>1. j.pay[c] <= Most(j, c)
    <3>1. j.pay[c] \in Int
      BY DEF Jobs
    <3>2. Most(j, c) \in Int
      <4>1. /\ Good(j, c) \in SUBSET Rows
            /\ \A r \in Good(j, c) : LeftAtStripe[r] \in Int
        BY AmountsType, UpdatedType DEF Good, OnCharge, Jobs, LeftAtStripe, TypeInv
      <4> QED  BY <4>1, TotalType DEF Most
    <3> QED  BY <1>6, <3>1, <3>2
  <2>2. JobSound(Checked(j, c))
    BY <1>1, <1>4, <1>6, <2>1, CheckedSound
  <2>3. PICK k : k = Checked(j, c) /\ JobSound(k)
    BY <2>2
  <2>4. JobSound(k)'
    BY <1>3, <2>3, JobKept
  <2>5. job' = [job EXCEPT ![w] = k]
    BY <1>2, <1>6, <2>3
  <2> QED  BY <1>4, <2>4, <2>5, SoundAgain
<1> QED  BY <1>5, <1>6

-----------------------------------------------------------------------------
(* Refunding                                                               *)

(* What is recorded of a refund is what was refunded, and of each row no   *)
(* more than is left; in a cancellation it is all that is left.            *)
LEMMA RecordedSound ==
  ASSUME TypeInv, NEW j \in Jobs, JobSound(j), NEW q \in j.now
  PROVE  LET rec == Recorded(j, ChargeOf[q]) IN
         /\ rec \in [Rows -> Nat] /\ \A r \in Rows \ j.now : rec[r] = 0
         /\ \A r \in Rows : WrittenRefunds(j)[r] + rec[r] <= Amount[r]
         /\ Whole(j) => \A r \in j.now : WrittenRefunds(j)[r] + rec[r] = Amount[r]
         /\ Total(rec, j.now) = j.pay[ChargeOf[q]] /\ j.pay[ChargeOf[q]] \in Nat
<1> DEFINE c == ChargeOf[q]
           rec == Recorded(j, c)
           W == WrittenRefunds(j)
           L == LeftThen(j)
           n == j.pay[c]
<1>1. /\ j.now \in SUBSET Rows /\ j.now \in SUBSET j.touched /\ j.touched \in SUBSET Rows
      /\ n \in Int /\ W \in [Rows -> Int]
  BY AmountsType, WrittenType DEF Jobs, JobSound, PaySound, TypeInv
<1>2. \A r \in Rows : /\ L[r] = Amount[r] - W[r] /\ L[r] \in Int /\ W[r] <= Amount[r]
                      /\ W[r] \in Int /\ Amount[r] \in Int
  BY <1>1, AmountsType DEF LeftThen, JobSound, CountsSound
<1>3. /\ 0 <= n /\ n <= Total(L, j.now) /\ (Whole(j) => n = Total(L, j.now))
      /\ (~Whole(j) => j.now = {q})
  BY DEF JobSound, PaySound
<1>4. \A r \in j.now : W[r] = j.next[r]
  BY <1>1 DEF WrittenRefunds
<1>5. \A r \in Rows : rec[r] = IF r \notin j.now THEN 0
                               ELSE IF j.now = {r} THEN n ELSE Amount[r] - j.next[r]
  BY DEF Recorded
<1>6. rec = [r \in Rows |-> rec[r]]
  BY DEF Recorded
<1> HIDE DEF rec, W, L, n, c
<1>7. ASSUME NEW f, f[q] \in Int  PROVE Total(f, {q}) = f[q]
  <2>1. {q} \in SUBSET Rows /\ {q} \ {q} = {}
    BY <1>1
  <2>2. SumFunctionOnSet(f, {q}) = f[q] + SumFunctionOnSet(f, {q} \ {q})
    BY <1>7, <2>1, RowsFinite, SumWithout
  <2> QED  BY <1>7, <2>1, <2>2, SumEmpty DEF Total
<1>8. CASE j.now = {q}
  <2>1. rec[q] = n /\ \A r \in Rows \ {q} : rec[r] = 0
    BY <1>1, <1>5, <1>8
  <2>2. Total(L, {q}) = L[q] /\ Total(rec, {q}) = n
    BY <1>1, <1>2, <1>7, <2>1
  <2>3. n <= L[q] /\ (Whole(j) => n = L[q])
    BY <1>3, <1>8, <2>2
  <2>4. \A r \in Rows : rec[r] \in Nat /\ W[r] + rec[r] <= Amount[r]
    BY <1>1, <1>2, <1>3, <2>1, <2>3
  <2>5. Whole(j) => W[q] + rec[q] = Amount[q]
    BY <1>1, <1>2, <2>1, <2>3
  <2> QED  BY <1>1, <1>3, <1>6, <1>8, <2>1, <2>2, <2>4, <2>5 DEF rec, W, n, c
<1>9. CASE j.now # {q}
  <2>1. Whole(j)
    BY <1>3, <1>9
  <2>2. ASSUME NEW r \in j.now  PROVE rec[r] = L[r]
    <3>1. j.now # {r}
      BY <1>9
    <3> QED  BY <1>1, <1>2, <1>4, <1>5, <3>1
  <2>3. Total(rec, j.now) = n
    BY <1>1, <1>3, <2>1, <2>2, TotalSame
  <2>4. \A r \in Rows \ j.now : rec[r] = 0
    BY <1>5
  <2>5. ASSUME NEW r \in Rows
        PROVE  /\ rec[r] \in Nat /\ W[r] + rec[r] <= Amount[r]
               /\ r \in j.now => W[r] + rec[r] = Amount[r]
    BY <1>2, <2>2, <2>4
  <2> QED  BY <1>1, <1>3, <1>6, <2>3, <2>4, <2>5 DEF rec, W, n, c
<1> QED  BY <1>8, <1>9

(* The job after a refund, field by field.                                 *)
LEMMA RefundedFields ==
  ASSUME TypeInv, NEW j \in Jobs, JobSound(j), NEW q \in j.now
  PROVE  LET c == ChargeOf[q]
             k == Refunded(j, c)
             paid == ReceiptsOf(j.now) IN
         /\ k.op = j.op
         /\ k.stage = (IF j.op = "full" /\ j.todo # {} THEN "check" ELSE "commit")
         /\ k.todo = j.todo /\ k.rows = j.rows /\ k.now = {} /\ k.touched = j.touched
         /\ k.pay = j.pay /\ k.credit = j.credit /\ k.fee = j.fee /\ k.failed = j.failed
         /\ k.done = j.done \cup ReceiptsOf(OnCharge(j, c))
         /\ k.note = (IF j.op = "full" THEN paid ELSE j.note)
         /\ k.close = (IF j.op = "full" /\ j.todo = {} THEN paid ELSE j.close)
         /\ \A r \in Rows : /\ k.book[r] = j.book[r] + Recorded(j, c)[r]
                            /\ WrittenRefunds(k)[r] = WrittenRefunds(j)[r] + Recorded(j, c)[r]
         /\ WrittenRefunds(k) = [r \in Rows |-> WrittenRefunds(k)[r]]
<1> DEFINE c == ChargeOf[q]
           rec == Recorded(j, c)
           paid == ReceiptsOf(j.now)
           next == [r \in Rows |-> j.next[r] + rec[r]]
           book == [r \in Rows |-> j.book[r] + rec[r]]
           given == ReceiptsOf(OnCharge(j, c))
           st == IF j.op = "full" /\ j.todo # {} THEN "check" ELSE "commit"
           note == IF j.op = "full" THEN paid ELSE j.note
           close == IF j.op = "full" /\ j.todo = {} THEN paid ELSE j.close
           k == Refunded(j, c)
<1>1. k = [j EXCEPT !.stage = st, !.now = {}, !.next = next, !.book = book,
                    !.done = @ \cup given, !.note = note, !.close = close]
  BY DEF Refunded, ReceiptsOf
<1>2. /\ \A r \in Rows : next[r] = j.next[r] + rec[r] /\ book[r] = j.book[r] + rec[r]
  OBVIOUS
<1>3. rec \in [Rows -> Nat] /\ \A r \in Rows \ j.now : rec[r] = 0
  BY RecordedSound
<1>4. j.now \in SUBSET j.touched
  BY DEF JobSound, PaySound
<1> HIDE DEF rec, paid, next, book, given, st, note, close, k
<1>5. /\ k.op = j.op /\ k.stage = st /\ k.todo = j.todo /\ k.rows = j.rows /\ k.now = {}
      /\ k.touched = j.touched /\ k.pay = j.pay /\ k.credit = j.credit /\ k.fee = j.fee
      /\ k.failed = j.failed /\ k.done = j.done \cup given /\ k.note = note /\ k.close = close
      /\ k.next = next /\ k.book = book
  BY <1>1 DEF Jobs
<1>6. ASSUME NEW r \in Rows  PROVE WrittenRefunds(k)[r] = WrittenRefunds(j)[r] + rec[r]
  <2>1. WrittenRefunds(j)[r] \in Int /\ rec[r] \in Int
    BY <1>3, WrittenType DEF TypeInv
  <2>2. CASE r \in j.touched
    BY <1>2, <1>5, <2>2 DEF WrittenRefunds
  <2>3. CASE r \notin j.touched
    <3>1. rec[r] = 0
      BY <1>3, <1>4, <2>3
    <3>2. WrittenRefunds(k)[r] = WrittenRefunds(j)[r]
      BY <1>5, <2>3 DEF WrittenRefunds
    <3> QED  BY <2>1, <3>1, <3>2
  <2> QED  BY <2>2, <2>3
<1>7. WrittenRefunds(k) = [r \in Rows |-> WrittenRefunds(k)[r]]
  BY DEF WrittenRefunds
<1> QED  BY <1>2, <1>5, <1>6, <1>7 DEF rec, paid, given, st, note, close, k

(* The refund at Stripe (process_txn_refund).                              *)
LEMMA StripeSound ==
  ASSUME TypeInv, NEW w \in Workers, Sound(w), StripeRefunds(w)
  PROVE  Sound(w)'
<1>1. PICK j \in Jobs : j = job[w] /\ JobSound(j) /\ j.stage = "pay" /\ LedgerSound
  BY RefundStep DEF TypeInv, TypeOK, Sound
<1>2. PICK q, c, k, n :
        /\ q \in j.now /\ c = ChargeOf[q] /\ k = Refunded(j, c) /\ n = j.pay[c]
        /\ stripe' = [stripe EXCEPT ![c] = @ + n] /\ job' = [job EXCEPT ![w] = k]
  <2>1. PICK q \in j.now :
          /\ stripe' = [stripe EXCEPT ![ChargeOf[q]] = @ + j.pay[ChargeOf[q]]]
          /\ job' = [job EXCEPT ![w] = Refunded(j, ChargeOf[q])]
    BY <1>1, RefundStep
  <2>2. PICK c, k, n : c = ChargeOf[q] /\ k = Refunded(j, c) /\ n = j.pay[c]
    OBVIOUS
  <2> QED  BY <2>1, <2>2
<1>3. PICK rec : rec = Recorded(j, c)
  OBVIOUS
<1>4. /\ rec \in [Rows -> Nat] /\ \A r \in Rows \ j.now : rec[r] = 0
      /\ \A r \in Rows : WrittenRefunds(j)[r] + rec[r] <= Amount[r]
      /\ Whole(j) => \A r \in j.now : WrittenRefunds(j)[r] + rec[r] = Amount[r]
      /\ Total(rec, j.now) = n /\ n \in Nat
  BY <1>1, <1>2, <1>3, RecordedSound
<1> DEFINE paid == ReceiptsOf(j.now)
<1>5. /\ k.op = j.op /\ k.stage = (IF j.op = "full" /\ j.todo # {} THEN "check" ELSE "commit")
      /\ k.todo = j.todo /\ k.rows = j.rows /\ k.now = {} /\ k.touched = j.touched
      /\ k.pay = j.pay /\ k.credit = j.credit /\ k.fee = j.fee /\ k.failed = j.failed
      /\ k.done = j.done \cup ReceiptsOf(OnCharge(j, c))
      /\ k.note = (IF j.op = "full" THEN paid ELSE j.note)
      /\ k.close = (IF j.op = "full" /\ j.todo = {} THEN paid ELSE j.close)
  <2>1. k.op = j.op /\ k.todo = j.todo /\ k.rows = j.rows /\ k.now = {}
    BY <1>1, <1>2, RefundedFields
  <2>6. k.touched = j.touched /\ k.pay = j.pay /\ k.credit = j.credit
    BY <1>1, <1>2, RefundedFields
  <2>7. k.fee = j.fee /\ k.failed = j.failed
    BY <1>1, <1>2, RefundedFields
  <2>2. k.stage = (IF j.op = "full" /\ j.todo # {} THEN "check" ELSE "commit")
    BY <1>1, <1>2, RefundedFields
  <2>3. k.done = j.done \cup ReceiptsOf(OnCharge(j, c))
    BY <1>1, <1>2, RefundedFields
  <2>4. k.note = (IF j.op = "full" THEN ReceiptsOf(j.now) ELSE j.note)
    BY <1>1, <1>2, RefundedFields
  <2>5. k.close = (IF j.op = "full" /\ j.todo = {} THEN ReceiptsOf(j.now) ELSE j.close)
    BY <1>1, <1>2, RefundedFields
  <2> QED  BY <2>1, <2>2, <2>3, <2>4, <2>5, <2>6, <2>7
<1>6. /\ \A r \in Rows : /\ k.book[r] = j.book[r] + rec[r]
                         /\ WrittenRefunds(k)[r] = WrittenRefunds(j)[r] + rec[r]
  BY <1>1, <1>2, <1>3, RefundedFields
<1>7. /\ c \in Charges /\ j.now \in SUBSET RowsOf(c) /\ j.now \in SUBSET Rows
      /\ j.now \in SUBSET j.rows
      /\ q \in Rows /\ c \notin j.todo /\ j.rows \in SUBSET Rows /\ j.todo \in SUBSET Charges
      /\ j.book \in [Rows -> Int] /\ WrittenRefunds(j) \in [Rows -> Int]
      /\ stripe \in [Charges -> Int] /\ refunded \in [Rows -> Int]
  BY <1>1, <1>2, AmountsType, WrittenType DEF JobSound, PaySound, Jobs, RowsOf, TypeInv, TypeOK
<1>8. UNCHANGED ledger /\ (Undisturbed' => Undisturbed) /\ UNCHANGED refunded
  BY RefundStep DEF Undisturbed, ledger
<1>9. stripe'[c] = stripe[c] + n /\ \A d \in Charges \ {c} : stripe'[d] = stripe[d]
  BY <1>2, <1>7
<1>10. LedgerSound'
  <2>1. TrackedIsReal'
    <3> SUFFICES ASSUME NEW d \in Charges  PROVE Total(refunded, RowsOf(d)) <= stripe'[d]
      BY <1>8 DEF TrackedIsReal
    <3>1. Total(refunded, RowsOf(d)) <= stripe[d] /\ Total(refunded, RowsOf(d)) \in Int
      BY <1>1, <1>7, AmountsType, TotalType DEF LedgerSound, TrackedIsReal
    <3> QED  BY <1>4, <1>7, <1>9, <3>1
  <2>2. /\ UNCHANGED booked /\ UNCHANGED credit /\ UNCHANGED fee /\ UNCHANGED closed
        /\ UNCHANGED refunded /\ (Undisturbed' => Undisturbed)
    BY <1>8 DEF ledger
  <2>3. RowsSound'
    BY <1>1, <2>2 DEF LedgerSound, RowsSound
  <2> QED  BY <1>1, <2>1, <2>2, <2>3 DEF LedgerSound
<1> HIDE DEF paid
<1>11. CountsSound(k)'
  <2>1. WrittenRefunds(k)' = WrittenRefunds(k) /\ WrittenRefunds(k) \in [Rows -> Int]
    BY <1>4, <1>6, <1>7, <1>8 DEF WrittenRefunds
  <2>2. ASSUME NEW r \in Rows
        PROVE  /\ 0 <= k.book[r] /\ refunded[r] + k.book[r] <= WrittenRefunds(k)[r]
               /\ WrittenRefunds(k)[r] <= Amount[r]
               /\ Undisturbed => WrittenRefunds(k)[r] = refunded[r] + k.book[r]
    <3>1. /\ 0 <= j.book[r] /\ refunded[r] + j.book[r] <= WrittenRefunds(j)[r]
          /\ Undisturbed => WrittenRefunds(j)[r] = refunded[r] + j.book[r]
      BY <1>1 DEF JobSound, CountsSound
    <3>2. /\ rec[r] \in Nat /\ j.book[r] \in Int /\ refunded[r] \in Int
          /\ WrittenRefunds(j)[r] \in Int
      BY <1>4, <1>7
    <3> QED  BY <1>4, <1>6, <3>1, <3>2
  <2>3. ASSUME NEW d \in Charges
        PROVE  Total(WrittenRefunds(k), RowsOf(d)) =
                 Total(WrittenRefunds(j), RowsOf(d)) + (IF d = c THEN n ELSE 0)
    <3>1. \A r \in RowsOf(d) : /\ WrittenRefunds(j)[r] \in Int /\ rec[r] \in Nat /\ rec[r] \in Int
                               /\ WrittenRefunds(k)[r] = WrittenRefunds(j)[r] + rec[r]
      BY <1>4, <1>6, <1>7 DEF RowsOf
    <3>2. Total(WrittenRefunds(k), RowsOf(d)) =
            Total(WrittenRefunds(j), RowsOf(d)) + Total(rec, RowsOf(d))
      BY <3>1, AmountsType, RowsFinite, SumOfSums DEF Total
    <3>3. CASE d = c
      <4>1. \A r \in RowsOf(c) \ j.now : rec[r] = 0
        BY <1>4 DEF RowsOf
      <4>2. Total(rec, j.now) = Total(rec, RowsOf(c))
        BY <1>7, <3>1, <3>3, <4>1, AmountsType, RowsFinite, SumOfPart DEF Total
      <4> QED  BY <1>4, <3>2, <3>3, <4>2
    <3>4. CASE d # c
      <4>1. \A r \in RowsOf(d) : rec[r] = 0
        BY <1>4, <1>7, <3>4 DEF RowsOf
      <4>2. Total(rec, RowsOf(d)) = 0
        BY <4>1, AmountsType, RowsFinite, SumZero DEF Total
      <4> QED  BY <3>2, <3>4, <4>2
    <3> QED  BY <3>3, <3>4
  <2>4. ASSUME NEW d \in Charges
        PROVE  /\ Total(WrittenRefunds(k), RowsOf(d)) <= stripe'[d]
               /\ Undisturbed => Total(WrittenRefunds(k), RowsOf(d)) = stripe'[d]
    <3>1. /\ Total(WrittenRefunds(j), RowsOf(d)) <= stripe[d]
          /\ Undisturbed => Total(WrittenRefunds(j), RowsOf(d)) = stripe[d]
      BY <1>1 DEF JobSound, CountsSound
    <3>2. Total(WrittenRefunds(j), RowsOf(d)) \in Int /\ stripe[d] \in Int
      BY <1>7, AmountsType, TotalType
    <3> QED  BY <1>4, <1>9, <2>3, <3>1, <3>2
  <2> QED  BY <1>8, <2>1, <2>2, <2>4 DEF CountsSound
<1>12. ShapeSound(k)
  BY <1>1, <1>5 DEF JobSound, ShapeSound, Whole
<1>13. TodoSound(k)
  <2>1. \A d : OnCharge(k, d) = OnCharge(j, d)
    BY <1>5 DEF OnCharge
  <2>2. ASSUME NEW d \in j.todo, NEW r \in RowsOf(d)  PROVE r \notin j.touched /\ k.book[r] = 0
    <3>1. r \in Rows /\ r \notin j.now
      BY <1>7 DEF RowsOf
    <3>2. r \notin j.touched /\ j.book[r] = 0
      BY <1>1 DEF JobSound, TodoSound
    <3> QED  BY <1>4, <1>6, <3>1, <3>2
  <2> QED  BY <1>1, <1>5, <2>1, <2>2 DEF JobSound, TodoSound, Whole
<1>14. PaySound(k)
  BY <1>5 DEF PaySound
<1>15. paid \in SUBSET TouchedBy(j) /\ ReceiptOf[q] \in paid /\ TouchedBy(k) = TouchedBy(j)
  BY <1>2, <1>5, <1>7 DEF TouchedBy, ReceiptsOf, paid
<1>16. CreditSound(k)
  <2>1. CASE ~Whole(j)
    BY <1>1, <1>5, <2>1 DEF JobSound, CreditSound, Whole
  <2>2. CASE Whole(j)
    <3>1. ReceiptsOf(OnCharge(j, c)) \in SUBSET TouchedBy(j)
      BY DEF OnCharge, TouchedBy, ReceiptsOf
    <3>2. k.done \subseteq TouchedBy(j)
      BY <1>1, <1>5, <2>2, <3>1 DEF JobSound, CreditSound
    <3>3. CASE j.op = "batch"
      BY <1>1, <1>5, <1>15, <2>2, <3>2, <3>3 DEF JobSound, CreditSound, Whole
    <3>4. CASE j.op = "full"
      <4>1. \A p, s \in j.note \cup TouchedBy(j) : p = s
        BY <1>1, <2>2, <3>4 DEF JobSound, CreditSound
      <4>2. j.close \subseteq paid
        BY <1>1, <1>15, <2>2, <4>1 DEF JobSound, CreditSound
      <4>3. k.note = paid /\ k.close \subseteq paid
        BY <1>5, <3>4, <4>2
      <4> QED  BY <1>1, <1>5, <1>15, <2>2, <3>2, <3>4, <4>1, <4>3 DEF JobSound, CreditSound, Whole
    <3> QED  BY <2>2, <3>3, <3>4 DEF Whole
  <2> QED  BY <2>1, <2>2
<1>17. CloseSound(k)
  <2> SUFFICES ASSUME Undisturbed, Whole(k)
               PROVE  /\ \A r \in Rows :
                           ReceiptOf[r] \in k.close => WrittenRefunds(k)[r] = Amount[r]
                      /\ k.op = "batch" \/ k.stage # "commit" =>
                           \A r \in Rows : ReceiptOf[r] \in TouchedBy(k) \ k.failed =>
                             \/ WrittenRefunds(k)[r] = Amount[r]
                             \/ r \in k.rows /\ ChargeOf[r] \in k.todo
                             \/ r \in k.now
    BY DEF CloseSound
  <2>1. Whole(j)
    BY <1>5 DEF Whole
  <2>2. \A r \in Rows : WrittenRefunds(j)[r] = Amount[r] => WrittenRefunds(k)[r] = Amount[r]
    <3> SUFFICES ASSUME NEW r \in Rows, WrittenRefunds(j)[r] = Amount[r]
                 PROVE  WrittenRefunds(k)[r] = Amount[r]
      OBVIOUS
    <3>1. /\ rec[r] \in Nat /\ WrittenRefunds(j)[r] \in Int
          /\ WrittenRefunds(j)[r] + rec[r] <= Amount[r]
      BY <1>4, <1>7
    <3> QED  BY <1>6, <3>1
  <2>3. \A r \in j.now : WrittenRefunds(k)[r] = Amount[r]
    BY <1>4, <1>6, <1>7, <2>1
  <2>4. \A r \in Rows : ReceiptOf[r] \in TouchedBy(j) \ j.failed =>
          \/ WrittenRefunds(k)[r] = Amount[r]
          \/ r \in j.rows /\ ChargeOf[r] \in j.todo
    BY <1>1, <2>1, <2>2, <2>3 DEF JobSound, CloseSound
  <2>5. \A r \in Rows : ReceiptOf[r] \in j.close => WrittenRefunds(k)[r] = Amount[r]
    BY <1>1, <2>1, <2>2 DEF JobSound, CloseSound
  <2>6. CASE j.op = "full" /\ j.todo = {}
    <3>1. j.failed = {}
      BY <1>1, <2>6 DEF JobSound, ShapeSound
    <3> QED  BY <1>5, <1>15, <2>4, <2>6, <3>1
  <2>7. CASE ~(j.op = "full" /\ j.todo = {})
    BY <1>5, <1>15, <2>4, <2>5, <2>7
  <2> QED  BY <2>6, <2>7
<1>18. JobSound(k)'
  BY <1>8, <1>11, <1>12, <1>13, <1>14, <1>16, <1>17, OthersKept DEF JobSound
<1> QED  BY <1>2, <1>10, <1>18, SoundAgain

-----------------------------------------------------------------------------
(* Committing                                                              *)

(* A commit of a sound job leaves a sound ledger.                          *)
LEMMA WriteSound ==
  ASSUME TypeInv, LedgerSound, NEW j \in Jobs, JobSound(j),
         NEW note \in SUBSET Receipts, NEW close \in SUBSET note,
         Whole(j) => note \subseteq j.note \cup TouchedBy(j),
         ~Whole(j) => close = {},
         Undisturbed => \A r \in Rows : ReceiptOf[r] \in close => WrittenRefunds(j)[r] = Amount[r],
         Write(j, note, close)
  PROVE  /\ LedgerSound'
         /\ \A r \in Rows : refunded'[r] = WrittenRefunds(j)[r]
         /\ Undisturbed' => \A c \in Charges : Total(refunded', RowsOf(c)) = stripe'[c]
<1> DEFINE W == WrittenRefunds(j)
<1>1. /\ refunded' = W /\ booked' = [r \in Rows |-> booked[r] + j.book[r]]
      /\ credit' = Added(credit, j.credit, note) /\ fee' = Added(fee, j.fee, note)
      /\ closed' = closed \cup close /\ UNCHANGED stripe /\ (Undisturbed' => Undisturbed)
  BY DEF Write, Undisturbed
<1>2. ASSUME NEW p \in Receipts
      PROVE  /\ credit'[p] = IF p \in note THEN credit[p] + j.credit[p] ELSE credit[p]
             /\ fee'[p] = IF p \in note THEN fee[p] + j.fee[p] ELSE fee[p]
  BY <1>1 DEF Added, TypeInv, TypeOK
<1>3. /\ \A r \in Rows : /\ 0 <= j.book[r] /\ refunded[r] + j.book[r] <= W[r] /\ W[r] <= Amount[r]
                         /\ Undisturbed => W[r] = refunded[r] + j.book[r]
      /\ \A c \in Charges : Total(W, RowsOf(c)) <= stripe[c]
      /\ Undisturbed => \A c \in Charges : Total(W, RowsOf(c)) = stripe[c]
  BY DEF JobSound, CountsSound
<1>4. \A r \in Rows : /\ 0 <= booked[r] /\ booked[r] <= refunded[r] /\ refunded[r] <= Amount[r]
                      /\ booked[r] \in Int /\ refunded[r] \in Int /\ j.book[r] \in Int
                      /\ W[r] \in Int /\ Amount[r] \in Int
  <2>1. W \in [Rows -> Int]
    BY WrittenType DEF TypeInv
  <2>2. \A r \in Rows : booked[r] \in Int /\ refunded[r] \in Int /\ j.book[r] \in Int
    BY DEF TypeInv, TypeOK, Jobs
  <2> HIDE DEF W
  <2> QED  BY <2>1, <2>2, AmountsType DEF LedgerSound, RowsSound
<1>5. ASSUME NEW p \in Receipts
      PROVE  /\ fee[p] = 0 /\ j.fee[p] = 0 /\ credit[p] <= AllOf(p)
             /\ p \in note => credit[p] + j.credit[p] <= AllOf(p)
             /\ p \in note /\ Whole(j) => p \notin closed /\ credit[p] + j.credit[p] = AllOf(p)
             /\ p \in closed /\ ~Whole(j) => j.credit[p] = 0
             /\ credit[p] \in Int /\ j.credit[p] \in Int
  <2>1. credit[p] \in Int /\ j.credit[p] \in Int
    BY DEF TypeInv, TypeOK, Jobs
  <2>2. fee[p] = 0 /\ j.fee[p] = 0 /\ credit[p] <= AllOf(p)
    BY DEF LedgerSound, JobSound, CreditSound
  <2>3. AllOf(p) \in Int
    BY AmountsType DEF AllOf
  <2>4. CASE Whole(j)
    <3>1. p \in note => p \notin closed /\ credit[p] + j.credit[p] = AllOf(p)
      BY <2>4 DEF JobSound, CreditSound
    <3> QED  BY <2>1, <2>2, <2>3, <2>4, <3>1
  <2>5. CASE ~Whole(j)
    <3>1. credit[p] + j.credit[p] <= AllOf(p) /\ (p \in closed => j.credit[p] = 0)
      BY <2>5 DEF JobSound, CreditSound
    <3> QED  BY <2>1, <2>2, <2>5, <3>1
  <2> QED  BY <2>4, <2>5
<1> HIDE DEF W
<1>6. RowsSound'
  <2> SUFFICES ASSUME NEW r \in Rows
               PROVE  0 <= booked'[r] /\ booked'[r] <= refunded'[r] /\ refunded'[r] <= Amount[r]
    BY DEF RowsSound
  <2>1. booked'[r] = booked[r] + j.book[r] /\ refunded'[r] = W[r]
    BY <1>1
  <2> QED  BY <1>3, <1>4, <2>1
<1>7. TrackedIsReal'
  BY <1>1, <1>3 DEF TrackedIsReal
<1>8. \A p \in Receipts : credit'[p] <= AllOf(p) /\ fee'[p] = 0
  BY <1>2, <1>5
<1>9. ASSUME Undisturbed
      PROVE  /\ \A r \in Rows : booked'[r] = refunded'[r]
             /\ \A p \in closed' : credit'[p] = AllOf(p)
             /\ \A r \in Rows : ReceiptOf[r] \in closed' => refunded'[r] = Amount[r]
  <2>1. ASSUME NEW r \in Rows  PROVE booked'[r] = refunded'[r]
    <3>1. booked'[r] = booked[r] + j.book[r] /\ refunded'[r] = W[r]
      BY <1>1
    <3>2. booked[r] = refunded[r] /\ W[r] = refunded[r] + j.book[r]
      BY <1>3, <1>9 DEF LedgerSound
    <3> QED  BY <1>4, <3>1, <3>2
  <2>2. ASSUME NEW p \in closed'  PROVE credit'[p] = AllOf(p)
    <3>1. p \in Receipts /\ (p \in closed \/ (p \in close /\ p \in note /\ Whole(j)))
      BY <1>1 DEF TypeInv, TypeOK
    <3>2. CASE p \in closed
      <4>1. credit[p] = AllOf(p)
        BY <1>9, <3>2 DEF LedgerSound
      <4>2. credit'[p] = credit[p]
        BY <1>2, <1>5, <3>1, <3>2
      <4> QED  BY <4>1, <4>2
    <3>3. CASE p \in close /\ p \in note /\ Whole(j)
      BY <1>2, <1>5, <3>1, <3>3
    <3> QED  BY <3>1, <3>2, <3>3
  <2>3. ASSUME NEW r \in Rows, ReceiptOf[r] \in closed'  PROVE refunded'[r] = Amount[r]
    <3>1. CASE ReceiptOf[r] \in closed
      <4>1. refunded[r] = Amount[r]
        BY <1>9, <3>1 DEF LedgerSound
      <4>2. W[r] = Amount[r]
        BY <1>3, <1>4, <4>1
      <4> QED  BY <1>1, <4>2
    <3>2. CASE ReceiptOf[r] \in close
      BY <1>1, <1>9, <3>2 DEF W
    <3> QED  BY <1>1, <2>3, <3>1, <3>2
  <2> QED  BY <2>1, <2>2, <2>3
<1>10. LedgerSound'
  BY <1>1, <1>6, <1>7, <1>8, <1>9 DEF LedgerSound
<1> QED  BY <1>1, <1>3, <1>10 DEF W

(* The commit of a handler, or of one charge of several cancellations.     *)
LEMMA CommitSound ==
  ASSUME TypeInv, TypeOK', NEW w \in Workers, Sound(w), Commit(w)
  PROVE  Sound(w)'
<1>1. PICK j \in Jobs : j = job[w] /\ JobSound(j) /\ j.stage = "commit" /\ LedgerSound
  BY DEF Commit, TypeInv, TypeOK, Sound
<1>2. Write(j, j.note, j.close) /\ j.note \in SUBSET Receipts
  BY <1>1 DEF Commit, Jobs
<1>3. /\ j.close \in SUBSET j.note /\ (~Whole(j) => j.close = {})
      /\ Undisturbed /\ Whole(j) =>
           \A r \in Rows : ReceiptOf[r] \in j.close => WrittenRefunds(j)[r] = Amount[r]
  BY <1>1 DEF JobSound, CreditSound, CloseSound
<1>4. /\ LedgerSound' /\ \A r \in Rows : refunded'[r] = WrittenRefunds(j)[r]
      /\ Undisturbed' => \A c \in Charges : Total(refunded', RowsOf(c)) = stripe'[c]
  BY <1>1, <1>2, <1>3, WriteSound
<1>5. CASE j.op # "batch"
  <2>1. job' = [job EXCEPT ![w] = Idle]
    BY <1>1, <1>5 DEF Commit
  <2> QED  BY <1>4, <2>1, IdleSound, SoundAgain
<1>6. CASE j.op = "batch"
  <2> DEFINE st == IF j.todo = {} THEN "last" ELSE "check"
             k == [j EXCEPT !.stage = st, !.touched = {}, !.book = NoneOf(Rows), !.note = {},
                            !.close = {}]
  <2>1. job' = [job EXCEPT ![w] = k]
    BY <1>1, <1>6 DEF Commit
  <2>2. /\ k.stage = st /\ k.todo = j.todo /\ k.op = j.op /\ k.book = NoneOf(Rows)
        /\ k.now = j.now /\ k.touched = {} /\ k.rows = j.rows /\ k.pay = j.pay /\ k.close = {}
        /\ k.note = {} /\ k.done = j.done /\ k.failed = j.failed
        /\ k.credit = j.credit /\ k.fee = j.fee
    BY DEF Jobs
  <2>3. st \in {"last", "check"} /\ (st = "last" <=> j.todo = {}) /\ \A r \in Rows : k.book[r] = 0
    BY <2>2 DEF NoneOf
  <2> HIDE DEF k, st
  <2>4. j.now = {} /\ Whole(j) /\ Whole(k)
    BY <1>1, <1>6, <2>2 DEF JobSound, ShapeSound, Whole
  <2>5. WrittenRefunds(k)' = refunded'
    BY <2>2 DEF WrittenRefunds, TypeOK
  <2>6. CountsSound(k)'
    <3>1. ASSUME NEW r \in Rows
          PROVE  /\ 0 <= k.book[r] /\ refunded'[r] + k.book[r] = refunded'[r]
                 /\ refunded'[r] <= Amount[r] /\ refunded'[r] \in Int
      BY <1>4, <2>3 DEF LedgerSound, RowsSound, TypeOK
    <3>2. \A c \in Charges : Total(refunded', RowsOf(c)) <= stripe'[c]
      BY <1>4 DEF LedgerSound, TrackedIsReal
    <3> QED  BY <1>4, <2>5, <3>1, <3>2 DEF CountsSound
  <2>7. ShapeSound(k)'
    BY <1>1, <1>6, <2>2, <2>3, <2>4 DEF JobSound, ShapeSound
  <2>8. TodoSound(k)'
    <3> SUFFICES ASSUME NEW c \in j.todo
                 PROVE  /\ OnCharge(j, c) # {}
                        /\ \A r \in OnCharge(j, c) : refunded'[r] < Amount[r]
                        /\ j.pay[c] = Total(LeftNow', OnCharge(j, c))
      <4>1. \A d : OnCharge(k, d) = OnCharge(j, d)
        BY <2>2 DEF OnCharge
      <4>2. \A d \in Charges : \A r \in RowsOf(d) : k.book[r] = 0
        BY <2>3 DEF RowsOf
      <4>3. j.todo \in SUBSET Charges
        BY DEF Jobs
      <4> QED  BY <2>2, <2>4, <4>1, <4>2, <4>3 DEF TodoSound, Whole
    <3>1. /\ OnCharge(j, c) # {} /\ \A r \in OnCharge(j, c) : refunded[r] < Amount[r]
          /\ j.pay[c] = Total(LeftNow, OnCharge(j, c))
          /\ \A r \in RowsOf(c) : r \notin j.touched
      BY <1>1, <2>4 DEF JobSound, TodoSound
    <3>2. OnCharge(j, c) \in SUBSET Rows /\ OnCharge(j, c) \in SUBSET RowsOf(c)
      BY DEF OnCharge, Jobs, RowsOf
    <3>3. \A r \in OnCharge(j, c) : refunded'[r] = refunded[r]
      BY <1>4, <3>1, <3>2 DEF WrittenRefunds
    <3>4. \A r \in OnCharge(j, c) : LeftNow'[r] = LeftNow[r]
      BY <3>2, <3>3 DEF LeftNow, Left
    <3>5. Total(LeftNow, OnCharge(j, c)) = Total(LeftNow', OnCharge(j, c))
      BY <3>2, <3>4, TotalSame
    <3> QED  BY <3>1, <3>3, <3>5
  <2>9. PaySound(k)'
    BY <2>2, <2>4 DEF PaySound
  <2>10. CreditSound(k)'
    <3>1. TouchedBy(k) = TouchedBy(j)
      BY <2>2 DEF TouchedBy
    <3>2. ASSUME NEW p \in TouchedBy(j)
          PROVE  p \notin closed' /\ credit'[p] + j.credit[p] = AllOf(p)
      <4>1. p \in Receipts /\ p \notin j.note /\ p \notin j.close
        BY <1>1, <1>3, <1>6, <2>4, AmountsType
           DEF JobSound, CreditSound, TouchedBy, ReceiptsOf, Jobs
      <4>2. p \notin closed /\ credit[p] + j.credit[p] = AllOf(p)
        BY <1>1, <2>4 DEF JobSound, CreditSound
      <4>3. credit'[p] = credit[p] /\ closed' = closed \cup j.close
        BY <1>2, <4>1 DEF Write, Added, TypeInv, TypeOK
      <4> QED  BY <4>1, <4>2, <4>3
    <3>3. \A p \in Receipts : j.fee[p] = 0
      BY <1>1 DEF JobSound, CreditSound
    <3>4. j.done \subseteq TouchedBy(j)
      BY <1>1, <2>4 DEF JobSound, CreditSound
    <3> QED  BY <1>6, <2>2, <2>4, <3>1, <3>2, <3>3, <3>4 DEF CreditSound, Whole
  <2>11. CloseSound(k)'
    <3>1. TouchedBy(k) = TouchedBy(j)
      BY <2>2 DEF TouchedBy
    <3>2. Undisturbed' => Undisturbed
      BY <1>2 DEF Write, Undisturbed
    <3>3. Undisturbed =>
            \A r \in Rows : ReceiptOf[r] \in TouchedBy(j) \ j.failed =>
              WrittenRefunds(j)[r] = Amount[r] \/ (r \in j.rows /\ ChargeOf[r] \in j.todo)
      BY <1>1, <1>6, <2>4 DEF JobSound, CloseSound
    <3> QED  BY <1>4, <2>2, <2>5, <3>1, <3>2, <3>3 DEF CloseSound
  <2> QED  BY <1>4, <2>1, <2>6, <2>7, <2>8, <2>9, <2>10, <2>11, SoundAgain DEF JobSound
<1> QED  BY <1>5, <1>6

(* The last commit of several cancellations.                               *)
LEMMA CommitCancelledSound ==
  ASSUME TypeInv, TypeOK', NEW w \in Workers, Sound(w), CommitCancelled(w)
  PROVE  Sound(w)'
<1>1. PICK j \in Jobs : j = job[w] /\ JobSound(j) /\ j.stage = "last" /\ LedgerSound
  BY DEF CommitCancelled, TypeInv, TypeOK, Sound
<1>2. PICK note \in SUBSET Receipts, close \in SUBSET Receipts :
        /\ close \in SUBSET note /\ note = j.note \cup j.done
        /\ close = j.close \cup (j.done \ j.failed)
        /\ Write(j, note, close)
  <2>1. j.close \subseteq j.note
    BY <1>1 DEF JobSound, CreditSound
  <2> QED  BY <1>1, <2>1 DEF CommitCancelled, Jobs
<1>3. j.op = "batch" /\ j.todo = {} /\ j.now = {} /\ Whole(j)
  BY <1>1 DEF JobSound, ShapeSound, Whole
<1>4. note \subseteq j.note \cup TouchedBy(j) /\ j.done \subseteq TouchedBy(j)
  BY <1>1, <1>2, <1>3 DEF JobSound, CreditSound
<1>5. Undisturbed => \A r \in Rows : ReceiptOf[r] \in close => WrittenRefunds(j)[r] = Amount[r]
  BY <1>1, <1>2, <1>3, <1>4 DEF JobSound, CloseSound
<1>6. /\ JobSound(j) /\ LedgerSound /\ close \in SUBSET note /\ Write(j, note, close)
      /\ Whole(j) => note \subseteq j.note \cup TouchedBy(j)
      /\ ~Whole(j) => close = {}
  BY <1>1, <1>2, <1>3, <1>4
<1>7. /\ LedgerSound'
      /\ Undisturbed' => \A c \in Charges : Total(refunded', RowsOf(c)) = stripe'[c]
  BY <1>5, <1>6, WriteSound
<1>8. job' = [job EXCEPT ![w] = Idle]
  BY DEF CommitCancelled
<1> QED  BY <1>7, <1>8, IdleSound, SoundAgain

-----------------------------------------------------------------------------
(* Starting                                                                *)

(* An idle handler's session is empty, and all refunds are on the rows.    *)
LEMMA IdleTold ==
  ASSUME TypeInv, NEW w \in Workers, Sound(w), job[w].stage = "idle"
  PROVE  /\ job[w] = Idle
         /\ Undisturbed => \A c \in Charges : Total(refunded, RowsOf(c)) = stripe[c]
<1>1. PICK j \in Jobs : j = job[w] /\ JobSound(j)
  BY DEF Sound, TypeInv, TypeOK
<1>2. j = Idle
  BY <1>1 DEF JobSound, ShapeSound
<1>3. Undisturbed => \A c \in Charges : Total(refunded, RowsOf(c)) = stripe[c]
  BY <1>1, <1>2, IdleFields, NothingBooked DEF JobSound, TypeInv
<1> QED  BY <1>1, <1>2, <1>3

(* A job that has not touched a row counts what is committed.              *)
LEMMA FreshCounts ==
  ASSUME TypeOK, LedgerSound, NEW k, k.touched = {}, \A r \in Rows : k.book[r] = 0,
         Undisturbed => \A c \in Charges : Total(refunded, RowsOf(c)) = stripe[c]
  PROVE  WrittenRefunds(k) = refunded /\ CountsSound(k)
<1>1. WrittenRefunds(k) = refunded
  BY DEF WrittenRefunds, TypeOK
<1>2. \A r \in Rows : /\ refunded[r] + k.book[r] = refunded[r] /\ refunded[r] \in Int
                      /\ 0 <= k.book[r] /\ refunded[r] <= Amount[r]
  BY DEF TypeOK, LedgerSound, RowsSound
<1>3. \A c \in Charges : Total(refunded, RowsOf(c)) <= stripe[c]
  BY DEF LedgerSound, TrackedIsReal
<1> QED  BY <1>1, <1>2, <1>3 DEF CountsSound

(* A handler that starts with a sound job is sound.                        *)
LEMMA BeginSound ==
  ASSUME TypeInv, NEW w \in Workers, Sound(w), NEW k, JobSound(k), Begin(w, k)
  PROVE  Sound(w)'
<1>1. /\ job' = [job EXCEPT ![w] = k] /\ UNCHANGED <<ledger, stripe>>
      /\ (Undisturbed' => Undisturbed)
  BY DEF Begin, Undisturbed
<1>2. LedgerSound'
  BY <1>1, LedgerKept DEF Sound
<1>3. JobSound(k)'
  BY <1>1, JobKept
<1> QED  BY <1>1, <1>2, <1>3, SoundAgain

(* The rows of receipts with something left, and the charges of rows.      *)
RowsLeft(S) == {r \in Rows : ReceiptOf[r] \in S /\ Left(r) # 0}
ChargesOf(S) == {ChargeOf[r] : r \in S}

(* What cancel_and_refund prepares: all that is left of the rows of these  *)
(* receipts, without fees.                                                 *)
LEMMA CancelFields ==
  ASSUME TypeInv, LedgerSound, StripeKeepsNothing, NEW S \in SUBSET Receipts,
         S \cap closed = {}, NEW exclude \in BOOLEAN, NEW j \in CancelAndRefund(S, exclude)
  PROVE  /\ j.rows = RowsLeft(S)
         /\ j.todo = ChargesOf(j.rows)
         /\ \A c \in Charges : j.pay[c] = Total(LeftNow, OnCharge(j, c))
         /\ \A p \in S : j.credit[p] = AllOf(p) - credit[p]
         /\ \A p \in Receipts : j.fee[p] = 0
         /\ j.touched = {} /\ j.now = {} /\ j.done = {} /\ j.failed = {}
         /\ j.note = {} /\ j.close = {}
         /\ \A r \in Rows : j.book[r] = 0
<1> DEFINE rows == {r \in Rows : ReceiptOf[r] \in S /\ Refundable(r)}
           kept == [r \in Rows |-> IF exclude THEN FeeShare(r, Left(r)) ELSE 0]
           todo == {ChargeOf[r] : r \in rows}
           rest == [r \in Rows |-> Left(r) - kept[r]]
           pay == [c \in Charges |-> Total(rest, rows \cap RowsOf(c))]
           credits == [p \in Receipts |-> IF p \in S THEN CancelCredit(p) ELSE 0]
           fees(last) == [p \in Receipts |->
                            IF rows \cap RowsOn(p) = {} THEN 0 ELSE kept[last[p]]]
<1>1. PICK last \in [Receipts -> Rows] :
        j = [Idle EXCEPT !.stage = "check", !.rows = rows, !.todo = todo, !.pay = pay,
                         !.credit = credits, !.fee = fees(last)]
  BY DEF CancelAndRefund
<1>2. \A r \in Rows : Left(r) \in Int /\ FeeShare(r, Left(r)) = 0 /\ FeeShare(r, Amount[r]) = 0
  BY UpdatedType, AmountsType, NoShare DEF TypeInv
<1>3. \A r \in Rows : kept[r] = 0 /\ rest[r] = LeftNow[r]
  BY <1>2 DEF LeftNow
<1>4. rows = RowsLeft(S)
  BY <1>2 DEF Refundable, RowsLeft
<1>5. \A p \in Receipts : fees(last)[p] = 0
  BY <1>3
<1>6. \A p \in S : credits[p] = AllOf(p) - credit[p]
  <2> SUFFICES ASSUME NEW p \in S  PROVE CancelCredit(p) = AllOf(p) - credit[p]
    OBVIOUS
  <2>1. /\ credit[p] \in Int /\ AllOf(p) \in Int /\ credit[p] <= AllOf(p) /\ fee[p] = 0
        /\ AllOf(p) = Total(Amount, RowsOn(p))
    BY AmountsType DEF AllOf, TypeInv, TypeOK, LedgerSound
  <2>2. ItemTotal(p) = AllOf(p) - credit[p]
    BY <2>1 DEF ItemTotal
  <2> QED  BY <2>1, <2>2 DEF CancelCredit
<1>7. PICK fee0 : fee0 = fees(last)
  OBVIOUS
<1> HIDE DEF rows, todo, pay, credits, fees, kept, rest
<1>8. /\ j.rows = rows /\ j.todo = todo /\ j.pay = pay /\ j.credit = credits /\ j.fee = fee0
      /\ j.touched = {} /\ j.now = {} /\ j.done = {} /\ j.failed = {} /\ j.book = Idle.book
      /\ j.note = {} /\ j.close = {}
  BY <1>1, <1>7, IdleType, IdleFields DEF Jobs
<1>9. ASSUME NEW c \in Charges  PROVE j.pay[c] = Total(LeftNow, OnCharge(j, c))
  <2>1. rows \cap RowsOf(c) = OnCharge(j, c) /\ OnCharge(j, c) \in SUBSET Rows
    BY <1>8 DEF OnCharge, RowsOf, rows
  <2>2. j.pay[c] = Total(rest, rows \cap RowsOf(c))
    BY <1>8 DEF pay
  <2>3. Total(rest, OnCharge(j, c)) = Total(LeftNow, OnCharge(j, c))
    BY <1>3, <2>1, TotalSame
  <2> QED  BY <2>1, <2>2, <2>3
<1>10. j.todo = ChargesOf(j.rows)
  BY <1>8 DEF todo, ChargesOf
<1> QED  BY <1>4, <1>5, <1>6, <1>7, <1>8, <1>9, <1>10, IdleFields

(* A cancellation that starts: nothing is written yet, and the receipts    *)
(* that are closed without a refund have nothing left.                     *)
LEMMA CancelSound ==
  ASSUME TypeInv, LedgerSound, StripeKeepsNothing, NEW S \in SUBSET Receipts,
         S \cap closed = {}, NEW exclude \in BOOLEAN, NEW j \in CancelAndRefund(S, exclude),
         Undisturbed => \A c \in Charges : Total(refunded, RowsOf(c)) = stripe[c],
         NEW k, k.op \in {"full", "batch"}, k.stage \in {"check", "commit", "last"},
         k.stage = "last" => k.op = "batch" /\ k.todo = {},
         k.note \subseteq S, k.close = k.note,
         \A p \in k.note : j.rows \cap RowsOn(p) = {},
         k.op = "full" => \A p, q \in S : p = q,
         k.rows = j.rows, k.todo = j.todo, k.pay = j.pay, k.credit = j.credit, k.fee = j.fee,
         k.touched = j.touched, k.now = j.now, k.done = j.done, k.failed = j.failed,
         k.book = j.book
  PROVE  JobSound(k)
<1>1. /\ k.rows = RowsLeft(S)
      /\ k.todo = ChargesOf(k.rows)
      /\ \A c \in Charges : k.pay[c] = Total(LeftNow, OnCharge(j, c))
      /\ \A p \in S : k.credit[p] = AllOf(p) - credit[p]
      /\ \A p \in Receipts : k.fee[p] = 0
      /\ k.touched = {} /\ k.now = {} /\ k.done = {} /\ k.failed = {}
      /\ \A r \in Rows : k.book[r] = 0
  <2>1. /\ j.rows = RowsLeft(S)
        /\ j.todo = ChargesOf(j.rows)
        /\ \A c \in Charges : j.pay[c] = Total(LeftNow, OnCharge(j, c))
        /\ \A p \in S : j.credit[p] = AllOf(p) - credit[p]
        /\ \A p \in Receipts : j.fee[p] = 0
        /\ j.touched = {} /\ j.now = {} /\ j.done = {} /\ j.failed = {}
        /\ \A r \in Rows : j.book[r] = 0
    BY CancelFields
  <2> QED  BY <2>1
<1>2. WrittenRefunds(k) = refunded /\ CountsSound(k)
  BY <1>1, FreshCounts DEF TypeInv
<1>3. Whole(k) /\ TouchedBy(k) \subseteq S
  BY <1>1 DEF Whole, TouchedBy, ReceiptsOf, RowsLeft
<1>4. ShapeSound(k)
  BY <1>1, <1>3 DEF ShapeSound, Whole
<1>5. \A r \in Rows : /\ refunded[r] \in Int /\ Amount[r] \in Int /\ refunded[r] <= Amount[r]
                      /\ Left(r) = Amount[r] - refunded[r] /\ ChargeOf[r] \in Charges
  BY AmountsType DEF LedgerSound, RowsSound, TypeInv, TypeOK, Left
<1>6. TodoSound(k)
  <2> SUFFICES ASSUME NEW c \in k.todo
               PROVE  /\ OnCharge(k, c) # {}
                      /\ \A r \in OnCharge(k, c) : refunded[r] < Amount[r]
                      /\ k.pay[c] = Total(LeftNow, OnCharge(k, c))
    BY <1>1, <1>3 DEF TodoSound, RowsOf, ChargesOf
  <2>1. OnCharge(k, c) = OnCharge(j, c) /\ c \in Charges /\ OnCharge(k, c) # {}
    BY <1>1, <1>5 DEF OnCharge, RowsLeft, ChargesOf
  <2>2. ASSUME NEW r \in OnCharge(k, c)  PROVE refunded[r] < Amount[r]
    <3>1. r \in Rows /\ Left(r) # 0
      BY <1>1 DEF OnCharge, RowsLeft
    <3> QED  BY <1>5, <3>1
  <2> QED  BY <1>1, <2>1, <2>2
<1>7. PaySound(k)
  BY <1>1 DEF PaySound
<1>8. CreditSound(k)
  <2>1. k.note \cap TouchedBy(k) = {}
    <3> SUFFICES ASSUME NEW r \in k.rows, ReceiptOf[r] \in k.note  PROVE FALSE
      BY DEF TouchedBy, ReceiptsOf
    <3>1. r \in j.rows \cap RowsOn(ReceiptOf[r])
      BY <1>1 DEF RowsOn, RowsLeft
    <3> QED  BY <3>1
  <2>2. ASSUME NEW p \in S  PROVE p \notin closed /\ credit[p] + k.credit[p] = AllOf(p)
    <3>1. credit[p] \in Int /\ AllOf(p) \in Int /\ k.credit[p] = AllOf(p) - credit[p]
      BY <1>1, AmountsType DEF TypeInv, TypeOK, AllOf
    <3> QED  BY <3>1
  <2> QED  BY <1>1, <1>3, <2>1, <2>2 DEF CreditSound
<1>9. CloseSound(k)
  <2>1. ASSUME NEW r \in Rows, ReceiptOf[r] \in S
        PROVE  refunded[r] = Amount[r] \/ (r \in k.rows /\ ChargeOf[r] \in k.todo)
    <3>1. CASE Left(r) = 0
      BY <1>5, <3>1
    <3>2. CASE Left(r) # 0
      BY <1>1, <2>1, <3>2 DEF RowsLeft, ChargesOf
    <3> QED  BY <3>1, <3>2
  <2>2. ASSUME NEW r \in Rows, ReceiptOf[r] \in k.close  PROVE refunded[r] = Amount[r]
    <3>1. r \notin k.rows
      BY <2>2 DEF RowsOn
    <3> QED  BY <2>1, <2>2, <3>1
  <2> QED  BY <1>2, <1>3, <2>1, <2>2 DEF CloseSound
<1> QED  BY <1>2, <1>4, <1>6, <1>7, <1>8, <1>9 DEF JobSound

(* process_full_refund.                                                    *)
LEMMA FullSound ==
  ASSUME TypeInv, StripeKeepsNothing, NEW w \in Workers, Sound(w),
         NEW p \in Receipts, NEW exclude \in BOOLEAN, ProcessFullRefund(w, p, exclude)
  PROVE  Sound(w)'
<1>0. PICK S \in SUBSET Receipts : S = {p}
  OBVIOUS
<1>1. PICK j \in CancelAndRefund(S, exclude) :
        Begin(w, IF j.todo = {}
                 THEN [j EXCEPT !.op = "full", !.stage = "commit", !.note = S, !.close = S]
                 ELSE [j EXCEPT !.op = "full"])
  BY <1>0 DEF ProcessFullRefund
<1>2. p \notin closed /\ job[w].stage = "idle" /\ LedgerSound
  BY <1>1 DEF ProcessFullRefund, Begin, Sound
<1>3. Undisturbed => \A c \in Charges : Total(refunded, RowsOf(c)) = stripe[c]
  BY <1>2, IdleTold
<1>4. j \in Jobs /\ j.stage = "check" /\ S \cap closed = {} /\ \A x, y \in S : x = y
  BY <1>0, <1>2, CancelType
<1>5. j.todo = ChargesOf(j.rows) /\ j.note = {} /\ j.close = {}
  BY <1>2, <1>4, CancelFields
<1> DEFINE done == [j EXCEPT !.op = "full", !.stage = "commit", !.note = S, !.close = S]
           more == [j EXCEPT !.op = "full"]
<1>6. CASE j.todo = {}
  <2>1. /\ done.op = "full" /\ done.stage = "commit" /\ done.note = S /\ done.close = S
        /\ done.rows = j.rows /\ done.todo = j.todo /\ done.pay = j.pay
        /\ done.credit = j.credit /\ done.fee = j.fee /\ done.touched = j.touched
        /\ done.now = j.now /\ done.done = j.done /\ done.failed = j.failed
        /\ done.book = j.book
    BY <1>4 DEF Jobs
  <2>2. Begin(w, done)
    BY <1>1, <1>6
  <2> HIDE DEF done
  <2>3. j.rows = {}
    BY <1>5, <1>6 DEF ChargesOf
  <2>4. /\ done.op \in {"full", "batch"} /\ done.stage \in {"check", "commit", "last"}
        /\ done.stage = "last" => done.op = "batch" /\ done.todo = {}
        /\ done.note \subseteq S /\ done.close = done.note
        /\ \A x \in done.note : j.rows \cap RowsOn(x) = {}
        /\ done.op = "full" => \A x, y \in S : x = y
    BY <1>4, <2>1, <2>3
  <2>5. JobSound(done)
    BY <1>2, <1>3, <1>4, <2>1, <2>4, CancelSound
  <2> QED  BY <2>2, <2>5, BeginSound
<1>7. CASE j.todo # {}
  <2>1. /\ more.op = "full" /\ more.stage = "check" /\ more.note = {} /\ more.close = {}
        /\ more.rows = j.rows /\ more.todo = j.todo /\ more.pay = j.pay
        /\ more.credit = j.credit /\ more.fee = j.fee /\ more.touched = j.touched
        /\ more.now = j.now /\ more.done = j.done /\ more.failed = j.failed
        /\ more.book = j.book
    BY <1>4, <1>5 DEF Jobs
  <2>2. Begin(w, more)
    BY <1>1, <1>7
  <2> HIDE DEF more
  <2>4. /\ more.op \in {"full", "batch"} /\ more.stage \in {"check", "commit", "last"}
        /\ more.stage = "last" => more.op = "batch" /\ more.todo = {}
        /\ more.note \subseteq S /\ more.close = more.note
        /\ \A x \in more.note : j.rows \cap RowsOn(x) = {}
        /\ more.op = "full" => \A x, y \in S : x = y
    BY <1>4, <2>1
  <2>5. JobSound(more)
    BY <1>2, <1>3, <1>4, <2>1, <2>4, CancelSound
  <2> QED  BY <2>2, <2>5, BeginSound
<1> QED  BY <1>6, <1>7

(* cancel_multiple, abandon_badges.                                        *)
LEMMA MultipleSound ==
  ASSUME TypeInv, StripeKeepsNothing, NEW w \in Workers, Sound(w),
         NEW S \in Batches, NEW exclude \in BOOLEAN, CancelMultiple(w, S, exclude)
  PROVE  Sound(w)'
<1>1. S \in SUBSET Receipts /\ S \cap closed = {}
  BY RefundConstants DEF CancelMultiple, RefundConstants
<1>2. PICK j \in CancelAndRefund(S, exclude), skipped \in SUBSET S, st \in {"last", "check"} :
        /\ \A p \in skipped : j.rows \cap RowsOn(p) = {}
        /\ st = "last" => j.todo = {}
        /\ Begin(w, [j EXCEPT !.op = "batch", !.note = skipped, !.close = skipped,
                              !.stage = st])
  <2>1. PICK j \in CancelAndRefund(S, exclude) :
          Begin(w, [j EXCEPT !.op = "batch",
                             !.note = {p \in S : j.rows \cap RowsOn(p) = {}},
                             !.close = {p \in S : j.rows \cap RowsOn(p) = {}},
                             !.stage = IF j.todo = {} THEN "last" ELSE "check"])
    BY DEF CancelMultiple
  <2>2. PICK skipped \in SUBSET S : skipped = {p \in S : j.rows \cap RowsOn(p) = {}}
    OBVIOUS
  <2>3. PICK st \in {"last", "check"} : st = IF j.todo = {} THEN "last" ELSE "check"
    OBVIOUS
  <2> QED  BY <2>1, <2>2, <2>3
<1>3. j \in Jobs
  BY <1>1, CancelType
<1>4. job[w].stage = "idle" /\ LedgerSound
  BY <1>2 DEF Begin, Sound
<1>5. Undisturbed => \A c \in Charges : Total(refunded, RowsOf(c)) = stripe[c]
  BY <1>4, IdleTold
<1> DEFINE k == [j EXCEPT !.op = "batch", !.note = skipped, !.close = skipped, !.stage = st]
<1>6. /\ k.op = "batch" /\ k.stage = st /\ k.note = skipped /\ k.close = skipped
      /\ k.rows = j.rows /\ k.todo = j.todo /\ k.pay = j.pay /\ k.credit = j.credit
      /\ k.fee = j.fee /\ k.touched = j.touched /\ k.now = j.now /\ k.done = j.done
      /\ k.failed = j.failed /\ k.book = j.book
  BY <1>3 DEF Jobs
<1>7. Begin(w, k)
  BY <1>2
<1> HIDE DEF k
<1>8. JobSound(k)
  BY <1>1, <1>2, <1>4, <1>5, <1>6, CancelSound
<1> QED  BY <1>7, <1>8, BeginSound

(* A refund of one row that starts has written nothing.                    *)
LEMMA OneRowSound ==
  ASSUME TypeInv, LedgerSound, NEW k, NEW r \in Rows,
         Undisturbed => \A c \in Charges : Total(refunded, RowsOf(c)) = stripe[c],
         ~Whole(k), k.stage \in {"check", "write"}, k.rows = {r}, k.todo = {ChargeOf[r]},
         k.touched = {}, k.now = {}, k.close = {}, \A q \in Rows : k.book[q] = 0,
         0 <= k.pay[ChargeOf[r]], \A p \in Receipts : k.fee[p] = 0,
         \A p \in Receipts : /\ credit[p] + k.credit[p] <= AllOf(p)
                             /\ p \in closed => k.credit[p] = 0
  PROVE  JobSound(k)
<1>1. CountsSound(k)
  BY FreshCounts DEF TypeInv
<1>2. ShapeSound(k)
  BY DEF ShapeSound, Whole
<1>3. TodoSound(k)
  BY DEF TodoSound, RowsOf
<1>4. PaySound(k)
  BY DEF PaySound
<1>5. CreditSound(k) /\ CloseSound(k)
  BY DEF CreditSound, CloseSound
<1> QED  BY <1>1, <1>2, <1>3, <1>4, <1>5 DEF JobSound

(* The job of a refund of one row, before anything is credited.            *)
LEMMA OneRowFields ==
  ASSUME NEW op \in {"comp", "undo", "settle"}, NEW r \in Rows, NEW n \in Int
  PROVE  LET j == OneRow(op, r, n) IN
         /\ j \in Jobs /\ j.op = op /\ j.stage = "check" /\ j.rows = {r}
         /\ j.todo = {ChargeOf[r]} /\ j.pay[ChargeOf[r]] = n
         /\ j.touched = {} /\ j.now = {} /\ j.close = {} /\ j.book = Idle.book
         /\ j.fee = Idle.fee /\ j.credit = Idle.credit
<1>1. PICK i \in Jobs : i = Idle
  BY IdleType
<1>2. ChargeOf[r] \in Charges
  BY AmountsType
<1>3. PICK f \in [Charges -> Int] : f = [i.pay EXCEPT ![ChargeOf[r]] = n]
  BY <1>1 DEF Jobs
<1>4. f[ChargeOf[r]] = n
  <2>1. i.pay \in [Charges -> Int]
    BY <1>1 DEF Jobs
  <2> QED  BY <1>2, <1>3, <2>1
<1>5. PICK j : j = OneRow(op, r, n)
  OBVIOUS
<1>6. j = [i EXCEPT !.op = op, !.stage = "check", !.rows = {r}, !.todo = {ChargeOf[r]},
                    !.pay = f]
  BY <1>1, <1>3, <1>5 DEF OneRow
<1>7. /\ j.op = op /\ j.stage = "check" /\ j.rows = {r} /\ j.todo = {ChargeOf[r]} /\ j.pay = f
      /\ j.touched = i.touched /\ j.now = i.now /\ j.close = i.close /\ j.book = i.book
      /\ j.fee = i.fee /\ j.credit = i.credit
  BY <1>6 DEF Jobs
<1> QED  BY <1>1, <1>4, <1>5, <1>7, IdleFields, OneRowType

(* What is credited on one receipt.                                        *)
Credited(p, n) == [Idle.credit EXCEPT ![p] = n]

(* A credit on one receipt is no more than was paid.                       *)
LEMMA OneCredit ==
  ASSUME TypeInv, LedgerSound, NEW p \in Receipts, NEW n \in Int, Uncredited(p, n)
  PROVE  \A q \in Receipts : /\ credit[q] + Credited(p, n)[q] <= AllOf(q)
                             /\ q \in closed => Credited(p, n)[q] = 0
<1> DEFINE f == Credited(p, n)
<1> SUFFICES ASSUME NEW q \in Receipts
             PROVE  credit[q] + f[q] <= AllOf(q) /\ (q \in closed => f[q] = 0)
  OBVIOUS
<1>1. Idle.credit \in [Receipts -> Int] /\ \A x \in Receipts : Idle.credit[x] = 0
  BY IdleType, IdleFields DEF Jobs
<1>2. f[q] = IF q = p THEN n ELSE 0
  BY <1>1 DEF Credited
<1> HIDE DEF f
<1>3. p \notin closed /\ credit[p] + n <= AllOf(p)
  BY DEF Uncredited, AllOf
<1>4. credit[q] \in Int /\ credit[q] <= AllOf(q)
  BY DEF TypeInv, TypeOK, LedgerSound
<1> QED  BY <1>2, <1>3, <1>4

(* comp_refund_receipt_item.                                               *)
LEMMA CompRefundSound ==
  ASSUME TypeInv, NEW w \in Workers, Sound(w), NEW r \in Rows, NEW n \in Credits,
         CompRefundReceiptItem(w, r, n)
  PROVE  Sound(w)'
<1>1. LedgerSound /\ job[w].stage = "idle" /\ Uncredited(ReceiptOf[r], n)
  BY DEF Sound, CompRefundReceiptItem, Begin
<1>2. Undisturbed => \A c \in Charges : Total(refunded, RowsOf(c)) = stripe[c]
  BY <1>1, IdleTold
<1>3. n \in Nat /\ ReceiptOf[r] \in Receipts
  BY AmountsType, RefundConstants DEF RefundConstants
<1>4. PICK m \in Nat : m = Least(n, Left(r))
  <2>1. refunded[r] <= Amount[r] /\ refunded[r] \in Int /\ Amount[r] \in Int
    BY <1>1, AmountsType DEF LedgerSound, RowsSound, TypeInv, TypeOK
  <2> QED  BY <1>3, <2>1 DEF Least, Left
<1>5. PICK j \in Jobs : /\ j = OneRow("comp", r, m)
                        /\ j.op = "comp" /\ j.stage = "check" /\ j.rows = {r}
                        /\ j.todo = {ChargeOf[r]} /\ j.pay[ChargeOf[r]] = m
                        /\ j.touched = {} /\ j.now = {} /\ j.close = {} /\ j.book = Idle.book
                        /\ j.fee = Idle.fee /\ j.credit = Idle.credit
  BY OneRowFields
<1>6. PICK f : f = Credited(ReceiptOf[r], n)
  OBVIOUS
<1> DEFINE k == [j EXCEPT !.credit = f]
<1>7. Begin(w, k)
  <2>1. Begin(w, [j EXCEPT !.credit[ReceiptOf[r]] = n])
    BY <1>4, <1>5 DEF CompRefundReceiptItem
  <2> QED  BY <1>5, <1>6, <2>1 DEF Credited
<1>8. /\ k.op = "comp" /\ k.stage = "check" /\ k.rows = {r} /\ k.todo = {ChargeOf[r]}
      /\ k.pay[ChargeOf[r]] = m /\ k.touched = {} /\ k.now = {} /\ k.close = {}
      /\ k.book = Idle.book /\ k.fee = Idle.fee /\ k.credit = f
  BY <1>5 DEF Jobs
<1> HIDE DEF k
<1>9. \A p \in Receipts : credit[p] + k.credit[p] <= AllOf(p) /\ (p \in closed => k.credit[p] = 0)
  BY <1>1, <1>3, <1>6, <1>8, OneCredit
<1>10. /\ ~Whole(k) /\ 0 <= k.pay[ChargeOf[r]] /\ k.stage \in {"check", "write"}
       /\ \A q \in Rows : k.book[q] = 0
       /\ \A p \in Receipts : k.fee[p] = 0
  BY <1>8, IdleFields DEF Whole
<1>11. JobSound(k)
  BY <1>1, <1>2, <1>8, <1>9, <1>10, OneRowSound
<1> QED  BY <1>7, <1>11, BeginSound

(* undo_refund_receipt_item.                                               *)
LEMMA UndoRefundSound ==
  ASSUME TypeInv, NEW w \in Workers, Sound(w), NEW r \in Rows, NEW n \in Credits,
         NEW exclude \in BOOLEAN, UndoRefundReceiptItem(w, r, n, exclude)
  PROVE  Sound(w)'
<1>1. LedgerSound /\ job[w].stage = "idle" /\ Uncredited(ReceiptOf[r], n)
  BY DEF Sound, UndoRefundReceiptItem, Begin
<1>2. Undisturbed => \A c \in Charges : Total(refunded, RowsOf(c)) = stripe[c]
  BY <1>1, IdleTold
<1>3. n \in Nat /\ ReceiptOf[r] \in Receipts
  BY AmountsType, RefundConstants DEF RefundConstants
<1>5. PICK j \in Jobs : /\ j = OneRow("undo", r, n)
                        /\ j.op = "undo" /\ j.stage = "check" /\ j.rows = {r}
                        /\ j.todo = {ChargeOf[r]} /\ j.pay[ChargeOf[r]] = n
                        /\ j.touched = {} /\ j.now = {} /\ j.close = {} /\ j.book = Idle.book
                        /\ j.fee = Idle.fee /\ j.credit = Idle.credit
  BY <1>3, OneRowFields
<1>6. PICK f : f = Credited(ReceiptOf[r], n)
  OBVIOUS
<1> DEFINE k == [j EXCEPT !.stage = "write", !.exclude = exclude, !.credit = f]
<1>7. Begin(w, k)
  <2>1. Begin(w, [j EXCEPT !.stage = "write", !.exclude = exclude, !.credit[ReceiptOf[r]] = n])
    BY <1>5 DEF UndoRefundReceiptItem
  <2> QED  BY <1>5, <1>6, <2>1 DEF Credited
<1>8. /\ k.op = "undo" /\ k.stage = "write" /\ k.rows = {r} /\ k.todo = {ChargeOf[r]}
      /\ k.pay[ChargeOf[r]] = n /\ k.touched = {} /\ k.now = {} /\ k.close = {}
      /\ k.book = Idle.book /\ k.fee = Idle.fee /\ k.credit = f
  BY <1>5 DEF Jobs
<1> HIDE DEF k
<1>9. \A p \in Receipts : credit[p] + k.credit[p] <= AllOf(p) /\ (p \in closed => k.credit[p] = 0)
  BY <1>1, <1>3, <1>6, <1>8, OneCredit
<1>10. /\ ~Whole(k) /\ 0 <= k.pay[ChargeOf[r]] /\ k.stage \in {"check", "write"}
       /\ \A q \in Rows : k.book[q] = 0
       /\ \A p \in Receipts : k.fee[p] = 0
  BY <1>3, <1>8, IdleFields DEF Whole
<1>11. JobSound(k)
  BY <1>1, <1>2, <1>8, <1>9, <1>10, OneRowSound
<1> QED  BY <1>7, <1>11, BeginSound

(* settle_up.                                                              *)
LEMMA SettleSound ==
  ASSUME TypeInv, NEW w \in Workers, Sound(w), NEW r \in Rows, SettleUp(w, r)
  PROVE  Sound(w)'
<1>1. PICK n \in Nat : n = -CurrentReceiptAmount(ReceiptOf[r])
  <2>1. CurrentReceiptAmount(ReceiptOf[r]) \in Int
    BY UpdatedType, AmountsType DEF TypeInv
  <2>2. -CurrentReceiptAmount(ReceiptOf[r]) > 0
    BY DEF SettleUp
  <2> QED  BY <2>1, <2>2
<1>2. Begin(w, OneRow("settle", r, n))
  BY <1>1 DEF SettleUp
<1>3. LedgerSound /\ job[w].stage = "idle"
  BY <1>2 DEF Sound, Begin
<1>4. Undisturbed => \A c \in Charges : Total(refunded, RowsOf(c)) = stripe[c]
  BY <1>3, IdleTold
<1>5. PICK k : /\ k = OneRow("settle", r, n)
               /\ k.op = "settle" /\ k.stage = "check" /\ k.rows = {r}
               /\ k.todo = {ChargeOf[r]} /\ k.pay[ChargeOf[r]] = n
               /\ k.touched = {} /\ k.now = {} /\ k.close = {} /\ k.book = Idle.book
               /\ k.fee = Idle.fee /\ k.credit = Idle.credit
  BY OneRowFields
<1>6. \A p \in Receipts : credit[p] + k.credit[p] <= AllOf(p) /\ (p \in closed => k.credit[p] = 0)
  <2>1. \A p \in Receipts : credit[p] \in Int /\ k.credit[p] = 0 /\ credit[p] <= AllOf(p)
    BY <1>3, <1>5, IdleFields DEF TypeInv, TypeOK, LedgerSound
  <2> QED  BY <2>1
<1>7. /\ ~Whole(k) /\ 0 <= k.pay[ChargeOf[r]] /\ k.stage \in {"check", "write"}
      /\ \A q \in Rows : k.book[q] = 0
      /\ \A p \in Receipts : k.fee[p] = 0
  BY <1>5, IdleFields DEF Whole
<1>8. JobSound(k)
  BY <1>3, <1>4, <1>5, <1>6, <1>7, OneRowSound
<1> QED  BY <1>2, <1>5, <1>8, BeginSound

(* comp_receipt_item, undo_receipt_item.                                   *)
LEMMA CompSound ==
  ASSUME TypeInv, TypeOK', NEW w \in Workers, Sound(w), NEW p \in Receipts, NEW n \in Credits,
         CompReceiptItem(w, p, n)
  PROVE  Sound(w)'
<1>1. /\ job[w].stage = "idle" /\ LedgerSound /\ p \notin closed /\ credit[p] + n <= AllOf(p)
      /\ credit' = [credit EXCEPT ![p] = @ + n]
      /\ UNCHANGED refunded /\ UNCHANGED booked /\ UNCHANGED fee /\ UNCHANGED closed
      /\ UNCHANGED stripe /\ UNCHANGED job /\ (Undisturbed' => Undisturbed)
  BY DEF CompReceiptItem, Uncredited, AllOf, Sound, Undisturbed
<1>2. job[w] = Idle /\ (Undisturbed => \A c \in Charges : Total(refunded, RowsOf(c)) = stripe[c])
  BY <1>1, IdleTold
<1>3. \A q \in Receipts : /\ credit'[q] <= AllOf(q) /\ fee'[q] = 0
                          /\ q \in closed => credit'[q] = credit[q]
  BY <1>1 DEF LedgerSound, TypeInv, TypeOK
<1>4. LedgerSound'
  <2>1. RowsSound' /\ TrackedIsReal'
    BY <1>1 DEF LedgerSound, RowsSound, TrackedIsReal
  <2>2. closed \subseteq Receipts
    BY DEF TypeInv, TypeOK
  <2>3. Undisturbed => /\ \A r \in Rows : booked'[r] = refunded'[r]
                       /\ \A q \in closed' : credit'[q] = AllOf(q)
                       /\ \A r \in Rows : ReceiptOf[r] \in closed' => refunded'[r] = Amount[r]
    BY <1>1, <1>3, <2>2 DEF LedgerSound
  <2> QED  BY <1>1, <1>3, <2>1, <2>3 DEF LedgerSound
<1>5. JobSound(Idle)'
  BY <1>1, <1>2, <1>4, IdleSound
<1>6. job' = [job EXCEPT ![w] = Idle]
  BY <1>1, <1>2 DEF TypeInv, TypeOK
<1> QED  BY <1>4, <1>5, <1>6, SoundAgain

(* refresh_receipt_txn takes over what Stripe refunded beyond the rows.    *)
LEMMA RefreshSound ==
  ASSUME TypeInv, NEW w \in Workers, Sound(w), NEW r \in Rows, RefreshReceiptTxn(w, r)
  PROVE  Sound(w)'
<1>1. LedgerSound /\ job[w].stage = "idle"
  BY DEF Sound, RefreshReceiptTxn, Begin
<1>2. Undisturbed => \A c \in Charges : Total(refunded, RowsOf(c)) = stripe[c]
  BY <1>1, IdleTold
<1>3. PICK u \in Int :
        /\ u = UpdatedRefund(r) /\ refunded[r] <= u /\ u <= Amount[r]
        /\ u <= refunded[r] + (stripe[ChargeOf[r]] - Total(refunded, RowsOf(ChargeOf[r])))
  BY <1>1, UpdatedSound DEF LedgerSound, TypeInv
<1>4. refunded \in [Rows -> Int] /\ stripe \in [Charges -> Int] /\ ChargeOf[r] \in Charges
  BY AmountsType DEF TypeInv, TypeOK
<1>5. PICK b \in Int : b = (IF refunded[r] < u THEN u - refunded[r] ELSE 0) /\ 0 <= b
                       /\ refunded[r] + b = u
  BY <1>3, <1>4
<1>6. PICK i \in Jobs : i = Idle
  BY IdleType
<1>7. PICK f \in [Rows -> Int], g \in [Rows -> Int] :
        f = [i.next EXCEPT ![r] = u] /\ g = [i.book EXCEPT ![r] = b]
  <2>1. i.next \in [Rows -> Int] /\ i.book \in [Rows -> Int]
    BY DEF Jobs
  <2> QED  BY <2>1
<1>8. f[r] = u /\ \A q \in Rows : g[q] = IF q = r THEN b ELSE 0
  <2>1. i.next \in [Rows -> Int] /\ i.book \in [Rows -> Int] /\ \A q \in Rows : i.book[q] = 0
    BY <1>6, IdleFields DEF Jobs
  <2> QED  BY <1>7, <2>1
<1> DEFINE k == [i EXCEPT !.op = "refresh", !.stage = "commit", !.touched = {r},
                          !.next = f, !.book = g]
<1>9. Begin(w, k)
  BY <1>3, <1>5, <1>6, <1>7 DEF RefreshReceiptTxn
<1>10. /\ k.op = "refresh" /\ k.stage = "commit" /\ k.touched = {r} /\ k.next = f /\ k.book = g
       /\ k.todo = {} /\ k.now = {} /\ k.close = {} /\ k.credit = Idle.credit
       /\ k.fee = Idle.fee
  BY <1>6, IdleFields DEF Jobs
<1> HIDE DEF k
<1> DEFINE W == WrittenRefunds(k)
<1>11. \A q \in Rows : W[q] = (IF q = r THEN u ELSE refunded[q]) /\ W[q] \in Int
  BY <1>4, <1>8, <1>10 DEF WrittenRefunds
<1> HIDE DEF W
<1>12. ASSUME NEW c \in Charges
       PROVE  /\ Total(W, RowsOf(c)) <= stripe[c]
              /\ Undisturbed => Total(W, RowsOf(c)) = stripe[c]
  <2>1. PICK S \in SUBSET Rows : S = RowsOf(c)
    BY AmountsType
  <2>2. Total(refunded, S) \in Int /\ Total(refunded, S) <= stripe[c]
    BY <1>1, <1>4, <2>1, TotalType DEF LedgerSound, TrackedIsReal
  <2>3. CASE c = ChargeOf[r]
    <3>1. r \in S
      BY <2>1, <2>3 DEF RowsOf
    <3>2. Total(W, S) = Total(refunded, S) - refunded[r] + W[r]
      BY <1>4, <1>11, <3>1, RowsFinite, SumChanged DEF Total
    <3>3. W[r] = u /\ refunded[r] \in Int /\ stripe[c] \in Int
      BY <1>4, <1>11
    <3>4. u <= refunded[r] + (stripe[c] - Total(refunded, S))
      BY <1>3, <2>1, <2>3
    <3>5. Undisturbed => Total(refunded, S) = stripe[c]
      BY <1>2, <2>1
    <3> QED  BY <1>3, <2>1, <2>2, <3>2, <3>3, <3>4, <3>5
  <2>4. CASE c # ChargeOf[r]
    <3>1. \A q \in S : W[q] = refunded[q]
      BY <1>11, <2>1, <2>4 DEF RowsOf
    <3>2. Total(W, S) = Total(refunded, S)
      BY <3>1, TotalSame
    <3> QED  BY <1>2, <2>1, <2>2, <3>2
  <2> QED  BY <2>3, <2>4
<1>13. CountsSound(k)
  <2>1. ASSUME NEW q \in Rows
        PROVE  0 <= k.book[q] /\ refunded[q] + k.book[q] = W[q] /\ W[q] <= Amount[q]
    <3>1. refunded[q] \in Int /\ refunded[q] <= Amount[q]
      BY <1>1, <1>4 DEF LedgerSound, RowsSound
    <3> QED  BY <1>3, <1>5, <1>8, <1>10, <1>11, <3>1
  <2>2. \A q \in Rows : refunded[q] + k.book[q] <= W[q] /\ W[q] \in Int
    BY <1>11, <2>1
  <2> QED  BY <1>12, <2>1, <2>2 DEF CountsSound, W
<1>14. ShapeSound(k) /\ TodoSound(k) /\ PaySound(k)
  BY <1>10 DEF ShapeSound, TodoSound, PaySound, Whole
<1>15. CreditSound(k)
  <2>1. \A p \in Receipts : credit[p] \in Int /\ k.credit[p] = 0 /\ credit[p] <= AllOf(p)
    BY <1>1, <1>10, IdleFields DEF TypeInv, TypeOK, LedgerSound
  <2>2. \A p \in Receipts : credit[p] + k.credit[p] <= AllOf(p)
    BY <2>1
  <2> QED  BY <1>10, <2>1, <2>2, IdleFields DEF CreditSound, Whole
<1>16. CloseSound(k)
  BY <1>10 DEF CloseSound, Whole
<1>17. JobSound(k)
  BY <1>13, <1>14, <1>15, <1>16 DEF JobSound
<1> QED  BY <1>9, <1>17, BeginSound

(* Whatever a handler starts is sound.                                     *)
LEMMA StartSound ==
  ASSUME TypeInv, TypeOK', StripeKeepsNothing, NEW w \in Workers, Sound(w), Start(w)
  PROVE  Sound(w)'
BY FullSound, MultipleSound, CompSound, CompRefundSound, UndoRefundSound, SettleSound, RefreshSound
   DEF Start

-----------------------------------------------------------------------------
(* Crediting before the refund                                             *)

(* The commit of the credit that a refund is for.                          *)
LEMMA WriteCreditSound ==
  ASSUME TypeInv, TypeOK', StripeKeepsNothing, NEW w \in Workers, Sound(w), WriteCredit(w)
  PROVE  Sound(w)'
<1>1. PICK j \in Jobs : j = job[w] /\ JobSound(j) /\ j.stage = "write" /\ j.rows # {}
                        /\ LedgerSound
  BY DEF WriteCredit, TypeInv, TypeOK, Sound, WritersHaveRows
<1>2. PICK r \in Rows : r = (CHOOSE q \in j.rows : TRUE) /\ r \in j.rows
  BY <1>1 DEF Jobs
<1>3. ~Whole(j) /\ j.close = {} /\ \A q \in Rows : j.book[q] = 0
  BY <1>1 DEF JobSound, ShapeSound, CreditSound, Whole
<1>4. /\ refunded' = WrittenRefunds(j) /\ credit' = [p \in Receipts |-> credit[p] + j.credit[p]]
      /\ UNCHANGED booked /\ UNCHANGED fee /\ UNCHANGED closed /\ UNCHANGED stripe
      /\ UNCHANGED crashes /\ UNCHANGED outside
  BY <1>1 DEF WriteCredit
<1>5. Write(j, Receipts, {})
  <2>1. booked' = [q \in Rows |-> booked[q] + j.book[q]]
    <3>1. booked \in [Rows -> Int]
      BY DEF TypeInv, TypeOK
    <3>2. \A q \in Rows : booked[q] + j.book[q] = booked[q]
      BY <1>3, <3>1
    <3> QED  BY <1>4, <3>1, <3>2
  <2>2. credit' = Added(credit, j.credit, Receipts)
    BY <1>4 DEF Added, TypeInv, TypeOK
  <2>3. fee' = Added(fee, j.fee, Receipts)
    <3>1. fee \in [Receipts -> Int] /\ \A p \in Receipts : j.fee[p] = 0
      BY <1>1 DEF TypeInv, TypeOK, JobSound, CreditSound
    <3>2. \A p \in Receipts : fee[p] + j.fee[p] = fee[p]
      BY <3>1
    <3> QED  BY <1>4, <3>1, <3>2 DEF Added
  <2> QED  BY <1>4, <2>1, <2>2, <2>3 DEF Write
<1>6. /\ LedgerSound'
      /\ Undisturbed' => \A c \in Charges : Total(refunded', RowsOf(c)) = stripe'[c]
  <2>1. PICK note \in SUBSET Receipts : note = Receipts
    OBVIOUS
  <2>2. PICK close \in SUBSET note : close = {}
    OBVIOUS
  <2>3. Write(j, note, close)
    BY <1>5, <2>1, <2>2
  <2>4. /\ Whole(j) => note \subseteq j.note \cup TouchedBy(j)
        /\ ~Whole(j) => close = {}
        /\ Undisturbed =>
             \A q \in Rows : ReceiptOf[q] \in close => WrittenRefunds(j)[q] = Amount[q]
    BY <1>3, <2>2
  <2> QED  BY <1>1, <2>3, <2>4, WriteSound
<1>7. PICK none \in [Receipts -> Int] : none = NoneOf(Receipts) /\ \A p \in Receipts : none[p] = 0
  <2>1. NoneOf(Receipts) \in [Receipts -> Int] /\ \A p \in Receipts : NoneOf(Receipts)[p] = 0
    BY DEF NoneOf
  <2> QED  BY <2>1
<1>8. ASSUME NEW k, k.op = j.op, k.todo = j.todo, k.rows = j.rows, k.now = j.now,
             k.touched = j.touched, k.next = j.next, k.book = j.book, k.close = j.close,
             k.failed = j.failed, k.credit = none, k.stage \in {"check", "pay"},
             \A p \in Receipts : k.fee[p] = 0,
             \A c \in j.todo : 0 <= k.pay[c],
             j.now # {} => k.stage = "pay" /\ k.pay = j.pay
      PROVE  JobSound(k)'
  <2>1. WrittenRefunds(k)' = refunded' /\ ~Whole(k)
    BY <1>3, <1>4, <1>8 DEF WrittenRefunds, Whole
  <2>2. CountsSound(k)'
    <3>1. ASSUME NEW q \in Rows
          PROVE  /\ 0 <= k.book[q] /\ refunded'[q] + k.book[q] = refunded'[q]
                 /\ refunded'[q] <= Amount[q] /\ refunded'[q] \in Int
      BY <1>3, <1>6, <1>8 DEF LedgerSound, RowsSound, TypeOK
    <3>2. \A c \in Charges : Total(refunded', RowsOf(c)) <= stripe'[c]
      BY <1>6 DEF LedgerSound, TrackedIsReal
    <3> QED  BY <1>6, <2>1, <3>1, <3>2 DEF CountsSound
  <2>3. ShapeSound(k)'
    BY <1>1, <1>3, <1>8 DEF JobSound, ShapeSound, Whole
  <2>4. TodoSound(k)'
    BY <1>1, <1>3, <1>8, <2>1 DEF JobSound, TodoSound
  <2>5. PaySound(k)'
    <3>1. LeftThen(k)' = LeftThen(j)
      BY <1>4, <2>1 DEF LeftThen
    <3> QED  BY <1>1, <1>3, <1>8, <2>1, <3>1 DEF JobSound, PaySound
  <2>6. CreditSound(k)'
    <3>1. ASSUME NEW p \in Receipts  PROVE credit'[p] + k.credit[p] <= AllOf(p) /\ k.credit[p] = 0
      BY <1>6, <1>7, <1>8 DEF LedgerSound, TypeOK
    <3> QED  BY <1>3, <1>8, <2>1, <3>1 DEF CreditSound
  <2>7. CloseSound(k)'
    BY <2>1 DEF CloseSound
  <2> QED  BY <2>2, <2>3, <2>4, <2>5, <2>6, <2>7 DEF JobSound
<1> DEFINE written == [j EXCEPT !.credit = none]
<1>9. /\ written \in Jobs /\ written.op = j.op /\ written.todo = j.todo /\ written.rows = j.rows
      /\ written.now = j.now /\ written.touched = j.touched /\ written.next = j.next
      /\ written.book = j.book /\ written.close = j.close /\ written.failed = j.failed
      /\ written.credit = none /\ written.pay = j.pay /\ written.fee = j.fee
  BY DEF Jobs
<1>10. \A p \in Receipts : j.fee[p] = 0
  BY <1>1 DEF JobSound, CreditSound
<1>11. \A c \in j.todo : 0 <= j.pay[c]
  BY <1>1, <1>3 DEF JobSound, TodoSound
<1>12. CASE j.op = "comp"
  <2> DEFINE k == [written EXCEPT !.stage = "pay"]
  <2>1. job' = [job EXCEPT ![w] = k]
    BY <1>1, <1>7, <1>12 DEF WriteCredit
  <2> HIDE DEF written
  <2>2. /\ k.stage = "pay" /\ k.op = j.op /\ k.todo = j.todo /\ k.rows = j.rows
        /\ k.now = j.now /\ k.touched = j.touched /\ k.next = j.next
        /\ k.book = j.book /\ k.close = j.close /\ k.failed = j.failed
        /\ k.credit = none /\ k.pay = j.pay /\ k.fee = j.fee
    BY <1>9 DEF Jobs
  <2> HIDE DEF k
  <2>3. JobSound(k)'
    BY <1>8, <1>10, <1>11, <2>2
  <2> QED  BY <1>6, <2>1, <2>3, SoundAgain
<1>13. CASE j.op # "comp"
  <2>1. PICK n \in Int : n = Least(j.pay[ChargeOf[r]], Left(r))
    BY AmountsType, UpdatedType DEF Jobs, Least, TypeInv
  <2>2. n - (IF j.exclude THEN FeeShare(r, n) ELSE 0) = n
        /\ (IF j.exclude THEN FeeShare(r, n) ELSE 0) = 0
    BY <2>1, NoShare
  <2> DEFINE k == [written EXCEPT !.stage = "check", !.pay[ChargeOf[r]] = n,
                                  !.fee[ReceiptOf[r]] = 0, !.note = {ReceiptOf[r]}]
  <2>3. job' = [job EXCEPT ![w] = IF Left(r) = 0 THEN Idle ELSE k]
    BY <1>1, <1>2, <1>7, <1>13, <2>1, <2>2 DEF WriteCredit
  <2>4. CASE Left(r) = 0
    BY <1>6, <2>3, <2>4, IdleSound, SoundAgain
  <2>5. CASE Left(r) # 0
    <3>1. PICK pay, fees : /\ pay = [j.pay EXCEPT ![ChargeOf[r]] = n]
                           /\ fees = [j.fee EXCEPT ![ReceiptOf[r]] = 0]
      OBVIOUS
    <3>2. k = [written EXCEPT !.stage = "check", !.pay = pay, !.fee = fees,
                              !.note = {ReceiptOf[r]}]
      BY <1>9, <3>1
    <3> HIDE DEF written, k
    <3>3. /\ k.stage = "check" /\ k.op = j.op /\ k.todo = j.todo /\ k.rows = j.rows
          /\ k.now = j.now /\ k.touched = j.touched /\ k.next = j.next
          /\ k.book = j.book /\ k.close = j.close /\ k.failed = j.failed
          /\ k.credit = none /\ k.pay = pay /\ k.fee = fees
      BY <1>9, <3>2 DEF Jobs
    <3>4. j.now = {}
      BY <1>1, <1>3, <1>13 DEF JobSound, ShapeSound, Whole
    <3>5. \A p \in Receipts : k.fee[p] = 0
      <4>1. j.fee \in [Receipts -> Int]
        BY DEF Jobs
      <4> QED  BY <1>10, <3>1, <3>3, <4>1
    <3>6. \A c \in j.todo : 0 <= k.pay[c]
      <4>1. j.pay \in [Charges -> Int] /\ j.todo \in SUBSET Charges
        BY DEF Jobs
      <4>2. refunded[r] <= Amount[r] /\ refunded[r] \in Int /\ Amount[r] \in Int
        BY <1>1, AmountsType DEF LedgerSound, RowsSound, TypeInv, TypeOK
      <4>3. \A c \in j.todo : c = ChargeOf[r] => 0 <= n
        BY <1>11, <2>1, <4>1, <4>2 DEF Least, Left
      <4> QED  BY <1>11, <3>1, <3>3, <4>1, <4>3
    <3>7. JobSound(k)'
      BY <1>8, <3>3, <3>4, <3>5, <3>6
    <3> QED  BY <1>6, <2>3, <2>5, <3>7, SoundAgain
  <2> QED  BY <2>4, <2>5
<1> QED  BY <1>12, <1>13

-----------------------------------------------------------------------------
(***************************************************************************)
(* What one handler leaves                                                 *)
(***************************************************************************)

(* At first nothing is refunded.                                           *)
LEMMA SoundInit ==
  ASSUME NEW w \in Workers, Init
  PROVE  Sound(w)
<1>1. /\ refunded = NoneOf(Rows) /\ booked = NoneOf(Rows) /\ credit = NoneOf(Receipts)
      /\ fee = NoneOf(Receipts) /\ closed = {} /\ stripe = NoneOf(Charges) /\ job[w] = Idle
  BY DEF Init
<1>2. TypeOK
  BY TypeInit DEF TypeInv
<1>3. ASSUME NEW c \in Charges  PROVE Total(refunded, RowsOf(c)) = 0 /\ stripe[c] = 0
  <2>1. \A r \in RowsOf(c) : refunded[r] = 0
    BY <1>1 DEF NoneOf, RowsOf
  <2>2. Total(refunded, RowsOf(c)) = 0
    BY <2>1, AmountsType, RowsFinite, SumZero DEF Total
  <2> QED  BY <1>1, <2>2 DEF NoneOf
<1>4. \A r \in Rows : booked[r] = 0 /\ refunded[r] = 0 /\ Amount[r] \in Nat
  BY <1>1, AmountsType DEF NoneOf
<1>5. \A p \in Receipts : credit[p] = 0 /\ fee[p] = 0 /\ AllOf(p) \in Nat
  BY <1>1, AmountsType DEF NoneOf, AllOf
<1>6. RowsSound /\ TrackedIsReal
  BY <1>3, <1>4 DEF RowsSound, TrackedIsReal
<1>7. \A p \in Receipts : credit[p] <= AllOf(p) /\ fee[p] = 0
  BY <1>5
<1>8. LedgerSound
  BY <1>1, <1>4, <1>6, <1>7 DEF LedgerSound
<1>9. WrittenRefunds(Idle) = refunded /\ CountsSound(Idle)
  BY <1>2, <1>3, <1>8, IdleFields, FreshCounts
<1>10. ShapeSound(Idle) /\ TodoSound(Idle) /\ PaySound(Idle) /\ CloseSound(Idle)
  BY IdleFields DEF ShapeSound, TodoSound, PaySound, CloseSound, Whole
<1>11. CreditSound(Idle)
  <2>1. \A p \in Receipts : credit[p] + Idle.credit[p] <= AllOf(p)
    BY <1>5, IdleFields
  <2> QED  BY <2>1, IdleFields DEF CreditSound, Whole
<1>12. JobSound(Idle)
  BY <1>9, <1>10, <1>11 DEF JobSound
<1> QED  BY <1>1, <1>8, <1>12 DEF Sound

(* Every step of the only handler keeps the ledger and its session sound.  *)
LEMMA SoundStep ==
  ASSUME NEW w \in Workers, Workers = {w}, StripeKeepsNothing
  PROVE  TypeInv /\ TypeInv' /\ Sound(w) /\ [Next]_vars => Sound(w)'
<1> SUFFICES ASSUME TypeInv, TypeInv', Sound(w), [Next]_vars  PROVE Sound(w)'
  OBVIOUS
<1>1. TypeOK'
  BY DEF TypeInv
<1>2. CASE UNCHANGED vars
  <2>1. PICK j \in Jobs : j = job[w] /\ JobSound(j)
    BY DEF Sound, TypeInv, TypeOK
  <2>2. UNCHANGED job /\ UNCHANGED <<ledger, stripe>> /\ (Undisturbed' => Undisturbed)
    BY <1>2 DEF vars, Undisturbed
  <2>3. LedgerSound' /\ JobSound(j)'
    BY <2>1, <2>2, LedgerKept, JobKept DEF Sound
  <2>4. job' = [job EXCEPT ![w] = j]
    BY <2>1, <2>2 DEF TypeInv, TypeOK
  <2> QED  BY <2>3, <2>4, SoundAgain
<1>3. ASSUME Start(w)  PROVE Sound(w)'
  BY <1>1, <1>3, StartSound
<1>4. ASSUME Continue(w)  PROVE Sound(w)'
  BY <1>1, <1>4, ValidateSound, WriteCreditSound, StripeSound, ErrorSound, CommitSound,
     CommitCancelledSound DEF Continue
<1>5. ASSUME Crash(w)  PROVE Sound(w)'
  BY <1>1, <1>5, CrashSound
<1>6. ASSUME NEW c \in Charges, NEW n \in Credits, OutsideRefund(c, n)  PROVE Sound(w)'
  BY <1>6, OutsideSound
<1> QED  BY <1>2, <1>3, <1>4, <1>5, <1>6 DEF Next

(* With one handler at a time, the ledger is always sound.                 *)
LEMMA AlwaysSound ==
  ASSUME NEW w \in Workers, Workers = {w}, StripeKeepsNothing
  PROVE  Spec => [](TypeInv /\ Sound(w))
<1>1. Init => TypeInv /\ Sound(w)
  BY TypeInit, SoundInit
<1>2. TypeInv /\ Sound(w) /\ [Next]_vars => (TypeInv /\ Sound(w))'
  BY TypeStep, SoundStep
<1> QED  BY <1>1, <1>2, PTL DEF Spec

(* No refund stands on a receipt that the payment's own `refunded` does    *)
(* not count, although one is taken from Stripe (update_amount_refunded)   *)
(* and the other added up (process_txn_refund), whatever handlers were     *)
(* killed and whatever was refunded at Stripe's own pages.                 *)
THEOREM RefundsOnReceiptsAreCounted ==
  ASSUME NEW w \in Workers, Workers = {w}, StripeKeepsNothing
  PROVE  Spec => []BookedIsTracked
<1>1. TypeInv /\ Sound(w) => BookedIsTracked
  BY DEF Sound, LedgerSound, RowsSound, BookedIsTracked
<1> QED  BY <1>1, AlwaysSound, PTL

(* The rows of a charge never count more than Stripe refunded of it, also  *)
(* when another row finds a killed handler's refund.                       *)
THEOREM CountedRefundsAreReal ==
  ASSUME NEW w \in Workers, Workers = {w}, StripeKeepsNothing
  PROVE  Spec => []TrackedIsReal
<1>1. TypeInv /\ Sound(w) => TrackedIsReal
  BY DEF Sound, LedgerSound
<1> QED  BY <1>1, AlwaysSound, PTL

(* While no handler was killed and nobody used Stripe's own pages, all     *)
(* that Stripe refunded is on the receipts whenever no handler runs,       *)
(* whichever refunds were refused.                                         *)
THEOREM OneHandlerBooksRefunds ==
  ASSUME NEW w \in Workers, Workers = {w}, StripeKeepsNothing
  PROVE  Spec => []RefundsAreBooked
<1>1. ASSUME TypeInv, Sound(w)  PROVE RefundsAreBooked
  <2> SUFFICES ASSUME Undisturbed, job[w].stage = "idle", NEW c \in Charges
               PROVE  Total(booked, RowsOf(c)) = stripe[c]
    BY DEF RefundsAreBooked
  <2>1. Total(refunded, RowsOf(c)) = stripe[c]
    BY <1>1, IdleTold
  <2>2. RowsOf(c) \in SUBSET Rows /\ \A r \in RowsOf(c) : booked[r] = refunded[r]
    BY <1>1 DEF RowsOf, Sound, LedgerSound
  <2>3. Total(booked, RowsOf(c)) = Total(refunded, RowsOf(c))
    BY <2>2, TotalSame
  <2> QED  BY <2>1, <2>3
<1>2. TypeInv /\ Sound(w) => RefundsAreBooked
  BY <1>1
<1> QED  BY <1>2, AlwaysSound, PTL

(* A receipt that was closed by a cancellation is settled: what was        *)
(* credited on it was refunded, after whatever credits, refunds and        *)
(* refused attempts came before (cancel_and_refund, process_full_refund).  *)
THEOREM OneHandlerSettlesCancelled ==
  ASSUME NEW w \in Workers, Workers = {w}, StripeKeepsNothing
  PROVE  Spec => []ClosedIsSettled
<1>1. ASSUME TypeInv, Sound(w)  PROVE ClosedIsSettled
  <2> SUFFICES ASSUME Undisturbed, NEW p \in closed  PROVE CurrentReceiptAmount(p) = 0
    BY DEF ClosedIsSettled
  <2>1. p \in Receipts /\ credit[p] \in Int
    BY <1>1 DEF TypeInv, TypeOK
  <2>2. PICK S \in SUBSET Rows : S = RowsOn(p)
    BY <2>1, AmountsType
  <2>3. credit[p] = Total(Amount, S) /\ fee[p] = 0
    BY <1>1, <2>1, <2>2 DEF Sound, LedgerSound, AllOf
  <2>4. \A r \in S : booked[r] = Amount[r]
    BY <1>1, <2>2 DEF RowsOn, Sound, LedgerSound
  <2>5. Total(booked, S) = Total(Amount, S) /\ Total(Amount, S) \in Int
    BY <2>1, <2>2, <2>4, TotalSame, AmountsType
  <2>6. ItemTotal(p) = 0 /\ TxnTotal(p) = 0
    BY <2>2, <2>3, <2>5 DEF ItemTotal, TxnTotal
  <2> QED  BY <2>6 DEF CurrentReceiptAmount
<1>2. TypeInv /\ Sound(w) => ClosedIsSettled
  BY <1>1
<1> QED  BY <1>2, AlwaysSound, PTL

=============================================================================
