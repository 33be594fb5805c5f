------------------------------- MODULE ArtSales -------------------------------
(***************************************************************************)
(* The sales of the art show.  Pieces are closed out with their winning    *)
(* bids, claimed by their buyers, paid for, and booked when the receipt of *)
(* the buyer is closed; a closed receipt can be reopened.  Meanwhile       *)
(* artists check in and out with a form that shows the statuses of their   *)
(* pieces as they were when it was opened, and writes them all back.       *)
(* Handlers do not overlap, except around the two commits of closing.      *)
(***************************************************************************)
EXTENDS Integers, Sequences, FiniteSets, Functions

CONSTANTS
  Pieces,
  Hung,          \* the pieces of the artist who checks in and out
  QuickPrice,    \* QuickPrice[p]: 0 if p has no valid quick sale
  Bids,          \* bound: the winning bids
  Shoppers,      \* the attendees with a bidder number
  ArtDesks,      \* bound: receipts being closed at once
  MaxInvoices,   \* bound: receipts
  MaxPayments,   \* bound: payments at a time
  MaxReopened    \* bound: receipts reopened

ASSUME ArtAssumption ==
  /\ IsFiniteSet(Pieces)
  /\ Hung \subseteq Pieces /\ QuickPrice \in [Pieces -> Nat] /\ Bids \subseteq Nat \ {0}
  /\ MaxInvoices \in Nat /\ MaxPayments \in Nat /\ MaxReopened \in Nat

Invoices == 1 .. MaxInvoices
PaymentIds == 1 .. MaxPayments
NoInvoice == 0

VARIABLES
  piece,         \* piece[p]: the ArtShowPiece
  invoice,       \* invoice[r]: the ArtShowReceipt, with its rows on the buyer's receipt
  payment,       \* payment[k]: the ArtShowPayment
  closing,       \* closing[d]: the receipt that desk d is closing
  hangForm,      \* the statuses in the open form of the artist, or none
  unbooked,      \* history: receipts whose closing was killed between its commits
  misled,        \* history: a receipt changed while it was being closed, or an old form
                 \* marked a piece as paid or as not paid
  reopened

artVars == <<piece, invoice, payment, closing, hangForm, unbooked, misled,
             reopened>>

Statuses == {"expected", "hanging", "hung", "voice", "quick", "sold", "paid", "returned"}

(* `sales` are the ReceiptItems of the invoice, by their amounts, and      *)
(* `cash` the ReceiptTransaction, of no amount if there is none.           *)
Invoice == [of : Shoppers \cup {"nobody"}, closed : BOOLEAN, sales : Seq(Nat), cash : Int]

NoInvoiceYet == [of |-> "nobody", closed |-> FALSE, sales |-> <<>>, cash |-> 0]
NoPayment == [invoice |-> NoInvoice, type |-> "cash", amount |-> 0]
NoForm == <<>>

ArtTypeOK ==
  /\ piece \in [Pieces -> [status : Statuses, bid : Bids \cup {0},
                           invoice : Invoices \cup {NoInvoice}]]
  /\ invoice \in [Invoices -> Invoice]
  /\ payment \in [PaymentIds -> [invoice : Invoices \cup {NoInvoice}, amount : Int,
                                 type : {"cash", "refund", "card"}]]
  /\ closing \in [ArtDesks -> Invoices \cup {NoInvoice}]
  /\ hangForm \in [Hung -> Statuses] \cup {NoForm}

ArtInit ==
  /\ piece = [p \in Pieces |-> [status |-> "expected", bid |-> 0, invoice |-> NoInvoice]]
  /\ invoice = [r \in Invoices |-> NoInvoiceYet]
  /\ payment = [k \in PaymentIds |-> NoPayment]
  /\ closing = [d \in ArtDesks |-> NoInvoice]
  /\ hangForm = NoForm
  /\ unbooked = {} /\ misled = FALSE
  /\ reopened = 0

-----------------------------------------------------------------------------
(* Amounts, in dollars                                                     *)

SalePrice(p) == IF piece[p].bid > 0 THEN piece[p].bid ELSE QuickPrice[p]

On(r) == {p \in Pieces : piece[p].invoice = r}
SalePrices == [p \in Pieces |-> SalePrice(p)]
InvoiceTotal(r) == SumFunctionOnSet(SalePrices, On(r))

PaymentsOf(r) == {k \in PaymentIds : payment[k].invoice = r}
Amounts(r, type) ==
  SumFunctionOnSet([k \in PaymentIds |-> payment[k].amount],
                   {k \in PaymentsOf(r) : payment[k].type = type})

Paid(r) == Amounts(r, "cash") + Amounts(r, "card") - Amounts(r, "refund")
OwedOn(r) == IF InvoiceTotal(r) > Paid(r) THEN InvoiceTotal(r) - Paid(r) ELSE 0
CashTotal(r) == Amounts(r, "cash") - Amounts(r, "refund")

-----------------------------------------------------------------------------
(* Receipts                                                                *)

IsMade(r) == invoice[r].of # "nobody"
IsOpen(r) == IsMade(r) /\ ~invoice[r].closed

(* Attendee.art_show_receipt: any of the open ones.                        *)
OpenOf(b) == {r \in Invoices : IsOpen(r) /\ invoice[r].of = b}

(* The next free row: they are numbered in order.                          *)
NextInvoice == {r \in Invoices : ~IsMade(r) /\ \A q \in Invoices : q < r => IsMade(q)}

ReceiptFor(b) == IF OpenOf(b) # {} THEN OpenOf(b) ELSE NextInvoice

Made(r, b) == IF IsMade(r) THEN invoice
              ELSE [invoice EXCEPT ![r] = [NoInvoiceYet EXCEPT !.of = b]]

-----------------------------------------------------------------------------
(* Closing out bids, and claiming pieces                                   *)

Settled(p) == piece[p].status \in {"paid", "returned"}

SetWinner(p, b, bid) ==
  /\ ~Settled(p)
  /\ \E r \in ReceiptFor(b) :
       /\ invoice' = Made(r, b)
       /\ piece' = [piece EXCEPT ![p] = [status |-> "sold", bid |-> bid, invoice |-> r]]
  /\ UNCHANGED payment

VoiceAuction(p) ==
  /\ ~Settled(p)
  /\ piece' = [piece EXCEPT ![p].status = "voice"]
  /\ UNCHANGED <<invoice, payment>>

(* The piece stays on the receipt that it may be on.                       *)
NoBids(p) ==
  /\ ~Settled(p)
  /\ piece' = [piece EXCEPT ![p].bid = 0,
                            ![p].status = IF QuickPrice[p] > 0 THEN "quick" ELSE "returned"]
  /\ UNCHANGED <<invoice, payment>>

CloseOut(p) ==
  \/ VoiceAuction(p) \/ NoBids(p)
  \/ \E b \in Shoppers, bid \in Bids : SetWinner(p, b, bid)

(* What can be claimed: what nobody has claimed, and what is on a closed   *)
(* receipt although it was not marked as paid.                             *)
Claimable(p) ==
  /\ SalePrice(p) > 0
  /\ \/ piece[p].invoice = NoInvoice /\ piece[p].status # "returned"
     \/ /\ piece[p].invoice # NoInvoice /\ piece[p].status # "paid"
        /\ invoice[piece[p].invoice].closed

(* The page of the attendee makes a receipt if need be; the page of a      *)
(* receipt may be of one that was closed since.                            *)
PiecesBought(b) ==
  \E r \in ReceiptFor(b) \cup {q \in Invoices : invoice[q].of = b} :
    /\ invoice' = Made(r, b)
    /\ \/ \E p \in Pieces : /\ Claimable(p) /\ piece[p].invoice # r
                            /\ piece' = [piece EXCEPT ![p].invoice = r]
       \/ ~IsMade(r) /\ UNCHANGED piece
    /\ UNCHANGED payment

(* What is owed is compared in cents with the price in dollars.            *)
UnclaimPiece(r, p) ==
  /\ IsOpen(r) /\ piece[p].invoice = r
  /\ PaymentsOf(r) # {} => 100 * OwedOn(r) - SalePrice(p) >= 0
  /\ piece' = [piece EXCEPT ![p].invoice = NoInvoice]
  /\ UNCHANGED <<invoice, payment>>

-----------------------------------------------------------------------------
(* Payments                                                                *)

Pays(r, type, amount) ==
  /\ \E k \in PaymentIds :
       /\ payment[k] = NoPayment
       /\ \A j \in PaymentIds : payment[j] = NoPayment => k <= j
       /\ payment' = [payment EXCEPT ![k] = [invoice |-> r, type |-> type, amount |-> amount]]
  /\ UNCHANGED <<piece, invoice>>

(* All that is owed; all that was paid, or an amount that was entered.     *)
RecordPayment(r) ==
  /\ IsOpen(r)
  /\ \/ OwedOn(r) > 0 /\ Pays(r, "cash", OwedOn(r))
     \/ \E amount \in {1, Paid(r)} \ {0} : Pays(r, "refund", amount)

(* The page offers it for cash and refunds.                                *)
UndoPayment(k) ==
  /\ payment[k].invoice # NoInvoice /\ payment[k].type # "card" /\ IsOpen(payment[k].invoice)
  /\ payment' = [payment EXCEPT ![k] = NoPayment]
  /\ UNCHANGED <<piece, invoice>>

(* purchases_charge in a browser, which may cancel it, or the terminal:    *)
(* recorded for all that is owed, also on a receipt closed meanwhile.      *)
ChargeCard(r) == IsMade(r) /\ OwedOn(r) > 0 /\ Pays(r, "card", OwedOn(r))

CancelCard(k) ==
  /\ payment[k].type = "card"
  /\ payment' = [payment EXCEPT ![k] = NoPayment]
  /\ UNCHANGED <<piece, invoice>>

-----------------------------------------------------------------------------
(* Closing and reopening receipts                                          *)

BeingClosed(r) == \E d \in ArtDesks : closing[d] = r

(* The first commit of print_receipt: the pieces and the cash.  The page   *)
(* asks for it when nothing is owed; the handler does not look again.      *)
CloseReceipt(d, r) ==
  /\ closing[d] = NoInvoice /\ IsOpen(r)
  /\ piece' = [p \in Pieces |-> IF p \in On(r) THEN [piece[p] EXCEPT !.status = "paid"]
                                ELSE piece[p]]
  /\ invoice' = [invoice EXCEPT ![r].closed = TRUE, ![r].cash = CashTotal(r)]
  /\ closing' = [closing EXCEPT ![d] = r]
  /\ UNCHANGED <<payment, hangForm, unbooked, misled, reopened>>

(* The second one: the sale.                                               *)
BookSale(d) ==
  /\ closing[d] # NoInvoice
  /\ LET r == closing[d] IN
       invoice' = [invoice EXCEPT ![r].sales = Append(@, InvoiceTotal(r))]
  /\ closing' = [closing EXCEPT ![d] = NoInvoice]
  /\ UNCHANGED <<piece, payment, hangForm, unbooked, misled, reopened>>

(* The process is killed between the two.                                  *)
KillClosing(d) ==
  /\ closing[d] # NoInvoice
  /\ unbooked' = unbooked \cup {closing[d]}
  /\ closing' = [closing EXCEPT ![d] = NoInvoice]
  /\ UNCHANGED <<piece, invoice, payment, hangForm, misled, reopened>>

(* What a piece is set to: one that has no price stays as it is.           *)
Unsold(p) ==
  IF piece[p].bid > 0 THEN "sold" ELSE IF QuickPrice[p] > 0 THEN "quick" ELSE piece[p].status

(* Faulty: the sale stays on the buyer's receipt.                          *)
WithoutCash(i) == [i EXCEPT !.closed = FALSE, !.cash = 0]

(* The rows of the invoice on the buyer's receipt are deleted, the first   *)
(* item if there were several.                                             *)
WithoutRows(i) ==
  [i EXCEPT !.closed = FALSE, !.cash = 0, !.sales = IF @ = <<>> THEN @ ELSE Tail(@)]

ReopenReceipt(r) ==
  /\ IsMade(r) /\ reopened < MaxReopened
  /\ piece' = [p \in Pieces |-> IF p \in On(r) THEN [piece[p] EXCEPT !.status = Unsold(p)]
                                ELSE piece[p]]
  /\ invoice' = [invoice EXCEPT ![r] = WithoutRows(@)]
  /\ misled' = (misled \/ BeingClosed(r))
  /\ unbooked' = unbooked \ {r}
  /\ reopened' = reopened + 1
  /\ UNCHANGED <<payment, closing, hangForm>>

-----------------------------------------------------------------------------
(* Artists check in and out                                                *)

OpenForm ==
  /\ hangForm = NoForm
  /\ hangForm' = [p \in Hung |-> piece[p].status]
  /\ UNCHANGED <<piece, invoice, payment, closing, unbooked, misled,
                 reopened>>

(* Faulty: a piece that was paid for since the form was opened goes back   *)
(* to the artist.                                                          *)
CheckedOutUnseen(p) == "returned"

(* A piece that hung in the form: unless it was paid for meanwhile.        *)
CheckedOut(p) == IF piece[p].status = "paid" THEN "paid" ELSE "returned"

(* save_and_check_in_out with the statuses of the form.                    *)
Written(kind, p) ==
  CASE kind = "hanging" /\ hangForm[p] = "expected" -> "hanging"
    [] kind = "check_in" /\ hangForm[p] \in {"expected", "hanging"} -> "hung"
    [] kind = "check_out" /\ hangForm[p] = "hung" -> CheckedOut(p)
    [] OTHER -> hangForm[p]

(* A form is old where it shows another status than the piece has; the     *)
(* check-out of a piece that hangs is meant to cope with that.             *)
Misleads(kind, p) ==
  /\ (piece[p].status = "paid") # (Written(kind, p) = "paid")
  /\ ~(kind = "check_out" /\ hangForm[p] = "hung")

SaveAndCheckInOut(kind) ==
  /\ hangForm # NoForm
  /\ piece' = [p \in Pieces |-> IF p \in Hung
                                THEN [piece[p] EXCEPT !.status = Written(kind, p)]
                                ELSE piece[p]]
  /\ hangForm' = NoForm
  /\ misled' = (misled \/ \E p \in Hung : Misleads(kind, p))
  /\ UNCHANGED <<invoice, payment, closing, unbooked, reopened>>

-----------------------------------------------------------------------------
Sell ==
  /\ \/ \E p \in Pieces : CloseOut(p)
     \/ \E b \in Shoppers : PiecesBought(b)
     \/ \E r \in Invoices, p \in Pieces : UnclaimPiece(r, p)
     \/ \E r \in Invoices : RecordPayment(r) \/ ChargeCard(r)
     \/ \E k \in PaymentIds : UndoPayment(k) \/ CancelCard(k)
  /\ UNCHANGED <<closing, hangForm, unbooked, reopened>>
  /\ misled' = (misled \/ \E r \in Invoices : BeingClosed(r) /\ On(r)' # On(r))

(* Bound: nothing is said of what follows, so it is left out.              *)
ArtNext ==
  /\ ~misled
  /\ \/ Sell
     \/ \E d \in ArtDesks, r \in Invoices : CloseReceipt(d, r)
     \/ \E d \in ArtDesks : BookSale(d) \/ KillClosing(d)
     \/ \E r \in Invoices : ReopenReceipt(r)
     \/ OpenForm
     \/ \E kind \in {"save", "hanging", "check_in", "check_out"} : SaveAndCheckInOut(kind)

ArtSpec == ArtInit /\ [][ArtNext]_artVars

-----------------------------------------------------------------------------
(* Properties                                                              *)

(* The pieces of a receipt that count as paid and have a price.            *)
PaidOn(r) == {p \in On(r) : piece[p].status = "paid" /\ SalePrice(p) > 0}

(* However often receipts are closed, reopened and closed again, and       *)
(* pieces claimed, moved and given back meanwhile: a piece is marked as    *)
(* paid if and only if its price is in the sale booked for its buyer, the  *)
(* sale is booked once, and the cash with it.  Left out are receipts whose *)
(* closing was killed, until they are reopened, what follows a receipt     *)
(* reopened while it was being closed, and old forms that have marked a    *)
(* piece as paid or not paid (print_receipt, reopen_receipt, close_out,    *)
(* save_and_check_in_out).                                                 *)
SalesAreBooked ==
  ~misled =>
    /\ \A r \in Invoices \ unbooked :
         IF invoice[r].closed
         THEN ~BeingClosed(r) => /\ invoice[r].sales = <<SumFunctionOnSet(SalePrices, PaidOn(r))>>
                                 /\ invoice[r].cash = CashTotal(r)
         ELSE invoice[r].sales = <<>> /\ invoice[r].cash = 0 /\ PaidOn(r) = {}
    /\ \A p \in Pieces :
         piece[p].status = "paid" /\ SalePrice(p) > 0 => piece[p].invoice # NoInvoice
===============================================================================
