----------------------------- MODULE TerminalSale -----------------------------
(***************************************************************************)
(* The sales of one card terminal to the members of a badge pickup group.  *)
(* A task builds a sale, sends it to the terminal and works on the answer; *)
(* the browser polls a hash in Redis that belongs to the terminal and not  *)
(* to a sale.  When no answer comes, staff can ask the terminal what       *)
(* became of the last sale.  With Authorize.net for the online payments.   *)
(***************************************************************************)
EXTENDS Integers, FiniteSets, Functions

CONSTANTS
  SaleIds,        \* the sales, each with its tracker and intent
  NoSale,
  Buyers,         \* the members of the group, with a receipt each
  Costs,          \* Costs[b]: what the items on the receipt of b add up to
  MaxSaleKills    \* bound: processes killed

ASSUME TerminalAssumption ==
  /\ NoSale \notin SaleIds
  /\ IsFiniteSet(SaleIds) /\ IsFiniteSet(Buyers)
  /\ Costs \in [Buyers -> Nat \ {0}]
  /\ MaxSaleKills \in Nat

VARIABLES
  stage,       \* stage[s]: how far the task or check of sale s is
  asked,       \* asked[s][b]: what sale s asks of b
  superseded,  \* superseded[s]: rows that the session of s cancels when it commits
  rows,        \* rows[s][b]: the transaction of sale s on the receipt of b, if amount > 0
  hash,        \* the hash of the terminal in Redis
  terminal,    \* terminal[s]: what the terminal did with sale s
  captured,    \* history: captured[s]: what the card was charged for s, and not voided
  salesOverlap,\* history: a sale was started while another one was worked on
  saleKills

terminalVars == <<stage, asked, superseded, rows, hash, terminal, captured, salesOverlap,
                  saleKills>>

SumOver(f) == SumFunctionOnSet(f, Buyers)
All == SumOver(Costs)
Nothing == [b \in Buyers |-> 0]
NoRow == [amount |-> 0, charged |-> FALSE, cancelled |-> FALSE]
NoHash == [intent |-> NoSale, error |-> FALSE, response |-> FALSE, recorded |-> FALSE]

Ended == {"none", "lost", "done", "dead"}

TerminalTypeOK ==
  /\ stage \in [SaleIds -> Ended \cup {"queued", "sent", "fit", "mark", "void"}]
  /\ asked \in [SaleIds -> [Buyers -> 0 .. All]]
  /\ superseded \in [SaleIds -> SUBSET (SaleIds \X Buyers)]
  /\ rows \in [SaleIds -> [Buyers -> [amount : 0 .. All, charged : BOOLEAN,
                                      cancelled : BOOLEAN]]]
  /\ hash \in [intent : SaleIds \cup {NoSale}, error : BOOLEAN, response : BOOLEAN,
               recorded : BOOLEAN]
  /\ terminal \in [SaleIds -> {"idle", "asked", "approved", "unsigned", "declined"}]
  /\ captured \in [SaleIds -> 0 .. All]
  /\ salesOverlap \in BOOLEAN
  /\ saleKills \in 0 .. MaxSaleKills

TerminalInit ==
  /\ stage = [s \in SaleIds |-> "none"]
  /\ asked = [s \in SaleIds |-> Nothing]
  /\ superseded = [s \in SaleIds |-> {}]
  /\ rows = [s \in SaleIds |-> [b \in Buyers |-> NoRow]]
  /\ hash = NoHash
  /\ terminal = [s \in SaleIds |-> "idle"]
  /\ captured = [s \in SaleIds |-> 0]
  /\ salesOverlap = FALSE /\ saleKills = 0

Go(s, st) == stage' = [stage EXCEPT ![s] = st]

-----------------------------------------------------------------------------
(* Receipts                                                                *)

Exists(row) == row.amount > 0
PendingCharge(row) == Exists(row) /\ ~row.charged /\ ~row.cancelled

PaidBy(b) ==
  SumFunctionOnSet([s \in SaleIds |-> IF rows[s][b].charged /\ ~rows[s][b].cancelled
                                       THEN rows[s][b].amount ELSE 0], SaleIds)

(* Faulty: the whole price, unless everything is paid.                     *)
OwedUnlessPaid(b) == IF PaidBy(b) >= Costs[b] THEN 0 ELSE Costs[b]

(* current_amount_owed                                                     *)
Owed(b) == IF PaidBy(b) >= Costs[b] THEN 0 ELSE Costs[b] - PaidBy(b)

(* What a commit of the session of sale s writes: its own rows, and the    *)
(* cancellation of those it read as incomplete when it was built.          *)
Committed(s) ==
  [t \in SaleIds |-> [b \in Buyers |->
    IF t = s THEN [NoRow EXCEPT !.amount = asked[s][b]]
    ELSE IF <<t, b>> \in superseded[s] THEN [rows[t][b] EXCEPT !.cancelled = TRUE]
    ELSE rows[t][b]]]

CancelledRows(s) == [b \in Buyers |-> [rows[s][b] EXCEPT !.cancelled = Exists(rows[s][b])]]

-----------------------------------------------------------------------------
(* start_terminal_payment, and the start of process_terminal_sale          *)

StartTerminalPayment(s) ==
  /\ stage[s] = "none"
  /\ Go(s, "queued")
  /\ hash' = NoHash
  /\ salesOverlap' = (salesOverlap \/ \E t \in SaleIds : stage[t] \notin Ended)
  /\ UNCHANGED <<asked, superseded, rows, terminal, captured, saleKills>>

(* get_last_incomplete_txn: a pending row of another amount is cancelled   *)
(* at once; the task cancels one of the same amount, in its own session.   *)
Incomplete(s) == {tb \in SaleIds \X Buyers : tb[1] # s /\ PendingCharge(rows[tb[1]][tb[2]])}
AsOwed(tb) == rows[tb[1]][tb[2]].amount = Owed(tb[2])

SendSale(s) ==
  /\ stage[s] = "queued"
  /\ \E b \in Buyers : Owed(b) > 0
  /\ asked' = [asked EXCEPT ![s] = [b \in Buyers |-> Owed(b)]]
  /\ superseded' = [superseded EXCEPT ![s] = {tb \in Incomplete(s) : AsOwed(tb)}]
  /\ rows' = [t \in SaleIds |-> [b \in Buyers |->
                IF <<t, b>> \in Incomplete(s) /\ ~AsOwed(<<t, b>>)
                  THEN [rows[t][b] EXCEPT !.cancelled = TRUE] ELSE rows[t][b]]]
  /\ hash' = [hash EXCEPT !.intent = s]
  /\ terminal' = [terminal EXCEPT ![s] = "asked"]
  /\ Go(s, "sent")
  /\ UNCHANGED <<captured, salesOverlap, saleKills>>

(* create_payment_intent refuses a sale of nothing; the error goes to the  *)
(* hash when the tracker is flushed.                                       *)
RefuseSale(s) ==
  /\ stage[s] = "queued"
  /\ \A b \in Buyers : Owed(b) = 0
  /\ hash' = [hash EXCEPT !.error = TRUE]
  /\ rows' = [t \in SaleIds |-> [b \in Buyers |->
                IF <<t, b>> \in Incomplete(s)
                  THEN [rows[t][b] EXCEPT !.cancelled = TRUE] ELSE rows[t][b]]]
  /\ Go(s, "done")
  /\ UNCHANGED <<asked, superseded, terminal, captured, salesOverlap, saleKills>>

-----------------------------------------------------------------------------
(* The terminal, which may approve a part of the amount                    *)

TerminalApproves(s, amount, how) ==
  /\ terminal[s] = "asked" /\ amount <= SumOver(asked[s])
  /\ terminal' = [terminal EXCEPT ![s] = how]
  /\ captured' = [captured EXCEPT ![s] = amount]
  /\ UNCHANGED <<stage, asked, superseded, rows, hash, salesOverlap, saleKills>>

TerminalDeclines(s) ==
  /\ terminal[s] = "asked"
  /\ terminal' = [terminal EXCEPT ![s] = "declined"]
  /\ UNCHANGED <<stage, asked, superseded, rows, hash, captured, salesOverlap, saleKills>>

-----------------------------------------------------------------------------
(* What the task does with the answer                                      *)

Partial(s) == captured[s] < SumOver(asked[s])

(* process_sale_response                                                   *)
TakeAnswer(s) ==
  /\ stage[s] = "sent" /\ terminal[s] # "asked"
  /\ rows' = Committed(s)
  /\ superseded' = [superseded EXCEPT ![s] = {}]
  /\ LET error == terminal[s] # "approved" \/ Partial(s) IN
       hash' = [hash EXCEPT !.error = @ \/ error]
  /\ Go(s, CASE terminal[s] = "approved" -> "fit"
             [] terminal[s] = "unsigned" -> "void"
             [] terminal[s] = "declined" -> "done")
  /\ UNCHANGED <<asked, terminal, captured, salesOverlap, saleKills>>

(* No answer: the tracker is left with an error, and the rows are saved.   *)
LoseAnswer(s) ==
  /\ stage[s] = "sent"
  /\ rows' = Committed(s)
  /\ superseded' = [superseded EXCEPT ![s] = {}]
  /\ hash' = [hash EXCEPT !.error = TRUE]
  /\ Go(s, "lost")
  /\ UNCHANGED <<asked, terminal, captured, salesOverlap, saleKills>>

(* A signature was skipped: the sale is voided.                            *)
VoidSale(s) ==
  /\ stage[s] = "void"
  /\ captured' = [captured EXCEPT ![s] = 0]
  /\ rows' = [rows EXCEPT ![s] = CancelledRows(s)]
  /\ hash' = [hash EXCEPT !.response = TRUE, !.error = TRUE]
  /\ Go(s, "done")
  /\ UNCHANGED <<asked, superseded, terminal, salesOverlap, saleKills>>

(* The terminal refuses to void it, or that answer is lost.                *)
VoidFails(s) ==
  /\ stage[s] = "void"
  /\ Go(s, "dead")
  /\ UNCHANGED <<asked, superseded, rows, hash, terminal, captured, salesOverlap, saleKills>>

-----------------------------------------------------------------------------
(* process_successful_sale                                                 *)

(* Faulty: the rows already filled are not counted.                        *)
FittedEach(row, amount) ==
  {[b \in Buyers |-> IF row[b].amount < amount THEN row[b].amount ELSE amount]}

(* The rows are filled one after the other, in the order of the query,     *)
(* until the approved amount is used up.                                   *)
Fitted(row, amount) ==
  {f \in [Buyers -> 0 .. amount] :
    /\ SumOver(f) = amount
    /\ \A b \in Buyers : f[b] <= row[b].amount
    /\ Cardinality({b \in Buyers : 0 < f[b] /\ f[b] < row[b].amount}) <= 1}

FitRows(s) ==
  /\ stage[s] = "fit"
  /\ \E f \in Fitted(rows[s], captured[s]) :
       rows' = [rows EXCEPT ![s] = [b \in Buyers |->
                 IF f[b] = 0 THEN NoRow
                 ELSE [rows[s][b] EXCEPT !.amount = f[b], !.cancelled = FALSE]]]
  /\ Go(s, "mark")
  /\ UNCHANGED <<asked, superseded, hash, terminal, captured, salesOverlap, saleKills>>

Unmarked(s) == {b \in Buyers : Exists(rows[s][b]) /\ ~rows[s][b].charged}

(* mark_paid_from_ids: each row with a commit of its own.                  *)
MarkRow(s, b) ==
  /\ stage[s] = "mark" /\ b \in Unmarked(s)
  /\ rows' = [rows EXCEPT ![s][b].charged = TRUE, ![s][b].cancelled = FALSE]
  /\ UNCHANGED <<stage, asked, superseded, hash, terminal, captured, salesOverlap, saleKills>>

LogSuccess(s) ==
  /\ stage[s] = "mark" /\ Unmarked(s) = {}
  /\ hash' = [hash EXCEPT !.response = TRUE, !.error = FALSE]
  /\ Go(s, "done")
  /\ UNCHANGED <<asked, superseded, rows, terminal, captured, salesOverlap, saleKills>>

-----------------------------------------------------------------------------
(* The browser, and the staff                                              *)

(* poll_terminal_payment cancels the rows of the last sale if there is an  *)
(* error and no answer to a sale.                                          *)
PollError ==
  /\ hash.error /\ hash.intent # NoSale /\ ~hash.response
  /\ rows' = [rows EXCEPT ![hash.intent] = CancelledRows(hash.intent)]
  /\ UNCHANGED <<stage, asked, superseded, hash, terminal, captured, salesOverlap, saleKills>>

PollSuccess ==
  /\ ~hash.error /\ hash.response /\ hash.intent # NoSale
  /\ hash' = [hash EXCEPT !.recorded = TRUE]
  /\ UNCHANGED <<stage, asked, superseded, rows, terminal, captured, salesOverlap, saleKills>>

(* check_terminal_payment: the last sale on the terminal, if its answer    *)
(* was lost.                                                               *)
CheckTerminalPayment(s) ==
  /\ hash.intent = s /\ ~hash.recorded
  /\ stage[s] = "lost"
  /\ \/ /\ terminal[s] \in {"approved", "unsigned"}
        /\ hash' = [hash EXCEPT !.response = TRUE, !.error = Partial(s)]
        /\ Go(s, "fit")
     \/ /\ terminal[s] = "declined"
        /\ hash' = [hash EXCEPT !.error = TRUE]
        /\ Go(s, "done")
  /\ UNCHANGED <<asked, superseded, rows, terminal, captured, salesOverlap, saleKills>>

(* The task, or the process that answers the check, is killed.             *)
KillSale(s) ==
  /\ stage[s] \notin Ended /\ saleKills < MaxSaleKills
  /\ Go(s, "dead")
  /\ saleKills' = saleKills + 1
  /\ UNCHANGED <<asked, superseded, rows, hash, terminal, captured, salesOverlap>>

-----------------------------------------------------------------------------
TerminalNext ==
  \/ \E s \in SaleIds :
       \/ StartTerminalPayment(s) \/ SendSale(s) \/ RefuseSale(s)
       \/ \E amount \in 1 .. All : \E how \in {"approved", "unsigned"} : TerminalApproves(s, amount, how)
       \/ TerminalDeclines(s)
       \/ TakeAnswer(s) \/ LoseAnswer(s) \/ VoidSale(s) \/ VoidFails(s)
       \/ FitRows(s) \/ (\E b \in Buyers : MarkRow(s, b)) \/ LogSuccess(s)
       \/ CheckTerminalPayment(s) \/ KillSale(s)
  \/ PollError \/ PollSuccess

TerminalSpec == TerminalInit /\ [][TerminalNext]_terminalVars

-----------------------------------------------------------------------------
(* Properties                                                              *)

ChargedRows(s) == {b \in Buyers : rows[s][b].charged}

(* A sale that is over, after a partial approval, a void, a lost answer or *)
(* a poll that cancelled its rows, has recorded what the card was charged. *)
(* Charged rows are cancelled only if sales overlap, or by a poll during a *)
(* partial approval (process_successful_sale, poll_terminal_payment).      *)
RecordedIsCaptured ==
  \A s \in SaleIds : stage[s] = "done" =>
    /\ SumFunctionOnSet([b \in Buyers |-> rows[s][b].amount], ChargedRows(s)) = captured[s]
    /\ (\E b \in ChargedRows(s) : rows[s][b].cancelled) => salesOverlap \/ Partial(s)

(* What became of these sales is not known, or not recorded.               *)
Unsure(s) ==
  \/ stage[s] \in {"lost", "dead"}
  \/ \E b \in ChargedRows(s) : rows[s][b].cancelled

(* Sales that follow one another, each for what the earlier ones left,     *)
(* charge no more than is owed, as long as the earlier ones were recorded  *)
(* (process_terminal_sale, current_amount_owed).                           *)
ChargedOnce ==
  \/ SumFunctionOnSet(captured, SaleIds) <= All
  \/ salesOverlap \/ \E s \in SaleIds : captured[s] > 0 /\ Unsure(s)
===============================================================================
