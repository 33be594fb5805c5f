------------------------------- MODULE Payments -------------------------------
(***************************************************************************)
(* Card payments: the receipts of attendees, the transactions recorded on  *)
(* them, the payment intents they stand for at Stripe, and the request     *)
(* handlers and scheduled tasks that read and write them concurrently.     *)
(*                                                                         *)
(* A handler runs in one SQLAlchemy session.  It reads rows, may call      *)
(* Stripe, and writes what it changed when it commits, so every handler is *)
(* cut at its commits and at the calls to Stripe whose effect others see:  *)
(* what was read before the cut is kept in the handler's job and may be    *)
(* stale when it is used.  Nothing in this path locks a row.               *)
(*                                                                         *)
(* A transaction row is named by the receipt it belongs to and the intent  *)
(* it was created for: create_payment_transaction adds one row per receipt *)
(* and intent, and several receipts of a cart share one intent.            *)
(***************************************************************************)
EXTENDS Integers, FiniteSets, Functions

CONSTANTS
  Attendees,    \* the registrations
  Receipts,     \* receipts, each made for a given attendee
  Owner,        \* Owner[r]: the attendee receipt r is made for
  Items,        \* purchase items
  ReceiptOf,    \* ReceiptOf[x]: the receipt item x belongs to
  Price,        \* Price[x]: what item x costs
  LateItems,    \* the items bought after the receipt was created
  MaxCharge,    \* the largest amount an intent may be created for
  MaxIntents,   \* bound: intents ever created
  Workers,      \* bound: handlers in flight at once
  Carts,        \* bound: the sets of registrations bought together
  Requests,     \* bound: the kinds of handler that are started
  MaxCrashes    \* bound: handlers killed between two of their commits

ASSUME ConstantsAssumption ==
  /\ IsFiniteSet(Receipts) /\ IsFiniteSet(Items)
  /\ Owner \in [Receipts -> Attendees]
  /\ ReceiptOf \in [Items -> Receipts]
  /\ MaxCharge \in Nat \ {0}
  /\ Price \in [Items -> 1 .. MaxCharge]
  /\ LateItems \subseteq Items
  /\ MaxIntents \in Nat
  /\ Carts \subseteq SUBSET Attendees
  /\ Requests \subseteq {"webhook", "poll", "pay", "prereg", "confirm", "cancel", "admin",
                    "upgrade", "invalidate"}
  /\ MaxCrashes \in Nat

Intents == 1 .. MaxIntents
NoIntent == 0
Rows == Receipts \X Intents

VARIABLES
  receipt,    \* receipt[r]: absent, open, or closed once it was replaced
  item,       \* item[x]: [state, txn]; txn is the intent of its transaction
  amount,     \* amount[r, i]: what row <<r, i>> is for; 0 when there is no row
  charged,    \* the rows that have a charge_id
  cancelled,  \* the rows that have a cancelled date
  status,     \* status[a]: cart (not saved yet), or its badge_status
  hasPaid,    \* the attendees whose `paid` is HAS_PAID
  stripe,     \* stripe[i]: the status of the intent at Stripe
  captured,   \* captured[i]: the amount of the intent at Stripe
  job,        \* job[w]: what handler w is doing
  crashes     \* handlers killed so far

db == <<receipt, item, amount, charged, cancelled, status, hasPaid>>
gateway == <<stripe, captured>>
vars == <<db, gateway, job, crashes>>

-----------------------------------------------------------------------------
(* What a handler keeps between two of its steps.                          *)
Stages == {"idle", "mark", "row", "model", "begin", "commit", "cancel",
           "view", "amend"}
Reasons == {"none", "prereg", "confirm", "admin"}

Jobs == [ stage  : Stages,
          why    : Reasons,              \* what to resume once marking is over
          cart   : SUBSET Attendees,
          todo   : SUBSET Intents,       \* succeeded intents still to be marked
          intent : Intents \cup {NoIntent},
          rows   : SUBSET Receipts,      \* matching rows still to be marked
          loaded : SUBSET Receipts,      \* the one being marked, or {}
          seen   : BOOLEAN,              \* the loaded row was cancelled
          due    : [Receipts -> 0 .. MaxCharge],
          attach : SUBSET Items,         \* open purchase items as read
          drop   : SUBSET Rows ]         \* rows to cancel, as read

Idle == [ stage |-> "idle", why |-> "none", cart |-> {}, todo |-> {},
          intent |-> NoIntent, rows |-> {}, loaded |-> {}, seen |-> FALSE,
          due |-> [r \in Receipts |-> 0], attach |-> {}, drop |-> {} ]

TypeOK ==
  /\ receipt \in [Receipts -> {"absent", "open", "closed"}]
  /\ item \in [Items -> [ state : {"absent", "open", "closed"},
                          txn   : Intents \cup {NoIntent} ]]
  /\ amount \in [Rows -> 0 .. MaxCharge]
  /\ charged \subseteq Rows
  /\ cancelled \subseteq Rows
  /\ status \in [Attendees -> {"cart", "pending", "new", "invalid"}]
  /\ hasPaid \subseteq Attendees
  /\ stripe \in [Intents -> {"none", "open", "succeeded"}]
  /\ captured \in [Intents -> 0 .. MaxCharge]
  /\ job \in [Workers -> Jobs]
  /\ crashes \in 0 .. MaxCrashes

-----------------------------------------------------------------------------
(* Totals of a receipt, as the properties of ModelReceipt compute them.    *)
ItemTotal(r) ==
  SumFunctionOnSet(Price, {x \in Items : ReceiptOf[x] = r /\ item[x].state # "absent"})

PaymentTotal(r) ==
  SumFunctionOnSet([i \in Intents |-> amount[r, i]],
                   {i \in Intents : <<r, i>> \in charged \ cancelled})

CurrentReceiptAmount(r) == ItemTotal(r) - PaymentTotal(r)

Owed(r) == IF CurrentReceiptAmount(r) > 0 THEN CurrentReceiptAmount(r) ELSE 0

OpenItems(r) == {x \in Items : ReceiptOf[x] = r /\ item[x].state = "open"}

RowExists(r, i) == amount[r, i] > 0

(* Pending: an intent, no charge, not cancelled.                           *)
PendingIntents(r) ==
  {i \in Intents : RowExists(r, i) /\ <<r, i>> \notin charged \cup cancelled}

Newest(S) == CHOOSE i \in S : \A j \in S : j <= i

ActiveReceipts(a) == {r \in Receipts : Owner[r] = a /\ receipt[r] = "open"}

(* current_amount_owed is zero on the attendee's open receipt.             *)
IsPaid(a) == \E r \in ActiveReceipts(a) : Owed(r) = 0

(* The intents Stripe creates, numbered in the order they are created.     *)
Unused == {i \in Intents : stripe[i] = "none"}
NextIntents == {i \in Unused : \A j \in Unused : i <= j}

(* Faulty: every pending row is taken for paid.                            *)
FoundPaidUnchecked(rs) == UNION {PendingIntents(r) : r \in rs}

(* check_paid_from_stripe on every pending row of these receipts finds the *)
(* intents that have succeeded.                                            *)
FoundPaid(rs) ==
  {i \in UNION {PendingIntents(r) : r \in rs} : stripe[i] = "succeeded"}

(* Faulty: cancelled rows are not looked for.                              *)
MatchingRowsLive(i) ==
  {r \in Receipts : RowExists(r, i) /\ <<r, i>> \notin charged \cup cancelled}

(* The rows of intent i that have no charge_id yet, cancelled or not.      *)
MatchingRows(i) == {r \in Receipts : RowExists(r, i) /\ <<r, i>> \notin charged}

(* The amounts an intent is created for: neither zero nor above the cap.   *)
Chargeable(n) == n \in 1 .. MaxCharge

-----------------------------------------------------------------------------
(* Every registration starts in a customer's cart, with nothing saved.     *)
Init ==
  /\ receipt = [r \in Receipts |-> "absent"]
  /\ item = [x \in Items |-> [state |-> "absent", txn |-> NoIntent]]
  /\ amount = [row \in Rows |-> 0]
  /\ charged = {}
  /\ cancelled = {}
  /\ status = [a \in Attendees |-> "cart"]
  /\ hasPaid = {}
  /\ stripe = [i \in Intents |-> "none"]
  /\ captured = [i \in Intents |-> 0]
  /\ job = [w \in Workers |-> Idle]
  /\ crashes = 0

-----------------------------------------------------------------------------
(* Stripe, as the code uses it.                                            *)

(* The customer confirms an intent.  The browser holds the intent only     *)
(* once its rows are committed, and keeps it when they are cancelled.      *)
StripeSucceeds(i) ==
  /\ stripe[i] = "open"
  /\ \E r \in Receipts : RowExists(r, i)
  /\ stripe' = [stripe EXCEPT ![i] = "succeeded"]
  /\ UNCHANGED <<db, captured, job, crashes>>

-----------------------------------------------------------------------------
(* Marking rows as paid.                                                   *)

StartMarking(w, j) ==
  /\ job[w].stage = "idle"
  /\ job' = [job EXCEPT ![w] = [j EXCEPT !.stage = "mark"]]
  /\ UNCHANGED <<db, gateway, crashes>>

(* Stripe delivers payment_intent.succeeded, any number of times: it       *)
(* repeats a delivery that was answered 400.                               *)
StripeWebhook(w, i) ==
  /\ stripe[i] = "succeeded"
  /\ StartMarking(w, [Idle EXCEPT !.todo = {i}])

(* Every 30 minutes: the rows without a charge_id, cancelled or not, whose *)
(* intent has an event among those of the last hour.                       *)
CheckMissedStripePayments(w) ==
  \E events \in SUBSET {i \in Intents : stripe[i] = "succeeded"} :
    LET missed == {i \in events : MatchingRows(i) # {}} IN
    /\ missed # {}
    /\ StartMarking(w, [Idle EXCEPT !.todo = missed])

(* Where a handler goes once it has no row left to mark.                   *)
Resume(j) ==
  CASE j.why = "prereg"  -> [Idle EXCEPT !.stage = "begin", !.cart = j.cart]
    [] j.why = "confirm" -> [Idle EXCEPT !.stage = "view", !.cart = j.cart]
    [] OTHER             -> Idle

(* Load a row: what is remembered of it is whether it was cancelled.       *)
Load(j, i, rows, r) ==
  [j EXCEPT !.stage = "row", !.intent = i, !.rows = rows \ {r},
            !.loaded = {r}, !.seen = <<r, i>> \in cancelled]

(* The first query of mark_paid_from_ids, for the next succeeded intent.   *)
MarkQuery(w) ==
  LET j == job[w] IN
  /\ j.stage = "mark"
  /\ \E i \in j.todo :
       LET rest == [j EXCEPT !.todo = @ \ {i}] IN
       IF MatchingRows(i) = {}
       THEN job' = [job EXCEPT ![w] = IF rest.todo = {} THEN Resume(rest) ELSE rest]
       ELSE \E r \in MatchingRows(i) :
              job' = [job EXCEPT ![w] = Load(rest, i, MatchingRows(i), r)]
  /\ UNCHANGED <<db, gateway, crashes>>

(* Faulty: a cancelled row stays cancelled when it is paid.                *)
CancelledAfterMarking(j) == cancelled

(* A row that was loaded as cancelled is cancelled no longer.              *)
Uncancelled(j) ==
  IF j.seen THEN cancelled \ (j.loaded \X {j.intent}) ELSE cancelled

(* First commit for a row: its charge_id and its items closed.             *)
MarkTxn(w) ==
  LET j == job[w] IN
  /\ j.stage = "row"
  /\ charged' = charged \cup (j.loaded \X {j.intent})
  /\ cancelled' = Uncancelled(j)
  /\ item' = [x \in Items |->
                IF ReceiptOf[x] \in j.loaded /\ item[x].txn = j.intent
                   /\ item[x].state # "absent"
                THEN [item[x] EXCEPT !.state = "closed"] ELSE item[x]]
  /\ job' = [job EXCEPT ![w].stage = "model"]
  /\ UNCHANGED <<receipt, amount, status, hasPaid, gateway, crashes>>

(* check_receipt_closed: with nothing owed either way, close what is open  *)
(* and give it a payment of the receipt if it has none.                    *)
SettleItems(r) ==
  IF CurrentReceiptAmount(r) # 0 THEN item
  ELSE [x \in Items |->
          IF x \notin OpenItems(r) THEN item[x]
          ELSE [ state |-> "closed",
                 txn   |-> IF item[x].txn # NoIntent THEN item[x].txn
                           ELSE Newest({i \in Intents : RowExists(r, i)}) ]]

(* Faulty: the whole cart is admitted with its first row.                  *)
AdmittedWholeCart(j) == {Owner[r] : r \in j.loaded \cup j.rows}

(* Faulty: only the attendee of the last row is looked at.                 *)
AdmittedLast(j) == {Owner[r] : r \in {q \in j.loaded : j.rows = {} /\ IsPaid(Owner[q])}}

(* The attendee of the row, if nothing is owed on the receipt open now.    *)
Admitted(j) == {Owner[r] : r \in {q \in j.loaded : IsPaid(Owner[q])}}

(* Second commit for a row: the attendee; then check_receipt_closed, and   *)
(* the next row.                                                           *)
MarkModel(w) ==
  LET j == job[w] IN
  /\ j.stage = "model"
  /\ status' = [a \in Attendees |-> IF a \in Admitted(j) /\ status[a] = "pending"
                                    THEN "new" ELSE status[a]]
  /\ hasPaid' = hasPaid \cup Admitted(j)
  /\ \E r \in j.loaded : item' = SettleItems(r)
  /\ IF j.rows # {}
     THEN \E r \in j.rows : job' = [job EXCEPT ![w] = Load(j, j.intent, j.rows, r)]
     ELSE job' = [job EXCEPT ![w] =
                    IF j.todo = {} THEN Resume(j)
                    ELSE [j EXCEPT !.stage = "mark", !.loaded = {}, !.seen = FALSE]]
  /\ UNCHANGED <<receipt, amount, charged, cancelled, gateway, crashes>>

-----------------------------------------------------------------------------
(* Paying.                                                                 *)

(* session.attendee shows a registration that is not valid to admins only. *)
Shown(a) == status[a] = "new" \/ "admin" \in Requests

(* process_attendee_payment: an intent for what is owed now, whatever is   *)
(* already pending.                                                        *)
ProcessAttendeePayment(w, r) ==
  /\ job[w].stage = "idle"
  /\ receipt[r] = "open" /\ status[Owner[r]] # "cart" /\ Shown(Owner[r])
  /\ Chargeable(Owed(r))
  /\ \E i \in NextIntents :
       /\ stripe' = [stripe EXCEPT ![i] = "open"]
       /\ captured' = [captured EXCEPT ![i] = Owed(r)]
       /\ job' = [job EXCEPT ![w] =
            [Idle EXCEPT !.stage = "commit", !.intent = i,
                         !.due[r] = Owed(r), !.attach = OpenItems(r)]]
  /\ UNCHANGED <<db, crashes>>

(* prereg_payment for a cart: first, refresh_receipt_and_model of each     *)
(* registration marks what Stripe says is paid.                            *)
PreregPayment(w, cart) ==
  /\ job[w].stage = "idle"
  /\ cart # {}
  /\ \A a \in cart : status[a] # "new"
  /\ \A a \in cart : status[a] = "cart" => \A v \in Workers : a \notin job[v].cart
  /\ LET found == FoundPaid(UNION {ActiveReceipts(a) : a \in cart})
         j == [Idle EXCEPT !.why = "prereg", !.cart = cart, !.todo = found]
     IN  job' = [job EXCEPT ![w] =
                   IF found = {} THEN Resume(j) ELSE [j EXCEPT !.stage = "mark"]]
  /\ UNCHANGED <<db, gateway, crashes>>

(* get_last_incomplete_txn looks at the newest pending row of a receipt    *)
(* that is owed for; when its amount is out of date, the row and its       *)
(* intent at Stripe are given the amount owed.  Stripe refuses that for an *)
(* intent that succeeded, and the handler dies.                            *)
OutOfDate(rs) ==
  {r \in rs : /\ PendingIntents(r) # {}
              /\ Owed(r) > 0
              /\ amount[r, Newest(PendingIntents(r))] # Owed(r)}

CanReprice(rs) ==
  \A r \in OutOfDate(rs) : /\ stripe[Newest(PendingIntents(r))] = "open"
                           /\ Chargeable(Owed(r))

Repriced(rs) ==
  [i \in Intents |->
     LET by == {r \in OutOfDate(rs) : i = Newest(PendingIntents(r))} IN
     IF by = {} THEN captured[i] ELSE Owed(CHOOSE r \in by : TRUE)]

Amended(rs) ==
  [row \in Rows |->
     IF row[1] \in OutOfDate(rs) /\ row[2] = Newest(PendingIntents(row[1]))
     THEN Owed(row[1]) ELSE amount[row]]

(* On a receipt with nothing owed, every pending row is cancelled at once. *)
Obsolete(rs) ==
  UNION {{r} \X PendingIntents(r) : r \in {q \in rs : Owed(q) = 0}}

(* prereg_payment cancels the newest pending row of the others.            *)
Superseded(rs) ==
  {<<r, Newest(PendingIntents(r))>> :
     r \in {q \in rs : PendingIntents(q) # {} /\ Owed(q) > 0}}

(* A receipt that is kept is replaced when a new one is made for its owner. *)
Replaced(kept, new) == {r \in kept : \E q \in new : Owner[q] = Owner[r]}

Fresh(new) == {x \in Items \ LateItems : ReceiptOf[x] \in new}

(* What is owed on the receipts in use once the new ones have their items. *)
Due(use, new) ==
  [r \in Receipts |->
     IF r \in new
     THEN SumFunctionOnSet(Price, {x \in Fresh(new) : ReceiptOf[x] = r})
     ELSE IF r \in use THEN Owed(r) ELSE 0]

(* prereg_payment goes on: the newest pending row of each receipt is       *)
(* brought up to date and is to be cancelled, a receipt whose costs        *)
(* changed is replaced, and an intent is made for all the receipts of the  *)
(* cart together.  The commit made for a new receipt also writes the       *)
(* cancellations that come before it; when the handler gives up, what it   *)
(* had flushed is committed.                                               *)
PreregIntent(w) ==
  LET cart == job[w].cart
      kept == UNION {ActiveReceipts(a) : a \in cart}
      drop == Superseded(kept) IN
  /\ job[w].stage = "begin"
  /\ CanReprice(kept)
  /\ \E new \in SUBSET {r \in Receipts : Owner[r] \in cart /\ receipt[r] = "absent"} :
       LET use == (kept \ Replaced(kept, new)) \cup new
           due == Due(use, new)
           total == SumFunctionOnSet(due, use) IN
       /\ \A a \in cart : \E r \in use : Owner[r] = a
       /\ \A r, q \in new : Owner[r] = Owner[q] => r = q
       /\ due \in [Receipts -> 0 .. MaxCharge]
       /\ receipt' = [r \in Receipts |-> IF r \in new THEN "open"
                                         ELSE IF r \in Replaced(kept, new) THEN "closed"
                                         ELSE receipt[r]]
       /\ item' = [x \in Items |-> IF x \in Fresh(new)
                                   THEN [item[x] EXCEPT !.state = "open"] ELSE item[x]]
       /\ amount' = Amended(kept)
       /\ \E early \in SUBSET drop :
            /\ cancelled' = cancelled \cup Obsolete(kept) \cup early
            /\ \/ /\ Chargeable(total)
                  /\ new = {} => early = {}
                  /\ \E i \in NextIntents :
                       /\ stripe' = [stripe EXCEPT ![i] = "open"]
                       /\ captured' = [Repriced(kept) EXCEPT ![i] = total]
                       /\ job' = [job EXCEPT ![w] =
                            [Idle EXCEPT !.stage = "commit", !.cart = cart,
                                         !.intent = i, !.due = due,
                                         !.attach = (UNION {OpenItems(r) : r \in use}) \cup Fresh(new),
                                         !.drop = drop \ early]]
               \/ \* nothing to charge, or Stripe could not create the intent
                  /\ early = drop
                  /\ captured' = Repriced(kept)
                  /\ job' = [job EXCEPT ![w] = Idle]
                  /\ UNCHANGED stripe
  /\ UNCHANGED <<charged, status, hasPaid, crashes>>

(* Faulty: each row is for the amount of the whole intent.                 *)
RowAmountOfIntent(j, row) ==
  IF row[2] = j.intent /\ j.due[row[1]] > 0 THEN captured[j.intent] ELSE amount[row]

(* The amounts of the rows, once a handler wrote those it computed.        *)
RowAmount(j, row) ==
  IF row[2] = j.intent /\ j.due[row[1]] > 0 THEN j.due[row[1]] ELSE amount[row]

(* Faulty: the items are closed at once, as for a payment in cash.         *)
AttachedClosed(j, x) == [state |-> "closed", txn |-> j.intent]

(* An item of a new row: the handler moves the ones it read before,        *)
(* whatever became of them.                                                *)
Attached(j, x) == [item[x] EXCEPT !.txn = j.intent]

(* create_payment_transaction for each receipt with something owed, and    *)
(* the commit of the handler, which saves the registrations of the cart.   *)
CommitPayment(w) ==
  LET j == job[w] IN
  /\ j.stage = "commit"
  /\ amount' = [row \in Rows |-> RowAmount(j, row)]
  /\ item' = [x \in Items |-> IF x \in j.attach /\ j.due[ReceiptOf[x]] > 0
                              THEN Attached(j, x) ELSE item[x]]
  /\ cancelled' = cancelled \cup j.drop
  /\ status' = [a \in Attendees |->
                  IF a \in j.cart /\ status[a] = "cart" THEN "pending" ELSE status[a]]
  /\ job' = [job EXCEPT ![w] = Idle]
  /\ UNCHANGED <<receipt, charged, hasPaid, gateway, crashes>>

-----------------------------------------------------------------------------
(* The pages that show what is owed, cancellations, and new costs.         *)

(* confirm: refresh_receipt_and_model first.                               *)
Confirm(w, a) ==
  /\ job[w].stage = "idle"
  /\ status[a] # "cart" /\ Shown(a)
  /\ ActiveReceipts(a) # {}
  /\ LET found == FoundPaid(ActiveReceipts(a))
         j == [Idle EXCEPT !.why = "confirm", !.cart = {a}, !.todo = found]
     IN  job' = [job EXCEPT ![w] =
                   IF found = {} THEN Resume(j) ELSE [j EXCEPT !.stage = "mark"]]
  /\ UNCHANGED <<db, gateway, crashes>>

(* Then get_last_incomplete_txn: cancel what is no longer needed, or call  *)
(* Stripe to change the amount of the newest pending intent ...            *)
ConfirmView(w) ==
  LET rs == UNION {ActiveReceipts(a) : a \in job[w].cart}
      out == OutOfDate(rs) IN
  /\ job[w].stage = "view"
  /\ CanReprice(rs)
  /\ cancelled' = cancelled \cup Obsolete(rs)
  /\ captured' = Repriced(rs)
  /\ IF out = {} THEN job' = [job EXCEPT ![w] = Idle]
     ELSE \E r \in out :
            job' = [job EXCEPT ![w] =
              [Idle EXCEPT !.stage = "amend", !.intent = Newest(PendingIntents(r)),
                           !.due[r] = Owed(r)]]
  /\ UNCHANGED <<receipt, item, amount, charged, status, hasPaid, stripe, crashes>>

(* ... and commit the row's new amount.                                    *)
ConfirmAmend(w) ==
  LET j == job[w] IN
  /\ j.stage = "amend"
  /\ amount' = [row \in Rows |-> RowAmount(j, row)]
  /\ job' = [job EXCEPT ![w] = Idle]
  /\ UNCHANGED <<receipt, item, charged, cancelled, status, hasPaid, gateway, crashes>>

(* Stripe refused to change an amount: the handler ends with an error,     *)
(* after what it committed for the receipts that came before.              *)
HandlerError(w) ==
  LET rs == UNION {ActiveReceipts(a) : a \in job[w].cart} IN
  /\ job[w].stage \in {"begin", "view"}
  /\ ~CanReprice(rs)
  /\ \E done \in SUBSET rs :
       /\ CanReprice(done)
       /\ captured' = Repriced(done)
       /\ amount' = Amended(done)
       /\ \E early \in SUBSET Superseded(done) :
            /\ job[w].stage = "view" => early = {}
            /\ cancelled' = cancelled \cup Obsolete(done) \cup early
  /\ job' = [job EXCEPT ![w] = Idle]
  /\ UNCHANGED <<receipt, item, charged, status, hasPaid, stripe, crashes>>

(* cancel_payment, cancel_prereg_payment: the rows of the intent that have *)
(* no charge_id when they are read.                                        *)
CancelPayment(w, i) ==
  /\ job[w].stage = "idle"
  /\ MatchingRows(i) # {}
  /\ job' = [job EXCEPT ![w] = [Idle EXCEPT !.stage = "cancel",
                                            !.drop = MatchingRows(i) \X {i}]]
  /\ UNCHANGED <<db, gateway, crashes>>

(* cancel_receipt_txn: an admin cancels one row, refused when it has a     *)
(* charge_id or Stripe says that the intent succeeded.                     *)
CancelReceiptTxn(w, r, i) ==
  /\ job[w].stage = "idle"
  /\ receipt[r] # "closed"
  /\ i \in PendingIntents(r)
  /\ job' = [job EXCEPT ![w] =
       IF stripe[i] = "succeeded"
       THEN [Idle EXCEPT !.stage = "mark", !.todo = {i}]
       ELSE [Idle EXCEPT !.stage = "cancel", !.why = "admin", !.drop = {<<r, i>>}]]
  /\ UNCHANGED <<db, gateway, crashes>>

(* The commit of a cancellation.  The admin's also reopens and detaches    *)
(* the items of the row.                                                   *)
CancelCommit(w) ==
  LET j == job[w]
      detached == {x \in Items : /\ j.why = "admin" /\ item[x].state # "absent"
                                 /\ <<ReceiptOf[x], item[x].txn>> \in j.drop} IN
  /\ j.stage = "cancel"
  /\ cancelled' = cancelled \cup j.drop
  /\ item' = [x \in Items |-> IF x \in detached
                              THEN [state |-> "open", txn |-> NoIntent] ELSE item[x]]
  /\ job' = [job EXCEPT ![w] = Idle]
  /\ UNCHANGED <<receipt, amount, charged, status, hasPaid, gateway, crashes>>

(* auto_update_receipt: a registration is changed and costs more.          *)
AddItem(x) ==
  /\ x \in LateItems
  /\ item[x].state = "absent"
  /\ receipt[ReceiptOf[x]] = "open" /\ status[Owner[ReceiptOf[x]]] # "cart"
  /\ item' = [item EXCEPT ![x].state = "open"]
  /\ UNCHANGED <<receipt, amount, charged, cancelled, status, hasPaid,
                 gateway, job, crashes>>

(* email_pending_attendees: a registration still pending after four days.  *)
InvalidatePending(a) ==
  /\ status[a] = "pending"
  /\ a \notin hasPaid
  /\ status' = [status EXCEPT ![a] = "invalid"]
  /\ UNCHANGED <<receipt, item, amount, charged, cancelled, hasPaid,
                 gateway, job, crashes>>

(* The server process is killed: what was not committed is lost.           *)
Crash(w) ==
  /\ job[w].stage # "idle"
  /\ crashes < MaxCrashes
  /\ crashes' = crashes + 1
  /\ job' = [job EXCEPT ![w] = Idle]
  /\ UNCHANGED <<db, gateway>>

-----------------------------------------------------------------------------
(* The steps of a handler that has started.                                *)
Continue(w) ==
  \/ MarkQuery(w) \/ MarkTxn(w) \/ MarkModel(w)
  \/ PreregIntent(w) \/ CommitPayment(w)
  \/ ConfirmView(w) \/ ConfirmAmend(w) \/ HandlerError(w)
  \/ CancelCommit(w)

(* The requests and scheduled tasks that start one.                        *)
Start(w) ==
  \/ "webhook" \in Requests /\ \E i \in Intents : StripeWebhook(w, i)
  \/ "poll" \in Requests /\ CheckMissedStripePayments(w)
  \/ "pay" \in Requests /\ \E r \in Receipts : ProcessAttendeePayment(w, r)
  \/ "prereg" \in Requests /\ \E cart \in Carts : PreregPayment(w, cart)
  \/ "confirm" \in Requests /\ \E a \in Attendees : Confirm(w, a)
  \/ "cancel" \in Requests /\ \E i \in Intents : CancelPayment(w, i)
  \/ "admin" \in Requests /\ \E r \in Receipts, i \in Intents : CancelReceiptTxn(w, r, i)

Environment ==
  \/ \E i \in Intents : StripeSucceeds(i)
  \/ "upgrade" \in Requests /\ \E x \in Items : AddItem(x)
  \/ "invalidate" \in Requests /\ \E a \in Attendees : InvalidatePending(a)

Next ==
  \/ Environment
  \/ \E w \in Workers : Start(w) \/ Continue(w) \/ Crash(w)

Spec == Init /\ [][Next]_vars

(* A handler that started goes on until it ends, and Stripe delivers the   *)
(* event of a succeeded intent again and again.                            *)
Fairness ==
  /\ \A w \in Workers : WF_vars(Continue(w))
  /\ \A i \in Intents : SF_vars(\E w \in Workers : StripeWebhook(w, i))

FairSpec == Spec /\ Fairness

-----------------------------------------------------------------------------
(* No row is recorded as paid unless Stripe holds the money: whichever of  *)
(* the webhook, the poll and the refreshes marked it, and however late.    *)
ChargeBacked == \A row \in charged : stripe[row[2]] = "succeeded"

(* What a handler remembers stays true while others run: the intents it    *)
(* has to mark have succeeded, the rows it is to mark exist, and the one   *)
(* it has committed is charged when it goes on to the attendee.            *)
JobSound(j) ==
  /\ \A i \in j.todo : stripe[i] = "succeeded"
  /\ j.stage \in {"row", "model"} =>
       /\ j.intent \in Intents
       /\ stripe[j.intent] = "succeeded"
       /\ \A r \in j.loaded \cup j.rows : RowExists(r, j.intent)
  /\ j.stage = "model" => \A r \in j.loaded : <<r, j.intent>> \in charged

HandlersSound == \A w \in Workers : JobSound(job[w])

(* An item is closed only on a receipt with a recorded payment, although   *)
(* rows of items are moved between transactions by handlers that read them *)
(* earlier.                                                                *)
ClosedItemHasCharge ==
  \A x \in Items : item[x].state = "closed" =>
    \E i \in Intents : <<ReceiptOf[x], i>> \in charged

(* A registration that left the pending state by payment has a recorded    *)
(* payment on one of its receipts.                                         *)
AdmittedHasCharge ==
  \A a \in Attendees : status[a] = "new" \/ a \in hasPaid =>
    \E row \in charged : Owner[row[1]] = a

(* The rows of an intent add up to what Stripe took for it.                *)
RecordedMatchesCaptured ==
  \A i \in Intents : stripe[i] = "succeeded" =>
    SumFunctionOnSet([r \in Receipts |-> amount[r, i]], Receipts) = captured[i]

(* A completed payment is not cancelled.                                   *)
CompletedNotCancelled == charged \cap cancelled = {}

(* What the program promises of card payments, with its rows, retries and  *)
(* handlers left out: see CardPayments.                                    *)
Promise ==
  INSTANCE CardPayments WITH
    asked    <- {row \in Rows : amount[row] > 0},
    taken    <- {i \in Intents : stripe[i] = "succeeded"},
    paid     <- charged,
    admitted <- hasPaid

(* Every step of a handler, of Stripe and of the tasks is a step of        *)
(* CardPayments or changes nothing there: the rows of an intent are all    *)
(* written before it can be paid, none is added, dropped or recorded twice *)
(* afterwards, and marking one row never admits the rest of the cart.      *)
ImplementsCardPayments == Promise!Spec

(* What Stripe took is recorded, whatever was cancelled, retried or killed *)
(* meanwhile.                                                              *)
SucceededIsRecorded ==
  \A row \in Rows :
    RowExists(row[1], row[2]) /\ stripe[row[2]] = "succeeded" ~> row \in charged

(* A registration does not stay pending while its receipt is paid, as long *)
(* as no handler is killed between its commits.                            *)
PaidIsAdmittedUnlessKilled ==
  \A a \in Attendees : []<>(crashes > 0 \/ ~(status[a] = "pending" /\ IsPaid(a)))

=============================================================================
