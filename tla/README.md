# Formal models of Ubersystem

Ubersystem runs the registration of a convention: attendees register and pay
in a browser, admins and volunteers check them in, assign them badges, refund
them, and sign them up for events. It is a CherryPy application over one
PostgreSQL database, with Celery tasks beside it and Stripe behind it. This
directory holds TLA+ models of the parts where the order of things matters,
the TLC runs that check them on small instances, and proofs that TLAPS checks
for instances of any size.

In this document, `src/uber/x.py` is written `x.py`.

## 1. How the program runs, and how the modules cut it into steps

* Every page handler and every task gets a SQLAlchemy session of its own
  (`decorators.py`, `sessionized`). It reads rows, computes, and writes what it
  changed when it commits. A handler that returns has to commit by itself; one
  that ends with a redirect (`HTTPRedirect`) is committed by `sessionized`; one
  that raises any other error writes nothing that it has not committed before.
* The session does not flush before a query, and hardly any query locks a row.
  What a handler read may be stale when it commits, and a query does not see the
  handler's own changes.
* Rows are written column by column: a commit changes the columns the handler
  set, and leaves the others as they are by then.
* Calls to Stripe take effect at once, whatever becomes of the handler.

A handler is therefore one action per stretch between two points where others
can see or change something: reads, calls to Stripe whose effect lasts, and
commits. What it carries from one stretch to the next is in `job[w]`, one record
per handler in flight; `Workers` bounds how many there are. A `Crash` action
drops a job; what was committed stays, what was not is lost.

## 2. Inventory

The components of the system, with the state each keeps, its operations, who it
interacts with, what is hard about it, and what makes it correct. Sources are
listed in `PROJECT.json`.

| component | state | operations | interacts with | hard | correct when | module |
|---|---|---|---|---|---|---|
| Card payments | receipts, items, transactions (`intent_id`, `charge_id`, `cancelled`), attendee status, intents at Stripe | prereg cart, pay, confirm, cancel, webhook, poll, four-day invalidation | Stripe, badges (status) | retries, late and repeated webhooks, shared intents, two commits per mark | rows say paid only what Stripe holds; what Stripe holds is recorded; payers are admitted | `Payments` |
| Refunds | `refunded`, refund rows, credits, fees, closed receipts | full refund, several at once, comp, undo, settle, refresh | Stripe, receipts | a refund at Stripe comes before its record; errors half way; shared charges | books match Stripe; cancelled registrations are even | `Refunds` |
| Badge numbers | `BadgeInfo` rows: holder, active, picked up, lost; ranges | save, check-in and undo, lost, activate, group creation, daily task | registration form, check-in desks, configuration | two desks pick the same number; long sequences of swaps; changing ranges | a number is not taken from its holder; one current number each | `Badges` |
| Attraction sign-ups | sign-ups, waiting lists, slots, notifications | sign up, cancel, staff sign-up, pull, check-in, slots, notices, replies | SMS and email tasks | counting without locks; messages queued before the commit | no overbooking; order of the waiting list; told means let in | `Attractions` |
| Receipt ledger | items, manual transactions, closing | add, remove, move, close | payments, refunds | closing by balance | balance is what is owed | parts in `Payments`, `Refunds`, `TerminalSale` |
| Promo codes | uses per code, groups of codes | check over a cart, use, claim, delete | payment of a cart | the lock on a code ends before the use is stored | no code is used more than it may be; carts do not wait for each other for ever | `PromoCodes` |
| SPIn terminals | sales in Redis, trackers, transactions | sale, poll, check, void | terminals, pickup groups, receipts | lost answers, partial approvals, one hash per terminal | a charge is recorded, and once | `TerminalSale` |
| Badge print queue | print jobs: queued, locked, printed, ready | add, reprint, next (locked), fetch, done, invalidate | registration desk, receipts, printer clients | two pages of a printer, fees in a second commit | a badge is handed out once per job, and paid for | `PrintQueue` |
| Shifts | jobs, slots, shifts, hours | sign up, assign, drop, edit a job | staffing pages, admin pages | slots are compared without a lock, jobs move | slots are not exceeded, no overlaps | `Shifts` |
| Groups and dealers | groups, badges, dealer status | claim, drop, add, resize, decline, convert | payments, badges | unassigned badges claimed at once, one commit per converted badge | a group pays for the badges it has; no holder loses a badge | `Groups` |
| Badge pickup groups | groups of registrations | pay for a group, check it in | terminals, print queue | a commit per member | members are charged once | parts in `TerminalSale`, `PrintQueue` |
| Badge transfers | pending rows, transfer codes | start, transfer, abandon | registrations, receipts | two commits, two handlers | one registration gains, one loses | `Transfers` |
| Automated emails | emails, approvals, record of sent ones | run, approve, withdraw | all models, SES | overlapping runs, locks that stay on a connection | one email of a kind per row; what was approved is sent | `Emails` |
| Hotel lottery | entries, room groups, awards | apply, join, leave, solve, award, reset, decline | OR-tools solver | entries change while the lottery is solved | members have a leader; awards within the rooms | `HotelLottery` |
| Art show | pieces, invoices, payments | close out, claim, pay, close, reopen, check in and out | receipts, terminals | forms with old statuses, a sale booked in a second commit | a piece is paid if and only if its sale is booked | `ArtSales` |
| Authorize.net | held transactions | charge, hold, release | payments | release loop over charges | held money is released for its own row | no |
| Registration workflow | badge status, payment status, deferral | approve, defer, delete, import | all of the above | status set by several handlers | statuses and payments agree | parts in `Payments`, `Groups`, `Transfers` |
| API and import jobs | queued jobs | import | registrations | repeated jobs | one registration per import | no |
| Guests, panels, schedule; showcases, marketplace | forms over rows | edit, approve | payments for their receipts | little of their own | | no |
| Accounts, permissions, sessions | accounts, roles, login sessions | log in, grant | all pages | | | no: only the transaction per handler |
| Tracking, watch list | append-only log, names | record, match | flush | | | no |
| Forms, validation, reports, pages | none of their own | check, format, show | | | | no: input is taken as valid |
| Configuration, migrations, deployment | constants, schema | start, migrate | | | | no: constants |

The hazards that come with this, each at its line, are in `PROJECT.json` under
`hazards`, with the properties that guard against them.

## 3. Payments

`Payments.tla` follows `payments.py` (`ReceiptManager`, `TransactionRequest`),
`models/commerce.py` and the handlers that use them.

* **State.** `receipt`, `item`, `amount`, `charged`, `cancelled` are the tables
  `model_receipt`, `receipt_item`, `receipt_transaction`. A transaction is named
  by its receipt and its intent, since `create_payment_transaction` makes one
  per receipt of the cart and intent. `status` and `hasPaid` are the attendee's
  `badge_status` and `paid`. `stripe` and `captured` are the intents at Stripe.
* **Marking.** `mark_paid_from_ids` is `MarkQuery` (the query), `MarkTxn` (commit
  of `charge_id`, once per row) and `MarkModel` (commit of the attendee, then
  `check_receipt_closed`). The webhook, the half-hourly poll, and the refresh in
  `prereg_payment` and `confirm` all start it.
* **Paying.** `PreregPayment`, `PreregIntent` and `CommitPayment` are
  `prereg_payment`: refresh, replace receipts and create an intent, commit.
  `Confirm`, `ConfirmView` and `ConfirmAmend` are the confirmation page, which
  changes amounts at Stripe. `ProcessAttendeePayment` is the page of the same
  name.
* **Cancelling.** `CancelPayment` and `CancelReceiptTxn` read, `CancelCommit`
  writes.
* **Environment.** The customer pays (`StripeSucceeds`), a registration is
  upgraded, four days pass (`InvalidatePending`), a process is killed.

`CardPayments.tla` says what all this promises, without handlers: rows are asked
for before their intent is taken, taken intents stay taken, only rows of taken
intents are paid, and attendees are admitted after a row of theirs is paid.
`Payments` implements it (`Promise`, `ImplementsCardPayments`): `asked` are the
rows committed for an intent, `taken` the intents that succeeded, `paid` the
rows with a `charge_id`, `admitted` the attendees taken for paid.

| run | instance | shows |
|---|---|---|
| `payments_cart` | cart of two, one receipt each, 2 handlers, 2 intents | money backs charges, closed items and admissions; rows of a shared intent add up to what Stripe takes; every step is one of `CardPayments` or none |
| `payments_serial` | one attendee, two receipts, 2 intents, 1 handler, a crash | a completed payment is not left cancelled when handlers do not overlap |
| `payments_recorded` | cart of two, 1 intent, 2 handlers, a crash, fairness | what Stripe took is recorded in the end; nobody stays pending with a paid receipt unless a handler was killed |

Two handlers are enough for one to read, the other to commit, and the first to
write; two receipts are the least with a shared intent; two intents the least
with an old one that is still payable.

*Seen while modelling*, each a few changes to a `.cfg` away: with `"upgrade"`
among the requests of `payments_cart`, the confirmation page of one registration
gives the shared intent its own amount; a handler killed between the two commits
of a mark leaves the attendee pending for good, as the next query no longer
finds the row (`payments.py:1820`).

*Fairness.* `WF(Continue(w))`: a handler that is not killed runs to its end, as
CherryPy's threads do. `SF` of the webhook for a succeeded intent: Stripe
repeats an event for days until it is acknowledged, and `stripe_webhook_handler`
answers 400 to what it could not match. Nothing is assumed of customers, admins
or the poll.

*Proved* (`PaymentsProofs.tla`): `TypeCorrect`, `HandlersCorrect`,
`ChargesAreBacked`, `ClosedItemsHaveCharges`, `AdmittedHaveCharges`, each as
`Spec => []...` for any number of attendees, receipts, items, intents, handlers
and crashes, from `ConstantsAssumption`. None of these is inductive alone: an
item is closed and an attendee admitted because of what a handler *remembers*,
so the inductive invariant `IInv` also has `HandlersSound`: an intent to be
marked has succeeded, the rows to be marked exist, and the row just committed is
charged. Each action preserves the conjuncts because charges are never removed
and an intent that succeeded stays so (`Grows`).

`PaymentsImplementCardPayments` is the refinement, `Spec =>
ImplementsCardPayments`, for the same constants: the initial states map to
initial states (`InitPromise`), and every action asks, takes, records or admits
as `CardPayments` allows, or changes nothing of it (`PromiseStep`). It needs one
more invariant, `IntentsSound`: a row is made only for an intent that Stripe has
created, and what each handler knows of the intent it records rows for
(`CommitSound`), changes (`AmendSound`) or whose row it marks (`LoadSound`) is so.

`OneHandlerCancels` proves `CompletedNotCancelled` where there is one handler,
the least that it is true for: the handler remembers of the row it marks whether
it was cancelled, and this and the uncharged rows it is about to cancel stay as
it read them only while nobody else works (`JobCurrent`).

`RecordedIsCaptured` proves `RecordedMatchesCaptured` for all requests but
`"upgrade"`, more of them than the run has. What a receipt costs never changes
once it has items (`PricesSound`), so it owes all of it or nothing
(`OwedIsTotal`), no row is ever out of date (`NothingOutOfDate`) and no intent
is repriced. The rows of an intent are written in one commit and add up to what
it was made for (`BillSound`, `RowsAddUp`), across receipts. With upgrades it is
not so: a confirmation page reprices the intent at Stripe before it commits the
new row, and for its own receipt alone.

*Only model-checked:* the liveness properties.

*Left out:* invalid Stripe ids; two browsers that replace the receipt of one
account's cart at the same moment (`PreregIntent` reads the receipt it keeps and
commits its replacement in one step); when several receipts of a cart would
reprice one intent, any one of them is taken. An admin's cancellation that
overlaps a payment leaves the row both charged and cancelled
(`site_sections/reg_admin.py:643`), hence the single handler of
`payments_serial`.

## 4. Refunds

`Refunds.tla` starts from paid receipts. `RowsOf(c)` are the payments of one
charge, a cart's; `RowsOn(p)` those of one receipt.

* `ProcessFullRefund` and `CancelMultiple` begin with `CancelAndRefund`
  (`cancel_and_refund`): what to refund of each charge, credit for what is left
  of the items, fees to be kept. The first is one transaction that ends early,
  but committed, at the first error; the second (`cancel_multiple`,
  `abandon_badges`) commits charge by charge and at last closes the receipts
  whose refunds all went through (`CommitCancelled`).
* `CompRefundReceiptItem` validates, commits the credit, refunds;
  `UndoRefundReceiptItem` commits the credit first. `SettleUp` refunds what is
  owed. `RefreshReceiptTxn` takes over what Stripe says.
* `ValidateTxns` is `RefundRequest` with `validate_or_add_txn` and
  `update_amount_refunded`: a row counts as refunded what Stripe says of the
  charge less what the other rows say. `StripeRefunds` is the refund and
  `Recorded` what is booked for it; `RefundError` the refusal.

`refunds_desk` runs every handler in any order, one at a time, for two
registrations bought together of which one has a second charge, with refused
refunds, one killed handler and one refund made at Stripe. It shows that refund
rows never add up to more than what `refunded` counts, and that never to more
than the payment (`BookedIsTracked`), that the rows of a charge never count more than Stripe gave
back (`TrackedIsReal`), that unless a handler was killed no refund is missing
from the books, however many refunds of a cancellation were refused
(`RefundsAreBooked`), and that a cancelled registration is even
(`ClosedIsSettled`). Two rows on a charge and two charges on a receipt are the
least with which rows can be confused and a cancellation can fail half way;
amounts of two can be refunded in parts.

`refunds_fees` (violation): with fees kept, as is the default, cancelling two
registrations of one cart books the whole payments although less was refunded.

What holds only with these bounds, and why: with two handlers at once two admins
can refresh the same transaction and book its refund twice
(`site_sections/reg_admin.py:673`). After a killed handler, a refresh of another
row of the charge takes the lost refund over, and the first row can be refunded
again from the other's money; TLC shows this when a history variable counts
what was refunded for each row. With fees, a receipt with two charges is charged
the fee of the last one only (`payments.py:1513`), so that `ClosedIsSettled` is
stated without fees.

*Proved* (`RefundsProofs.tla`): `RefundTypeCorrect` for any number of handlers
and any fees; and, for one handler at a time and no fees kept
(`Workers = {w}`, `StripeKeepsNothing`), the four properties of `refunds_desk`
for any number of charges, rows and receipts, of killed handlers and of refunds
made at Stripe: `RefundsOnReceiptsAreCounted`, `CountedRefundsAreReal`,
`OneHandlerBooksRefunds`, `OneHandlerSettlesCancelled`. These two conditions are
the ones under which the properties are true at all (see above). A refund is at
Stripe long before it is on the rows, so the invariant has two parts.
`LedgerSound` is about what is committed. `JobSound` is about what the handler's
session would write if it were committed now: its refunds with those already
counted are at most, and if nothing was disturbed exactly, what Stripe refunded
of the charge (`CountsSound`); a charge still to be refunded has not been touched
(`TodoSound`); what it is about to ask for is what its rows have left
(`PaySound`); and the credits and the receipts to close follow the refunds
(`CreditSound`, `CloseSound`). The totals are sums over sets of rows of any size;
`SumTheorems.tla` proves what is needed of them (section 17).

*Left out:* manual transactions, moving items, transactions and receipts, the
refund of a promo code to its group's leader, refunds and voids at terminals;
departments (all rows are of the one that is refunded).

## 5. Badge numbers

`Badges.tla` has one `BadgeInfo` row per number, made by the daily task
(`create_badge_nums`) from the configured ranges. A handler collects its writes
in a set of changes (`Changes`) and commits them (`Commit`): `Assign` and
`Unassign` are `BadgeInfo.assign` and `unassign`, `SetNumber` the setter
`badge_num`, `UpdateBadge` the session's `update_badge`. Check-in commits the
number first and then reads the badge again (`CheckIn`).

`badges_desk` runs every operation in any order with one handler, two attendees,
two types and two numbers, while ranges come to overlap: numbers are not taken
over, nobody has two current badges, a saved registration of a preassigned type
has a number while there is one, and the daily task completes the ranges. Two
numbers and two attendees are the least for a swap and for running out. With
`Workers = {w1, w2}` TLC finds `NoTakeover` violated: both find the same number
free, and the later commit takes it over (`models/__init__.py:1548`).

*Fairness:* `WF(CreateBadgeNums)`, a task on Celery's daily schedule.

*Proved* (`BadgesProofs.tla`): `BadgeTypeCorrect` for any number of handlers, and
`OneHandlerTakesNothingOver`: where there is only one handler, `NoTakeover` holds
for any attendees, numbers and ranges. The invariant is `TypeOK` with
`TakesAreFree` (what a handler is about to take is free), which one handler
keeps since a row it takes was free when it read it and only its own commit
writes. `OneHandlerLeavesOneBadge`: with one handler, nobody has two active
badges (`OneActiveNumber`), whatever is lost, replaced and made active again;
its invariant says of the changes a handler collects that they would leave each
attendee one badge (`OneBadge`), helper by helper. `SavedAreNumbered` proves
`SavedHasNumber` on top of that invariant, for registrations that are added one
by one: `update_badge` gives a number up only together with the search for
another (`AdjustNumbers`), and a number that was just set is kept
(`SetNumbers`). It needs `OneActiveNumber`, since `update_badge` takes nothing
for an attendee who has two. *Only model-checked:* `RangesCovered`.

*Left out:* the deadline for printed badges, deleted attendees, transfers.
*Seen while modelling:* with groups saved in one commit an unassigned number may
be given to two members, as `BadgeInfo.assign` returns silently for the second
(`models/attendee.py:168`); and ranges that grow downward after a run of the task
that had nothing to add are not completed, since that run adds a row with number
0 (`tasks/registration.py:69`).

## 6. Attraction sign-ups

`Attractions.tla` numbers the sign-ups in the order they are made. A handler
reads (`SignupForEvent`, `CancelSignup`, `SignUp`, `PullFromWaitlist`, ...), a
cancellation then looks for the next one on the waiting list and queues the
message (`AddNextWaitlist`), and `Commit` writes. A commit is refused when a
row it updates is gone or when the attendee has a sign-up for the event already;
a deleted row may be deleted again (`Commits`). `fresh` is a history variable:
nothing was committed since the handler began. Notices and replies are the tasks
of `tasks/attractions.py`, each one step for one row.

`signups` has two handlers, three attendees, two events that exclude one
another, one with a waiting list. For handlers with fresh data: sign-ups and
cancellations do not overbook, an attendee gets one of the exclusive events, and
a place that is given up is passed on. In any case whoever a cancellation lets
in has waited longest. Without the condition on fresh data TLC finds the first
three violated by two handlers that read the same rows. Three rows are enough
for one place and two who wait. The staff's `PullFromWaitlist` is left to
`attractions_messages`, and to the proof that it keeps the order of the list.

`attractions_messages` has all requests, with check-in, tasks, replies and a
killed server, two attendees and two rows, under fairness (`WF(Continue(w))`, as
above): whoever was told that they are off the waiting list comes off it unless
the handler was killed before its commit.

*Proved* (`PlacesProofs.tla`): `AttractionTypeCorrect`, and
`CancellationsKeepOrder`, `Spec => LetInInOrder` for any number of attendees,
events and handlers. The action property needs an invariant about handlers in
flight: `NextIsFirst` says that the row a cancellation is about to let in is, as
long as it waits, the first that waits. That is kept because rows are made in
the order of their numbers (`UnusedLast`), never start to wait again, and keep
their attendee and event (`Owned`, `RowsMove`).

`NobodyOverbooks`, `PlacesArePassedOn` and `ExclusiveEventsExclude` prove
`NotOverbooked`, `PlacePassedOn` and `OneOfExclusive`, again for any number of
handlers and with all requests. Their invariant, `FreshIsTrue`, is what `fresh`
stands for: whatever a handler read that no commit has overtaken (that there is
a place, that the attendee has no event that excludes this one, who waits first)
is still so. A commit then makes one row (`SignupMakes`), or deletes one and
lets in one for it (`CancelMoves`). *Only model-checked:* `ToldIsLetIn`.

*Left out:* editing and deleting attractions, features and events; reminders;
opting out. Replies are to the newest text. *Seen while modelling:* the first
notification of an attendee who chose texts is recorded as an email
(`tasks/attractions.py:222`), so that their reply to it is ignored; a reply by
text deletes a sign-up without letting in the next; more slots let nobody in.

## 7. Groups and dealers

`Groups.tla` is one dealer group: the `badge` rows with their place (in the
group, apart, brought along), holder, status and who pays; the `group` row; and
per handler what it read, the rows it will write and the change of the group's
bill. Requests read and compute (`SubmitClaim`, `UnsetMember`, `AddMembers`,
`FindMember`, `AdminForm`, `PurchaseBadge`), `WriteRows` commits the columns they
set with the adjustments made before a save, and `ConvertBadge` is one turn of
the loop that makes the badges of a declined group their own (`dealer_admin.py`),
with its commit. The task (`ConvertDeclinedGroups`, `tasks/groups.py`) starts
that loop again every twelve hours.

`groups_members`: a group of two badges at most, one handler that serves every
request beside one that runs the task (`Desk` in `MCGroups`), a kill between two
commits. With commits of current data (`fresh`): badges do not
grow faster than the bill (`BilledForBadges`), a declined group has no new valid
badge (`DeclinedHaveNoBadge`), no badge is taken from its holder
(`HolderKeepsBadge`). Whatever fails or is killed, a group left to the task is
converted to the last badge (`DeclinedAreConverted`). Two badges are the least
of which one is held and one is free, or of which one is converted before the
other.

*Fairness:* `WF` of a handler's next step, as above; `SF` of the task, which
Celery beat starts again and again.

*Seen while modelling:* nothing locks a badge of a group, so that two people who
fill in the form of the same unassigned one (`preregistration.py:1413`), or a
badge dropped by a handler whose data is old (1503), break the safety properties
without the condition on fresh data.

*Proved* (`GroupsAndCodesProofs.tla`), for any people, badges, handlers and
requests: `GroupTypeCorrect`, `GroupIsBilled` (`BilledForBadges`) and
`HoldersKeepTheirBadges` (`HolderKeepsBadge`). These are properties of what is
committed, and it was computed some steps earlier, so `GroupInv` says what a
handler knows of the rows it holds: whatever the others do, the numbers it writes
stay in use, and it only lets go of badges the group does not pay for (`Knows`);
and while it was not overtaken, what it will write is billed (`PaidFor`), valid
only where it may be (`NotValid`), keeps its holders (`HoldersKept`) and goes to
rows that are there (`NoneLost`). Every request reads rows of that kind
(`ReadSound`), and every commit of another keeps what the rest know. TLC checked
`GroupInv` on the instance of the run before it was proved.

`OneClerkDeclines` is `DeclinedHaveNoBadge` for one handler of requests beside any
number that run the task, as in the run. With two it is false: a handler that
declines a group without badges has nothing to read again, and does not see the
badge the other adds before the status is written. The proof adds that the task
makes no badges and starts on a group that has some (`TaskSound`), and that a
group without badges is declined as such (`EmptySound`).
*Only model-checked:* `DeclinedAreConverted`.

*Left out:* groups that are not dealers', leaders, deleting a group, tables and
their prices.

## 8. Promo codes

`PromoCodes.tla`: carts of registrations with the code they `entered` and the one
they `picked`, `reg` for what is stored, `rowLock` for the locks of `FOR UPDATE`.
`CheckCode` is one turn of the loop over the cart with `check_promo_code`: it
locks and counts, picks another code of a group, fails, waits, or is the victim
of a deadlock. `WriteImmediate` ends a free cart or one paid at the door in the
transaction that holds the locks; `WritePending` is `prereg_payment`, whose
earlier commits drop them, and `PaymentArrives` makes its registrations count.

* `promo_double_use` (violation): two carts paid by card use the last use of one
  code, although the docstring says that the lock prevents this
  (`payments.py:306`).
* `promo_locks`: two carts that lock two codes in opposite orders, beside a badge
  claimed with a code. Carts that hold their locks to the end do not exceed a
  code (`LockedUsesFit`), no cart that was written does so alone, also where
  several of its registrations could pick the same code (`CartUsesFit`), and
  every check comes to an end (`CheckoutEnds`). Two carts with two codes are the least for a
  deadlock; one use is the least that can be exceeded.

*Fairness:* `SF(CheckCode)`: PostgreSQL gives a lock to who waits and ends
deadlocks; `WF` of the writes.

*Proved* (`GroupsAndCodesProofs.tla`), for any number of carts of any length, codes
and uses: `PromoTypeCorrect`, `CartsUnderLockFit` (`LockedUsesFit`) and
`EachCartFits` (`CartUsesFit`). The invariant `PromoInv` says of each cart that what it
has passed and what it has written fits by itself (`UsesSound`), that while it was
given no other code it holds the rows of all codes it has passed (`LocksSound`),
and that they have room for it beside what the others have written (`RoomSound`):
the rows it holds keep the others from adding to them. *Only model-checked:* `CheckoutEnds`.

*Left out:* making and editing codes, expiry, codes without a limit. A
registration that was given another code of its group is left out of
`LockedUsesFit`: the row of the new code is not locked (`payments.py:312`).

## 9. Badge transfers

`Transfers.tla`: `holder` rows, `receiptOf` each purchase, `refunded`. A desk
reads the rows, commits both, and in a second commit moves the receipt
(`preregistration.py:1736`, 1801). In `offices`, along chains of up to three
holders, with transfers both ways, abandoning and picking up by two handlers:
`BadgeForMoney`, one valid badge for a purchase that was kept and none for one
that was refunded. Three rows are enough for a transfer of what was transferred.
Left out of it are handlers that overlap on a badge, for which TLC finds two
badges, and one killed between its commits, which nothing repairs.

*Proved* (`OfficesProofs.tla`), for any purchases, holders and desks:
`TransferTypeCorrect`, and `OneBadgeForTheMoney` (`BadgeForMoney`). Between its
two commits a transfer has moved the badge and not the receipt, so the invariant
says which receipt a desk is to move, that it is still that of the old row, and
that no other desk moves it (`MoveSound`); of all other purchases the owner of
the receipt has the badge (`PurchaseSettled`).

## 10. Badge print queue

`PrintQueue.tla`: jobs, the receipt items of their fees, the desk's handlers,
pages that take the next job under a row lock (`get_next_badge_to_print`), and
clients of the API that fetch without one. In `offices`: `HandedOutOncePaid` (a
page never prints a job twice, nor one that is not paid) for any overlap, and
`FeeMatchesJob` (a fee is charged and credited once) while handlers do not
overlap on a job, none is killed between its two commits, and the job is not made
invalid through the API. Two jobs are a badge and its reprint; two pages are the
least for a race.

*Proved* (`OfficesProofs.tla`), for any number of jobs, desks, pages and clients:
`QueueTypeCorrect`, `JobsAreHandedOutOncePaid`, `FeesMatchJobs`. The invariant
`QueueInv` adds who may hold which job: a page holds one that is pending, was
never handed out and is held by no other page (`PrinterSound`, which the row lock
gives), and a job with a fee is ready only once its item is closed (`JobSound`).

## 11. Shifts

`Shifts.tla`: `assign` checks the slots, overlaps and hours in a row, and commits
(`models/__init__.py:1986`); jobs are edited and deleted under those who work
them. In `offices`, with three jobs that follow one another in two departments:
`ShiftsFit`, no overlap, no stretch of work beyond a job's limit, no more
volunteers than slots, unless two assignments were checked side by side or a job
was edited with shifts on it. Three jobs are the least for a stretch that a job
in its middle joins.

*Proved* (`OfficesProofs.tla`), for any volunteers, jobs, hours and slots:
`ShiftTypeCorrect`, `ShiftsStayFit` (`ShiftsFit`). The property is inductive as
it stands. What takes the lemmas is that the code looks at the hours around the
new job only: a stretch of work that the new job makes too long contains that
job, so it is the one looked at, and any other was there before
(`StretchOverJob`, `OneMoreShiftFits`).

## 12. Card terminals

`TerminalSale.tla` is one terminal of a registration desk. `StartTerminalPayment`
resets the hash in Redis, the Celery task sends the sale (`SendSale`), the
terminal approves all or part, with or without a signature, or declines;
`TakeAnswer`, `VoidSale`, `FitRows`, `MarkRow` and `LogSuccess` are the task's
work on the answer with its commits, `LoseAnswer` its timeout. The browser polls
(`PollError`, `PollSuccess`) and may ask what became of the last sale
(`CheckTerminalPayment`). With Authorize.net online, `get_last_incomplete_txn`
only cancels rows.

In `offices`, two sales to two members of a pickup group that owe 1 and 2: the
rows of a sale that is over add up to what the card was charged
(`RecordedIsCaptured`), and sales that follow one another do not charge more than
is owed (`ChargedOnce`). A receipt of two can be paid in part; two sales are the
least for a retry. Exempt are overlapping sales, polls during a partial
approval (`registration.py:426`, TLC finds charged rows cancelled), sales whose answer is
lost and not checked, and killed processes.

*Proved* (`SalesProofs.tla`), for any number of sales, buyers, costs and kills:
`TerminalTypeCorrect`, `SalesAreRecorded` (`RecordedIsCaptured`),
`BuyersAreChargedOnce` (`ChargedOnce`). The invariant follows a sale and its rows
stage by stage (`SaleSound`), the hash, which is about the one sale in flight
while sales do not overlap (`InTurn`), and says that no buyer is asked for more
than the other sales left (`OwedSound`). That the rows of a partial approval add
up to what was captured, and that what is recorded by sale is what is recorded
by buyer (`SumExchange`), rests on `SumTheorems.tla`.

*Left out:* refunds and settlement at the terminal, the second try of a sale
with a duplicate reference, two checks at once; amounts within five cents are
not told apart.

## 13. Automated emails

`Emails.tla` follows `send_automated_emails` (`tasks/email.py`): runs of several
processes overlap, each with the approvals and rows it read when it began. For
each email a run takes an advisory lock, reads the record of sent mails under it,
calls SES and commits the record. The lock belongs to the connection and is not
released: it stays when the connection goes back to the pool.

In `offices`, one email to one recipient, a process with two connections and one
with one, a kill: `SentOnce` (once more per process killed) and `ApprovedIsSent`
(what stays approved and due is sent). Two connections in one process are the
least for a lock to wait in the pool while its process works on.

*Fairness:* the task is started every 15 minutes and its runs go on
(`WF`); SES does not refuse a mail for ever (`SF(SesTakes)`); the pool closes a
connection after its recycle time (`config.py:1800`, 3600 s; the comment beside
it says 10 minutes), hence `WF(Recycle)`, without which `ApprovedIsSent` fails.

*Proved* (`OfficesProofs.tla`), for any emails, recipients, processes and
connections: `EmailTypeCorrect`, `MailsAreSentOnce` (`SentOnce`). The invariant:
the mails a run is to send are locked by its connection and not recorded
(`RunSound`), so no two runs are about to send the same one, and a mail that was
sent is recorded or about to be, apart from one sending for each kill
(`Counted`).

*Seen while modelling:* approvals are read at the start, so that a withdrawn one
still sends for the length of a run; a filter that raises ends the run;
`tasks/email.py:203` asks for `shared_ident`, which `AutomatedEmail` does not
have.

## 14. Hotel lottery

`HotelLottery.tla`: an entry is of its own or in the group of another. The
lottery reads the entries, solves for minutes and writes the winners back; awards,
resets and declines follow. The solver is any choice of winners within the rooms.

In `signups`, three attendees, one room, at most three lotteries or requests that
take something back: members have a leader (`MembersHaveLeader`), and no request
gives a room twice (`RoomsFit`). Three attendees are a leader and two members;
three changes are a lottery, a reset and another lottery.

*Proved* (`PlacesProofs.tla`), for any number of entrants, rooms, requests and
lotteries: `LotteryTypeCorrect`, `GroupsKeepTheirLeader` (`MembersHaveLeader`),
`LotteriesFitTheInventory` (`RoomsFit`). `LotteryInv` adds which lodging goes
with being in a group and with an award (`RowSound`), and that the winners of a
lottery whose data is not stale are within the rooms left today
(`SolutionFits`).

*Seen while modelling*, and left out of the properties by history variables:

* `_disband_room_group` takes members out of the list it walks and passes over
  every second one (`site_sections/hotel_lottery.py:74`), although the page says "disband your
  group" (`withdraw_confirm.html:38`);
* a member put out of a group that won keeps the award (line 92);
* the lottery overwrites what changed while it was solved
  (`hotel_lottery_admin.py:510`);
* a group found by a search may be disbanded before it is joined, and the form of
  the terms lets the leader of a group join another.

Not modelled, but seen: `run_lottery` counts what was awarded by the type of the
room only, so that suites given earlier are not subtracted;
two joins at once exceed the size of a group, for which the solver has no entry;
with a guarantee in hours `award_lottery` calls `.date()` on a `timedelta`;
`hotel_lottery_eligible` excludes the watched status in Python and not in SQL
(`models/attendee.py:2418`).

*Left out:* suites apart from rooms, the staff lottery, the first-round waiting
list, the admin form, kills between the commits of a disbanding.

## 15. Art show

`ArtSales.tla`: a piece is closed out with its winning bid, claimed on the
invoice of a buyer, paid for, and booked when the invoice is closed, which marks
the pieces (`CloseReceipt`) and books the sale in a second commit (`BookSale`);
an invoice can be reopened. An artist's check-in and check-out writes back every
status its form showed (`OpenForm`, `SaveAndCheckInOut`).

In `offices`, one piece with a quick sale and a higher bid, two buyers, two
invoices, one payment, one reopening: `SalesAreBooked`, a piece is paid if and
only if its price is in the one sale booked for its buyer. Two invoices are the
least for a piece to move from a closed one. With two pieces, one buyer and the
same other bounds the property holds as well (793,846 states).

*Proved* (`SalesProofs.tla`), for any number of pieces, prices, buyers, invoices,
payments and desks: `ArtTypeCorrect`, `SalesAreBookedOnce` (`SalesAreBooked`).
The invariant `ArtSound` follows an invoice from open, where nothing of it counts
as paid, to being closed, where all of it does and the sale is still missing, to
booked, and back (`ReceiptSound`); no two desks close the same one. Every other
step leaves the pieces that count, and the cash of closed invoices, as they are
(`SamePieces`, `SameReceipt`).

*Seen while modelling*, and left out of the property: a form that shows a piece
as sold or in quick sale puts a paid piece back, as only hung ones are guarded
(`art_show_admin.py:475`), and another buyer can claim it; an invoice whose
closing was killed has no sale until it is reopened. *Besides:* a piece without
bids stays on its invoice, is marked paid at price 0 and stays so when it is
reopened (192); `unclaim_piece` compares cents with dollars (1146);
`print_receipt` does not look at what is owed (1228); a card payment counts
before it is confirmed (1310); the payments of invoice 10 count as invoice 1's
(1265).

## 16. The composed runs

`MCSignups` and `MCOffices` hold modules that share no state: each initial state
opens one of them, and only that one works, so that the run is the sum of their
instances and not their product. `OfficesTypeOK` are the type invariants of the
six modules of `offices`. `OfficesTypesHold` (`SalesProofs.tla`) proves it for
any values of their constants: every behaviour of `MCOffices` is one of each of
the six specifications (`OfficesActs`), so the theorems about each office hold
in the composed run as well. All other type invariants are proved for their own
modules.

## 17. Not modelled, and the plan

Proved so far: every type invariant; every safety invariant that a passing run
checks; the refinement of `CardPayments`; and every action property. Where a
property is false for handlers that overlap, with fees or with upgrades, the
theorem says which handlers or requests it is meant for, as the run does.

Sums and counts over sets are proved about as far as these need it.
`SumTheorems.tla` has the facts about `SumFunctionOnSet` of the community
modules: that the fold is defined (`AddsExists`), that its order does not matter
(`SumWithout`), and how sums compare, split and change (`SumSame`, `SumApart`,
`SumChanged`, `SumExchange`). The library's induction theorems take an operator
and cannot be used, so induction over a finite set is a smallest counterexample
(`SubsetInduction`).

Liveness and `ENABLED` are out of the provers' reach and stay with TLC:
`ApprovedIsSent`, `CheckoutEnds`, `DeclinedAreConverted`, `RangesCovered` and
the liveness properties of `Payments` and `Attractions`. None of the modules
declares a recursive operator.

Models next:

* import jobs: `queued` is committed only after the job (`utils.py:1725`), so
  that runs that overlap or are killed import twice;
* Authorize.net holds: only the last row of the loop is released
  (`tasks/registration.py:557`);
* in `PreregIntent`, the read of the old receipt apart from its replacement;
* refunds at terminals and of promo code groups.

Not modelled for good: forms, validation, pages, reports, configuration,
migrations, and the data classes of guests, panels, showcases and marketplace.
They are most of the 78,836 lines of the program and compute or show data without
an order of events that could go wrong. The models stand for the few thousand
lines in which handlers, tasks and outside services interleave.

## 18. How to run

`tlc -config <run>.cfg <module>` in this directory checks a run (`PROJECT.json`
lists the module of each under `runs`); a violation run is expected to print a
counterexample. The longest take a few minutes. `tlapm <module>.tla` checks
the proofs of `SumTheorems` and of a module whose name ends in `Proofs`. The
definitions called *Faulty* are mistakes the code could have
made; put in place of the definition that follows them they break the property
they are meant for, which `PROJECT.json` lists under `mutants`.
`CHECK_DEADLOCK FALSE` is set where the instance may come to rest: sign-ups are
used up, a group is paid and settled, all carts are done, or everything is
refunded.
