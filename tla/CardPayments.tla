----------------------------- MODULE CardPayments -----------------------------
(***************************************************************************)
(* What card payments promise, whatever handlers, retries and crashes the  *)
(* program has in between: customers are asked for the rows of an intent   *)
(* once, before it can be paid; an intent that Stripe took stays taken;    *)
(* only rows of taken intents are recorded as paid; and an attendee is     *)
(* only taken for paid after a row of theirs was recorded.  Nothing of     *)
(* this is ever undone.                                                    *)
(***************************************************************************)
CONSTANTS
  Attendees,
  Receipts,
  Owner,     \* Owner[r]: the attendee receipt r is made for
  Intents

VARIABLES
  asked,     \* the rows <<r, i>> a customer was asked to pay
  taken,     \* the intents that Stripe took
  paid,      \* the rows recorded as paid
  admitted   \* the attendees taken for paid

vars == <<asked, taken, paid, admitted>>

Rows == Receipts \X Intents

TypeOK ==
  /\ asked \subseteq Rows
  /\ taken \subseteq Intents
  /\ paid \subseteq asked
  /\ admitted \subseteq Attendees

Init ==
  /\ asked = {}
  /\ taken = {}
  /\ paid = {}
  /\ admitted = {}

(* The receipts of a purchase, all at once.                                *)
Ask(i, rs) ==
  /\ i \notin taken
  /\ \A r \in Receipts : <<r, i>> \notin asked
  /\ asked' = asked \cup (rs \X {i})
  /\ UNCHANGED <<taken, paid, admitted>>

Take(i) ==
  /\ i \notin taken
  /\ \E r \in Receipts : <<r, i>> \in asked
  /\ taken' = taken \cup {i}
  /\ UNCHANGED <<asked, paid, admitted>>

Record(r, i) ==
  /\ <<r, i>> \in asked
  /\ i \in taken
  /\ paid' = paid \cup {<<r, i>>}
  /\ UNCHANGED <<asked, taken, admitted>>

Admit(a) ==
  /\ \E row \in paid : Owner[row[1]] = a
  /\ admitted' = admitted \cup {a}
  /\ UNCHANGED <<asked, taken, paid>>

Next ==
  \/ \E i \in Intents : Take(i) \/ \E rs \in SUBSET Receipts : Ask(i, rs)
  \/ \E r \in Receipts, i \in Intents : Record(r, i)
  \/ \E a \in Attendees : Admit(a)

Spec == Init /\ [][Next]_vars
===============================================================================
