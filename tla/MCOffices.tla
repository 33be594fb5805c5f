------------------------------- MODULE MCOffices -------------------------------
(***************************************************************************)
(* One run for the modules that share no state: badge transfers, the print *)
(* queue, volunteers' shifts, a card terminal, automated emails and the    *)
(* sales of the art show.  Each initial state opens one of these offices,  *)
(* and only that one works.                                                *)
(***************************************************************************)
EXTENDS Transfers, PrintQueue, Shifts, TerminalSale, Emails, ArtSales, TLC

CONSTANTS v1, v2, j1, j2, j3, b1, b2, p1, p2, n1, n2, n3, q1

VARIABLE office

(* Shifts: three jobs in two departments that follow one another.          *)
Details3(start, duration, dept, slots, extra15, limit) ==
  [start |-> start, duration |-> duration, dept |-> dept, slots |-> slots,
   extra15 |-> extra15, limit |-> limit]

BackToBack == (j1 :> Details3(0, 2, "ops", 1, TRUE, 4))
              @@ (j2 :> Details3(2, 2, "ops", 1, FALSE, 0))
              @@ (j3 :> Details3(4, 2, "tea", 0, FALSE, 5))
Rescheduled == (j1 :> {Details3(3, 2, "ops", 1, TRUE, 4)})
               @@ (j2 :> {Details3(2, 2, "ops", 0, FALSE, 3)})
               @@ (j3 :> {})

(* TerminalSale: one of two receipts can be paid in part.                  *)
OneAndTwo == (b1 :> 1) @@ (b2 :> 2)

(* ArtSales: a piece that may be bid on for more than its quick sale.      *)
QuickOne == [p \in Pieces |-> 1]

(* Emails: a process with two connections, and one with one.               *)
Pools == (p1 :> {n1, n2}) @@ (p2 :> {n3})

-----------------------------------------------------------------------------
OfficesInit ==
  /\ office \in {"transfers", "queue", "shifts", "terminal", "emails", "art"}
  /\ TransferInit /\ QueueInit /\ ShiftInit /\ TerminalInit /\ EmailInit /\ ArtInit

OfficesNext ==
  /\ UNCHANGED office
  /\ \/ /\ office = "transfers" /\ TransferNext
        /\ UNCHANGED <<queueVars, shiftVars, terminalVars, emailVars, artVars>>
     \/ /\ office = "queue" /\ QueueNext
        /\ UNCHANGED <<transferVars, shiftVars, terminalVars, emailVars, artVars>>
     \/ /\ office = "shifts" /\ ShiftNext
        /\ UNCHANGED <<transferVars, queueVars, terminalVars, emailVars, artVars>>
     \/ /\ office = "terminal" /\ TerminalNext
        /\ UNCHANGED <<transferVars, queueVars, shiftVars, emailVars, artVars>>
     \/ /\ office = "emails" /\ EmailNext
        /\ UNCHANGED <<transferVars, queueVars, shiftVars, terminalVars, artVars>>
     \/ /\ office = "art" /\ ArtNext
        /\ UNCHANGED <<transferVars, queueVars, shiftVars, terminalVars, emailVars>>

officesVars == <<office, transferVars, queueVars, shiftVars, terminalVars, emailVars, artVars>>

OfficesSpec == OfficesInit /\ [][OfficesNext]_officesVars /\ EmailFairness

(* The type invariants of the six modules.                                 *)
OfficesTypeOK ==
  /\ TransferTypeOK /\ QueueTypeOK /\ ShiftTypeOK /\ TerminalTypeOK /\ EmailTypeOK
  /\ ArtTypeOK
================================================================================
