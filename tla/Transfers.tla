------------------------------- MODULE Transfers -------------------------------
(***************************************************************************)
(* The transfer of a badge to another person.  Either the new holder makes *)
(* a pending row first and hands its code to the old one, who completes    *)
(* the transfer, or the old holder fills in the form of the new one.  Both *)
(* commit the rows first and the owner of the receipt after that.  A badge *)
(* may be abandoned, or picked up, meanwhile.                              *)
(***************************************************************************)
EXTENDS Integers, FiniteSetsExt

CONSTANTS
  Purchases,      \* 1 .. n: the badges that were bought
  MaxHolders,     \* bound: rows of attendees
  Transferable,   \* the purchases whose badge an admin made always transferable
  Desks,          \* bound: handlers in flight at once
  MaxDeskKills    \* bound: handlers killed

ASSUME TransferAssumption ==
  /\ MaxHolders \in Nat /\ MaxDeskKills \in Nat
  /\ Purchases \subseteq 1 .. MaxHolders
  /\ Transferable \subseteq Purchases

Holders == 1 .. MaxHolders
NoPurchase == 0
NoHolder == 0

VARIABLES
  holder,      \* holder[i]: row i of the attendees
  receiptOf,   \* receiptOf[p]: the row that owns the receipt of purchase p
  refunded,    \* the purchases whose money went back, with their receipts closed
  desk,        \* desk[d]: what handler d has read and is to write
  raced,       \* history: a handler wrote rows that had changed since it read them
  deskKills

transferVars == <<holder, receiptOf, refunded, desk, raced, deskKills>>

(* `hasCode` is whether the row can be found by its transfer code.         *)
Holder == [ state    : {"none", "pending", "valid", "invalid", "refunded"},
            purchase : Purchases \cup {NoPurchase},
            always   : BOOLEAN,
            pickedUp : BOOLEAN,
            hasCode  : BOOLEAN ]

Blank == [state |-> "none", purchase |-> NoPurchase, always |-> FALSE,
          pickedUp |-> FALSE, hasCode |-> FALSE]

Bought(p) == [Blank EXCEPT !.state = "valid", !.purchase = p, !.always = p \in Transferable]

NoDesk == [step |-> "idle"]

DeskJobs ==
  {NoDesk} \cup [ step : {"complete", "transfer", "abandon", "receipt"},
                  old : Holders, new : Holders, sawOld : Holder, sawNew : Holder,
                  receipt : Purchases \cup {NoPurchase} ]

TransferTypeOK ==
  /\ holder \in [Holders -> Holder]
  /\ receiptOf \in [Purchases -> Holders]
  /\ refunded \subseteq Purchases
  /\ desk \in [Desks -> DeskJobs]
  /\ raced \in BOOLEAN /\ deskKills \in 0 .. MaxDeskKills

TransferInit ==
  /\ holder = [i \in Holders |-> IF i \in Purchases THEN Bought(i) ELSE Blank]
  /\ receiptOf = [p \in Purchases |-> p]
  /\ refunded = {}
  /\ desk = [d \in Desks |-> NoDesk]
  /\ raced = FALSE /\ deskKills = 0

-----------------------------------------------------------------------------
(* What a handler reads                                                    *)

IsInherentlyTransferable(i) == holder[i].state = "valid" /\ ~holder[i].pickedUp

IsTransferable(i) == IsInherentlyTransferable(i) \/ holder[i].always

HasBadge(i) == holder[i].state = "valid"

(* Faulty: a badge that is not valid is found like any other.              *)
FoundAlways(i) == TRUE

(* session.attendee turns people away from a badge that is not valid; the  *)
(* pages are the attendees', and admins, whom it lets pass, are left out.  *)
Found(i) == holder[i].state = "valid"

(* The open receipt that the row owns, or none.                            *)
ReceiptBy(i) ==
  LET open == {p \in Purchases \ refunded : receiptOf[p] = i}
  IN  IF open = {} THEN NoPurchase ELSE CHOOSE p \in open : TRUE

FreshRows == {i \in Holders : holder[i].state = "none"}

Fresh == Min(FreshRows)

Reads(d, step, old, new) ==
  desk' = [desk EXCEPT ![d] = [ step |-> step, old |-> old, new |-> new,
                                sawOld |-> holder[old], sawNew |-> holder[new],
                                receipt |-> ReceiptBy(old) ]]

Idle(d) == desk[d] = NoDesk

-----------------------------------------------------------------------------
(* Requests                                                                *)

StartBadgeTransfer ==
  /\ FreshRows # {}
  /\ holder' = [holder EXCEPT ![Fresh] = [Blank EXCEPT !.state = "pending", !.hasCode = TRUE]]
  /\ UNCHANGED <<receiptOf, refunded, desk, raced, deskKills>>

BeginComplete(d, old, new) ==
  /\ Idle(d) /\ old # new
  /\ Found(old) /\ IsTransferable(old)
  /\ holder[new].hasCode /\ holder[new].state = "pending"
  /\ Reads(d, "complete", old, new)
  /\ UNCHANGED <<holder, receiptOf, refunded, raced, deskKills>>

BeginTransfer(d, old) ==
  /\ Idle(d)
  /\ Found(old) /\ IsTransferable(old) /\ HasBadge(old)
  /\ Reads(d, "transfer", old, old)
  /\ UNCHANGED <<holder, receiptOf, refunded, raced, deskKills>>

BeginAbandon(d, old) ==
  /\ Idle(d)
  /\ Found(old) /\ ~holder[old].pickedUp
  /\ Reads(d, "abandon", old, old)
  /\ UNCHANGED <<holder, receiptOf, refunded, raced, deskKills>>

PickUp(i) ==
  /\ HasBadge(i) /\ ~holder[i].pickedUp
  /\ holder' = [holder EXCEPT ![i].pickedUp = TRUE]
  /\ UNCHANGED <<receiptOf, refunded, desk, raced, deskKills>>

-----------------------------------------------------------------------------
(* What a handler writes                                                   *)

Stale(d) ==
  \/ holder[desk[d].old] # desk[d].sawOld
  \/ desk[d].step = "complete" /\ holder[desk[d].new] # desk[d].sawNew
  \/ ReceiptBy(desk[d].old) # desk[d].receipt

(* The columns of the old row that go to the new one.                      *)
Inherited(d) ==
  [desk[d].sawOld EXCEPT !.state = "valid", !.hasCode = FALSE]

HandOver(d, new) ==
  /\ holder' = [holder EXCEPT ![desk[d].old].state = "invalid", ![new] = Inherited(d)]
  /\ desk' = [desk EXCEPT ![d] = IF desk[d].receipt = NoPurchase THEN NoDesk
                                 ELSE [@ EXCEPT !.step = "receipt", !.new = new]]
  /\ raced' = (raced \/ Stale(d))
  /\ UNCHANGED <<receiptOf, refunded, deskKills>>

WriteComplete(d) ==
  /\ desk[d].step = "complete"
  /\ HandOver(d, desk[d].new)

WriteTransfer(d) ==
  /\ desk[d].step = "transfer" /\ FreshRows # {}
  /\ HandOver(d, Fresh)

(* Faulty: the receipt is detached from everybody.                         *)
ReceiptDetached(d) ==
  /\ desk[d].step = "receipt"
  /\ receiptOf' = [receiptOf EXCEPT ![desk[d].receipt] = NoHolder]
  /\ desk' = [desk EXCEPT ![d] = NoDesk]
  /\ UNCHANGED <<holder, refunded, raced, deskKills>>

(* Faulty: the receipt stays with the old holder.                          *)
ReceiptStays(d) ==
  /\ desk[d].step = "receipt"
  /\ desk' = [desk EXCEPT ![d] = NoDesk]
  /\ UNCHANGED <<holder, receiptOf, refunded, raced, deskKills>>

(* The second commit: the receipt changes hands, open or closed.           *)
MoveReceipt(d) ==
  /\ desk[d].step = "receipt"
  /\ receiptOf' = [receiptOf EXCEPT ![desk[d].receipt] = desk[d].new]
  /\ desk' = [desk EXCEPT ![d] = NoDesk]
  /\ raced' = (raced \/ ReceiptBy(desk[d].old) # desk[d].receipt
                     \/ holder[desk[d].new].state # "valid")
  /\ UNCHANGED <<holder, refunded, deskKills>>

(* A badge that was paid for is refunded first; what was refunded already  *)
(* is refused, and nothing is written.                                     *)
WriteAbandon(d) ==
  /\ desk[d].step = "abandon"
  /\ \/ /\ desk[d].receipt \in refunded
        /\ UNCHANGED <<holder, refunded, raced>>
     \/ /\ desk[d].receipt \notin refunded
        /\ refunded' = refunded \cup ({desk[d].receipt} \ {NoPurchase})
        /\ holder' = [holder EXCEPT ![desk[d].old].state = "refunded"]
        /\ raced' = (raced \/ Stale(d))
  /\ desk' = [desk EXCEPT ![d] = NoDesk]
  /\ UNCHANGED <<receiptOf, deskKills>>

(* The server process is killed.                                           *)
KillDesk(d) ==
  /\ ~Idle(d) /\ deskKills < MaxDeskKills
  /\ desk' = [desk EXCEPT ![d] = NoDesk]
  /\ deskKills' = deskKills + 1
  /\ UNCHANGED <<holder, receiptOf, refunded, raced>>

-----------------------------------------------------------------------------
TransferNext ==
  \/ StartBadgeTransfer
  \/ \E i \in Holders : PickUp(i)
  \/ \E d \in Desks :
       \/ \E old, new \in Holders : BeginComplete(d, old, new)
       \/ \E old \in Holders : BeginTransfer(d, old) \/ BeginAbandon(d, old)
       \/ WriteComplete(d) \/ WriteTransfer(d) \/ WriteAbandon(d)
       \/ MoveReceipt(d)
       \/ KillDesk(d)

TransferSpec == TransferInit /\ [][TransferNext]_transferVars

-----------------------------------------------------------------------------
(* Properties                                                              *)

BadgesOf(p) == {i \in Holders : holder[i].purchase = p /\ holder[i].state = "valid"}

(* Along any chain of transfers a purchase has one valid badge while its   *)
(* money is kept, and none once it went back, even if its badge is always  *)
(* transferable: except between the two commits of a transfer, or once     *)
(* handlers overlapped on one badge or one was killed between its commits  *)
(* (complete_badge_transfer, transfer_badge, abandon_badge).               *)
BadgeForMoney ==
  (/\ ~raced /\ deskKills = 0
   /\ \A d \in Desks : desk[d].step # "receipt")
    => \A p \in Purchases : Cardinality(BadgesOf(p)) = IF p \in refunded THEN 0 ELSE 1
===============================================================================
