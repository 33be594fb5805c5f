------------------------------ MODULE PromoCodes ------------------------------
(***************************************************************************)
(* The uses of promo codes.  Registrations wait in the cart of a browser   *)
(* with the code they entered; when the cart is finished each code is      *)
(* checked again, under a lock on its row.  A free cart, or one that pays  *)
(* at the door, is written at once; a cart that pays by card is written as *)
(* pending and counts only once the payment has arrived.                   *)
(*                                                                         *)
(* All codes belong to one group: whoever enters the code of the group     *)
(* gets one of them.  All of them may also be claimed on a page without a  *)
(* cart.                                                                   *)
(***************************************************************************)
EXTENDS Integers, Sequences, FiniteSets

CONSTANTS
  Carts,        \* browsers that have a cart
  CartOf,       \* CartOf[c]: the registrations of cart c, in their order
  Mixes,        \* which of the carts may be free or paid at the door
  Universal,    \* the registrations that entered the code of the group
  Claimants,    \* the registrations made on the page for claiming a badge
  Codes, NoCode,
  UsesAllowed,  \* UsesAllowed[k]: how often code k may be used
  MaxGone       \* bound: registrations deleted or cancelled

CartRegs == UNION {{CartOf[c][i] : i \in DOMAIN CartOf[c]} : c \in Carts}
Regs == CartRegs \cup Claimants

ASSUME PromoAssumption ==
  /\ NoCode \notin Codes
  /\ "none" \notin Carts /\ IsFiniteSet(Regs)
  /\ \A c \in Carts : CartOf[c] \in Seq(CartRegs)
  /\ \A c, d \in Carts : \A i \in DOMAIN CartOf[c], j \in DOMAIN CartOf[d] :
       CartOf[c][i] = CartOf[d][j] => c = d /\ i = j
  /\ Mixes \subseteq SUBSET Carts /\ Universal \subseteq Regs
  /\ Claimants \cap CartRegs = {}
  /\ MaxGone \in Nat
  /\ UsesAllowed \in [Codes -> Nat \ {0}]

VARIABLES
  immediate,  \* the carts that are free or pay at the door
  entered,    \* entered[r]: the code of r in the cart
  picked,     \* picked[r]: its code in the handler that finishes the cart, then in its row
  reg,        \* reg[r]: where registration r stands
  checkout,   \* checkout[c]: the handler that finishes cart c
  rowLock     \* rowLock[k]: the cart whose handler holds the row of code k

promoVars == <<immediate, entered, picked, reg, checkout, rowLock>>

NoCart == "none"

RegStates == {"cart", "pending", "valid", "gone"}

(* `at` is the place of the handler in the cart.                           *)
Checkout == [step : {"idle", "check", "sent", "done"}, at : Nat]

(* A row is locked only by a handler that is still checking its cart.      *)
PromoTypeOK ==
  /\ immediate \in Mixes
  /\ entered \in [Regs -> Codes \cup {NoCode}]
  /\ picked \in [Regs -> Codes \cup {NoCode}]
  /\ reg \in [Regs -> RegStates]
  /\ checkout \in [Carts -> Checkout]
  /\ rowLock \in [Codes -> Carts \cup {NoCart}]
  /\ \A k \in Codes : rowLock[k] # NoCart => checkout[rowLock[k]].step = "check"

NoCheckout == [step |-> "idle", at |-> 1]

PromoInit ==
  /\ immediate \in Mixes
  /\ entered = [r \in Regs |-> NoCode]
  /\ picked = [r \in Regs |-> NoCode]
  /\ reg = [r \in Regs |-> "cart"]
  /\ checkout = [c \in Carts |-> NoCheckout]
  /\ rowLock = [k \in Codes |-> NoCart]

-----------------------------------------------------------------------------
(* Counting                                                                *)

UsedBy(k) == {r \in Regs : reg[r] = "valid" /\ picked[r] = k}

UsesRemaining(k) == UsesAllowed[k] - Cardinality(UsedBy(k))

ValidCodes == {k \in Codes : UsesRemaining(k) > 0}

(* The registrations of the cart that this handler has passed.             *)
Passed(c) == {CartOf[c][i] : i \in {j \in DOMAIN CartOf[c] : j < checkout[c].at}}

(* Faulty: the rest of the cart is not counted.                            *)
NoneUsedInCart(c, k) == 0

UsedInCart(c, k) == Cardinality({r \in Passed(c) : reg[r] # "gone" /\ picked[r] = k})

(* The codes a new look-up may give: one's own, used or not, or any valid  *)
(* one of the group.                                                       *)
Lookup(r, k, usedCodes) ==
  IF r \in Universal THEN ValidCodes \ usedCodes ELSE {k}

-----------------------------------------------------------------------------
(* The forms                                                               *)

InCart(r, c) == \E i \in DOMAIN CartOf[c] : CartOf[c][i] = r

(* The form of a registration in the cart takes a code that has a use      *)
(* left.  (Bound: a code is entered once.)                                 *)
EnterCode(r, k) ==
  /\ r \in CartRegs /\ reg[r] = "cart"
  /\ \A c \in Carts : InCart(r, c) => checkout[c].step = "idle"
  /\ entered[r] = NoCode
  /\ k \in ValidCodes
  /\ entered' = [entered EXCEPT ![r] = k]
  /\ UNCHANGED <<immediate, picked, reg, checkout, rowLock>>

(* The page for claiming a badge of a group looks the code up and writes   *)
(* the registration.                                                       *)
ClaimBadge(r, k) ==
  /\ r \in Claimants /\ reg[r] = "cart"
  /\ k \in Lookup(r, k, {})
  /\ picked' = [picked EXCEPT ![r] = k]
  /\ reg' = [reg EXCEPT ![r] = "valid"]
  /\ UNCHANGED <<immediate, entered, checkout, rowLock>>

MoreMayGo == Cardinality({r \in Regs : reg[r] = "gone"}) < MaxGone

(* A registration is taken out of the cart; its row, if it has one, is     *)
(* made invalid.                                                           *)
DeleteFromCart(c, r) ==
  /\ InCart(r, c) /\ checkout[c].step = "idle"
  /\ reg[r] \in {"cart", "pending"}
  /\ MoreMayGo
  /\ reg' = [reg EXCEPT ![r] = "gone"]
  /\ UNCHANGED <<immediate, entered, picked, checkout, rowLock>>

(* A badge is abandoned or its registration is cancelled.                  *)
CancelBadge(r) ==
  /\ reg[r] = "valid"
  /\ MoreMayGo
  /\ reg' = [reg EXCEPT ![r] = "gone"]
  /\ UNCHANGED <<immediate, entered, picked, checkout, rowLock>>

-----------------------------------------------------------------------------
(* Finishing a cart                                                        *)

(* Faulty: the handler keeps its locks.                                    *)
UnlockedNone(c) == rowLock

Unlocked(c) == [k \in Codes |-> IF rowLock[k] = c THEN NoCart ELSE rowLock[k]]

StartCheckout(c) ==
  /\ checkout[c].step = "idle"
  /\ \E i \in DOMAIN CartOf[c] : reg[CartOf[c][i]] \in {"cart", "pending"}
  /\ checkout' = [checkout EXCEPT ![c] = [step |-> "check", at |-> 1]]
  /\ picked' = [r \in Regs |-> IF InCart(r, c) THEN entered[r] ELSE picked[r]]
  /\ UNCHANGED <<immediate, entered, reg, rowLock>>

Checking(c) == checkout[c].step = "check" /\ checkout[c].at \in DOMAIN CartOf[c]

Current(c) == CartOf[c][checkout[c].at]

Onward(c) == checkout' = [checkout EXCEPT ![c].at = @ + 1]

HasRoom(c, k) == UsesRemaining(k) - UsedInCart(c, k) > 0

(* Faulty: the row is read without FOR UPDATE.                             *)
MayReadUnlocked(c, k) == TRUE

(* The row of the code is free, or this handler's already.                 *)
MayLock(c, k) == rowLock[k] \in {NoCart, c}

LockedBy(c, k) == [rowLock EXCEPT ![k] = c]

CheckNoCode(c) ==
  /\ Checking(c)
  /\ reg[Current(c)] = "gone" \/ picked[Current(c)] = NoCode
  /\ Onward(c)
  /\ UNCHANGED <<immediate, entered, picked, reg, rowLock>>

CodeToCheck(c) ==
  /\ Checking(c)
  /\ reg[Current(c)] # "gone" /\ picked[Current(c)] # NoCode
  /\ MayLock(c, picked[Current(c)])

CheckPasses(c) ==
  /\ CodeToCheck(c) /\ HasRoom(c, picked[Current(c)])
  /\ rowLock' = LockedBy(c, picked[Current(c)])
  /\ Onward(c)
  /\ UNCHANGED <<immediate, entered, picked, reg>>

UsedCodes(c) == {picked[r] : r \in {q \in Passed(c) : reg[q] # "gone"}}

(* The code is used up, but another one of the group is not: take it, and  *)
(* commit.  The row of the new code is not locked.                         *)
CheckPicksAnother(c) ==
  /\ CodeToCheck(c) /\ ~HasRoom(c, picked[Current(c)])
  /\ Current(c) \in Universal
  /\ \E k \in Lookup(Current(c), picked[Current(c)], UsedCodes(c)) :
       picked' = [picked EXCEPT ![Current(c)] = k]
  /\ rowLock' = Unlocked(c)
  /\ Onward(c)
  /\ UNCHANGED <<immediate, entered, reg>>

(* No code is left: commit, and back to the cart with an error.  The       *)
(* cart in the browser's session keeps the codes that were entered.        *)
CheckFails(c) ==
  /\ CodeToCheck(c) /\ ~HasRoom(c, picked[Current(c)])
  /\ Current(c) \in Universal =>
       Lookup(Current(c), picked[Current(c)], UsedCodes(c)) = {}
  /\ rowLock' = Unlocked(c)
  /\ checkout' = [checkout EXCEPT ![c] = NoCheckout]
  /\ UNCHANGED <<immediate, entered, picked, reg>>

(* Two handlers wait for each other's rows: the database ends one of them. *)
DeadlockDetected(c) ==
  /\ Checking(c)
  /\ reg[Current(c)] # "gone" /\ picked[Current(c)] # NoCode
  /\ \E d \in Carts \ {c} :
       /\ rowLock[picked[Current(c)]] = d
       /\ Checking(d) /\ picked[Current(d)] # NoCode
       /\ rowLock[picked[Current(d)]] = c
  /\ rowLock' = Unlocked(c)
  /\ checkout' = [checkout EXCEPT ![c] = NoCheckout]
  /\ UNCHANGED <<immediate, entered, picked, reg>>

Checked(c) == checkout[c].step = "check" /\ checkout[c].at > Len(CartOf[c])

InOrder(c) == {r \in Regs : InCart(r, c) /\ reg[r] # "gone"}

SetRegs(S, st) == [r \in Regs |-> IF r \in S THEN st ELSE reg[r]]

(* process_free_prereg and at_door_confirmation commit with their end.     *)
WriteImmediate(c) ==
  /\ c \in immediate /\ Checked(c)
  /\ reg' = SetRegs(InOrder(c), "valid")
  /\ rowLock' = Unlocked(c)
  /\ checkout' = [checkout EXCEPT ![c].step = "done"]
  /\ UNCHANGED <<immediate, entered, picked>>

(* prereg_payment saves receipts, asks Stripe for an intent, and saves the *)
(* registrations as pending.                                               *)
WritePending(c) ==
  /\ c \notin immediate /\ Checked(c)
  /\ reg' = SetRegs(InOrder(c), "pending")
  /\ rowLock' = Unlocked(c)
  /\ checkout' = [checkout EXCEPT ![c].step = "sent"]
  /\ UNCHANGED <<immediate, entered, picked>>

(* The buyer leaves the card dialog: the cart is there again.              *)
CancelPrereg(c) ==
  /\ checkout[c].step = "sent"
  /\ checkout' = [checkout EXCEPT ![c] = NoCheckout]
  /\ UNCHANGED <<immediate, entered, picked, reg, rowLock>>

(* The payment is recorded; pending registrations become new ones.         *)
PaymentArrives(c) ==
  /\ checkout[c].step = "sent"
  /\ reg' = SetRegs({r \in InOrder(c) : reg[r] = "pending"}, "valid")
  /\ checkout' = [checkout EXCEPT ![c].step = "done"]
  /\ UNCHANGED <<immediate, entered, picked, rowLock>>

-----------------------------------------------------------------------------
CheckCode(c) ==
  \/ CheckNoCode(c)
  \/ CheckPasses(c)
  \/ CheckPicksAnother(c)
  \/ CheckFails(c)
  \/ DeadlockDetected(c)

PromoNext ==
  \/ \E r \in Regs, k \in Codes : EnterCode(r, k) \/ ClaimBadge(r, k)
  \/ \E r \in Regs : CancelBadge(r)
  \/ \E c \in Carts :
       \/ \E r \in Regs : DeleteFromCart(c, r)
       \/ StartCheckout(c)
       \/ CheckCode(c)
       \/ WriteImmediate(c)
       \/ WritePending(c)
       \/ CancelPrereg(c)
       \/ PaymentArrives(c)

(* A handler that was started runs on; the database hands a row to those   *)
(* who wait for it, so that nobody waits for it forever.                   *)
PromoFairness ==
  \A c \in Carts : /\ SF_promoVars(CheckCode(c))
                   /\ WF_promoVars(WriteImmediate(c))
                   /\ WF_promoVars(WritePending(c))

PromoSpec == PromoInit /\ [][PromoNext]_promoVars /\ PromoFairness

-----------------------------------------------------------------------------
(* Properties                                                              *)

(* The registrations of carts whose codes were all checked under their     *)
(* locks until they were written: written at once, with the codes they     *)
(* were entered with.                                                      *)
HeldToTheEnd(c) ==
  /\ c \in immediate
  /\ \A r \in Regs : InCart(r, c) => picked[r] = entered[r]

LockedUses(k) == {r \in UsedBy(k) : \E c \in Carts : InCart(r, c) /\ HeldToTheEnd(c)}

(* Free carts and carts paid at the door that finish side by side use a    *)
(* code no more often than it allows (the lock in check_promo_code).       *)
LockedUsesFit == \A k \in Codes : Cardinality(LockedUses(k)) <= UsesAllowed[k]

(* The registrations that were written with code k for cart c.             *)
CartUses(c, k) ==
  {r \in Regs : InCart(r, c) /\ picked[r] = k /\ reg[r] \in {"pending", "valid"}}

(* No cart alone, once it is written, uses a code more often than it       *)
(* allows, whatever was entered, replaced, deleted, given up and checked   *)
(* again in it (used_promo_codes).                                         *)
CartUsesFit ==
  \A c \in Carts, k \in Codes :
    checkout[c].step \in {"sent", "done"} => Cardinality(CartUses(c, k)) <= UsesAllowed[k]

(* Handlers that lock the rows of several codes, each in the order of its  *)
(* cart, all come to an end (check_promo_code).                            *)
CheckoutEnds ==
  \A c \in Carts : checkout[c].step = "check" ~> checkout[c].step # "check"

(* Two carts never use the last use of one code (the docstring of          *)
(* check_promo_code).                                                      *)
NoDoubleUse ==
  \A k \in Codes : Cardinality(UsedBy(k) \cap CartRegs) <= UsesAllowed[k]
===============================================================================
