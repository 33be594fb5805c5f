------------------------ MODULE GroupsAndCodesProofs ------------------------
(***************************************************************************)
(* PromoCodes, for any carts, codes and numbers of uses: type correctness, *)
(* and that neither one cart nor carts that finish side by side, under     *)
(* their locks, use a code more often than it allows.                      *)
(*                                                                         *)
(* Groups, for any people, badges and handlers: type correctness, and that *)
(* a handler that was not overtaken since it read keeps the group billed   *)
(* for its badges and the badges with their holders.  A declined group has *)
(* no valid badges if one clerk serves its requests, beside the task.      *)
(***************************************************************************)
EXTENDS PromoCodes, Groups, SumTheorems

-----------------------------------------------------------------------------
(* The places of a cart are those of registrations, each its own.          *)
LEMMA CartPlaces ==
  ASSUME NEW c \in Carts
  PROVE  /\ DOMAIN CartOf[c] = 1 .. Len(CartOf[c]) /\ Len(CartOf[c]) \in Nat
         /\ \A i \in DOMAIN CartOf[c] : CartOf[c][i] \in Regs /\ InCart(CartOf[c][i], c)
         /\ \A i, j \in DOMAIN CartOf[c] : CartOf[c][i] = CartOf[c][j] => i = j
<1>1. CartOf[c] \in Seq(CartRegs)
  BY PromoAssumption
<1>2. \A i \in DOMAIN CartOf[c] : CartOf[c][i] \in CartRegs
  BY <1>1
<1> QED
  BY <1>1, <1>2, PromoAssumption DEF Regs, InCart

(* A registration is in one cart at most.                                  *)
LEMMA OneCart ==
  ASSUME NEW c \in Carts, NEW d \in Carts, NEW r, InCart(r, c), InCart(r, d)
  PROVE  c = d
BY PromoAssumption DEF InCart

(* Sets of registrations have a size.                                      *)
LEMMA RegsFinite ==
  ASSUME NEW S \in SUBSET Regs
  PROVE  IsFiniteSet(S) /\ Cardinality(S) \in Nat
BY PromoAssumption, FS_Subset, FS_CardinalityType

(* A smaller set has a smaller one,                                        *)
LEMMA FewerRegs ==
  ASSUME NEW S \in SUBSET Regs, NEW T \in SUBSET S
  PROVE  Cardinality(T) <= Cardinality(S)
BY RegsFinite, FS_Subset

(* and one more registration makes it larger by one at most.               *)
LEMMA OneMoreReg ==
  ASSUME NEW S \in SUBSET Regs, NEW r \in Regs
  PROVE  Cardinality(S \cup {r}) <= Cardinality(S) + 1
<1>1. IsFiniteSet(S) /\ Cardinality(S) \in Nat
  BY RegsFinite
<1>2. /\ IsFiniteSet(S \cup {r})
      /\ Cardinality(S \cup {r}) = IF r \in S THEN Cardinality(S) ELSE Cardinality(S) + 1
  BY <1>1, FS_AddElement
<1> QED  BY <1>1, <1>2

(* The sizes of two sets add up, at most, to that of both.                 *)
LEMMA BothRegs ==
  ASSUME NEW S \in SUBSET Regs, NEW T \in SUBSET Regs
  PROVE  Cardinality(S \cup T) <= Cardinality(S) + Cardinality(T)
<1>1. IsFiniteSet(S) /\ IsFiniteSet(T) /\ IsFiniteSet(S \cap T)
  BY RegsFinite
<1>2. /\ Cardinality(S) \in Nat /\ Cardinality(T) \in Nat /\ Cardinality(S \cap T) \in Nat
  BY <1>1, RegsFinite
<1>3. Cardinality(S \cup T) = Cardinality(S) + Cardinality(T) - Cardinality(S \cap T)
  BY <1>1, FS_Union
<1> QED  BY <1>2, <1>3

-----------------------------------------------------------------------------
(* Types.                                                                  *)

(* The registration a handler looks at, and the code it looks up.          *)
LEMMA CurrentType ==
  ASSUME PromoTypeOK, NEW c \in Carts, Checking(c)
  PROVE  Current(c) \in Regs /\ InCart(Current(c), c)
BY CartPlaces DEF Checking, Current

(* A handler goes on to the next registration of its cart.                 *)
LEMMA OnwardType ==
  ASSUME PromoTypeOK, NEW c \in Carts, Checking(c), Onward(c)
  PROVE  /\ checkout' \in [Carts -> Checkout]
         /\ checkout'[c].step = "check" /\ checkout'[c].at = checkout[c].at + 1
         /\ \A d \in Carts : d # c => checkout'[d] = checkout[d]
         /\ \A d \in Carts : checkout'[d].step = checkout[d].step
<1>1. checkout[c] \in Checkout /\ checkout[c].step = "check" /\ checkout \in [Carts -> Checkout]
  BY DEF PromoTypeOK, Checking
<1>2. /\ [checkout[c] EXCEPT !.at = @ + 1] \in Checkout
      /\ [checkout[c] EXCEPT !.at = @ + 1].step = "check"
      /\ [checkout[c] EXCEPT !.at = @ + 1].at = checkout[c].at + 1
  BY <1>1 DEF Checkout
<1>3. checkout' = [checkout EXCEPT ![c] = [checkout[c] EXCEPT !.at = @ + 1]]
  BY <1>1 DEF Onward
<1> QED  BY <1>1, <1>2, <1>3

(* A handler ends.                                                         *)
LEMMA EndType ==
  ASSUME PromoTypeOK, NEW c \in Carts, NEW h \in Checkout,
         checkout' = [checkout EXCEPT ![c] = h]
  PROVE  /\ checkout' \in [Carts -> Checkout] /\ checkout'[c] = h
         /\ \A d \in Carts : d # c => checkout'[d] = checkout[d]
BY DEF PromoTypeOK

(* With it end its locks.                                                  *)
LEMMA UnlockedType ==
  ASSUME PromoTypeOK, NEW c \in Carts, rowLock' = Unlocked(c)
  PROVE  /\ rowLock' \in [Codes -> Carts \cup {NoCart}]
         /\ \A k \in Codes : rowLock'[k] # c
         /\ \A k \in Codes : rowLock'[k] # NoCart => rowLock'[k] = rowLock[k]
         /\ \A k \in Codes : rowLock[k] # c => rowLock'[k] = rowLock[k]
BY PromoAssumption DEF PromoTypeOK, Unlocked, NoCart

(* Where a handler stands.                                                 *)
LEMMA StepType ==
  /\ NoCheckout \in Checkout /\ NoCheckout.step = "idle"
  /\ [step |-> "check", at |-> 1] \in Checkout
  /\ \A h \in Checkout, s \in {"sent", "done"} :
       [h EXCEPT !.step = s] \in Checkout /\ [h EXCEPT !.step = s].step = s
BY DEF NoCheckout, Checkout

(* Registrations are saved.                                                *)
LEMMA SetRegsType ==
  ASSUME PromoTypeOK, NEW S, NEW st \in RegStates
  PROVE  SetRegs(S, st) \in [Regs -> RegStates]
BY DEF PromoTypeOK, SetRegs

(* Every step keeps the types.                                             *)
LEMMA PromoStepTyped == PromoTypeOK /\ [PromoNext]_promoVars => PromoTypeOK'
<1> SUFFICES ASSUME PromoTypeOK, [PromoNext]_promoVars PROVE PromoTypeOK'
  OBVIOUS
<1>1. ASSUME NEW r \in Regs, NEW k \in Codes, EnterCode(r, k)  PROVE PromoTypeOK'
  BY <1>1 DEF EnterCode, PromoTypeOK
<1>2. ASSUME NEW r \in Regs, NEW k \in Codes, ClaimBadge(r, k)  PROVE PromoTypeOK'
  BY <1>2 DEF ClaimBadge, Lookup, ValidCodes, PromoTypeOK, RegStates
<1>3. ASSUME NEW r \in Regs, CancelBadge(r)  PROVE PromoTypeOK'
  BY <1>3 DEF CancelBadge, PromoTypeOK, RegStates
<1>4. ASSUME NEW c \in Carts, NEW r \in Regs, DeleteFromCart(c, r)  PROVE PromoTypeOK'
  BY <1>4 DEF DeleteFromCart, PromoTypeOK, RegStates
<1>5. ASSUME NEW c \in Carts, StartCheckout(c)  PROVE PromoTypeOK'
  <2>1. /\ checkout' \in [Carts -> Checkout] /\ checkout'[c].step = "check"
        /\ \A d \in Carts : d # c => checkout'[d] = checkout[d]
    BY <1>5, StepType, EndType DEF StartCheckout
  <2>2. picked' \in [Regs -> Codes \cup {NoCode}]
    BY <1>5 DEF StartCheckout, PromoTypeOK
  <2> QED  BY <1>5, <2>1, <2>2 DEF StartCheckout, PromoTypeOK
<1>6. ASSUME NEW c \in Carts, CheckNoCode(c)  PROVE PromoTypeOK'
  BY <1>6, OnwardType DEF CheckNoCode, PromoTypeOK
<1>7. ASSUME NEW c \in Carts, CheckPasses(c)  PROVE PromoTypeOK'
  <2>1. Checking(c) /\ Onward(c) /\ picked[Current(c)] \in Codes
    BY <1>7, CurrentType DEF CheckPasses, CodeToCheck, PromoTypeOK
  <2>2. /\ rowLock' \in [Codes -> Carts \cup {NoCart}]
        /\ \A k \in Codes : rowLock'[k] \in {c, rowLock[k]}
    BY <1>7, <2>1 DEF CheckPasses, LockedBy, PromoTypeOK
  <2> QED  BY <1>7, <2>1, <2>2, OnwardType DEF CheckPasses, PromoTypeOK
<1>8. ASSUME NEW c \in Carts, CheckPicksAnother(c)  PROVE PromoTypeOK'
  <2>1. Checking(c) /\ Onward(c)
    BY <1>8 DEF CheckPicksAnother, CodeToCheck
  <2>2. picked' \in [Regs -> Codes \cup {NoCode}]
    BY <1>8 DEF CheckPicksAnother, Lookup, ValidCodes, PromoTypeOK
  <2>3. rowLock' = Unlocked(c)
    BY <1>8 DEF CheckPicksAnother
  <2> QED  BY <1>8, <2>1, <2>2, <2>3, OnwardType, UnlockedType DEF CheckPicksAnother, PromoTypeOK
<1>9. ASSUME NEW c \in Carts, CheckFails(c) \/ DeadlockDetected(c)  PROVE PromoTypeOK'
  <2>1. /\ rowLock' = Unlocked(c) /\ checkout' = [checkout EXCEPT ![c] = NoCheckout]
        /\ UNCHANGED <<immediate, entered, picked, reg>>
    BY <1>9 DEF CheckFails, DeadlockDetected
  <2> QED  BY <2>1, StepType, EndType, UnlockedType DEF PromoTypeOK
<1>10. ASSUME NEW c \in Carts, WriteImmediate(c) \/ WritePending(c)  PROVE PromoTypeOK'
  <2>1. PICK st \in {"valid", "pending"}, s \in {"sent", "done"} :
          /\ reg' = SetRegs(InOrder(c), st) /\ rowLock' = Unlocked(c)
          /\ checkout' = [checkout EXCEPT ![c] = [checkout[c] EXCEPT !.step = s]]
          /\ UNCHANGED <<immediate, entered, picked>>
    BY <1>10 DEF WriteImmediate, WritePending, PromoTypeOK
  <2>2. checkout[c] \in Checkout
    BY DEF PromoTypeOK
  <2>3. reg' \in [Regs -> RegStates]
    BY <2>1, SetRegsType DEF RegStates
  <2>4. PICK h \in Checkout : checkout' = [checkout EXCEPT ![c] = h]
    BY <2>1, <2>2, StepType
  <2> QED  BY <2>1, <2>3, <2>4, EndType, UnlockedType DEF PromoTypeOK
<1>11. ASSUME NEW c \in Carts, CancelPrereg(c) \/ PaymentArrives(c)  PROVE PromoTypeOK'
  <2>1. PICK h \in Checkout :
          /\ checkout' = [checkout EXCEPT ![c] = h]
          /\ UNCHANGED <<immediate, entered, picked, rowLock>>
    BY <1>11, StepType DEF CancelPrereg, PaymentArrives, PromoTypeOK
  <2>2. reg' \in [Regs -> RegStates]
    BY <1>11, SetRegsType DEF CancelPrereg, PaymentArrives, PromoTypeOK, RegStates
  <2>3. \A k \in Codes : rowLock[k] # c
    BY <1>11, PromoAssumption DEF CancelPrereg, PaymentArrives, PromoTypeOK, NoCart
  <2> QED  BY <2>1, <2>2, <2>3, EndType DEF PromoTypeOK
<1>12. CASE UNCHANGED promoVars
  BY <1>12 DEF promoVars, PromoTypeOK
<1> QED
  BY <1>1, <1>2, <1>3, <1>4, <1>5, <1>6, <1>7, <1>8, <1>9, <1>10, <1>11, <1>12
  DEF PromoNext, CheckCode

(* They hold at first.                                                     *)
LEMMA PromoInitTyped == PromoInit => PromoTypeOK
BY StepType DEF PromoInit, PromoTypeOK, RegStates

(* Every variable keeps its type, and only a handler that is still         *)
(* checking its cart has locks on rows, for any carts and codes.           *)
THEOREM PromoTypeCorrect == PromoSpec => []PromoTypeOK
<1> QED  BY PromoInitTyped, PromoStepTyped, PTL DEF PromoSpec

-----------------------------------------------------------------------------
(* The uses are counted through the registrations that a handler has       *)
(* passed, and which it still holds the rows of.                           *)
PassedUses(c, k) == {r \in Passed(c) : reg[r] # "gone" /\ picked[r] = k}

(* Where a handler has not been yet, the codes are as they were entered;   *)
(* a cart that is written at once counts when it is done.                  *)
PlaceSound(c) ==
  /\ c \in immediate => checkout[c].step # "sent"
  /\ \A r \in Regs :
       InCart(r, c) /\ c \in immediate /\ reg[r] = "valid" => checkout[c].step = "done"
  /\ checkout[c].step = "check" =>
       \A i \in DOMAIN CartOf[c] :
         i >= checkout[c].at => picked[CartOf[c][i]] = entered[CartOf[c][i]]

(* What one cart has passed, and has written, fits.                        *)
UsesSound(c) ==
  \A k \in Codes :
    /\ checkout[c].step = "check" => Cardinality(PassedUses(c, k)) <= UsesAllowed[k]
    /\ checkout[c].step \in {"sent", "done"} => Cardinality(CartUses(c, k)) <= UsesAllowed[k]

(* While it was given no other code, a handler holds the rows of all it    *)
(* has passed, and they have room for it beside what others have written.  *)
RoomSound(c, k) ==
  PassedUses(c, k) # {} =>
    /\ rowLock[k] = c
    /\ Cardinality(LockedUses(k)) + Cardinality(PassedUses(c, k)) <= UsesAllowed[k]

LocksSound(c) ==
  checkout[c].step = "check" /\ HeldToTheEnd(c) => \A k \in Codes : RoomSound(c, k)

CartSound(c) == PlaceSound(c) /\ UsesSound(c) /\ LocksSound(c)

PromoInv ==
  /\ PromoTypeOK
  /\ LockedUsesFit
  /\ \A c \in Carts : CartSound(c)

(* These are sets of registrations.                                        *)
LEMMA UseSets ==
  ASSUME PromoTypeOK, NEW k
  PROVE  /\ UsedBy(k) \in SUBSET Regs /\ LockedUses(k) \in SUBSET UsedBy(k)
         /\ \A c \in Carts : /\ Passed(c) \in SUBSET Regs /\ PassedUses(c, k) \in SUBSET Passed(c)
                             /\ CartUses(c, k) \in SUBSET Regs
                             /\ \A r \in Passed(c) : InCart(r, c)
BY CartPlaces DEF UsedBy, LockedUses, Passed, PassedUses, CartUses

(* No step adds uses under lock but those that write a cart.               *)
LEMMA LockedKept ==
  ASSUME PromoInv, UNCHANGED immediate, NEW k,
         \A c \in Carts, r \in Regs : c \in immediate /\ InCart(r, c) =>
           /\ reg'[r] = "valid" => reg[r] = "valid"
           /\ checkout[c].step = "done" => picked'[r] = picked[r] /\ entered'[r] = entered[r]
  PROVE  LockedUses(k)' \subseteq LockedUses(k)
<1> SUFFICES ASSUME NEW r \in Regs, r \in LockedUses(k)'  PROVE r \in LockedUses(k)
  BY DEF LockedUses, UsedBy
<1>1. PICK c \in Carts : InCart(r, c) /\ HeldToTheEnd(c)'
  BY DEF LockedUses
<1>2. c \in immediate /\ reg'[r] = "valid" /\ picked'[r] = k
  BY <1>1 DEF HeldToTheEnd, LockedUses, UsedBy
<1>3. reg[r] = "valid" /\ checkout[c].step = "done"
  BY <1>1, <1>2 DEF PromoInv, CartSound, PlaceSound
<1>4. HeldToTheEnd(c) /\ picked[r] = k
  BY <1>1, <1>2, <1>3 DEF HeldToTheEnd
<1> QED  BY <1>1, <1>3, <1>4 DEF LockedUses, UsedBy

(* So their number does not grow.                                          *)
LEMMA LockedFit ==
  ASSUME PromoInv, PromoTypeOK', \A k \in Codes : LockedUses(k)' \subseteq LockedUses(k)
  PROVE  LockedUsesFit'
<1> SUFFICES ASSUME NEW k \in Codes  PROVE Cardinality(LockedUses(k)') <= UsesAllowed[k]
  BY DEF LockedUsesFit
<1>1. LockedUses(k) \in SUBSET Regs /\ LockedUses(k)' \in SUBSET Regs
  BY UseSets DEF PromoInv, LockedUses, UsedBy
<1>2. Cardinality(LockedUses(k)') <= Cardinality(LockedUses(k))
  BY <1>1, FewerRegs
<1>3. /\ Cardinality(LockedUses(k)') \in Nat /\ Cardinality(LockedUses(k)) \in Nat
      /\ UsesAllowed[k] \in Nat
  BY <1>1, RegsFinite, PromoAssumption
<1> QED  BY <1>2, <1>3 DEF PromoInv, LockedUsesFit

(* A cart whose handler takes no part in a step stays sound, if its        *)
(* registrations do but for some that are gone, and so do its locks.       *)
LEMMA OthersSound ==
  ASSUME PromoInv, PromoTypeOK', UNCHANGED immediate, NEW c \in Carts, checkout'[c] = checkout[c],
         \A r \in Regs : InCart(r, c) =>
           /\ reg'[r] \in {reg[r], "gone"} /\ picked'[r] = picked[r]
           /\ checkout[c].step # "idle" => entered'[r] = entered[r],
         \A k \in Codes : rowLock[k] = c =>
           rowLock'[k] = c /\ LockedUses(k)' \subseteq LockedUses(k)
  PROVE  CartSound(c)'
<1>1. CartSound(c) /\ PromoTypeOK
  BY DEF PromoInv
<1>2. /\ \A i \in DOMAIN CartOf[c] : CartOf[c][i] \in Regs /\ InCart(CartOf[c][i], c)
      /\ \A r \in Passed(c) : r \in Regs /\ InCart(r, c)
  BY <1>1, CartPlaces, UseSets
<1>3. Passed(c)' = Passed(c)
  BY DEF Passed
<1>4. PlaceSound(c)'
  BY <1>1, <1>2 DEF CartSound, PlaceSound
<1>5. ASSUME NEW k  PROVE /\ PassedUses(c, k)' \subseteq PassedUses(c, k)
                          /\ CartUses(c, k)' \subseteq CartUses(c, k)
                          /\ PassedUses(c, k) \in SUBSET Regs /\ PassedUses(c, k)' \in SUBSET Regs
                          /\ CartUses(c, k) \in SUBSET Regs /\ CartUses(c, k)' \in SUBSET Regs
  BY <1>2, <1>3 DEF PassedUses, CartUses
<1>6. ASSUME NEW k \in Codes
      PROVE /\ Cardinality(PassedUses(c, k)') <= Cardinality(PassedUses(c, k))
            /\ Cardinality(CartUses(c, k)') <= Cardinality(CartUses(c, k))
            /\ Cardinality(PassedUses(c, k)) \in Nat /\ Cardinality(PassedUses(c, k)') \in Nat
            /\ Cardinality(CartUses(c, k)) \in Nat /\ Cardinality(CartUses(c, k)') \in Nat
            /\ UsesAllowed[k] \in Nat
  <2>1. /\ PassedUses(c, k)' \subseteq PassedUses(c, k)
        /\ CartUses(c, k)' \subseteq CartUses(c, k)
        /\ PassedUses(c, k) \in SUBSET Regs /\ PassedUses(c, k)' \in SUBSET Regs
        /\ CartUses(c, k) \in SUBSET Regs /\ CartUses(c, k)' \in SUBSET Regs
    BY <1>5
  <2> QED  BY <2>1, FewerRegs, RegsFinite, PromoAssumption
<1>7. UsesSound(c)'
  BY <1>1, <1>6 DEF CartSound, UsesSound
<1>8. ASSUME NEW k \in Codes, RoomSound(c, k)  PROVE RoomSound(c, k)'
  <2> SUFFICES ASSUME PassedUses(c, k)' # {}  PROVE
        /\ rowLock'[k] = c
        /\ Cardinality(LockedUses(k)') + Cardinality(PassedUses(c, k)') <= UsesAllowed[k]
    BY DEF RoomSound
  <2>1. /\ rowLock[k] = c
        /\ Cardinality(LockedUses(k)) + Cardinality(PassedUses(c, k)) <= UsesAllowed[k]
    BY <1>5, <1>8 DEF RoomSound
  <2>2. /\ rowLock'[k] = c /\ LockedUses(k)' \in SUBSET LockedUses(k)
        /\ LockedUses(k) \in SUBSET Regs /\ LockedUses(k)' \in SUBSET Regs
    BY <1>1, <2>1, UseSets DEF LockedUses, UsedBy
  <2>3. /\ Cardinality(LockedUses(k)') <= Cardinality(LockedUses(k))
        /\ Cardinality(LockedUses(k)) \in Nat /\ Cardinality(LockedUses(k)') \in Nat
    BY <2>2, FewerRegs, RegsFinite
  <2> QED  BY <1>6, <2>1, <2>2, <2>3
<1>9. LocksSound(c)'
  <2>1. checkout[c].step = "check" => (HeldToTheEnd(c)' => HeldToTheEnd(c))
    BY DEF HeldToTheEnd
  <2> QED  BY <1>1, <1>8, <2>1 DEF CartSound, LocksSound
<1> QED  BY <1>4, <1>7, <1>9 DEF CartSound

-----------------------------------------------------------------------------
(* A step of the handler of cart d keeps the others sound.                 *)
LEMMA ActorSound ==
  ASSUME PromoInv, PromoTypeOK', UNCHANGED immediate, NEW d \in Carts,
         \A c \in Carts : c # d => checkout'[c] = checkout[c],
         \A r \in Regs : ~InCart(r, d) =>
           reg'[r] = reg[r] /\ picked'[r] = picked[r] /\ entered'[r] = entered[r],
         \A k \in Codes : rowLock[k] \notin {NoCart, d} =>
           rowLock'[k] = rowLock[k] /\ LockedUses(k)' \subseteq LockedUses(k),
         LockedUsesFit', CartSound(d)'
  PROVE  PromoInv'
<1> SUFFICES ASSUME NEW c \in Carts, c # d  PROVE CartSound(c)'
  BY DEF PromoInv
<1>1. \A r \in Regs : InCart(r, c) => ~InCart(r, d)
  BY OneCart
<1>2. c # NoCart
  BY PromoAssumption DEF NoCart
<1>3. checkout'[c] = checkout[c]
  OBVIOUS
<1>4. \A k \in Codes : rowLock[k] = c => rowLock'[k] = c /\ LockedUses(k)' \subseteq LockedUses(k)
  BY <1>2
<1>5. \A r \in Regs : InCart(r, c) =>
           /\ reg'[r] \in {reg[r], "gone"} /\ picked'[r] = picked[r]
           /\ checkout[c].step # "idle" => entered'[r] = entered[r]
  BY <1>1
<1> QED  BY <1>3, <1>4, <1>5, OthersSound

(* It adds no uses under lock, unless it writes its cart.                  *)
LEMMA ActorLocked ==
  ASSUME PromoInv, UNCHANGED immediate, NEW d \in Carts,
         \A r \in Regs : ~InCart(r, d) =>
           reg'[r] = reg[r] /\ picked'[r] = picked[r] /\ entered'[r] = entered[r],
         d \in immediate =>
           /\ checkout[d].step # "done"
           /\ \A r \in Regs : InCart(r, d) /\ reg'[r] = "valid" => reg[r] = "valid",
         NEW k
  PROVE  LockedUses(k)' \subseteq LockedUses(k)
<1>1. ASSUME NEW c \in Carts, NEW r \in Regs, c \in immediate, InCart(r, c)
      PROVE  /\ reg'[r] = "valid" => reg[r] = "valid"
             /\ checkout[c].step = "done" => picked'[r] = picked[r] /\ entered'[r] = entered[r]
  <2>1. CASE InCart(r, d)
    BY <1>1, <2>1, OneCart
  <2>2. CASE ~InCart(r, d)
    BY <2>2
  <2> QED  BY <2>1, <2>2
<1> QED  BY <1>1, LockedKept

(* Steps outside of the handlers.                                          *)
LEMMA OutsideSound ==
  ASSUME PromoInv, PromoTypeOK', UNCHANGED <<immediate, checkout, rowLock>>,
         \A c \in Carts, r \in Regs : InCart(r, c) =>
           /\ reg'[r] \in {reg[r], "gone"} /\ picked'[r] = picked[r]
           /\ checkout[c].step # "idle" => entered'[r] = entered[r]
  PROVE  PromoInv'
<1>1. ASSUME NEW k  PROVE LockedUses(k)' \subseteq LockedUses(k)
  BY LockedKept
<1>2. LockedUsesFit'
  BY <1>1, LockedFit
<1>3. ASSUME NEW c \in Carts  PROVE CartSound(c)'
  <2>1. checkout'[c] = checkout[c]
    OBVIOUS
  <2>2. \A k \in Codes : rowLock[k] = c => rowLock'[k] = c /\ LockedUses(k)' \subseteq LockedUses(k)
    BY <1>1
  <2> QED  BY <2>1, <2>2, OthersSound
<1> QED  BY <1>2, <1>3 DEF PromoInv

(* Codes are entered and claimed, and registrations go.                    *)
LEMMA FormsSound ==
  ASSUME PromoInv, PromoTypeOK', NEW r \in Regs,
         \/ \E k \in Codes : EnterCode(r, k) \/ ClaimBadge(r, k)
         \/ CancelBadge(r)
         \/ \E c \in Carts : DeleteFromCart(c, r)
  PROVE  PromoInv'
<1>1. /\ reg \in [Regs -> RegStates] /\ picked \in [Regs -> Codes \cup {NoCode}]
      /\ entered \in [Regs -> Codes \cup {NoCode}]
  BY DEF PromoInv, PromoTypeOK
<1>2. ASSUME NEW k \in Codes, EnterCode(r, k)  PROVE PromoInv'
  BY <1>1, <1>2, OutsideSound DEF EnterCode
<1>3. ASSUME NEW k \in Codes, ClaimBadge(r, k)  PROVE PromoInv'
  <2>1. \A c \in Carts : ~InCart(r, c)
    BY <1>3, PromoAssumption DEF ClaimBadge, InCart, CartRegs
  <2>2. \A c \in Carts, q \in Regs : InCart(q, c) => reg'[q] = reg[q] /\ picked'[q] = picked[q]
    BY <1>1, <1>3, <2>1 DEF ClaimBadge
  <2> QED  BY <1>3, <2>2, OutsideSound DEF ClaimBadge
<1>4. ASSUME CancelBadge(r)  PROVE PromoInv'
  BY <1>1, <1>4, OutsideSound DEF CancelBadge
<1>5. ASSUME NEW c \in Carts, DeleteFromCart(c, r)  PROVE PromoInv'
  BY <1>1, <1>5, OutsideSound DEF DeleteFromCart
<1> QED  BY <1>2, <1>3, <1>4, <1>5

(* A handler that ends with an error, or a dialog that is left.            *)
LEMMA BackSound ==
  ASSUME PromoInv, PromoTypeOK', NEW d \in Carts,
         CheckFails(d) \/ DeadlockDetected(d) \/ CancelPrereg(d)
  PROVE  PromoInv'
<1>1. PromoTypeOK /\ CartSound(d)
  BY DEF PromoInv
<1>2. /\ checkout' = [checkout EXCEPT ![d] = NoCheckout] /\ rowLock' \in {rowLock, Unlocked(d)}
      /\ UNCHANGED <<immediate, entered, picked, reg>> /\ checkout[d].step \in {"check", "sent"}
  BY DEF CheckFails, DeadlockDetected, CancelPrereg, CodeToCheck, Checking
<1>3. checkout'[d].step = "idle" /\ \A c \in Carts : c # d => checkout'[c] = checkout[c]
  BY <1>1, <1>2, EndType, StepType
<1>4. ASSUME NEW k  PROVE LockedUses(k)' \subseteq LockedUses(k)
  BY <1>2, ActorLocked
<1>5. LockedUsesFit'
  BY <1>4, LockedFit
<1>6. CartSound(d)'
  BY <1>1, <1>2, <1>3 DEF CartSound, PlaceSound, UsesSound, LocksSound
<1>7. \A k \in Codes : rowLock[k] # d => rowLock'[k] = rowLock[k]
  BY <1>1, <1>2, UnlockedType
<1> QED  BY <1>2, <1>3, <1>4, <1>5, <1>6, <1>7, ActorSound

(* A handler starts with the codes that were entered.                      *)
LEMMA StartSound ==
  ASSUME PromoInv, PromoTypeOK', NEW d \in Carts, StartCheckout(d)
  PROVE  PromoInv'
<1>1. PromoTypeOK /\ CartSound(d) /\ checkout[d].step = "idle"
  BY DEF PromoInv, StartCheckout
<1>2. /\ checkout'[d] = [step |-> "check", at |-> 1]
      /\ \A c \in Carts : c # d => checkout'[c] = checkout[c]
  BY <1>1, EndType, StepType DEF StartCheckout
<1>3. \A r \in Regs : picked'[r] = IF InCart(r, d) THEN entered[r] ELSE picked[r]
  BY DEF StartCheckout
<1>4. UNCHANGED <<immediate, entered, reg, rowLock>>
  BY DEF StartCheckout
<1>5. ASSUME NEW k  PROVE LockedUses(k)' \subseteq LockedUses(k)
  BY <1>1, <1>3, <1>4, ActorLocked
<1>6. LockedUsesFit'
  BY <1>5, LockedFit
<1>7. Passed(d)' = {}
  BY <1>2, CartPlaces DEF Passed
<1>8. \A k : PassedUses(d, k)' = {}
  BY <1>7 DEF PassedUses
<1>9. CartSound(d)'
  <2>1. PlaceSound(d)'
    <3>1. \A i \in DOMAIN CartOf[d] : picked'[CartOf[d][i]] = entered'[CartOf[d][i]]
      BY <1>3, <1>4, CartPlaces
    <3>2. \A r \in Regs : InCart(r, d) /\ d \in immediate => reg[r] # "valid"
      BY <1>1 DEF CartSound, PlaceSound
    <3> QED  BY <1>2, <1>4, <3>1, <3>2 DEF PlaceSound
  <2>2. UsesSound(d)'
    <3>1. checkout'[d].step = "check"
      BY <1>2
    <3>2. \A k \in Codes : Cardinality(PassedUses(d, k)') <= UsesAllowed[k]
      <4>1. TAKE k \in Codes
      <4>2. PassedUses(d, k)' = {} /\ UsesAllowed[k] \in Nat
        BY <1>8, PromoAssumption
      <4> QED  BY <4>2, FS_EmptySet
    <3> QED  BY <3>1, <3>2 DEF UsesSound
  <2>3. LocksSound(d)'
    BY <1>8 DEF LocksSound, RoomSound
  <2> QED  BY <2>1, <2>2, <2>3 DEF CartSound
<1> QED  BY <1>2, <1>3, <1>4, <1>5, <1>6, <1>9, ActorSound

(* A handler has passed one registration more.                             *)
LEMMA PassedOn ==
  ASSUME PromoInv, NEW d \in Carts, Checking(d), Onward(d)
  PROVE  /\ checkout[d].step = "check" /\ checkout'[d].step = "check"
         /\ \A c \in Carts : c # d => checkout'[c] = checkout[c]
         /\ Current(d) \in Regs \ Passed(d) /\ InCart(Current(d), d)
         /\ Passed(d)' = Passed(d) \cup {Current(d)}
         /\ picked[Current(d)] = entered[Current(d)]
         /\ \A r \in Regs : InCart(r, d) /\ d \in immediate => reg[r] # "valid"
         /\ \A i \in DOMAIN CartOf[d] : i >= checkout'[d].at =>
              CartOf[d][i] # Current(d) /\ picked[CartOf[d][i]] = entered[CartOf[d][i]]
<1>1. PromoTypeOK /\ CartSound(d)
  BY DEF PromoInv
<1>2. /\ checkout'[d].step = "check" /\ checkout'[d].at = checkout[d].at + 1
      /\ \A c \in Carts : c # d => checkout'[c] = checkout[c]
  BY <1>1, OnwardType
<1>3. Current(d) \in Regs /\ InCart(Current(d), d)
  BY <1>1, CurrentType
<1>4. /\ checkout[d].step = "check" /\ checkout[d].at \in DOMAIN CartOf[d]
      /\ checkout[d].at \in Nat /\ \A i \in DOMAIN CartOf[d] : i \in Nat
      /\ Current(d) = CartOf[d][checkout[d].at]
  BY CartPlaces DEF Checking, Current
<1>5. \A i \in DOMAIN CartOf[d] : CartOf[d][i] = Current(d) => i = checkout[d].at
  BY <1>4, CartPlaces
<1>6. Current(d) \notin Passed(d)
  BY <1>4, <1>5 DEF Passed
<1>7. \A i \in DOMAIN CartOf[d] :
        i < checkout[d].at + 1 <=> i < checkout[d].at \/ i = checkout[d].at
  BY <1>4
<1>8. Passed(d)' = Passed(d) \cup {Current(d)}
  BY <1>2, <1>4, <1>7 DEF Passed
<1>9. \A i \in DOMAIN CartOf[d] : i >= checkout[d].at =>
        picked[CartOf[d][i]] = entered[CartOf[d][i]]
  BY <1>1, <1>4 DEF CartSound, PlaceSound
<1>10. \A i \in DOMAIN CartOf[d] : i >= checkout'[d].at => i >= checkout[d].at /\ i # checkout[d].at
  BY <1>2, <1>4
<1>11. \A i \in DOMAIN CartOf[d] : i >= checkout'[d].at =>
         CartOf[d][i] # Current(d) /\ picked[CartOf[d][i]] = entered[CartOf[d][i]]
  BY <1>5, <1>9, <1>10
<1>12. picked[Current(d)] = entered[Current(d)]
  BY <1>4, <1>9
<1>13. \A r \in Regs : InCart(r, d) /\ d \in immediate => reg[r] # "valid"
  BY <1>1, <1>4 DEF CartSound, PlaceSound
<1> QED  BY <1>2, <1>3, <1>4, <1>6, <1>8, <1>11, <1>12, <1>13

(* One without a code changes nothing.                                     *)
LEMMA NoCodeSound ==
  ASSUME PromoInv, PromoTypeOK', NEW d \in Carts, CheckNoCode(d)
  PROVE  PromoInv'
<1>1. PromoTypeOK /\ CartSound(d) /\ Checking(d) /\ Onward(d)
  BY DEF PromoInv, CheckNoCode
<1>2. /\ UNCHANGED <<immediate, entered, picked, reg, rowLock>>
      /\ reg[Current(d)] = "gone" \/ picked[Current(d)] = NoCode
  BY DEF CheckNoCode
<1>3. ASSUME NEW k  PROVE LockedUses(k)' \subseteq LockedUses(k)
  BY <1>1, <1>2, PassedOn, ActorLocked
<1>4. LockedUsesFit'
  BY <1>3, LockedFit
<1>5. ASSUME NEW k \in Codes  PROVE PassedUses(d, k)' = PassedUses(d, k)
  <2>1. Passed(d)' = Passed(d) \cup {Current(d)}
    BY <1>1, PassedOn
  <2> QED  BY <1>2, <2>1, PromoAssumption DEF PassedUses
<1>6. ASSUME NEW k \in Codes  PROVE LockedUses(k)' = LockedUses(k)
  BY <1>2 DEF LockedUses, UsedBy, HeldToTheEnd
<1>7. CartSound(d)'
  <2>1. PlaceSound(d)'
    BY <1>1, <1>2, PassedOn DEF PlaceSound
  <2>2. UsesSound(d)'
    BY <1>1, <1>5, PassedOn DEF CartSound, UsesSound
  <2>3. LocksSound(d)'
    BY <1>1, <1>2, <1>5, <1>6, PassedOn DEF CartSound, LocksSound, RoomSound, HeldToTheEnd
  <2> QED  BY <2>1, <2>2, <2>3 DEF CartSound
<1> QED  BY <1>1, <1>2, <1>3, <1>4, <1>7, PassedOn, ActorSound

(* A code that has room is used, and its row held.                         *)
LEMMA PassesSound ==
  ASSUME PromoInv, PromoTypeOK', NEW d \in Carts, CheckPasses(d)
  PROVE  PromoInv'
<1>1. PICK r : r = Current(d)
  OBVIOUS
<1>2. PICK n : n = picked[r]
  OBVIOUS
<1>3. PromoTypeOK /\ CartSound(d) /\ Checking(d) /\ Onward(d)
  BY DEF PromoInv, CheckPasses, CodeToCheck
<1>4. /\ UNCHANGED <<immediate, entered, picked, reg>> /\ HasRoom(d, n)
      /\ rowLock' = [rowLock EXCEPT ![n] = d] /\ rowLock[n] \in {NoCart, d}
      /\ reg[r] # "gone" /\ n # NoCode
  BY <1>1, <1>2 DEF CheckPasses, CodeToCheck, MayLock, LockedBy
<1>5. r \in Regs \ Passed(d) /\ InCart(r, d) /\ Passed(d)' = Passed(d) \cup {r}
  BY <1>3, <1>1, PassedOn
<1>6. n \in Codes
  BY <1>3, <1>2, <1>4, <1>5 DEF PromoTypeOK
<1>7. rowLock'[n] = d /\ \A k \in Codes : k # n => rowLock'[k] = rowLock[k]
  BY <1>3, <1>4, <1>6 DEF PromoTypeOK
<1>8. ASSUME NEW k  PROVE LockedUses(k)' = LockedUses(k)
  BY <1>4 DEF LockedUses, UsedBy, HeldToTheEnd
<1>9. LockedUsesFit'
  BY <1>8, LockedFit
<1>10. /\ PassedUses(d, n)' = PassedUses(d, n) \cup {r}
      /\ \A k \in Codes : k # n => PassedUses(d, k)' = PassedUses(d, k)
  BY <1>4, <1>5, <1>2 DEF PassedUses
<1>11. /\ PassedUses(d, n) \in SUBSET Regs /\ LockedUses(n) \in SUBSET UsedBy(n)
      /\ UsedBy(n) \in SUBSET Regs
  BY <1>3, UseSets
<1>12. /\ Cardinality(PassedUses(d, n)) \in Nat /\ Cardinality(UsedBy(n)) \in Nat
       /\ Cardinality(LockedUses(n)) \in Nat /\ UsesAllowed[n] \in Nat
       /\ Cardinality(PassedUses(d, n) \cup {r}) \in Nat
  <2>1. LockedUses(n) \in SUBSET Regs /\ PassedUses(d, n) \cup {r} \in SUBSET Regs
    BY <1>5, <1>11
  <2> QED  BY <1>6, <1>11, <2>1, RegsFinite, PromoAssumption
<1>13. /\ Cardinality(PassedUses(d, n) \cup {r}) <= Cardinality(PassedUses(d, n)) + 1
       /\ Cardinality(LockedUses(n)) <= Cardinality(UsedBy(n))
  BY <1>5, <1>11, OneMoreReg, FewerRegs
<1>14. UsesAllowed[n] - Cardinality(UsedBy(n)) - Cardinality(PassedUses(d, n)) > 0
  BY <1>4 DEF HasRoom, UsesRemaining, UsedInCart, PassedUses
<1>15. /\ Cardinality(PassedUses(d, n) \cup {r}) <= UsesAllowed[n]
       /\ Cardinality(LockedUses(n)) + Cardinality(PassedUses(d, n) \cup {r}) <= UsesAllowed[n]
  BY <1>12, <1>13, <1>14
<1>16. CartSound(d)'
  <2>1. PlaceSound(d)'
    BY <1>3, <1>4, PassedOn DEF PlaceSound
  <2>2. checkout[d].step = "check" /\ checkout'[d].step = "check"
    BY <1>3, PassedOn
  <2>3. UsesSound(d)'
    BY <1>3, <1>10, <1>15, <2>2 DEF CartSound, UsesSound
  <2>4. ASSUME HeldToTheEnd(d), NEW k \in Codes  PROVE RoomSound(d, k)'
    <3>1. CASE k = n
      BY <1>7, <1>8, <1>10, <1>15, <3>1 DEF RoomSound
    <3>2. CASE k # n
      <4>1. RoomSound(d, k)
        BY <1>3, <2>2, <2>4 DEF CartSound, LocksSound
      <4> QED  BY <1>7, <1>8, <1>10, <3>2, <4>1 DEF RoomSound
    <3> QED  BY <3>1, <3>2
  <2>5. LocksSound(d)'
    BY <1>4, <2>4 DEF LocksSound, HeldToTheEnd
  <2> QED  BY <2>1, <2>3, <2>5 DEF CartSound
<1>17. \A k \in Codes : rowLock[k] \notin {NoCart, d} => rowLock'[k] = rowLock[k]
  BY <1>4, <1>7
<1>18. \A c \in Carts : c # d => checkout'[c] = checkout[c]
  BY <1>3, PassedOn
<1> QED  BY <1>4, <1>8, <1>9, <1>16, <1>17, <1>18, ActorSound

(* A code of the group that the cart does not use is taken instead.        *)
LEMMA PicksSound ==
  ASSUME PromoInv, PromoTypeOK', NEW d \in Carts, CheckPicksAnother(d)
  PROVE  PromoInv'
<1>1. PICK r : r = Current(d)
  OBVIOUS
<1>2. PICK n : /\ n \in ValidCodes \ UsedCodes(d) /\ picked' = [picked EXCEPT ![r] = n]
  BY <1>1 DEF CheckPicksAnother, Lookup
<1>3. PromoTypeOK /\ CartSound(d) /\ Checking(d) /\ Onward(d)
  BY DEF PromoInv, CheckPicksAnother, CodeToCheck
<1>4. /\ UNCHANGED <<immediate, entered, reg>> /\ rowLock' = Unlocked(d)
      /\ ~HasRoom(d, picked[r]) /\ reg[r] # "gone"
  BY <1>1 DEF CheckPicksAnother, CodeToCheck
<1>5. /\ r \in Regs \ Passed(d) /\ InCart(r, d) /\ Passed(d)' = Passed(d) \cup {r}
      /\ picked[r] = entered[r] /\ checkout[d].step = "check" /\ checkout'[d].step = "check"
      /\ \A c \in Carts : c # d => checkout'[c] = checkout[c]
  BY <1>1, <1>3, PassedOn
<1>6. n \in Codes /\ picked'[r] = n /\ \A q \in Regs : q # r => picked'[q] = picked[q]
  BY <1>2, <1>3, <1>5 DEF ValidCodes, PromoTypeOK
<1>7. Passed(d) \in SUBSET Regs
  BY <1>3, UseSets
<1>8. PassedUses(d, n) = {}
  BY <1>2 DEF PassedUses, UsedCodes
<1>9. /\ PassedUses(d, n)' = {r}
      /\ \A k \in Codes : k # n => PassedUses(d, k)' = PassedUses(d, k)
  BY <1>4, <1>5, <1>6, <1>7, <1>8 DEF PassedUses
<1>10. ASSUME NEW k  PROVE LockedUses(k)' \subseteq LockedUses(k)
  <2>1. \A q \in Regs : ~InCart(q, d) =>
          reg'[q] = reg[q] /\ picked'[q] = picked[q] /\ entered'[q] = entered[q]
    BY <1>4, <1>5, <1>6
  <2> QED  BY <1>4, <1>5, <2>1, ActorLocked
<1>11. LockedUsesFit'
  BY <1>10, LockedFit
<1>12. ~HeldToTheEnd(d)'
  <2> SUFFICES ASSUME HeldToTheEnd(d)'  PROVE FALSE
    OBVIOUS
  <2>1. n = picked[r]
    BY <1>4, <1>5, <1>6 DEF HeldToTheEnd
  <2>2. UsedInCart(d, n) = 0
    BY <1>8, FS_EmptySet DEF UsedInCart, PassedUses
  <2>3. UsesRemaining(n) > 0 /\ UsesRemaining(n) \in Int
    <3>1. Cardinality(UsedBy(n)) \in Nat /\ UsesAllowed[n] \in Nat
      BY <1>3, <1>6, UseSets, RegsFinite, PromoAssumption
    <3> QED  BY <1>2, <3>1 DEF ValidCodes, UsesRemaining
  <2>4. HasRoom(d, n)
    BY <2>2, <2>3 DEF HasRoom
  <2> QED  BY <1>4, <2>1, <2>4
<1>13. CartSound(d)'
  <2>1. PlaceSound(d)'
    <3>1. \A i \in DOMAIN CartOf[d] : i >= checkout'[d].at =>
            picked'[CartOf[d][i]] = entered[CartOf[d][i]]
      BY <1>1, <1>3, <1>6, PassedOn, CartPlaces
    <3> QED  BY <1>3, <1>4, <1>5, <3>1, PassedOn DEF PlaceSound
  <2>2. Cardinality({r}) <= UsesAllowed[n]
    <3>1. UsesAllowed[n] \in Nat /\ UsesAllowed[n] # 0
      BY <1>6, PromoAssumption
    <3>2. Cardinality({r}) = 1
      BY FS_Singleton
    <3> QED  BY <3>1, <3>2
  <2>3. UsesSound(d)'
    BY <1>3, <1>5, <1>9, <2>2 DEF CartSound, UsesSound
  <2>4. LocksSound(d)'
    BY <1>12 DEF LocksSound
  <2> QED  BY <2>1, <2>3, <2>4 DEF CartSound
<1>14. \A k \in Codes : rowLock[k] # d => rowLock'[k] = rowLock[k]
  BY <1>3, <1>4, UnlockedType
<1>15. \A q \in Regs : ~InCart(q, d) =>
         reg'[q] = reg[q] /\ picked'[q] = picked[q] /\ entered'[q] = entered[q]
  BY <1>4, <1>5, <1>6
<1> QED  BY <1>4, <1>5, <1>10, <1>11, <1>13, <1>14, <1>15, ActorSound

(* A cart that is written: what it has passed is what it has.              *)
LEMMA WrittenUses ==
  ASSUME PromoInv, NEW d \in Carts, Checked(d), NEW st \in {"pending", "valid"},
         reg' = SetRegs(InOrder(d), st), picked' = picked
  PROVE  /\ checkout[d].step = "check"
         /\ \A k : CartUses(d, k)' = PassedUses(d, k)
         /\ \A r \in Regs : InCart(r, d) /\ reg'[r] # "gone" => r \in PassedUses(d, picked[r])
         /\ \A r \in Regs : ~InCart(r, d) => reg'[r] = reg[r]
<1>1. /\ PromoTypeOK /\ checkout[d].step = "check" /\ checkout[d].at > Len(CartOf[d])
      /\ checkout[d].at \in Nat
  BY DEF PromoInv, Checked, PromoTypeOK, Checkout
<1>2. Passed(d) = {r \in Regs : InCart(r, d)}
  <2>1. \A i \in DOMAIN CartOf[d] : i < checkout[d].at /\ CartOf[d][i] \in Regs
    BY <1>1, CartPlaces
  <2> QED  BY <2>1 DEF Passed, InCart
<1>3. \A r \in Regs : reg'[r] = IF InCart(r, d) /\ reg[r] # "gone" THEN st ELSE reg[r]
  BY DEF SetRegs, InOrder
<1> QED  BY <1>1, <1>2, <1>3 DEF CartUses, PassedUses

(* Carts that are paid by card count later: they are pending first.        *)
LEMMA PendingSound ==
  ASSUME PromoInv, PromoTypeOK', NEW d \in Carts, WritePending(d)
  PROVE  PromoInv'
<1>1. PromoTypeOK /\ CartSound(d) /\ Checked(d) /\ d \notin immediate
  BY DEF PromoInv, WritePending
<1>2. /\ UNCHANGED <<immediate, entered, picked>> /\ rowLock' = Unlocked(d)
      /\ reg' = SetRegs(InOrder(d), "pending")
  BY DEF WritePending
<1>3. checkout'[d].step = "sent" /\ \A c \in Carts : c # d => checkout'[c] = checkout[c]
  <2>1. checkout[d] \in Checkout
    BY <1>1 DEF PromoTypeOK
  <2>2. PICK h \in Checkout : h = [checkout[d] EXCEPT !.step = "sent"] /\ h.step = "sent"
    BY <2>1, StepType
  <2> QED  BY <1>1, <2>2, EndType DEF WritePending
<1>4. /\ checkout[d].step = "check" /\ \A k : CartUses(d, k)' = PassedUses(d, k)
      /\ \A r \in Regs : ~InCart(r, d) => reg'[r] = reg[r]
  BY <1>1, <1>2, WrittenUses
<1>5. ASSUME NEW k  PROVE LockedUses(k)' \subseteq LockedUses(k)
  BY <1>1, <1>2, <1>4, ActorLocked
<1>6. LockedUsesFit'
  BY <1>5, LockedFit
<1>7. CartSound(d)'
  BY <1>1, <1>2, <1>3, <1>4 DEF CartSound, PlaceSound, UsesSound, LocksSound
<1>8. \A k \in Codes : rowLock[k] # d => rowLock'[k] = rowLock[k]
  BY <1>1, <1>2, UnlockedType
<1> QED  BY <1>2, <1>3, <1>4, <1>5, <1>6, <1>7, <1>8, ActorSound

(* The payment of a cart arrives.                                          *)
LEMMA ArrivesSound ==
  ASSUME PromoInv, PromoTypeOK', NEW d \in Carts, PaymentArrives(d)
  PROVE  PromoInv'
<1>1. PromoTypeOK /\ CartSound(d) /\ checkout[d].step = "sent"
  BY DEF PromoInv, PaymentArrives
<1>2. d \notin immediate /\ UNCHANGED <<immediate, entered, picked, rowLock>>
  BY <1>1 DEF CartSound, PlaceSound, PaymentArrives
<1>3. checkout'[d].step = "done" /\ \A c \in Carts : c # d => checkout'[c] = checkout[c]
  <2>1. checkout[d] \in Checkout
    BY <1>1 DEF PromoTypeOK
  <2>2. PICK h \in Checkout : h = [checkout[d] EXCEPT !.step = "done"] /\ h.step = "done"
    BY <2>1, StepType
  <2> QED  BY <1>1, <2>2, EndType DEF PaymentArrives
<1>4. \A r \in Regs : reg'[r] = IF InCart(r, d) /\ reg[r] = "pending" THEN "valid" ELSE reg[r]
  BY DEF PaymentArrives, SetRegs, InOrder
<1>5. ASSUME NEW k  PROVE CartUses(d, k)' = CartUses(d, k)
  BY <1>2, <1>4 DEF CartUses
<1>6. ASSUME NEW k  PROVE LockedUses(k)' \subseteq LockedUses(k)
  BY <1>2, <1>4, ActorLocked
<1>7. LockedUsesFit'
  BY <1>6, LockedFit
<1>8. CartSound(d)'
  BY <1>1, <1>2, <1>3, <1>5 DEF CartSound, PlaceSound, UsesSound, LocksSound
<1> QED  BY <1>2, <1>3, <1>4, <1>6, <1>7, <1>8, ActorSound

(* Carts that are written at once count from then on: where they hold the  *)
(* rows, there is room, and no other handler does.                         *)
LEMMA ImmediateSound ==
  ASSUME PromoInv, PromoTypeOK', NEW d \in Carts, WriteImmediate(d)
  PROVE  PromoInv'
<1>1. PromoTypeOK /\ CartSound(d) /\ Checked(d) /\ d \in immediate
  BY DEF PromoInv, WriteImmediate
<1>2. /\ UNCHANGED <<immediate, entered, picked>> /\ rowLock' = Unlocked(d)
      /\ reg' = SetRegs(InOrder(d), "valid")
  BY DEF WriteImmediate
<1>3. checkout'[d].step = "done" /\ \A c \in Carts : c # d => checkout'[c] = checkout[c]
  <2>1. checkout[d] \in Checkout
    BY <1>1 DEF PromoTypeOK
  <2>2. PICK h \in Checkout : h = [checkout[d] EXCEPT !.step = "done"] /\ h.step = "done"
    BY <2>1, StepType
  <2> QED  BY <1>1, <2>2, EndType DEF WriteImmediate
<1>4. /\ checkout[d].step = "check" /\ \A k : CartUses(d, k)' = PassedUses(d, k)
      /\ \A r \in Regs : InCart(r, d) /\ reg'[r] # "gone" => r \in PassedUses(d, picked[r])
      /\ \A r \in Regs : ~InCart(r, d) => reg'[r] = reg[r]
  BY <1>1, <1>2, WrittenUses
<1>5. ASSUME NEW k, NEW r, r \in LockedUses(k)'
      PROVE  r \in LockedUses(k) \/ (HeldToTheEnd(d) /\ r \in PassedUses(d, k))
  <2>1. PICK c \in Carts : InCart(r, c) /\ HeldToTheEnd(c)
    BY <1>2, <1>5 DEF LockedUses, HeldToTheEnd
  <2>2. r \in Regs /\ reg'[r] = "valid" /\ picked[r] = k
    BY <1>2, <1>5 DEF LockedUses, UsedBy
  <2>3. CASE InCart(r, d)
    BY <1>4, <2>1, <2>2, <2>3, OneCart
  <2>4. CASE ~InCart(r, d)
    BY <1>4, <2>1, <2>2, <2>4 DEF LockedUses, UsedBy
  <2> QED  BY <2>3, <2>4
<1>6. ASSUME NEW k, HeldToTheEnd(d) => PassedUses(d, k) = {}
      PROVE  LockedUses(k)' \subseteq LockedUses(k)
  BY <1>5, <1>6
<1>7. ASSUME NEW k \in Codes, HeldToTheEnd(d), PassedUses(d, k) # {}
      PROVE  /\ rowLock[k] = d
             /\ Cardinality(LockedUses(k)) + Cardinality(PassedUses(d, k)) <= UsesAllowed[k]
  BY <1>1, <1>4, <1>7 DEF CartSound, LocksSound, RoomSound
<1>8. LockedUsesFit'
  <2> SUFFICES ASSUME NEW k \in Codes  PROVE Cardinality(LockedUses(k)') <= UsesAllowed[k]
    BY DEF LockedUsesFit
  <2>1. /\ LockedUses(k) \in SUBSET Regs /\ LockedUses(k)' \in SUBSET Regs
        /\ PassedUses(d, k) \in SUBSET Regs /\ UsesAllowed[k] \in Nat
    BY <1>1, UseSets, PromoAssumption DEF LockedUses, UsedBy
  <2>2. CASE HeldToTheEnd(d) => PassedUses(d, k) = {}
    <3>1. Cardinality(LockedUses(k)') <= Cardinality(LockedUses(k))
      BY <1>6, <2>1, <2>2, FewerRegs
    <3>2. Cardinality(LockedUses(k)) <= UsesAllowed[k]
      BY DEF PromoInv, LockedUsesFit
    <3> QED  BY <2>1, <3>1, <3>2, RegsFinite
  <2>3. CASE HeldToTheEnd(d) /\ PassedUses(d, k) # {}
    <3>1. Cardinality(LockedUses(k)) + Cardinality(PassedUses(d, k)) <= UsesAllowed[k]
      BY <1>7, <2>3
    <3>2. /\ LockedUses(k)' \in SUBSET (LockedUses(k) \cup PassedUses(d, k))
          /\ LockedUses(k) \cup PassedUses(d, k) \in SUBSET Regs
      BY <1>5, <2>1
    <3>3. /\ Cardinality(LockedUses(k)') <= Cardinality(LockedUses(k) \cup PassedUses(d, k))
          /\ Cardinality(LockedUses(k) \cup PassedUses(d, k))
               <= Cardinality(LockedUses(k)) + Cardinality(PassedUses(d, k))
      BY <2>1, <3>2, FewerRegs, BothRegs
    <3>4. /\ Cardinality(LockedUses(k)') \in Nat /\ Cardinality(LockedUses(k)) \in Nat
          /\ Cardinality(PassedUses(d, k)) \in Nat
          /\ Cardinality(LockedUses(k) \cup PassedUses(d, k)) \in Nat
      BY <2>1, <3>2, RegsFinite
    <3> QED  BY <2>1, <3>1, <3>3, <3>4
  <2> QED  BY <2>2, <2>3
<1>9. CartSound(d)'
  BY <1>1, <1>2, <1>3, <1>4 DEF CartSound, PlaceSound, UsesSound, LocksSound
<1>10. ASSUME NEW k \in Codes, rowLock[k] \notin {NoCart, d}
       PROVE  rowLock'[k] = rowLock[k] /\ LockedUses(k)' \subseteq LockedUses(k)
  BY <1>1, <1>2, <1>6, <1>7, <1>10, UnlockedType
<1> QED  BY <1>2, <1>3, <1>4, <1>8, <1>9, <1>10, ActorSound

-----------------------------------------------------------------------------
(* Every step keeps all of this,                                           *)
LEMMA PromoStepSound == PromoInv /\ [PromoNext]_promoVars => PromoInv'
<1> SUFFICES ASSUME PromoInv, [PromoNext]_promoVars PROVE PromoInv'
  OBVIOUS
<1>1. PromoTypeOK'
  BY PromoStepTyped DEF PromoInv
<1>2. CASE UNCHANGED promoVars
  BY <1>1, <1>2, OutsideSound DEF promoVars
<1>3. ASSUME NEW c \in Carts, CheckCode(c)  PROVE PromoInv'
  BY <1>1, <1>3, NoCodeSound, PassesSound, PicksSound, BackSound DEF CheckCode
<1> QED
  BY <1>1, <1>2, <1>3, FormsSound, StartSound, BackSound, ImmediateSound, PendingSound, ArrivesSound
  DEF PromoNext

(* and it holds at first, when no code is used.                            *)
LEMMA PromoInitSound == PromoInit => PromoInv
<1> SUFFICES ASSUME PromoInit PROVE PromoInv
  OBVIOUS
<1>1. \A k : LockedUses(k) = {}
  BY DEF PromoInit, LockedUses, UsedBy
<1>2. LockedUsesFit
  <2> SUFFICES ASSUME NEW k \in Codes  PROVE Cardinality(LockedUses(k)) <= UsesAllowed[k]
    BY DEF LockedUsesFit
  <2>1. LockedUses(k) = {} /\ UsesAllowed[k] \in Nat
    BY <1>1, PromoAssumption
  <2> QED  BY <2>1, FS_EmptySet
<1>3. \A c \in Carts : checkout[c].step = "idle"
  BY DEF PromoInit, NoCheckout
<1>4. \A r \in Regs : reg[r] # "valid"
  BY DEF PromoInit
<1> QED
  BY <1>2, <1>3, <1>4, PromoInitTyped DEF PromoInv, CartSound, PlaceSound, UsesSound, LocksSound

(* Free carts and carts paid at the door that finish side by side, with    *)
(* the codes that were entered, use no code more often than it allows: a   *)
(* handler holds the row of a code from the moment it finds room until its *)
(* registrations count (check_promo_code).  Badges claimed without a cart  *)
(* and carts paid by card are not held back by these locks.                *)
THEOREM CartsUnderLockFit == PromoSpec => []LockedUsesFit
<1>1. PromoInv => LockedUsesFit
  BY DEF PromoInv
<1> QED  BY <1>1, PromoInitSound, PromoStepSound, PTL DEF PromoSpec

(* Each cart alone, once it is written, uses no code more often than it    *)
(* allows, whether its codes were entered or handed out to it and however  *)
(* often it was given up and checked again (used_promo_codes).             *)
THEOREM EachCartFits == PromoSpec => []CartUsesFit
<1>1. PromoInv => CartUsesFit
  BY DEF PromoInv, CartSound, UsesSound, CartUsesFit
<1> QED  BY <1>1, PromoInitSound, PromoStepSound, PTL DEF PromoSpec


-----------------------------------------------------------------------------
(* Rows and what is written to them.                                       *)

(* The rows of a number that is not in use.                                *)
LEMMA EmptyRows ==
  /\ NoRow \in Row /\ NoRow.place = "none" /\ NoRow.holder = Nobody /\ NoRow.paid = "group"
  /\ Gone \in Row /\ Gone.place = "gone" /\ Gone.holder = Nobody /\ Gone.paid = "group"
BY DEF NoRow, Gone, Row

(* The adjustments before a save change the status only, and leave no      *)
(* valid badge to a group that was declined or cancelled.                  *)
LEMMA AdjustedRow ==
  ASSUME NEW r \in Row, NEW status \in GroupStatuses
  PROVE  /\ Adjusted(r, status) \in Row
         /\ Adjusted(r, status).place = r.place
         /\ Adjusted(r, status).holder = r.holder
         /\ Adjusted(r, status).paid = r.paid
         /\ status \in {"declined", "cancelled"} /\ r.place = "group" /\ r.paid = "group" =>
              Adjusted(r, status).state # "ok"
BY DEF Adjusted, Row, GroupStatuses

(* The rows of a handler once they are adjusted.                           *)
LEMMA PresavedRows ==
  ASSUME NEW rows \in [Badges -> Row], NEW changed, NEW status \in GroupStatuses
  PROVE  /\ Presaved(rows, changed, status) \in [Badges -> Row]
         /\ \A b \in Badges :
              LET saved == Presaved(rows, changed, status)[b] IN
              /\ saved.place = rows[b].place
              /\ saved.holder = rows[b].holder
              /\ saved.paid = rows[b].paid
              /\ b \notin changed \cup Members(rows) => saved = rows[b]
              /\ /\ status \in {"declined", "cancelled"}
                 /\ b \in Purchased(rows) /\ saved.state = "ok"
                 => saved = rows[b] /\ b \notin changed /\ status = group.status
<1> DEFINE saved == Presaved(rows, changed, status)
<1>1. \A b \in Badges : saved[b] = Adjusted(rows[b], status) \/ saved[b] = rows[b]
  BY DEF Presaved
<1>2. ASSUME NEW b \in Badges
      PROVE  /\ saved[b] \in Row /\ saved[b].place = rows[b].place
             /\ saved[b].holder = rows[b].holder /\ saved[b].paid = rows[b].paid
  BY <1>1, AdjustedRow
<1>3. saved \in [Badges -> Row]
  BY <1>2 DEF Presaved
<1>4. ASSUME NEW b \in Badges, b \notin changed \cup Members(rows)
      PROVE  saved[b] = rows[b]
  BY <1>4 DEF Presaved
<1>5. ASSUME NEW b \in Badges, status \in {"declined", "cancelled"}, b \in Purchased(rows),
             saved[b].state = "ok"
      PROVE  saved[b] = rows[b] /\ b \notin changed /\ status = group.status
  <2>1. rows[b].place = "group" /\ rows[b].paid = "group" /\ b \in Members(rows)
    BY <1>5 DEF Purchased, Members
  <2>2. Adjusted(rows[b], status).state # "ok"
    BY <1>5, <2>1, AdjustedRow
  <2> QED  BY <1>5, <2>1, <2>2 DEF Presaved
<1> HIDE DEF saved
<1>6. QED  BY <1>2, <1>3, <1>4, <1>5 DEF saved

(* What a handler writes turns the rows it read into those it computed.    *)
LEMMA ChangesMerge ==
  ASSUME badge \in [Badges -> Row], NEW rows \in [Badges -> Row],
         \A b \in Badges : rows[b].place # "none" \/ rows[b] = badge[b]
  PROVE  /\ Changes(rows) \in [Badges -> Change]
         /\ \A b \in Badges : Merged(badge, Changes(rows))[b] = rows[b]
         /\ \A b \in Badges :
              /\ Changes(rows)[b].place \in {"same", rows[b].place}
              /\ Changes(rows)[b].paid =
                   IF rows[b].paid = badge[b].paid THEN "same" ELSE rows[b].paid
              /\ Changes(rows)[b] # Unwritten => rows[b] # badge[b]
              /\ Changes(rows)[b].place # "same" => rows[b].place # badge[b].place
<1>1. \A b \in Badges : Changes(rows)[b] =
        [f \in Columns |-> IF rows[b][f] = badge[b][f] THEN "same" ELSE rows[b][f]]
  BY DEF Changes
<1>2. ASSUME NEW b \in Badges
      PROVE  /\ Changes(rows)[b] \in Change
             /\ Changes(rows)[b].place =
                  IF rows[b].place = badge[b].place THEN "same" ELSE rows[b].place
             /\ Changes(rows)[b].holder =
                  IF rows[b].holder = badge[b].holder THEN "same" ELSE rows[b].holder
             /\ Changes(rows)[b].paid =
                  IF rows[b].paid = badge[b].paid THEN "same" ELSE rows[b].paid
             /\ Changes(rows)[b].state =
                  IF rows[b].state = badge[b].state THEN "same" ELSE rows[b].state
  <2>1. rows[b] \in Row /\ badge[b] \in Row
    OBVIOUS
  <2>2. /\ Changes(rows)[b].place =
             IF rows[b].place = badge[b].place THEN "same" ELSE rows[b].place
        /\ Changes(rows)[b].holder =
             IF rows[b].holder = badge[b].holder THEN "same" ELSE rows[b].holder
        /\ Changes(rows)[b].paid =
             IF rows[b].paid = badge[b].paid THEN "same" ELSE rows[b].paid
        /\ Changes(rows)[b].state =
             IF rows[b].state = badge[b].state THEN "same" ELSE rows[b].state
    BY <1>1 DEF Columns
  <2>3. DEFINE c == Changes(rows)[b]
  <2>4. c = [f \in Columns |-> c[f]]
    BY <1>1
  <2>5. c = [place |-> c.place, holder |-> c.holder, paid |-> c.paid, state |-> c.state]
    BY <2>4 DEF Columns
  <2>6. /\ c.place \in {"same", "group", "apart", "gone"} /\ c.holder \in People \cup {Nobody, "same"}
        /\ c.paid \in {"same", "group", "self", "has"}
        /\ c.state \in {"same", "ok", "unapproved", "invalid"}
    BY <2>1, <2>2 DEF Row
  <2> QED  BY <2>2, <2>5, <2>6 DEF Change
<1>3. Changes(rows) \in [Badges -> Change]
  BY <1>2 DEF Changes
<1>4. ASSUME NEW b \in Badges
      PROVE  Merged(badge, Changes(rows))[b] = rows[b]
  <2>1. Merged(badge, Changes(rows))[b] =
          [f \in Columns |-> IF Changes(rows)[b][f] = "same" THEN badge[b][f]
                            ELSE Changes(rows)[b][f]]
    BY DEF Merged
  <2>2. rows[b] \in Row /\ badge[b] \in Row
    OBVIOUS
  <2>3. rows[b].holder # "same"
    BY <2>2, GroupAssumption DEF Row
  <2>4. \A f \in Columns : Merged(badge, Changes(rows))[b][f] = rows[b][f]
    BY <1>2, <2>1, <2>2, <2>3 DEF Row, Columns
  <2>5. rows[b] = [f \in Columns |-> rows[b][f]]
    BY <2>2 DEF Row, Columns
  <2> QED  BY <2>1, <2>4, <2>5
<1>5. \A b \in Badges : rows[b] = badge[b] => Changes(rows)[b] = Unwritten
  BY <1>1 DEF Unwritten
<1> QED  BY <1>2, <1>3, <1>4, <1>5

(* A merged row is one.                                                    *)
LEMMA MergedRow ==
  ASSUME NEW rows \in [Badges -> Row], NEW write \in [Badges -> Change], NEW b \in Badges
  PROVE  /\ Merged(rows, write)[b] \in Row
         /\ Merged(rows, write)[b].place = IF write[b].place = "same" THEN rows[b].place
                                 ELSE write[b].place
         /\ Merged(rows, write)[b].paid = IF write[b].paid = "same" THEN rows[b].paid
                                ELSE write[b].paid
         /\ Merged(rows, write)[b].holder = IF write[b].holder = "same" THEN rows[b].holder
                                  ELSE write[b].holder
         /\ write[b] = Unwritten => Merged(rows, write)[b] = rows[b]
<1>1. write[b] \in Change /\ rows[b] \in Row
  OBVIOUS
<1>2. Merged(rows, write)[b] = [f \in Columns |-> IF write[b][f] = "same" THEN rows[b][f]
                                       ELSE write[b][f]]
  BY DEF Merged
<1>3. Merged(rows, write)[b] \in Row
  BY <1>1, <1>2 DEF Change, Row, Columns
<1>4. ASSUME write[b] = Unwritten  PROVE Merged(rows, write)[b] = rows[b]
  <2>1. \A f \in Columns : Merged(rows, write)[b][f] = rows[b][f]
    BY <1>2, <1>4 DEF Unwritten
  <2>2. rows[b] = [f \in Columns |-> rows[b][f]]
    BY <1>1 DEF Row, Columns
  <2> QED  BY <1>2, <2>1, <2>2
<1> QED  BY <1>1, <1>2, <1>3, <1>4 DEF Columns

-----------------------------------------------------------------------------
(* Counting.                                                               *)

(* The sets of badges have a size.                                         *)
LEMMA BadgesFinite ==
  ASSUME NEW S \in SUBSET Badges
  PROVE  IsFiniteSet(S) /\ Cardinality(S) \in Nat /\ Cardinality(S) <= MaxBadges
<1>1. IsFiniteSet(Badges) /\ Cardinality(Badges) = MaxBadges
  BY GroupAssumption, FS_Interval DEF Badges
<1> QED  BY <1>1, FS_Subset, FS_CardinalityType

(* A set of badges that is not empty has a last one.                       *)
LEMMA LastBadge ==
  ASSUME NEW S \in SUBSET Badges, S # {}
  PROVE  \E m \in S : \A b \in S : b <= m
<1> DEFINE N == {MaxBadges - b : b \in S}
<1>1. MaxBadges \in Nat /\ \A b \in S : b \in 1 .. MaxBadges
  BY GroupAssumption DEF Badges
<1>2. N \in SUBSET Nat /\ N # {}
  BY <1>1
<1>3. PICK n \in N : \A k \in N : n <= k
  BY <1>2, LeastNumber
<1>4. PICK m \in S : n = MaxBadges - m
  BY <1>3
<1>5. ASSUME NEW b \in S  PROVE b <= m
  <2>1. n <= MaxBadges - b
    BY <1>3
  <2> QED  BY <1>1, <1>4, <2>1
<1> QED  BY <1>4, <1>5

(* Of the free numbers the first few are taken: no more than few.          *)
LEMMA FirstFew ==
  ASSUME NEW S \in SUBSET Badges, NEW few \in Nat
  PROVE  Cardinality({b \in S : Cardinality({c \in S : c < b}) < few}) <= few
<1> DEFINE before(b) == {c \in S : c < b}
           T == {b \in S : Cardinality(before(b)) < few}
<1>1. T \in SUBSET Badges
  OBVIOUS
<1>2. CASE T = {}
  <2> HIDE DEF T
  <2>1. Cardinality(T) <= few
    BY <1>2, FS_EmptySet
  <2> QED  BY <2>1 DEF T
<1>3. CASE T # {}
  <2>1. PICK m \in T : \A b \in T : b <= m
    BY <1>1, <1>3, LastBadge
  <2>2. T \ {m} \subseteq before(m)
    <3>1. ASSUME NEW b \in T, b # m  PROVE b < m
      BY <2>1, <3>1, GroupAssumption DEF Badges
    <3> QED  BY <3>1
  <2>3. before(m) \in SUBSET Badges
    OBVIOUS
  <2>4. IsFiniteSet(before(m)) /\ Cardinality(before(m)) \in Nat
    BY <2>3, BadgesFinite
  <2>5. Cardinality(T \ {m}) <= Cardinality(before(m))
    BY <2>2, <2>4, FS_Subset
  <2>6. Cardinality(before(m)) < few
    BY <2>1
  <2>7. IsFiniteSet(T) /\ Cardinality(T) \in Nat
    BY <1>1, BadgesFinite
  <2> HIDE DEF T, before
  <2>8. Cardinality(T \ {m}) = Cardinality(T) - 1
    BY <2>1, <2>7, FS_RemoveElement
  <2>9. Cardinality(T) <= few
    BY <2>4, <2>5, <2>6, <2>7, <2>8
  <2> QED  BY <2>9 DEF T, before
<1> QED  BY <1>2, <1>3

-----------------------------------------------------------------------------
(* The invariant.                                                          *)

(* A number that is not in use has no row, and a badge that left the group *)
(* is not paid by it.                                                      *)
RowSound(row) ==
  /\ row.place = "none" => row = NoRow
  /\ row.place = "gone" => row = Gone
  /\ row.place = "apart" => row.paid # "group"

(* What is so of a handler's rows as long as nobody else has written:      *)
(* they are paid for,                                                      *)
PaidFor(j, rows) ==
  Cardinality(Purchased(Merged(rows, j.write))) + j.more <= Cardinality(Purchased(rows)) + j.bill

(* they are not valid if the group is declined,                            *)
StatusAfter(j, status) == IF j.to = "same" THEN status ELSE j.to
NotValid(j, rows, status) ==
  StatusAfter(j, status) \in {"declined", "cancelled"} =>
    /\ j.more > 0 => j.new.state # "ok"
    /\ \A b \in Purchased(Merged(rows, j.write)) :
         Merged(rows, j.write)[b].state = "ok" =>
           rows[b] = Merged(rows, j.write)[b] /\ status = StatusAfter(j, status)

(* who has a badge keeps it,                                               *)
HoldersKept(j, rows) ==
  \A b \in Badges : rows[b].holder # Nobody =>
    IF Merged(rows, j.write)[b].place = "gone" THEN j.more = 1
    ELSE Merged(rows, j.write)[b].holder = rows[b].holder

(* and none of them was deleted.                                           *)
NoneLost(j, rows) == \A b \in Badges : j.write[b] # Unwritten => rows[b] # Gone

(* What a handler is to write holds for rows that may have changed: their  *)
(* numbers are not given to others, it lets go only of badges the group    *)
(* does not pay for, and never makes the group pay.                        *)
Knows(j, rows) ==
  /\ \A b \in Badges :
       /\ j.write[b] # Unwritten \/ b \in j.left => rows[b].place # "none"
       /\ j.write[b].place = "apart" => rows[b].paid # "group" \/ rows[b] = Gone
       /\ j.write[b].paid \in {"same", "self"}
  /\ j.more > 0 => j.new.place = "group" /\ j.new.holder = Nobody
  /\ j.stage = "convert" => j.bill = 0

HandlerSound(j, rows, status) ==
  /\ Knows(j, rows)
  /\ j.stage = "write" /\ j.fresh =>
       /\ PaidFor(j, rows) /\ NotValid(j, rows, status)
       /\ HoldersKept(j, rows) /\ NoneLost(j, rows)

GroupInv ==
  /\ GroupTypeOK
  /\ \A b \in Badges : RowSound(badge[b])
  /\ \A w \in Handlers : HandlerSound(handler[w], badge, group.status)

(* A handler at rest remembers nothing.                                    *)
LEMMA RestSound ==
  ASSUME badge \in [Badges -> Row]
  PROVE  /\ AtRest \in HandlerType
         /\ AtRest.stage = "idle" /\ AtRest.more = 0 /\ AtRest.left = {} /\ AtRest.bill = 0
         /\ \A b \in Badges : AtRest.write[b] = Unwritten
         /\ Unwritten.place = "same" /\ Unwritten.paid = "same" /\ Unwritten.holder = "same"
         /\ Unwritten \in Change
<1>1. /\ Unwritten.place = "same" /\ Unwritten.paid = "same" /\ Unwritten.holder = "same"
      /\ Unwritten.state = "same"
  BY DEF Unwritten, Columns
<1>2. Unwritten = [place |-> "same", holder |-> "same", paid |-> "same", state |-> "same"]
  BY DEF Unwritten, Columns
<1>3. Unwritten \in Change
  BY <1>2 DEF Change
<1>4. [b \in Badges |-> Unwritten] \in [Badges -> Change]
  BY <1>3
<1>5. 0 \in 0 .. MaxBadges /\ 0 \in -MaxBadges .. MaxBadges
  BY GroupAssumption
<1>6. AtRest \in HandlerType
  BY <1>4, <1>5, EmptyRows DEF AtRest, HandlerType
<1> QED  BY <1>1, <1>3, <1>6 DEF AtRest

-----------------------------------------------------------------------------
(* Reading.                                                                *)

(* The rows a request comes to, before they are adjusted: none of another  *)
(* number, and each of what PaidFor, NotValid and HoldersKept say.         *)
FairRow(old, row, more) ==
  /\ row # old => old.place \notin {"none", "gone"} /\ row.place # "none"
  /\ row.place = "apart" /\ old.place # "apart" => old.paid # "group"
  /\ row.paid \in {old.paid, "self"}
  /\ old.holder # Nobody => IF row.place = "gone" THEN more = 1 ELSE row.holder = old.holder

Fair(rows, more, bill) ==
  /\ rows \in [Badges -> Row]
  /\ \A b \in Badges : FairRow(badge[b], rows[b], more)
  /\ Cardinality(Purchased(rows)) + more <= Cardinality(Purchased(badge)) + bill

(* The number of rows that are to be made has a bound.                     *)
LEMMA MoreFits ==
  ASSUME GroupTypeOK, NEW w \in Handlers, NEW rows, NEW more \in Nat, NEW to, NEW bill,
         ToWrite(w, rows, more, to, bill)
  PROVE  more \in 0 .. MaxBadges
<1> DEFINE made == [v \in Handlers |-> handler[v].more]
           reserved == SumFunctionOnSet(made, Handlers)
           free == {b \in Badges : badge[b].place = "none"}
<1>1. \A v \in Handlers : made[v] \in Nat
  BY GroupAssumption DEF GroupTypeOK, HandlerType
<1>2. IsFiniteSet(Handlers)
  BY GroupAssumption
<1> HIDE DEF made
<1>3. reserved \in Nat
  BY <1>1, <1>2, SumNat
<1>4. more + reserved <= Cardinality(free)
  BY DEF ToWrite, made
<1>5. Cardinality(free) \in Nat /\ Cardinality(free) <= MaxBadges
  BY BadgesFinite
<1> HIDE DEF reserved, free
<1> QED  BY <1>3, <1>4, <1>5, GroupAssumption

(* A handler starts as j.                                                  *)
Started(w, j) ==
  /\ j \in HandlerType
  /\ handler' = [handler EXCEPT ![w] = j]
  /\ HandlerSound(j, badge, group.status)
  /\ j.stage = "convert" => j.left = Members(badge)

(* A handler that has read such rows knows what it is to write.            *)
LEMMA ReadSound ==
  ASSUME GroupInv, NEW w \in Handlers, NEW rows, NEW more \in Nat,
         NEW to \in GroupStatuses \cup {"same"}, NEW bill \in -MaxBadges .. MaxBadges,
         Fair(rows, more, bill), ToWrite(w, rows, more, to, bill)
  PROVE  \E j :
           /\ Started(w, j) /\ j.stage = "write" /\ j.more = more
           /\ \A b \in Badges : rows[b].place = badge[b].place => j.write[b].place = "same"
<1> DEFINE status == IF to = "same" THEN group.status ELSE to
           changed == {b \in Badges : rows[b] # badge[b]}
           saved == Presaved(rows, changed, status)
           new == Adjusted([NoRow EXCEPT !.place = "group"], status)
           j == [ AtRest EXCEPT !.stage = "write", !.write = Changes(saved), !.more = more,
                       !.new = new, !.to = to, !.bill = bill ]
<1>1. handler' = [handler EXCEPT ![w] = j]
  BY DEF ToWrite
<1>2. badge \in [Badges -> Row] /\ group.status \in GroupStatuses
  BY DEF GroupInv, GroupTypeOK, GroupType
<1>3. status \in GroupStatuses
  BY <1>2
<1>4. rows \in [Badges -> Row]
  BY DEF Fair, FairRow
<1>5. more \in 0 .. MaxBadges
  BY MoreFits DEF GroupInv
<1> HIDE DEF status
<1>6. /\ new \in Row /\ new.place = "group" /\ new.holder = Nobody /\ new.paid = "group"
      /\ status \in {"declined", "cancelled"} => new.state # "ok"
  <2>1. /\ [NoRow EXCEPT !.place = "group"] \in Row
        /\ [NoRow EXCEPT !.place = "group"].place = "group"
        /\ [NoRow EXCEPT !.place = "group"].holder = Nobody
        /\ [NoRow EXCEPT !.place = "group"].paid = "group"
    BY DEF NoRow, Row
  <2> QED  BY <1>3, <2>1, AdjustedRow
<1> HIDE DEF changed
<1>7. /\ saved \in [Badges -> Row]
      /\ \A b \in Badges :
              /\ saved[b].place = rows[b].place
              /\ saved[b].holder = rows[b].holder
              /\ saved[b].paid = rows[b].paid
              /\ b \notin changed \cup Members(rows) => saved[b] = rows[b]
              /\ /\ status \in {"declined", "cancelled"}
                 /\ b \in Purchased(rows) /\ saved[b].state = "ok"
                 => saved[b] = rows[b] /\ b \notin changed /\ status = group.status
  BY <1>3, <1>4, PresavedRows
<1> HIDE DEF saved, new
<1>8. ASSUME NEW b \in Badges
      PROVE  /\ saved[b].place # "none" \/ saved[b] = badge[b]
             /\ badge[b].place \in {"none", "gone"} => saved[b] = badge[b]
  <2>1. CASE b \in Members(rows)
    <3>1. rows[b].place = "group"
      BY <2>1 DEF Members
    <3>2. badge[b].place \notin {"none", "gone"}
      BY <3>1 DEF Fair, FairRow
    <3> QED  BY <3>1, <3>2, <1>7
  <2>2. CASE b \in changed
    BY <2>2, <1>7 DEF changed, Fair, FairRow
  <2>3. CASE b \notin changed \cup Members(rows)
    BY <2>3, <1>7 DEF changed
  <2> QED  BY <2>1, <2>2, <2>3
<1>9. /\ Changes(saved) \in [Badges -> Change]
      /\ \A b \in Badges : Merged(badge, Changes(saved))[b] = saved[b]
      /\ \A b \in Badges :
              /\ Changes(saved)[b].place \in {"same", saved[b].place}
              /\ Changes(saved)[b].paid =
                   IF saved[b].paid = badge[b].paid THEN "same" ELSE saved[b].paid
              /\ Changes(saved)[b] # Unwritten => saved[b] # badge[b]
              /\ Changes(saved)[b].place # "same" => saved[b].place # badge[b].place
  BY <1>2, <1>7, <1>8, ChangesMerge
<1>10. /\ j \in HandlerType /\ j.stage = "write" /\ j.write = Changes(saved) /\ j.more = more
       /\ j.new = new /\ j.to = to /\ j.bill = bill /\ j.left = {} /\ j.fresh
  <2>1. AtRest \in HandlerType /\ AtRest.left = {} /\ AtRest.fresh
    BY <1>2, RestSound DEF AtRest
  <2> QED  BY <2>1, <1>5, <1>6, <1>9 DEF HandlerType
<1> HIDE DEF j
<1>11. Knows(j, badge)
  <2>1. ASSUME NEW b \in Badges
        PROVE  /\ j.write[b] # Unwritten \/ b \in j.left => badge[b].place # "none"
               /\ j.write[b].place = "apart" => badge[b].paid # "group" \/ badge[b] = Gone
               /\ j.write[b].paid \in {"same", "self"}
    <3>1. j.write[b] # Unwritten \/ b \in j.left => badge[b].place # "none"
      BY <1>8, <1>9, <1>10
    <3>2. ASSUME j.write[b].place = "apart"  PROVE badge[b].paid # "group"
      <4>1. rows[b].place = "apart" /\ badge[b].place # "apart"
        BY <3>2, <1>7, <1>9, <1>10
      <4> QED  BY <4>1 DEF Fair, FairRow
    <3>3. j.write[b].paid \in {"same", "self"}
      BY <1>7, <1>9, <1>10 DEF Fair, FairRow
    <3> QED  BY <3>1, <3>2, <3>3
  <2> QED  BY <2>1, <1>6, <1>10 DEF Knows
<1>12. \A b \in Badges : Merged(badge, j.write)[b] = saved[b]
  BY <1>9, <1>10
<1>13. Purchased(Merged(badge, j.write)) = Purchased(rows)
  BY <1>12, <1>7 DEF Purchased, Members
<1>14. PaidFor(j, badge)
  BY <1>13, <1>10 DEF Fair, PaidFor
<1>15. NotValid(j, badge, group.status)
  <2>1. StatusAfter(j, group.status) = status
    BY <1>10 DEF StatusAfter, status
  <2>2. ASSUME status \in {"declined", "cancelled"}, NEW b \in Purchased(rows), saved[b].state = "ok"
        PROVE  badge[b] = saved[b] /\ group.status = status
    <3>1. b \in Badges
      BY DEF Purchased, Members
    <3> QED  BY <2>2, <3>1, <1>7 DEF changed
  <2>3. Purchased(rows) \subseteq Badges
    BY DEF Purchased, Members
  <2> QED  BY <2>1, <2>2, <2>3, <1>6, <1>10, <1>12, <1>13 DEF NotValid
<1>16. HoldersKept(j, badge)
  BY <1>12, <1>7, <1>10 DEF Fair, FairRow, HoldersKept
<1>17. \A b \in Badges : rows[b].place = badge[b].place => j.write[b].place = "same"
  BY <1>7, <1>9, <1>10
<1>20. NoneLost(j, badge)
  BY <1>8, <1>9, <1>10, EmptyRows DEF NoneLost
<1>18. HandlerSound(j, badge, group.status)
  BY <1>11, <1>14, <1>15, <1>16, <1>20 DEF HandlerSound
<1>19. Started(w, j)
  BY <1>1, <1>10, <1>18 DEF Started
<1> QED  BY <1>10, <1>17, <1>19
-----------------------------------------------------------------------------
(* The requests.                                                           *)

(* What of the invariant is about the rows.                                *)
LEMMA RowsOfInv ==
  ASSUME GroupInv
  PROVE  /\ badge \in [Badges -> Row] /\ group \in GroupType
         /\ handler \in [Handlers -> HandlerType]
         /\ \A b \in Badges : RowSound(badge[b])
         /\ Purchased(badge) \in SUBSET Badges /\ Members(badge) \in SUBSET Badges
         /\ 0 \in -MaxBadges .. MaxBadges /\ 1 \in Nat
BY GroupAssumption DEF GroupInv, GroupTypeOK, Purchased, Members

(* Rows of which no more are paid by the group.                            *)
LEMMA NotMorePaid ==
  ASSUME NEW S \in SUBSET Badges, NEW T \in SUBSET S
  PROVE  Cardinality(T) + 0 <= Cardinality(S) + 0
<1>1. /\ Cardinality(T) \in Nat /\ Cardinality(S) \in Nat /\ Cardinality(T) <= Cardinality(S)
  BY BadgesFinite, FS_Subset
<1> QED  BY <1>1

(* A row that stays as it is.                                              *)
LEMMA SameRowFair ==
  ASSUME GroupInv, NEW b \in Badges, NEW more
  PROVE  FairRow(badge[b], badge[b], more)
BY EmptyRows DEF GroupInv, RowSound, FairRow

(* A request that changes one row of the group, or brings one along.       *)
LEMMA OneRowFair ==
  ASSUME GroupInv, NEW b \in Badges, badge[b].place \in {"group", "apart"}, NEW r \in Row,
         r.place \in {"group", "apart"},
         r.place = "apart" => badge[b].paid # "group",
         r.place = "group" /\ r.paid = "group" => badge[b].place = "group",
         r.paid \in {badge[b].paid, "self"},
         badge[b].holder # Nobody => r.holder = badge[b].holder
  PROVE  Fair([badge EXCEPT ![b] = r], 0, 0)
<1> DEFINE rows == [badge EXCEPT ![b] = r]
<1>1. /\ badge \in [Badges -> Row] /\ rows \in [Badges -> Row] /\ rows[b] = r
      /\ \A c \in Badges : c # b => rows[c] = badge[c]
  BY RowsOfInv
<1> HIDE DEF rows
<1>2. ASSUME NEW c \in Badges  PROVE FairRow(badge[c], rows[c], 0)
  <2>1. CASE c = b
    BY <1>1, <2>1 DEF FairRow
  <2>2. CASE c # b
    BY <1>1, <2>2, SameRowFair
  <2> QED  BY <2>1, <2>2
<1>3. ASSUME NEW c \in Badges, rows[c].place = "group", rows[c].paid = "group"
      PROVE  badge[c].place = "group" /\ badge[c].paid = "group"
  <2>1. CASE c = b
    BY <1>1, <1>3, <2>1
  <2>2. CASE c # b
    BY <1>1, <1>3, <2>2
  <2> QED  BY <2>1, <2>2
<1>4. Purchased(rows) \subseteq Purchased(badge)
  BY <1>3 DEF Purchased, Members
<1>5. Cardinality(Purchased(rows)) + 0 <= Cardinality(Purchased(badge)) + 0
  BY <1>4, NotMorePaid, RowsOfInv
<1>6. Fair(rows, 0, 0)
  BY <1>1, <1>2, <1>5 DEF Fair
<1> QED  BY <1>6 DEF rows

(* Badges that the group pays for are deleted.                             *)
LEMMA OutFair ==
  ASSUME GroupInv, NEW out \in SUBSET Purchased(badge), NEW rows,
         NEW more \in Nat, NEW bill \in Int,
         rows = [b \in Badges |-> IF b \in out THEN Gone ELSE badge[b]],
         more = 1 \/ \A b \in out : badge[b].holder = Nobody,
         more <= bill + Cardinality(out)
  PROVE  Fair(rows, more, bill)
<1>1. /\ badge \in [Badges -> Row] /\ out \in SUBSET Badges /\ Purchased(badge) \in SUBSET Badges
      /\ rows \in [Badges -> Row]
  BY RowsOfInv, EmptyRows
<1>2. ASSUME NEW c \in Badges  PROVE FairRow(badge[c], rows[c], more)
  <2>1. CASE c \in out
    <3>1. badge[c].place = "group" /\ badge[c].paid = "group" /\ rows[c] = Gone
      BY <2>1 DEF Purchased, Members
    <3> QED  BY <2>1, <3>1, EmptyRows DEF FairRow
  <2>2. CASE c \notin out
    <3>1. rows[c] = badge[c]
      BY <2>2
    <3> QED  BY <3>1, SameRowFair
  <2> QED  BY <2>1, <2>2
<1>3. Purchased(rows) = Purchased(badge) \ out
  BY EmptyRows DEF Purchased, Members
<1>4. /\ IsFiniteSet(Purchased(badge)) /\ IsFiniteSet(out)
      /\ Cardinality(Purchased(badge)) \in Nat /\ Cardinality(out) \in Nat
  BY <1>1, BadgesFinite
<1>5. Purchased(badge) \cap out = out
  OBVIOUS
<1>6. Cardinality(Purchased(rows)) = Cardinality(Purchased(badge)) - Cardinality(out)
  BY <1>3, <1>4, <1>5, FS_Difference
<1>7. Cardinality(Purchased(rows)) + more <= Cardinality(Purchased(badge)) + bill
  BY <1>4, <1>6
<1> QED  BY <1>1, <1>2, <1>7 DEF Fair

(* A claim gives a free badge a holder.                                    *)
LEMMA ClaimStarts ==
  ASSUME GroupInv, NEW w \in Handlers, NEW p \in People, SubmitClaim(w, p)
  PROVE  UNCHANGED handler \/ \E j : Started(w, j)
<1> DEFINE b == form[p]
           r == [badge[b] EXCEPT !.holder = p]
<1>1. SUFFICES ASSUME badge[b].place = "group", badge[b].holder = Nobody,
                      ToWrite(w, [badge EXCEPT ![b].holder = p], 0, "same", 0)
               PROVE  \E j : Started(w, j)
  BY DEF SubmitClaim
<1>2. b \in Badges
  BY DEF SubmitClaim, GroupInv, GroupTypeOK
<1>3. badge[b] \in Row
  BY <1>2, RowsOfInv
<1>4. r \in Row /\ r.place = "group" /\ r.paid = badge[b].paid
  BY <1>1, <1>3 DEF Row
<1>5. [badge EXCEPT ![b].holder = p] = [badge EXCEPT ![b] = r]
  OBVIOUS
<1> HIDE DEF r, b
<1>6. Fair([badge EXCEPT ![b] = r], 0, 0)
  BY <1>1, <1>2, <1>4, OneRowFair
<1> QED  BY <1>1, <1>5, <1>6, RowsOfInv, ReadSound

(* A member who is unset leaves the group's count: the badge is replaced   *)
(* by a new one, or leaves with its holder if it was paid apart.           *)
LEMMA UnsetStarts ==
  ASSUME GroupInv, NEW w \in Handlers, NEW b \in Badges, UnsetMember(w, b)
  PROVE  \E j : Started(w, j)
<1>1. b \in Members(badge) /\ badge[b].place = "group" /\ badge[b] \in Row
  BY RowsOfInv DEF UnsetMember, Members
<1>2. CASE badge[b].paid = "group"
  <2>1. ToWrite(w, Dropped(b), 1, "same", 0)
    BY <1>2 DEF UnsetMember
  <2>2. {b} \in SUBSET Purchased(badge) /\ Cardinality({b}) = 1
    BY <1>1, <1>2, FS_Singleton DEF Purchased
  <2>3. Dropped(b) = [c \in Badges |-> IF c \in {b} THEN Gone ELSE badge[c]]
    BY RowsOfInv DEF Dropped
  <2>4. Fair(Dropped(b), 1, 0)
    BY <2>2, <2>3, OutFair
  <2> QED  BY <2>1, <2>4, RowsOfInv, ReadSound
<1>3. CASE badge[b].paid # "group"
  <2> DEFINE r == [badge[b] EXCEPT !.place = "apart"]
  <2>1. ToWrite(w, [badge EXCEPT ![b].place = "apart"], 0, "same", 0)
    BY <1>3 DEF UnsetMember
  <2>2. [badge EXCEPT ![b].place = "apart"] = [badge EXCEPT ![b] = r]
    OBVIOUS
  <2>3. r \in Row /\ r.place = "apart" /\ r.paid = badge[b].paid /\ r.holder = badge[b].holder
    BY <1>1 DEF Row
  <2> HIDE DEF r
  <2>4. Fair([badge EXCEPT ![b] = r], 0, 0)
    BY <1>1, <1>3, <2>3, OneRowFair
  <2> QED  BY <2>1, <2>2, <2>4, RowsOfInv, ReadSound
<1> QED  BY <1>2, <1>3

(* Badges that are added are billed.                                       *)
LEMMA AddStarts ==
  ASSUME GroupInv, NEW w \in Handlers, NEW n \in 1 .. MaxSize, AddMembers(w, n)
  PROVE  \E j : Started(w, j)
<1>1. n \in Nat /\ n \in Int /\ ToWrite(w, badge, n, "same", n)
  BY GroupAssumption DEF AddMembers
<1>2. n \in -MaxBadges .. MaxBadges
  BY <1>1, MoreFits, GroupAssumption DEF GroupInv
<1>3. badge = [b \in Badges |-> IF b \in {} THEN Gone ELSE badge[b]] /\ {} \in SUBSET Purchased(badge)
  BY RowsOfInv
<1>4. Fair(badge, n, n)
  BY <1>1, <1>3, OutFair, FS_EmptySet
<1> QED  BY <1>1, <1>2, <1>4, ReadSound

(* A badge that is brought in was not paid by the group, nor is it now.    *)
LEMMA FindStarts ==
  ASSUME GroupInv, NEW w \in Handlers, NEW b \in Badges, FindMember(w, b)
  PROVE  \E j : Started(w, j)
<1> DEFINE r == [badge[b] EXCEPT !.place = "group"]
<1>1. /\ ToWrite(w, [badge EXCEPT ![b].place = "group"], 0, "same", 0)
      /\ badge[b].place = "apart" /\ badge[b] \in Row /\ badge[b].paid # "group"
  BY RowsOfInv DEF FindMember, RowSound
<1>2. [badge EXCEPT ![b].place = "group"] = [badge EXCEPT ![b] = r]
  OBVIOUS
<1>3. r \in Row /\ r.place = "group" /\ r.paid = badge[b].paid /\ r.holder = badge[b].holder
  BY <1>1 DEF Row
<1> HIDE DEF r
<1>4. Fair([badge EXCEPT ![b] = r], 0, 0)
  BY <1>1, <1>3, OneRowFair
<1> QED  BY <1>1, <1>2, <1>4, RowsOfInv, ReadSound

(* What convert_dealer_badge makes of a row.                               *)
LEMMA OwnRow ==
  ASSUME NEW r \in Row
  PROVE  /\ OwnBadge(r) \in Row /\ OwnBadge(r).place = r.place /\ OwnBadge(r).holder = r.holder
         /\ OwnBadge(r).paid \in {r.paid, "self"} /\ OwnBadge(r).paid # "group"
BY DEF OwnBadge, Row

(* A member who buys the badge takes it off the bill.                      *)
LEMMA PurchaseStarts ==
  ASSUME GroupInv, NEW w \in Handlers, NEW b \in Badges, PurchaseBadge(w, b)
  PROVE  \E j : Started(w, j)
<1> DEFINE r == OwnBadge(badge[b])
<1>1. /\ ToWrite(w, [badge EXCEPT ![b] = OwnBadge(@)], 0, "same", 0)
      /\ badge[b].place = "group" /\ badge[b] \in Row
  BY RowsOfInv DEF PurchaseBadge, Members
<1>2. [badge EXCEPT ![b] = OwnBadge(@)] = [badge EXCEPT ![b] = r]
  OBVIOUS
<1>3. /\ r \in Row /\ r.place = "group" /\ r.holder = badge[b].holder
      /\ r.paid \in {badge[b].paid, "self"}
  BY <1>1, OwnRow
<1> HIDE DEF r
<1>4. Fair([badge EXCEPT ![b] = r], 0, 0)
  BY <1>1, <1>3, OneRowFair
<1> QED  BY <1>1, <1>2, <1>4, RowsOfInv, ReadSound

(* The admin's form bills what it adds, and takes away free badges only.   *)
LEMMA FormStarts ==
  ASSUME GroupInv, NEW w \in Handlers, NEW to \in Decisions, NEW n \in 1 .. MaxSize,
         AdminForm(w, to, n)
  PROVE  \E j : Started(w, j)
<1> DEFINE members == Cardinality(Members(badge))
           diff == n - members
           more == IF diff > 0 THEN diff ELSE 0
<1>1. PICK out \in SUBSET Removable(badge) :
        /\ Cardinality(out) = IF diff < 0 THEN -diff ELSE 0
        /\ ToWrite(w, [b \in Badges |-> IF b \in out THEN Gone ELSE badge[b]], more, to, diff)
  BY DEF AdminForm
<1>2. members \in Nat /\ members <= MaxBadges
  BY RowsOfInv, BadgesFinite
<1> HIDE DEF members
<1>3. more \in Nat /\ diff \in Int /\ diff >= -MaxBadges
  BY <1>2, GroupAssumption
<1>4. to \in GroupStatuses \cup {"same"}
  BY GroupAssumption
<1>5. /\ out \in SUBSET Purchased(badge)
      /\ \A b \in out : badge[b].holder = Nobody
  BY <1>1 DEF Removable, Floating, Unassigned, Purchased, Members
<1>6. more \in 0 .. MaxBadges
  BY <1>1, <1>3, MoreFits DEF GroupInv
<1>7. diff \in -MaxBadges .. MaxBadges
  BY <1>3, <1>6, GroupAssumption
<1>8. more <= diff + Cardinality(out)
  BY <1>1, <1>3
<1> HIDE DEF diff, more
<1>9. Fair([b \in Badges |-> IF b \in out THEN Gone ELSE badge[b]], more, diff)
  BY <1>3, <1>5, <1>8, OutFair
<1> QED  BY <1>1, <1>3, <1>4, <1>7, <1>9, ReadSound

(* Nothing is changed but, at most, the status.                            *)
LEMMA StillFair == GroupInv => Fair(badge, 0, 0)
<1> SUFFICES ASSUME GroupInv  PROVE Fair(badge, 0, 0)
  OBVIOUS
<1>1. badge = [b \in Badges |-> IF b \in {} THEN Gone ELSE badge[b]] /\ {} \in SUBSET Purchased(badge)
  BY RowsOfInv
<1> QED  BY <1>1, OutFair, FS_EmptySet

(* A conversion starts with every badge of the group.                      *)
LEMMA RequestJob ==
  ASSUME GroupInv, NEW w \in Handlers, NEW to \in GroupStatuses, ~group.paidFee,
         StartConversion(w, to)
  PROVE  Started(w, [AtRest EXCEPT !.stage = "convert", !.to = to, !.left = Members(badge)])
<1> DEFINE j == [AtRest EXCEPT !.stage = "convert", !.to = to, !.left = Members(badge)]
<1>1. handler' = [handler EXCEPT ![w] = j]
  BY DEF StartConversion
<1>2. /\ AtRest \in HandlerType /\ AtRest.more = 0 /\ AtRest.bill = 0
      /\ \A b \in Badges : AtRest.write[b] = Unwritten
      /\ Unwritten.place = "same" /\ Unwritten.paid = "same"
  BY RowsOfInv, RestSound
<1>3. /\ j \in HandlerType /\ j.stage = "convert" /\ j.left = Members(badge) /\ j.more = 0
      /\ j.bill = 0 /\ j.write = AtRest.write
  BY <1>2, RowsOfInv DEF HandlerType
<1> HIDE DEF j
<1>4. HandlerSound(j, badge, group.status)
  BY <1>2, <1>3 DEF HandlerSound, Knows, Members
<1>5. Started(w, j)
  BY <1>1, <1>3, <1>4 DEF Started
<1> QED  BY <1>5 DEF j

(* A decline or cancellation starts as a conversion, or as a write if the  *)
(* group has paid.                                                         *)
LEMMA ConversionStarts ==
  ASSUME GroupInv, NEW w \in Handlers, NEW to \in GroupStatuses, StartConversion(w, to)
  PROVE  \E j : Started(w, j)
<1>1. CASE group.paidFee
  BY <1>1, StillFair, RowsOfInv, ReadSound DEF StartConversion
<1>2. CASE ~group.paidFee
  BY <1>2, RequestJob
<1> QED  BY <1>1, <1>2

(* Every request starts this way, if at all.                               *)
LEMMA RequestStarts ==
  ASSUME GroupInv, NEW w \in Handlers, StartHandler(w)
  PROVE  /\ badge' = badge /\ group' = group /\ kills' = kills
         /\ form' \in [People -> Badges \cup {NoBadge}]
         /\ UNCHANGED handler \/ \E j : Started(w, j)
<1>0. form \in [People -> Badges \cup {NoBadge}]
  BY DEF GroupInv, GroupTypeOK
<1>1. ASSUME NEW p \in People, SubmitClaim(w, p)
      PROVE  /\ badge' = badge /\ group' = group /\ kills' = kills
             /\ form' \in [People -> Badges \cup {NoBadge}]
             /\ UNCHANGED handler \/ \E j : Started(w, j)
  BY <1>0, <1>1, ClaimStarts DEF SubmitClaim
<1>2. ASSUME NEW b \in Badges, UnsetMember(w, b)
      PROVE  UNCHANGED <<badge, group, form, kills>> /\ \E j : Started(w, j)
  BY <1>2, UnsetStarts DEF UnsetMember
<1>3. ASSUME NEW n \in 1 .. MaxSize, AddMembers(w, n)
      PROVE  UNCHANGED <<badge, group, form, kills>> /\ \E j : Started(w, j)
  BY <1>3, AddStarts DEF AddMembers
<1>4. ASSUME NEW b \in Badges, FindMember(w, b)
      PROVE  UNCHANGED <<badge, group, form, kills>> /\ \E j : Started(w, j)
  BY <1>4, FindStarts DEF FindMember
<1>5. ASSUME NEW to \in Decisions, NEW n \in 1 .. MaxSize, AdminForm(w, to, n)
      PROVE  UNCHANGED <<badge, group, form, kills>> /\ \E j : Started(w, j)
  BY <1>5, FormStarts DEF AdminForm
<1>6. ASSUME NEW to \in GroupStatuses, StartConversion(w, to)
      PROVE  UNCHANGED <<badge, group, form, kills>> /\ \E j : Started(w, j)
  BY <1>6, ConversionStarts DEF StartConversion
<1>7. ASSUME NEW b \in Badges, PurchaseBadge(w, b)
      PROVE  UNCHANGED <<badge, group, form, kills>> /\ \E j : Started(w, j)
  BY <1>7, PurchaseStarts DEF PurchaseBadge
<1>8. "declined" \in GroupStatuses /\ "cancelled" \in GroupStatuses /\ "waitlisted" \in GroupStatuses
  BY DEF GroupStatuses
<1> QED
  BY <1>0, <1>1, <1>2, <1>3, <1>4, <1>5, <1>6, <1>7, <1>8 DEF StartHandler, ConvertDeclinedGroups
-----------------------------------------------------------------------------
(* Commits.                                                                *)

(* What a handler knows stays so while the rows it knows of are not given  *)
(* to others and not to the group.                                         *)
LEMMA StillKnows ==
  ASSUME NEW j, NEW rows, NEW later, Knows(j, rows), badge \in [Badges -> Row],
         \A b \in Badges : /\ j.write[b] # Unwritten \/ b \in j.left
                           /\ rows[b].place # "none"
                           => /\ later[b].place # "none"
                              /\ rows[b].paid # "group" \/ rows[b] = Gone =>
                                   later[b].paid # "group" \/ later[b] = Gone
  PROVE  Knows(j, later)
<1>1. Unwritten.place = "same"
  BY RestSound
<1>2. ASSUME NEW b \in Badges
      PROVE  /\ j.write[b] # Unwritten \/ b \in j.left => later[b].place # "none"
             /\ j.write[b].place = "apart" => later[b].paid # "group" \/ later[b] = Gone
             /\ j.write[b].paid \in {"same", "self"}
  <2>1. j.write[b].place = "apart" => j.write[b] # Unwritten
    BY <1>1
  <2> QED  BY <2>1 DEF Knows
<1> QED  BY <1>2 DEF Knows

(* A handler when somebody else has written.                               *)
Stale(j) == IF j.stage = "idle" THEN j ELSE [j EXCEPT !.fresh = FALSE]

(* An overtaken handler still knows what no other can change.              *)
LEMMA StaleSound ==
  ASSUME NEW j \in HandlerType, NEW rows, NEW status, Knows(j, rows)
  PROVE  /\ Stale(j) \in HandlerType
         /\ HandlerSound(Stale(j), rows, status)
<1>1. CASE j.stage = "idle"
  BY <1>1 DEF Stale, HandlerSound
<1>2. CASE j.stage # "idle"
  <2>1. Stale(j) = [j EXCEPT !.fresh = FALSE]
    BY <1>2 DEF Stale
  <2>2. /\ Stale(j) \in HandlerType /\ ~Stale(j).fresh /\ Stale(j).stage = j.stage
        /\ Stale(j).write = j.write /\ Stale(j).left = j.left /\ Stale(j).more = j.more
        /\ Stale(j).new = j.new /\ Stale(j).bill = j.bill
    BY <2>1 DEF HandlerType
  <2>3. Knows(Stale(j), rows)
    BY <2>2 DEF Knows
  <2> QED  BY <2>2, <2>3 DEF HandlerSound
<1> QED  BY <1>1, <1>2

(* A handler that rests, whatever the rows.                                *)
LEMMA RestKnows ==
  ASSUME badge \in [Badges -> Row], NEW rows, NEW status
  PROVE  HandlerSound(AtRest, rows, status)
<1>1. /\ AtRest.stage = "idle" /\ AtRest.more = 0 /\ AtRest.left = {} /\ AtRest.bill = 0
      /\ \A b \in Badges : AtRest.write[b] = Unwritten
      /\ Unwritten.place = "same" /\ Unwritten.paid = "same"
  BY RestSound
<1> HIDE DEF AtRest
<1> QED  BY <1>1 DEF HandlerSound, Knows

(* The handlers once w has written.                                        *)
LEMMA WroteSound ==
  ASSUME GroupInv, NEW w \in Handlers, NEW j \in HandlerType, NEW rows, NEW status,
         HandlerSound(j, rows, status), handler' = Wrote(w, j),
         \A v \in Handlers \ {w} : Knows(handler[v], rows)
  PROVE  /\ handler' \in [Handlers -> HandlerType]
         /\ \A v \in Handlers : HandlerSound(handler'[v], rows, status)
<1>1. handler \in [Handlers -> HandlerType]
  BY RowsOfInv
<1>2. ASSUME NEW v \in Handlers
      PROVE  handler'[v] \in HandlerType /\ HandlerSound(handler'[v], rows, status)
  <2>1. CASE v = w
    BY <2>1 DEF Wrote
  <2>2. CASE v # w
    <3>1. handler'[v] = Stale(handler[v])
      BY <2>2 DEF Wrote, Stale
    <3> QED  BY <1>1, <2>2, <3>1, StaleSound
  <2> QED  BY <2>1, <2>2
<1>3. handler' = [v \in Handlers |-> handler'[v]]
  BY DEF Wrote
<1> QED  BY <1>2, <1>3

(* The rows a commit leaves.                                               *)
LEMMA WrittenRows ==
  ASSUME GroupInv, NEW w \in Handlers, handler[w].stage = "write", ~LostRow(handler[w]),
         badge' = Written(w, handler[w])
  PROVE  LET j == handler[w]
             merged == Merged(badge, j.write) IN
         /\ badge' \in [Badges -> Row]
         /\ \A b \in Badges :
              /\ badge[b].place = "none" =>
                   badge'[b] = NoRow \/ (j.more > 0 /\ badge'[b] = j.new)
              /\ badge[b].place # "none" /\ merged[b].place = "gone" =>
                   badge'[b] \in {Gone, NoRow} /\ (Remembered(w, b) => badge'[b] = Gone)
              /\ badge[b].place # "none" /\ merged[b].place # "gone" =>
                   badge'[b] = merged[b] /\ (j.write[b] # Unwritten => badge[b] # Gone)
         /\ Cardinality({b \in Badges : badge[b].place = "none" /\ badge'[b] # NoRow}) <= j.more
<1> DEFINE free == {b \in Badges : badge[b].place = "none"}
           taken == {b \in free : Cardinality({c \in free : c < b}) < handler[w].more}
           merged == Merged(badge, handler[w].write)
<1>1. /\ badge \in [Badges -> Row] /\ handler[w] \in HandlerType
      /\ handler[w].write \in [Badges -> Change] /\ handler[w].new \in Row
      /\ handler[w].more \in Nat
  BY RowsOfInv, GroupAssumption DEF HandlerType
<1>2. \A b \in Badges : merged[b] \in Row
  BY <1>1, MergedRow
<1>3. badge' = [b \in Badges |->
     IF b \in free
     THEN IF b \in taken THEN handler[w].new ELSE NoRow
     ELSE IF merged[b].place = "gone" THEN IF Remembered(w, b) THEN Gone ELSE NoRow
     ELSE merged[b]]
  BY DEF Written
<1>4. Cardinality(taken) <= handler[w].more
  BY <1>1, FirstFew
<1>5. taken = {} \/ handler[w].more > 0
  <2>1. ASSUME NEW b \in taken  PROVE handler[w].more > 0
    <3>1. {c \in free : c < b} \in SUBSET Badges
      OBVIOUS
    <3>2. Cardinality({c \in free : c < b}) \in Nat
      BY <3>1, BadgesFinite
    <3> QED  BY <3>2, <1>1
  <2> QED  BY <2>1
<1>6. /\ taken \in SUBSET Badges
      /\ \A b \in Badges : b \in free <=> badge[b].place = "none"
  OBVIOUS
<1> HIDE DEF free, taken, merged
<1>7. badge' \in [Badges -> Row]
  BY <1>1, <1>2, <1>3, EmptyRows
<1>8. {b \in Badges : badge[b].place = "none" /\ badge'[b] # NoRow} \in SUBSET taken
  BY <1>3, <1>6
<1>9. Cardinality({b \in Badges : badge[b].place = "none" /\ badge'[b] # NoRow}) <= handler[w].more
  <2>1. IsFiniteSet(taken) /\ Cardinality(taken) \in Nat
    BY <1>6, BadgesFinite
  <2> DEFINE made == {b \in Badges : badge[b].place = "none" /\ badge'[b] # NoRow}
  <2>2. made \in SUBSET taken /\ made \in SUBSET Badges
    BY <1>8
  <2> HIDE DEF made
  <2>3. Cardinality(made) <= Cardinality(taken) /\ Cardinality(made) \in Nat
    BY <2>1, <2>2, FS_Subset, BadgesFinite
  <2>4. Cardinality(made) <= handler[w].more
    BY <2>1, <2>3, <1>1, <1>4
  <2> QED  BY <2>4 DEF made
<1>10. ASSUME NEW b \in Badges
       PROVE  /\ badge[b].place = "none" =>
                   badge'[b] = NoRow \/ (handler[w].more > 0 /\ badge'[b] = handler[w].new)
              /\ badge[b].place # "none" /\ merged[b].place = "gone" =>
                   badge'[b] \in {Gone, NoRow} /\ (Remembered(w, b) => badge'[b] = Gone)
              /\ badge[b].place # "none" /\ merged[b].place # "gone" =>
                   badge'[b] = merged[b]
  BY <1>3, <1>5, <1>6
<1>11. ASSUME NEW b \in Badges, merged[b].place # "gone", handler[w].write[b] # Unwritten
       PROVE  badge[b] # Gone
  <2>1. handler[w].write[b].place # "gone"
    BY <1>1, <1>11, MergedRow DEF merged
  <2> QED  BY <1>11, <2>1 DEF LostRow
<1> QED  BY <1>7, <1>9, <1>10, <1>11 DEF merged
-----------------------------------------------------------------------------
(* The invariant is kept.                                                  *)

(* The first group is sound.                                               *)
LEMMA GroupInvInit == GroupInit => GroupInv
<1> SUFFICES ASSUME GroupInit  PROVE GroupInv
  OBVIOUS
<1>1. /\ [NoRow EXCEPT !.place = "group", !.state = "unapproved"] \in Row
      /\ [NoRow EXCEPT !.place = "group", !.state = "unapproved"].place = "group"
  BY DEF NoRow, Row
<1>2. badge \in [Badges -> Row] /\ \A b \in Badges : RowSound(badge[b])
  BY <1>1, EmptyRows DEF GroupInit, RowSound
<1>3. group \in GroupType
  BY DEF GroupInit, NoGroup, GroupType, GroupStatuses
<1>4. handler \in [Handlers -> HandlerType]
  BY <1>2, RestSound DEF GroupInit
<1>5. \A w \in Handlers : HandlerSound(handler[w], badge, group.status)
  BY <1>2, RestKnows DEF GroupInit
<1>6. form \in [People -> Badges \cup {NoBadge}] /\ kills \in 0 .. MaxKills
  BY GroupAssumption DEF GroupInit
<1> QED  BY <1>2, <1>3, <1>4, <1>5, <1>6 DEF GroupInv, GroupTypeOK

(* The same after a step.                                                  *)
LEMMA GroupInvAfter ==
  ASSUME badge' \in [Badges -> Row], group' \in GroupType,
         form' \in [People -> Badges \cup {NoBadge}],
         handler' \in [Handlers -> HandlerType], kills' \in 0 .. MaxKills,
         \A b \in Badges : RowSound(badge'[b]),
         \A w \in Handlers : HandlerSound(handler'[w], badge', group'.status)
  PROVE  GroupInv'
BY DEF GroupInv, GroupTypeOK

(* One handler reads, ends or is killed.                                   *)
LEMMA OneHandlerChanges ==
  ASSUME GroupInv, NEW w \in Handlers, NEW j \in HandlerType,
         HandlerSound(j, badge, group.status), handler' = [handler EXCEPT ![w] = j],
         badge' = badge, group' = group, form' \in [People -> Badges \cup {NoBadge}],
         kills' \in 0 .. MaxKills
  PROVE  GroupInv'
<1>1. handler \in [Handlers -> HandlerType]
  BY RowsOfInv
<1>2. \A v \in Handlers : HandlerSound(handler'[v], badge', group'.status)
  BY <1>1 DEF GroupInv
<1>3. handler' \in [Handlers -> HandlerType]
  BY <1>1
<1>4. \A b \in Badges : RowSound(badge'[b])
  BY DEF GroupInv
<1> QED  BY <1>2, <1>3, <1>4, RowsOfInv, GroupInvAfter

(* The rows of a commit are sound, and none that others know of is lost.   *)
LEMMA CommitRows ==
  ASSUME GroupInv, NEW w \in Handlers, handler[w].stage = "write", ~LostRow(handler[w]),
         badge' = Written(w, handler[w])
  PROVE  /\ badge' \in [Badges -> Row] /\ \A b \in Badges : RowSound(badge'[b])
         /\ \A v \in Handlers \ {w} : Knows(handler[v], badge')
<1> DEFINE j == handler[w]
           merged == Merged(badge, j.write)
<1>1. /\ badge' \in [Badges -> Row]
      /\ \A b \in Badges :
              /\ badge[b].place = "none" =>
                   badge'[b] = NoRow \/ (j.more > 0 /\ badge'[b] = j.new)
              /\ badge[b].place # "none" /\ merged[b].place = "gone" =>
                   badge'[b] \in {Gone, NoRow} /\ (Remembered(w, b) => badge'[b] = Gone)
              /\ badge[b].place # "none" /\ merged[b].place # "gone" =>
                   badge'[b] = merged[b] /\ (j.write[b] # Unwritten => badge[b] # Gone)
  BY WrittenRows
<1>2. /\ badge \in [Badges -> Row] /\ j.write \in [Badges -> Change]
      /\ Unwritten.place = "same"
  BY RowsOfInv, RestSound DEF HandlerType
<1>3. Knows(j, badge)
  BY DEF GroupInv, HandlerSound
<1>4. ASSUME NEW b \in Badges
      PROVE  /\ merged[b].place = IF j.write[b].place = "same" THEN badge[b].place
                                  ELSE j.write[b].place
             /\ merged[b].paid = IF j.write[b].paid = "same" THEN badge[b].paid
                                 ELSE j.write[b].paid
             /\ j.write[b].place \in {"same", "group", "apart", "gone"}
  <2>1. j.write[b] \in Change
    BY <1>2
  <2> QED  BY <1>2, <2>1, MergedRow DEF Change
<1> HIDE DEF j, merged
(* A row stays one that the group does not pay for.                        *)
<1>5. ASSUME NEW b \in Badges, badge[b].place # "none", merged[b].place # "gone"
      PROVE  /\ merged[b].place # "none"
             /\ badge[b].paid # "group" => merged[b].paid # "group"
             /\ merged[b].place = "apart" => merged[b].paid # "group"
  <2>1. j.write[b].paid \in {"same", "self"}
    BY <1>3 DEF Knows
  <2>2. merged[b].place # "none"
    BY <1>4, <1>5
  <2>3. badge[b].paid # "group" => merged[b].paid # "group"
    BY <1>4, <2>1
  <2>4. ASSUME merged[b].place = "apart"  PROVE badge[b].paid # "group"
    <3>1. CASE j.write[b].place = "same"
      BY <1>4, <2>4, <3>1 DEF GroupInv, RowSound
    <3>2. CASE j.write[b].place = "apart"
      <4>1. j.write[b] # Unwritten
        BY <1>2, <3>2
      <4>2. badge[b] # Gone
        BY <1>1, <1>5, <4>1
      <4> QED  BY <1>3, <3>2, <4>2 DEF Knows
    <3> QED  BY <1>4, <2>4, <3>1, <3>2
  <2> QED  BY <2>2, <2>3, <2>4
<1>6. ASSUME NEW b \in Badges  PROVE RowSound(badge'[b])
  <2>1. CASE badge[b].place = "none"
    <3>1. badge'[b] = NoRow \/ (j.more > 0 /\ badge'[b] = j.new)
      BY <1>1, <2>1
    <3>2. j.more > 0 => j.new.place = "group"
      BY <1>3 DEF Knows
    <3> QED  BY <3>1, <3>2, EmptyRows DEF RowSound
  <2>2. CASE badge[b].place # "none" /\ merged[b].place = "gone"
    BY <1>1, <2>2, EmptyRows DEF RowSound
  <2>3. CASE badge[b].place # "none" /\ merged[b].place # "gone"
    BY <1>1, <1>5, <2>3 DEF RowSound
  <2> QED  BY <2>1, <2>2, <2>3
<1>7. ASSUME NEW v \in Handlers \ {w}  PROVE Knows(handler[v], badge')
  <2>1. Knows(handler[v], badge)
    BY DEF GroupInv, HandlerSound
  <2>2. ASSUME NEW b \in Badges, handler[v].write[b] # Unwritten \/ b \in handler[v].left,
               badge[b].place # "none"
        PROVE  /\ badge'[b].place # "none"
               /\ badge[b].paid # "group" \/ badge[b] = Gone =>
                    badge'[b].paid # "group" \/ badge'[b] = Gone
    <3>1. Remembered(w, b)
      BY <2>2 DEF Remembered
    <3>2. CASE merged[b].place = "gone"
      BY <1>1, <2>2, <3>1, <3>2, EmptyRows
    <3>3. CASE merged[b].place # "gone"
      <4>1. badge'[b] = merged[b]
        BY <1>1, <2>2, <3>3
      <4>2. badge[b] # Gone
        <5>1. SUFFICES ASSUME badge[b] = Gone  PROVE FALSE
          OBVIOUS
        <5>2. j.write[b] = Unwritten
          BY <1>1, <2>2, <3>3, <5>1
        <5>3. merged[b].place = "gone"
          BY <1>2, <1>4, <5>1, <5>2, EmptyRows
        <5> QED  BY <3>3, <5>3
      <4> QED  BY <1>5, <2>2, <3>3, <4>1, <4>2
    <3> QED  BY <3>2, <3>3
  <2> QED  BY <1>2, <2>1, <2>2, StillKnows
<1> QED  BY <1>1, <1>6, <1>7

(* A commit keeps the invariant.                                           *)
LEMMA WriteKeeps ==
  ASSUME GroupInv, NEW w \in Handlers, WriteRows(w)
  PROVE  GroupInv'
<1>1. /\ handler[w].stage = "write" /\ form' = form /\ kills' = kills
      /\ form \in [People -> Badges \cup {NoBadge}] /\ kills \in 0 .. MaxKills
      /\ handler[w] \in HandlerType /\ group \in GroupType /\ badge \in [Badges -> Row]
  BY RowsOfInv DEF WriteRows, GroupInv, GroupTypeOK
<1>2. AtRest \in HandlerType
  BY <1>1, RestSound
<1>3. CASE LostRow(handler[w])
  <2>1. handler' = [handler EXCEPT ![w] = AtRest] /\ badge' = badge /\ group' = group
    BY <1>3 DEF WriteRows
  <2>2. HandlerSound(AtRest, badge, group.status)
    BY <1>1, RestKnows
  <2> QED  BY <1>1, <1>2, <2>1, <2>2, OneHandlerChanges
<1>4. CASE ~LostRow(handler[w])
  <2>1. /\ handler' = Wrote(w, AtRest) /\ badge' = Written(w, handler[w])
        /\ group' = [group EXCEPT !.status = IF handler[w].to = "same" THEN @ ELSE handler[w].to]
    BY <1>4 DEF WriteRows
  <2>2. group' \in GroupType
    BY <1>1, <2>1 DEF GroupType, HandlerType
  <2>3. /\ badge' \in [Badges -> Row] /\ \A b \in Badges : RowSound(badge'[b])
        /\ \A v \in Handlers \ {w} : Knows(handler[v], badge')
    BY <1>1, <1>4, <2>1, CommitRows
  <2>4. HandlerSound(AtRest, badge', group'.status)
    BY <1>1, RestKnows
  <2>5. /\ handler' \in [Handlers -> HandlerType]
        /\ \A v \in Handlers : HandlerSound(handler'[v], badge', group'.status)
    BY <1>2, <2>1, <2>3, <2>4, WroteSound
  <2> QED  BY <1>1, <2>2, <2>3, <2>5, GroupInvAfter
<1> QED  BY <1>3, <1>4

(* The rows of one turn of the conversion: the group pays for none more,   *)
(* holders and places stay.                                                *)
TurnRows(b, status) == Presaved([badge EXCEPT ![b] = Converted(@)], {b}, status)

(* Nothing is lost in that turn, and its badge is off the bill.            *)
LEMMA ConvertedRows ==
  ASSUME GroupInv, NEW b \in Badges, badge[b].place # "none", badge[b] # Gone,
         NEW status \in GroupStatuses
  PROVE  LET rows == TurnRows(b, status) IN
         /\ rows \in [Badges -> Row] /\ \A c \in Badges : RowSound(rows[c])
         /\ \A c \in Badges :
              /\ rows[c].place = badge[c].place /\ rows[c].holder = badge[c].holder
              /\ rows[c].paid \in {badge[c].paid, "self"}
              /\ badge[c] = Gone => rows[c] = Gone
              /\ status \in {"declined", "cancelled"} /\ c \in Purchased(rows)
                 /\ rows[c].state = "ok" => badge[c] = rows[c] /\ status = group.status
<1>0. PICK rows : rows = TurnRows(b, status)
  OBVIOUS
<1> DEFINE converted == [badge EXCEPT ![b] = Converted(@)]
<1>1. /\ badge \in [Badges -> Row] /\ converted[b] = OwnBadge(badge[b])
      /\ \A c \in Badges : c # b => converted[c] = badge[c]
      /\ converted = [badge EXCEPT ![b] = OwnBadge(badge[b])]
  BY RowsOfInv DEF Converted
<1>2. /\ OwnBadge(badge[b]) \in Row /\ OwnBadge(badge[b]).place = badge[b].place
      /\ OwnBadge(badge[b]).holder = badge[b].holder
      /\ OwnBadge(badge[b]).paid \in {badge[b].paid, "self"}
      /\ OwnBadge(badge[b]).paid # "group"
  BY <1>1, OwnRow
<1>3. converted \in [Badges -> Row]
  BY <1>1, <1>2
<1>11. rows = Presaved(converted, {b}, status)
  BY <1>0 DEF TurnRows
<1> HIDE DEF converted
<1>4. /\ rows \in [Badges -> Row]
      /\ \A c \in Badges :
              /\ rows[c].place = converted[c].place
              /\ rows[c].holder = converted[c].holder
              /\ rows[c].paid = converted[c].paid
              /\ c \notin {b} \cup Members(converted) => rows[c] = converted[c]
              /\ /\ status \in {"declined", "cancelled"}
                 /\ c \in Purchased(converted) /\ rows[c].state = "ok"
                 => rows[c] = converted[c] /\ c \notin {b} /\ status = group.status
  <2> DEFINE saved == Presaved(converted, {b}, status)
  <2>1. /\ saved \in [Badges -> Row]
        /\ \A c \in Badges :
                /\ saved[c].place = converted[c].place
                /\ saved[c].holder = converted[c].holder
                /\ saved[c].paid = converted[c].paid
                /\ c \notin {b} \cup Members(converted) => saved[c] = converted[c]
                /\ /\ status \in {"declined", "cancelled"}
                   /\ c \in Purchased(converted) /\ saved[c].state = "ok"
                   => saved[c] = converted[c] /\ c \notin {b} /\ status = group.status
    BY <1>3, PresavedRows
  <2> QED  BY <1>11, <2>1
<1>5. ASSUME NEW c \in Badges
      PROVE  /\ converted[c].place = badge[c].place /\ converted[c].holder = badge[c].holder
             /\ converted[c].paid \in {badge[c].paid, "self"}
  <2>1. CASE c = b
    BY <1>1, <1>2, <2>1
  <2>2. CASE c # b
    BY <1>1, <2>2
  <2> QED  BY <2>1, <2>2
<1>6. ASSUME NEW c \in Badges, badge[c] = Gone, c # b  PROVE rows[c] = Gone
  <2>1. converted[c] = Gone
    BY <1>1, <1>6
  <2>2. c \notin {b} \cup Members(converted)
    BY <1>6, <2>1, EmptyRows DEF Members
  <2> QED  BY <1>4, <2>1, <2>2
<1>7. Purchased(rows) = Purchased(converted)
  <2>1. \A c \in Badges : rows[c].place = converted[c].place /\ rows[c].paid = converted[c].paid
    BY <1>4
  <2> QED  BY <2>1 DEF Purchased, Members
<1>8. ASSUME NEW c \in Badges, status \in {"declined", "cancelled"}, c \in Purchased(rows),
             rows[c].state = "ok"
      PROVE  badge[c] = rows[c] /\ status = group.status
  BY <1>1, <1>4, <1>7, <1>8
<1>9. ASSUME NEW c \in Badges, badge[c].place = "none"  PROVE rows[c] = NoRow
  <2>1. c # b /\ badge[c] = NoRow
    BY <1>9 DEF GroupInv, RowSound
  <2>2. c \notin {b} \cup Members(converted)
    BY <1>1, <2>1, EmptyRows DEF Members
  <2> QED  BY <1>1, <1>4, <2>1, <2>2
<1>10. ASSUME NEW c \in Badges  PROVE RowSound(rows[c])
  <2>1. /\ rows[c].place = badge[c].place /\ rows[c].paid \in {badge[c].paid, "self"}
        /\ RowSound(badge[c]) /\ RowSound(badge[b])
    BY <1>4, <1>5, RowsOfInv
  <2>2. rows[c].place = "gone" => rows[c] = Gone
    BY <1>6, <2>1 DEF RowSound
  <2>3. rows[c].place = "none" => rows[c] = NoRow
    BY <1>9, <2>1
  <2> QED  BY <2>1, <2>2, <2>3 DEF RowSound
<1> QED  BY <1>0, <1>4, <1>5, <1>6, <1>8, <1>10
(* What others know stays so while rows keep their places, and only come   *)
(* to be paid by their holders.                                            *)
LEMMA ConversionKnown ==
  ASSUME GroupInv, NEW rows,
         \A c \in Badges : /\ rows[c].place = badge[c].place
                           /\ rows[c].paid \in {badge[c].paid, "self"}
                           /\ badge[c] = Gone => rows[c] = Gone,
         NEW v \in Handlers
  PROVE  Knows(handler[v], rows)
<1>1. badge \in [Badges -> Row] /\ Knows(handler[v], badge)
  BY DEF GroupInv, GroupTypeOK, HandlerSound
<1>2. ASSUME NEW c \in Badges, badge[c].place # "none"
      PROVE  /\ rows[c].place # "none"
             /\ badge[c].paid # "group" \/ badge[c] = Gone =>
                  rows[c].paid # "group" \/ rows[c] = Gone
  <2>1. CASE badge[c] = Gone
    BY <1>2, <2>1
  <2>2. CASE badge[c] # Gone
    BY <1>2, <2>2
  <2> QED  BY <2>1, <2>2
<1> QED  BY <1>1, <1>2, StillKnows

(* A turn of the conversion, or its end, keeps the invariant.              *)
LEMMA ConvertKeeps ==
  ASSUME GroupInv, NEW w \in Handlers, ConvertBadge(w)
  PROVE  GroupInv'
<1> DEFINE j == handler[w]
           status == IF j.to = "same" THEN group.status ELSE j.to
           next(b) == [j EXCEPT !.to = "same", !.left = @ \ {b}]
<1>1. /\ j.stage = "convert" /\ form' = form /\ kills' = kills
      /\ form \in [People -> Badges \cup {NoBadge}] /\ kills \in 0 .. MaxKills
      /\ j \in HandlerType /\ group \in GroupType /\ badge \in [Badges -> Row]
  BY RowsOfInv DEF ConvertBadge, GroupInv, GroupTypeOK
<1>2. status \in GroupStatuses /\ [group EXCEPT !.status = status] \in GroupType
  BY <1>1 DEF GroupType, HandlerType
<1>3. Knows(j, badge)
  BY DEF GroupInv, HandlerSound
<1>4. AtRest \in HandlerType
  BY <1>1, RestSound
<1> HIDE DEF status
<1>5. ASSUME NEW b \in j.left, badge[b] # Gone,
             badge' = Presaved([badge EXCEPT ![b] = Converted(@)], {b}, status),
             group' = [group EXCEPT !.status = status], handler' = Wrote(w, next(b))
      PROVE  GroupInv'
  <2>1. b \in Badges
    BY <1>1 DEF HandlerType
  <2>2. badge[b].place # "none"
    BY <1>3, <2>1 DEF Knows
  <2>3. PICK rows : rows = TurnRows(b, status)
    OBVIOUS
  <2>4. /\ rows \in [Badges -> Row] /\ \A c \in Badges : RowSound(rows[c])
        /\ \A c \in Badges :
              /\ rows[c].place = badge[c].place /\ rows[c].holder = badge[c].holder
              /\ rows[c].paid \in {badge[c].paid, "self"}
              /\ badge[c] = Gone => rows[c] = Gone
              /\ status \in {"declined", "cancelled"} /\ c \in Purchased(rows)
                 /\ rows[c].state = "ok" => badge[c] = rows[c] /\ status = group.status
    BY <1>2, <1>5, <2>1, <2>2, <2>3, ConvertedRows
  <2>9. \A v \in Handlers : Knows(handler[v], rows)
    BY <1>5, <2>4, ConversionKnown
  <2>10. badge' = rows
    BY <1>5, <2>3 DEF TurnRows
  <2>5. /\ next(b) \in HandlerType /\ next(b).stage = "convert" /\ next(b).write = j.write
        /\ next(b).more = j.more /\ next(b).new = j.new /\ next(b).bill = j.bill
        /\ next(b).left \subseteq j.left
    BY <1>1 DEF HandlerType
  <2>6. HandlerSound(next(b), badge', group'.status)
    <3> HIDE DEF next, j
    <3>1. Knows(j, badge')
      BY <2>9, <2>10 DEF j
    <3> QED  BY <1>1, <2>5, <3>1 DEF Knows, HandlerSound
  <2> HIDE DEF next
  <2>7. /\ handler' \in [Handlers -> HandlerType]
        /\ \A v \in Handlers : HandlerSound(handler'[v], badge', group'.status)
    BY <1>5, <2>5, <2>6, <2>9, <2>10, WroteSound
  <2>8. group' \in GroupType
    BY <1>2, <1>5
  <2> QED  BY <1>1, <2>4, <2>7, <2>8, <2>10, GroupInvAfter
<1>6. ASSUME handler' = [handler EXCEPT ![w] = AtRest], UNCHANGED <<badge, group>>
      PROVE  GroupInv'
  <2>1. HandlerSound(AtRest, badge, group.status)
    BY <1>1, RestKnows
  <2> QED  BY <1>1, <1>4, <1>6, <2>1, OneHandlerChanges
<1>7. ASSUME group' = [group EXCEPT !.status = status], handler' = Wrote(w, AtRest), badge' = badge
      PROVE  GroupInv'
  <2>1. \A v \in Handlers : Knows(handler[v], badge')
    BY <1>7 DEF GroupInv, HandlerSound
  <2>2. HandlerSound(AtRest, badge', group'.status)
    BY <1>1, RestKnows
  <2>3. /\ handler' \in [Handlers -> HandlerType]
        /\ \A v \in Handlers : HandlerSound(handler'[v], badge', group'.status)
    BY <1>4, <1>7, <2>1, <2>2, WroteSound
  <2>4. group' \in GroupType /\ badge' \in [Badges -> Row] /\ \A b \in Badges : RowSound(badge'[b])
    BY <1>1, <1>2, <1>7, RowsOfInv
  <2> QED  BY <1>1, <2>3, <2>4, GroupInvAfter
<1> QED
  BY <1>5, <1>6, <1>7 DEF ConvertBadge, status

(* Somebody else than a handler writes.                                    *)
LEMMA OvertakenSound ==
  ASSUME GroupInv, handler' = Overtaken, NEW rows, NEW status,
         \A v \in Handlers : Knows(handler[v], rows)
  PROVE  /\ handler' \in [Handlers -> HandlerType]
         /\ \A v \in Handlers : HandlerSound(handler'[v], rows, status)
<1>1. handler \in [Handlers -> HandlerType]
  BY RowsOfInv
<1>2. ASSUME NEW v \in Handlers
      PROVE  handler'[v] \in HandlerType /\ HandlerSound(handler'[v], rows, status)
  <2>1. handler'[v] = Stale(handler[v])
    BY DEF Overtaken, Stale
  <2> QED  BY <1>1, <2>1, StaleSound
<1>3. handler' = [v \in Handlers |-> handler'[v]]
  BY DEF Overtaken
<1> QED  BY <1>2, <1>3

(* So does what is done to the group or to one payment in between.         *)
LEMMA OthersKeep ==
  ASSUME GroupInv, handler' = Overtaken, form' = form, kills' = kills,
         \/ badge' = badge /\ group' \in GroupType
         \/ group' = group /\ \E b \in Badges :
              /\ badge[b].place \in {"group", "apart"}
              /\ badge' = [badge EXCEPT ![b].paid = "has"]
  PROVE  GroupInv'
<1>1. /\ badge \in [Badges -> Row] /\ group \in GroupType
      /\ form \in [People -> Badges \cup {NoBadge}] /\ kills \in 0 .. MaxKills
      /\ \A b \in Badges : RowSound(badge[b])
      /\ \A v \in Handlers : Knows(handler[v], badge)
  BY DEF GroupInv, GroupTypeOK, HandlerSound
<1>2. /\ group' \in GroupType /\ badge' \in [Badges -> Row]
      /\ \A b \in Badges : RowSound(badge'[b])
      /\ \A v \in Handlers : Knows(handler[v], badge')
  <2>1. CASE badge' = badge /\ group' \in GroupType
    BY <1>1, <2>1
  <2>2. ASSUME NEW b \in Badges, badge[b].place \in {"group", "apart"}, group' = group,
               badge' = [badge EXCEPT ![b].paid = "has"]
        PROVE  /\ group' \in GroupType /\ badge' \in [Badges -> Row]
               /\ \A c \in Badges : RowSound(badge'[c])
               /\ \A v \in Handlers : Knows(handler[v], badge')
    <3> DEFINE r == [badge[b] EXCEPT !.paid = "has"]
    <3>1. r \in Row /\ r.paid = "has" /\ r.place = badge[b].place
      BY <1>1 DEF Row
    <3>2. badge' = [badge EXCEPT ![b] = r]
      BY <2>2
    <3> HIDE DEF r
    <3>3. badge' \in [Badges -> Row] /\ badge'[b] = r /\ \A c \in Badges : c # b => badge'[c] = badge[c]
      BY <1>1, <3>1, <3>2
    <3>4. ASSUME NEW c \in Badges  PROVE RowSound(badge'[c])
      <4>1. CASE c = b
        BY <2>2, <3>1, <3>3, <4>1 DEF RowSound
      <4>2. CASE c # b
        BY <1>1, <3>3, <4>2
      <4> QED  BY <4>1, <4>2
    <3>5. ASSUME NEW v \in Handlers  PROVE Knows(handler[v], badge')
      <4>1. \A c \in Badges :
              /\ badge[c].place # "none" => badge'[c].place # "none"
              /\ badge[c].paid # "group" \/ badge[c] = Gone =>
                   badge'[c].paid # "group" \/ badge'[c] = Gone
        <5>1. ASSUME NEW c \in Badges
              PROVE  /\ badge[c].place # "none" => badge'[c].place # "none"
                     /\ badge[c].paid # "group" \/ badge[c] = Gone =>
                          badge'[c].paid # "group" \/ badge'[c] = Gone
          <6>1. CASE c = b
            BY <3>1, <3>3, <6>1
          <6>2. CASE c # b
            BY <3>3, <6>2
          <6> QED  BY <6>1, <6>2
        <5> QED  BY <5>1
      <4> QED  BY <1>1, <4>1, StillKnows
    <3> QED  BY <1>1, <2>2, <3>3, <3>4, <3>5
  <2> QED  BY <2>1, <2>2
<1>3. /\ handler' \in [Handlers -> HandlerType]
      /\ \A v \in Handlers : HandlerSound(handler'[v], badge', group'.status)
  BY <1>2, OvertakenSound
<1> QED  BY <1>1, <1>2, <1>3, GroupInvAfter

(* Every step keeps the invariant.                                         *)
LEMMA GroupStepKeeps == GroupInv /\ [GroupNext]_groupVars => GroupInv'
<1> SUFFICES ASSUME GroupInv, [GroupNext]_groupVars  PROVE GroupInv'
  OBVIOUS
<1>1. /\ badge \in [Badges -> Row] /\ group \in GroupType
      /\ handler \in [Handlers -> HandlerType]
      /\ form \in [People -> Badges \cup {NoBadge}] /\ kills \in 0 .. MaxKills
      /\ \A b \in Badges : RowSound(badge[b])
      /\ \A v \in Handlers : HandlerSound(handler[v], badge, group.status)
  BY DEF GroupInv, GroupTypeOK
<1>2. ASSUME NEW w \in Handlers, StartHandler(w)  PROVE GroupInv'
  <2>1. /\ badge' = badge /\ group' = group /\ kills' = kills
        /\ form' \in [People -> Badges \cup {NoBadge}]
        /\ UNCHANGED handler \/ \E j : Started(w, j)
    BY <1>2, RequestStarts
  <2>2. CASE UNCHANGED handler
    BY <1>1, <2>1, <2>2, GroupInvAfter
  <2>3. ASSUME NEW j, Started(w, j)  PROVE GroupInv'
    BY <1>1, <2>1, <2>3, OneHandlerChanges DEF Started
  <2> QED  BY <2>1, <2>2, <2>3
<1>3. ASSUME NEW w \in Handlers, KillHandler(w)  PROVE GroupInv'
  <2>1. /\ handler' = [handler EXCEPT ![w] = AtRest] /\ badge' = badge /\ group' = group
        /\ form' = form /\ kills' \in 0 .. MaxKills
    BY <1>1, <1>3, GroupAssumption DEF KillHandler
  <2>2. AtRest \in HandlerType /\ HandlerSound(AtRest, badge, group.status)
    BY <1>1, RestSound, RestKnows
  <2> QED  BY <1>1, <2>1, <2>2, OneHandlerChanges
<1>4. ASSUME NEW p \in People, OpenClaim(p)  PROVE GroupInv'
  <2>1. form' \in [People -> Badges \cup {NoBadge}]
    BY <1>1, <1>4 DEF OpenClaim, Unassigned, Members
  <2> QED  BY <1>1, <1>4, <2>1, GroupInvAfter DEF OpenClaim
<1>5. CASE MarkForConversion
  <2>1. /\ group' \in GroupType /\ badge' = badge /\ handler' = Overtaken
        /\ form' = form /\ kills' = kills
    BY <1>1, <1>5 DEF MarkForConversion, GroupType
  <2> QED  BY <2>1, OthersKeep
<1>6. CASE PayFee
  <2>1. /\ group' \in GroupType /\ badge' = badge /\ handler' = Overtaken
        /\ form' = form /\ kills' = kills
    BY <1>1, <1>6 DEF PayFee, GroupType
  <2> QED  BY <2>1, OthersKeep
<1>7. ASSUME NEW b \in Badges, PayBadge(b)  PROVE GroupInv'
  BY <1>7, OthersKeep DEF PayBadge
<1>8. CASE UNCHANGED groupVars
  BY <1>1, <1>8, GroupInvAfter DEF groupVars
<1> QED
  BY <1>2, <1>3, <1>4, <1>5, <1>6, <1>7, <1>8, WriteKeeps, ConvertKeeps DEF GroupNext

(* Rows, group, forms and handlers keep their types.                       *)
THEOREM GroupTypeCorrect == GroupSpec => []GroupTypeOK
<1>1. GroupInv => GroupTypeOK
  BY DEF GroupInv
<1> QED
  BY <1>1, GroupInvInit, GroupStepKeeps, PTL DEF GroupSpec

-----------------------------------------------------------------------------
(* The action properties.                                                  *)

(* What a commit of current data leaves.                                   *)
LEMMA FreshWritten ==
  ASSUME GroupInv, NEW w \in Handlers, FreshWrite(w)
  PROVE  LET j == handler[w]
             merged == Merged(badge, j.write) IN
         /\ j.stage = "write" /\ ~LostRow(j) /\ badge' = Written(w, j)
         /\ group'.status = StatusAfter(j, group.status)
         /\ j.more \in Nat /\ j.bill \in Int
         /\ PaidFor(j, badge) /\ NotValid(j, badge, group.status) /\ HoldersKept(j, badge)
         /\ \A b \in Purchased(badge') :
              \/ b \in Purchased(merged) /\ badge'[b] = merged[b]
              \/ badge[b].place = "none" /\ badge'[b] = j.new /\ j.more > 0
<1> DEFINE j == handler[w]
           merged == Merged(badge, j.write)
<1>1. j.stage = "write" /\ j.fresh /\ WriteRows(w)
  BY DEF FreshWrite, WriteRows
<1>2. /\ PaidFor(j, badge) /\ NotValid(j, badge, group.status) /\ HoldersKept(j, badge)
      /\ NoneLost(j, badge)
  BY <1>1 DEF GroupInv, HandlerSound
<1>3. ~LostRow(j)
  BY <1>2 DEF LostRow, NoneLost
<1>4. /\ badge' = Written(w, j)
      /\ group' = [group EXCEPT !.status = IF j.to = "same" THEN @ ELSE j.to]
  BY <1>1, <1>3 DEF WriteRows
<1>5. group \in GroupType /\ j \in HandlerType
  BY RowsOfInv
<1>6. group'.status = StatusAfter(j, group.status) /\ j.more \in Nat /\ j.bill \in Int
  BY <1>4, <1>5, GroupAssumption DEF StatusAfter, GroupType, HandlerType
<1>7. ASSUME NEW b \in Purchased(badge')
      PROVE  \/ b \in Purchased(merged) /\ badge'[b] = merged[b]
             \/ badge[b].place = "none" /\ badge'[b] = j.new /\ j.more > 0
  <2>1. b \in Badges /\ badge'[b].place = "group" /\ badge'[b].paid = "group"
    BY DEF Purchased, Members
  <2>2. /\ badge[b].place = "none" =>
                   badge'[b] = NoRow \/ (j.more > 0 /\ badge'[b] = j.new)
        /\ badge[b].place # "none" /\ merged[b].place = "gone" =>
                   badge'[b] \in {Gone, NoRow}
        /\ badge[b].place # "none" /\ merged[b].place # "gone" =>
                   badge'[b] = merged[b]
    BY <1>1, <1>3, <1>4, <2>1, WrittenRows
  <2> HIDE DEF merged, j
  <2>3. CASE badge'[b] = merged[b]
    BY <2>1, <2>3 DEF Purchased, Members
  <2> QED  BY <2>1, <2>2, <2>3, EmptyRows
<1> QED  BY <1>1, <1>2, <1>3, <1>4, <1>6, <1>7

(* What a turn of a conversion leaves.                                     *)
LEMMA ConversionTurn ==
  ASSUME GroupInv, NEW w \in Handlers, ConvertBadge(w)
  PROVE  LET j == handler[w] IN
         /\ j.stage = "convert" /\ j.bill = 0
         /\ \/ badge' = badge /\ group' = group
            \/ j.left = {} /\ badge' = badge /\ group'.status = StatusAfter(j, group.status)
            \/ \A c \in Badges :
                 /\ badge'[c].place = badge[c].place /\ badge'[c].holder = badge[c].holder
                 /\ badge'[c].paid \in {badge[c].paid, "self"}
                 /\ group'.status \in {"declined", "cancelled"} /\ c \in Purchased(badge')
                    /\ badge'[c].state = "ok" => badge[c] = badge'[c] /\ group'.status = group.status
<1> DEFINE j == handler[w]
           status == StatusAfter(j, group.status)
<1>1. j.stage = "convert" /\ Knows(j, badge) /\ j \in HandlerType /\ group \in GroupType
  BY RowsOfInv DEF ConvertBadge, GroupInv, HandlerSound
<1>2. j.bill = 0
  BY <1>1 DEF Knows
<1>3. /\ status \in GroupStatuses
      /\ group' = [group EXCEPT !.status = status] => group'.status = status
  BY <1>1 DEF GroupType, HandlerType, StatusAfter
<1>4. ASSUME NEW b \in j.left, badge[b] # Gone, badge' = TurnRows(b, status), group'.status = status
      PROVE  \A c \in Badges :
                 /\ badge'[c].place = badge[c].place /\ badge'[c].holder = badge[c].holder
                 /\ badge'[c].paid \in {badge[c].paid, "self"}
                 /\ group'.status \in {"declined", "cancelled"} /\ c \in Purchased(badge')
                    /\ badge'[c].state = "ok" => badge[c] = badge'[c] /\ group'.status = group.status
  <2> HIDE DEF status, j
  <2>1. b \in Badges
    BY <1>1, <1>4 DEF HandlerType
  <2>2. badge[b].place # "none"
    BY <1>1, <1>4, <2>1 DEF Knows
  <2>3. PICK rows : rows = TurnRows(b, status)
    OBVIOUS
  <2>4. \A c \in Badges :
              /\ rows[c].place = badge[c].place /\ rows[c].holder = badge[c].holder
              /\ rows[c].paid \in {badge[c].paid, "self"}
              /\ badge[c] = Gone => rows[c] = Gone
              /\ status \in {"declined", "cancelled"} /\ c \in Purchased(rows)
                 /\ rows[c].state = "ok" => badge[c] = rows[c] /\ status = group.status
    BY <1>3, <1>4, <2>1, <2>2, <2>3, ConvertedRows
  <2> QED  BY <1>4, <2>3, <2>4
<1>5. \/ \E b \in j.left : badge[b] # Gone /\ badge' = TurnRows(b, status)
                           /\ group' = [group EXCEPT !.status = status]
      \/ badge' = badge /\ group' = group
      \/ j.left = {} /\ group' = [group EXCEPT !.status = status] /\ badge' = badge
  BY DEF ConvertBadge, TurnRows, StatusAfter
<1> QED  BY <1>1, <1>2, <1>3, <1>4, <1>5

(* One commit or turn of current data: the badges the group pays for grow  *)
(* by what it bills.                                                       *)
LEMMA BilledStep ==
  ASSUME GroupInv, NEW w \in Handlers, Steps(w)
  PROVE  Cardinality(Purchased(badge')) <= Cardinality(Purchased(badge)) + handler[w].bill
<1> DEFINE j == handler[w]
           merged == Merged(badge, j.write)
           made == {b \in Badges : badge[b].place = "none" /\ badge'[b] # NoRow}
<1>1. CASE FreshWrite(w)
  <2>1. /\ j.stage = "write" /\ ~LostRow(j) /\ badge' = Written(w, j)
        /\ j.more \in Nat /\ j.bill \in Int /\ PaidFor(j, badge)
        /\ \A b \in Purchased(badge') :
              \/ b \in Purchased(merged) /\ badge'[b] = merged[b]
              \/ badge[b].place = "none" /\ badge'[b] = j.new /\ j.more > 0
    BY <1>1, FreshWritten
  <2>2. Cardinality(made) <= j.more
    BY <2>1, WrittenRows
  <2>3. Knows(j, badge)
    BY DEF GroupInv, HandlerSound
  <2>4. /\ Purchased(badge') \in SUBSET Badges /\ Purchased(merged) \in SUBSET Badges
        /\ Purchased(badge) \in SUBSET Badges /\ made \in SUBSET Badges
    BY DEF Purchased, Members
  <2> HIDE DEF merged, j
  <2>5. Purchased(badge') \subseteq Purchased(merged) \cup made
    <3>1. ASSUME NEW b \in Purchased(badge')  PROVE b \in Purchased(merged) \cup made
      <4>1. CASE b \in Purchased(merged)
        BY <4>1
      <4>2. CASE badge[b].place = "none" /\ badge'[b] = j.new /\ j.more > 0
        <5>1. badge'[b] # NoRow /\ b \in Badges
          BY <2>3, <2>4, <4>2, EmptyRows DEF Knows
        <5> QED  BY <4>2, <5>1
      <4> QED  BY <2>1, <4>1, <4>2
    <3> QED  BY <3>1
  <2> HIDE DEF made
  <2>6. /\ IsFiniteSet(Purchased(merged)) /\ Cardinality(Purchased(merged)) \in Nat
        /\ IsFiniteSet(made) /\ Cardinality(made) \in Nat
        /\ Cardinality(Purchased(badge')) \in Nat /\ Cardinality(Purchased(badge)) \in Nat
        /\ Purchased(merged) \cap made \in SUBSET Badges
        /\ Cardinality(Purchased(merged) \cap made) \in Nat
    BY <2>4, BadgesFinite
  <2>7. /\ IsFiniteSet(Purchased(merged) \cup made)
        /\ Cardinality(Purchased(merged) \cup made)
             = Cardinality(Purchased(merged)) + Cardinality(made)
               - Cardinality(Purchased(merged) \cap made)
    BY <2>6, FS_Union
  <2>8. Cardinality(Purchased(badge')) <= Cardinality(Purchased(merged) \cup made)
    BY <2>5, <2>7, FS_Subset
  <2>9. Cardinality(Purchased(merged)) + j.more <= Cardinality(Purchased(badge)) + j.bill
    BY <2>1 DEF PaidFor, merged
  <2>10. Cardinality(Purchased(badge')) <= Cardinality(Purchased(badge)) + j.bill
    BY <2>1, <2>2, <2>6, <2>7, <2>8, <2>9
  <2> QED  BY <2>10 DEF j
<1>2. CASE ConvertBadge(w)
  <2>1. j.bill = 0 /\ (badge' = badge \/ \A c \in Badges :
                 badge'[c].place = badge[c].place /\ badge'[c].paid \in {badge[c].paid, "self"})
    BY <1>2, ConversionTurn
  <2>2. Purchased(badge') \subseteq Purchased(badge)
    BY <2>1 DEF Purchased, Members
  <2>3. Cardinality(Purchased(badge')) + 0 <= Cardinality(Purchased(badge)) + 0
    BY <2>2, NotMorePaid, RowsOfInv
  <2>4. Cardinality(Purchased(badge)) \in Nat /\ Cardinality(Purchased(badge')) \in Nat
    BY <2>2, BadgesFinite, RowsOfInv
  <2> QED  BY <2>1, <2>3, <2>4
<1> QED  BY <1>1, <1>2 DEF Steps

(* No commit of current data gives away badges: those that the group pays  *)
(* for do not grow faster than what it is billed.  For any handlers.       *)
THEOREM GroupIsBilled == GroupSpec => BilledForBadges
<1>1. GroupInv /\ [GroupNext]_groupVars =>
        [\A w \in Handlers : Steps(w) =>
           Cardinality(Purchased(badge)') <= Cardinality(Purchased(badge)) + handler[w].bill]_groupVars
  BY BilledStep
<1> QED
  BY <1>1, GroupInvInit, GroupStepKeeps, PTL DEF GroupSpec, BilledForBadges

(* One commit or turn of current data: a badge keeps its holder, or is     *)
(* dropped by itself.                                                      *)
LEMMA HolderStep ==
  ASSUME GroupInv, NEW w \in Handlers, NEW b \in Badges, Steps(w), badge[b].holder # Nobody
  PROVE  \/ badge'[b].holder = badge[b].holder
         \/ badge'[b] \in {Gone, NoRow} /\ handler[w].more = 1
<1> DEFINE j == handler[w]
           merged == Merged(badge, j.write)
<1>1. badge[b].place # "none"
  BY EmptyRows DEF GroupInv, RowSound
<1>2. CASE FreshWrite(w)
  <2>1. j.stage = "write" /\ ~LostRow(j) /\ badge' = Written(w, j) /\ HoldersKept(j, badge)
    BY <1>2, FreshWritten
  <2>2. /\ merged[b].place = "gone" => badge'[b] \in {Gone, NoRow}
        /\ merged[b].place # "gone" => badge'[b] = merged[b]
    BY <1>1, <2>1, WrittenRows
  <2>3. IF merged[b].place = "gone" THEN j.more = 1 ELSE merged[b].holder = badge[b].holder
    BY <2>1 DEF HoldersKept
  <2> HIDE DEF merged
  <2> QED  BY <2>2, <2>3
<1>3. CASE ConvertBadge(w)
  BY <1>3, ConversionTurn
<1> QED  BY <1>2, <1>3 DEF Steps

(* No commit of current data takes a badge from its holder, unless the     *)
(* leader drops that member.  For any handlers.                            *)
THEOREM HoldersKeepTheirBadges == GroupSpec => HolderKeepsBadge
<1>1. GroupInv /\ [GroupNext]_groupVars =>
        [\A w \in Handlers, b \in Badges :
           Steps(w) /\ badge[b].holder # Nobody =>
             \/ badge'[b].holder = badge[b].holder
             \/ badge'[b] \in {Gone, NoRow} /\ handler[w].more = 1]_groupVars
  BY HolderStep
<1> QED
  BY <1>1, GroupInvInit, GroupStepKeeps, PTL DEF GroupSpec, HolderKeepsBadge
-----------------------------------------------------------------------------
(* One clerk serves the requests, the other handlers run the task.         *)

(* The task makes no badges and moves none, and starts with badges to      *)
(* convert.  If the clerk declines a group without badges, it stays one.   *)
TaskSound(j) ==
  /\ j.more = 0 /\ \A b \in Badges : j.write[b].place = "same"
  /\ j.stage = "convert" /\ j.to # "same" => j.left # {}

EmptySound(j) ==
  j.stage = "convert" /\ j.to # "same" /\ j.left = {} => Members(badge) = {}

ClerkSound(clerk) ==
  /\ \A w \in Handlers \ {clerk} : TaskSound(handler[w])
  /\ EmptySound(handler[clerk])

(* A handler at rest, or overtaken.                                        *)
LEMMA RestTask ==
  ASSUME badge \in [Badges -> Row]
  PROVE  TaskSound(AtRest) /\ EmptySound(AtRest)
<1>1. /\ AtRest.stage = "idle" /\ AtRest.more = 0
      /\ \A b \in Badges : AtRest.write[b] = Unwritten
      /\ Unwritten.place = "same"
  BY RestSound
<1> HIDE DEF AtRest
<1> QED  BY <1>1 DEF TaskSound, EmptySound

(* The task stays sound when it is overtaken.                              *)
LEMMA StaleTask ==
  ASSUME NEW j \in HandlerType
  PROVE  /\ Stale(j).stage = j.stage /\ Stale(j).to = j.to /\ Stale(j).left = j.left
         /\ TaskSound(j) => TaskSound(Stale(j))
<1>1. /\ Stale(j).stage = j.stage /\ Stale(j).to = j.to /\ Stale(j).left = j.left
      /\ Stale(j).more = j.more /\ Stale(j).write = j.write
  BY DEF Stale, HandlerType
<1> QED  BY <1>1 DEF TaskSound

(* The task starts.                                                        *)
LEMMA TaskStarts ==
  ASSUME GroupInv, NEW w \in Handlers, ConvertDeclinedGroups(w)
  PROVE  \E j : Started(w, j) /\ TaskSound(j)
<1>1. Purchased(badge) # {} /\ StartConversion(w, "declined") /\ "declined" \in GroupStatuses
  BY DEF ConvertDeclinedGroups, GroupStatuses
<1>2. CASE group.paidFee
  <2>1. ToWrite(w, badge, 0, "declined", 0)
    BY <1>1, <1>2 DEF StartConversion
  <2>2. /\ 0 \in Nat /\ 0 \in -MaxBadges .. MaxBadges /\ Fair(badge, 0, 0)
        /\ "declined" \in GroupStatuses \cup {"same"}
    BY <1>1, StillFair, RowsOfInv, GroupAssumption
  <2>3. PICK rows : rows = badge
    OBVIOUS
  <2>4. Fair(rows, 0, 0) /\ ToWrite(w, rows, 0, "declined", 0)
    BY <2>1, <2>2, <2>3
  <2>5. \E j : /\ Started(w, j) /\ j.stage = "write" /\ j.more = 0
               /\ \A b \in Badges : rows[b].place = badge[b].place => j.write[b].place = "same"
    BY ONLY <2>2, <2>4, GroupInv, w \in Handlers, ReadSound
  <2>6. PICK j : /\ Started(w, j) /\ j.stage = "write" /\ j.more = 0
                 /\ \A b \in Badges : rows[b].place = badge[b].place => j.write[b].place = "same"
    BY <2>5
  <2>7. TaskSound(j)
    BY <2>3, <2>6 DEF TaskSound
  <2> QED  BY <2>6, <2>7
<1>3. CASE ~group.paidFee
  <2> DEFINE j == [AtRest EXCEPT !.stage = "convert", !.to = "declined", !.left = Members(badge)]
  <2>1. Started(w, j)
    BY <1>1, <1>3, RequestJob
  <2>2. /\ AtRest.more = 0 /\ \A b \in Badges : AtRest.write[b] = Unwritten
        /\ Unwritten.place = "same" /\ AtRest \in HandlerType
    BY RowsOfInv, RestSound
  <2>3. j.more = 0 /\ j.left = Members(badge) /\ \A b \in Badges : j.write[b].place = "same"
    BY <2>2 DEF HandlerType
  <2> HIDE DEF j
  <2>4. Members(badge) # {}
    BY <1>1 DEF Purchased
  <2>5. TaskSound(j)
    BY <2>3, <2>4 DEF TaskSound
  <2> QED  BY <2>1, <2>5
<1> QED  BY <1>2, <1>3

(* A commit of the task gives the group no badge.                          *)
LEMMA TaskWrites ==
  ASSUME GroupInv, NEW w \in Handlers, handler[w].stage = "write", ~LostRow(handler[w]),
         badge' = Written(w, handler[w]), TaskSound(handler[w])
  PROVE  Members(badge') \subseteq Members(badge)
<1> DEFINE j == handler[w]
           merged == Merged(badge, j.write)
<1>1. badge \in [Badges -> Row] /\ j.write \in [Badges -> Change]
  BY RowsOfInv DEF HandlerType
<1>2. ASSUME NEW b \in Badges, badge'[b].place = "group"  PROVE badge[b].place = "group"
  <2>1. /\ badge[b].place = "none" => badge'[b] = NoRow \/ j.more > 0
        /\ badge[b].place # "none" /\ merged[b].place = "gone" => badge'[b] \in {Gone, NoRow}
        /\ badge[b].place # "none" /\ merged[b].place # "gone" => badge'[b] = merged[b]
    BY WrittenRows
  <2>2. j.more = 0 /\ j.write[b].place = "same"
    BY DEF TaskSound
  <2>3. merged[b].place = badge[b].place
    BY <1>1, <2>2, MergedRow
  <2> HIDE DEF merged, j
  <2> QED  BY <1>2, <2>1, <2>2, <2>3, EmptyRows
<1> QED  BY <1>2 DEF Members

(* One handler is changed and no badge joins the group.                    *)
LEMMA ClerkStays ==
  ASSUME GroupInv, NEW clerk \in Handlers, ClerkSound(clerk), NEW w \in Handlers,
         Members(badge') \subseteq Members(badge) \/ w = clerk,
         \A v \in Handlers \ {w} : handler'[v] \in {handler[v], Stale(handler[v])},
         w # clerk => TaskSound(handler'[w]),
         LET j == handler'[w] IN
           w = clerk => (j.stage = "convert" /\ j.to # "same" /\ j.left = {} => Members(badge') = {})
  PROVE  ClerkSound(clerk)'
<1>1. handler \in [Handlers -> HandlerType]
  BY RowsOfInv
<1>2. ASSUME NEW v \in Handlers \ {clerk}  PROVE TaskSound(handler'[v])
  BY <1>1, <1>2, StaleTask DEF ClerkSound
<1>3. ASSUME handler'[clerk].stage = "convert", handler'[clerk].to # "same", handler'[clerk].left = {}
      PROVE  Members(badge') = {}
  <2>1. CASE w = clerk
    BY <1>3, <2>1
  <2>2. CASE w # clerk
    <3>1. /\ handler'[clerk].stage = handler[clerk].stage /\ handler'[clerk].to = handler[clerk].to
          /\ handler'[clerk].left = handler[clerk].left
      BY <1>1, <2>2, StaleTask
    <3>2. Members(badge) = {}
      BY <1>3, <3>1 DEF ClerkSound, EmptySound
    <3> QED  BY <2>2, <3>2
  <2> QED  BY <2>1, <2>2
<1> QED  BY <1>2, <1>3 DEF ClerkSound, EmptySound, TaskSound

(* The same when somebody else than a handler acts.                        *)
LEMMA ClerkWaits ==
  ASSUME GroupInv, NEW clerk \in Handlers, ClerkSound(clerk),
         Members(badge') \subseteq Members(badge),
         \A v \in Handlers : handler'[v] \in {handler[v], Stale(handler[v])}
  PROVE  ClerkSound(clerk)'
<1>1. handler[clerk] \in HandlerType
  BY RowsOfInv
<1>2. /\ handler'[clerk].stage = handler[clerk].stage /\ handler'[clerk].to = handler[clerk].to
      /\ handler'[clerk].left = handler[clerk].left
  BY <1>1, StaleTask
<1>3. handler'[clerk].stage = "convert" /\ handler'[clerk].to # "same" /\ handler'[clerk].left = {}
        => Members(badge') = {}
  BY <1>2 DEF ClerkSound, EmptySound
<1> QED  BY <1>3, ClerkStays

(* Every step leaves one clerk beside the task.                            *)
LEMMA ClerkStep ==
  ASSUME GroupInv, NEW clerk \in Handlers, ClerkSound(clerk), [GroupNext]_groupVars,
         \A w \in Handlers \ {clerk} : Serves[w] \subseteq {"task"}
  PROVE  ClerkSound(clerk)'
<1>1. handler \in [Handlers -> HandlerType] /\ badge \in [Badges -> Row] /\ GroupInv'
  BY RowsOfInv, GroupStepKeeps
<1>2. TaskSound(AtRest) /\ AtRest.stage = "idle"
  BY <1>1, RestTask, RestSound
<1>3. ASSUME NEW w \in Handlers, StartHandler(w)  PROVE ClerkSound(clerk)'
  <2>1. badge' = badge
    BY <1>3, RequestStarts
  <2>2. CASE UNCHANGED handler
    BY <2>1, <2>2, ClerkWaits
  <2>3. CASE ~UNCHANGED handler /\ w = clerk
    <3>1. PICK j : Started(w, j)
      BY <1>3, <2>3, RequestStarts
    <3>2. handler'[w] = j /\ (j.stage = "convert" => j.left = Members(badge'))
      BY <1>1, <2>1, <3>1 DEF Started
    <3>3. \A v \in Handlers \ {w} : handler'[v] = handler[v]
      BY <1>1, <3>1 DEF Started
    <3> QED  BY <2>1, <2>3, <3>2, <3>3, ClerkStays
  <2>4. CASE w # clerk
    <3>1. ConvertDeclinedGroups(w)
      BY <1>3, <2>4 DEF StartHandler
    <3>2. PICK j : Started(w, j) /\ TaskSound(j)
      BY <3>1, TaskStarts
    <3>3. handler'[w] = j /\ \A v \in Handlers \ {w} : handler'[v] = handler[v]
      BY <1>1, <3>2 DEF Started
    <3> QED  BY <2>1, <2>4, <3>2, <3>3, ClerkStays
  <2> QED  BY <2>2, <2>3, <2>4
<1>4. ASSUME NEW w \in Handlers, WriteRows(w)  PROVE ClerkSound(clerk)'
  <2>1. handler[w].stage = "write"
    BY <1>4 DEF WriteRows
  <2>2. CASE LostRow(handler[w])
    <3>1. badge' = badge /\ handler' = [handler EXCEPT ![w] = AtRest]
      BY <1>4, <2>2 DEF WriteRows
    <3>2. handler'[w] = AtRest /\ \A v \in Handlers \ {w} : handler'[v] = handler[v]
      BY <1>1, <3>1
    <3> QED  BY <1>2, <3>1, <3>2, ClerkStays
  <2>3. CASE ~LostRow(handler[w])
    <3>1. badge' = Written(w, handler[w]) /\ handler' = Wrote(w, AtRest)
      BY <1>4, <2>3 DEF WriteRows
    <3>2. handler'[w] = AtRest /\ \A v \in Handlers \ {w} : handler'[v] = Stale(handler[v])
      BY <3>1 DEF Wrote, Stale
    <3>3. w # clerk => Members(badge') \subseteq Members(badge)
      BY <2>1, <2>3, <3>1, TaskWrites DEF ClerkSound
    <3> QED  BY <1>2, <3>2, <3>3, ClerkStays
  <2> QED  BY <2>2, <2>3
<1>5. ASSUME NEW w \in Handlers, ConvertBadge(w)  PROVE ClerkSound(clerk)'
  <2>1. badge' = badge \/ \A c \in Badges : badge'[c].place = badge[c].place
    BY <1>5, ConversionTurn
  <2>2. Members(badge') = Members(badge)
    BY <2>1 DEF Members
  <2>3. \A v \in Handlers \ {w} : handler'[v] \in {handler[v], Stale(handler[v])}
    BY <1>1, <1>5 DEF ConvertBadge, Wrote, Stale
  <2>4. handler'[w] = AtRest \/ \E b \in handler[w].left :
          handler'[w] = [handler[w] EXCEPT !.to = "same", !.left = @ \ {b}]
    BY <1>1, <1>5 DEF ConvertBadge, Wrote
  <2>5. handler'[w] = AtRest \/ (handler'[w].to = "same" /\ handler'[w].more = handler[w].more
                                 /\ handler'[w].write = handler[w].write)
    BY <1>1, <2>4 DEF HandlerType
  <2>6. w # clerk => TaskSound(handler'[w])
    <3>1. CASE handler'[w] = AtRest
      BY <1>2, <3>1
    <3>2. CASE handler'[w] # AtRest
      BY <2>5, <3>2 DEF ClerkSound, TaskSound
    <3> QED  BY <3>1, <3>2
  <2>7. ~(handler'[w].stage = "convert" /\ handler'[w].to # "same")
    BY <1>2, <2>5
  <2> QED  BY <2>2, <2>3, <2>6, <2>7, ClerkStays
<1>6. ASSUME NEW w \in Handlers, KillHandler(w)  PROVE ClerkSound(clerk)'
  <2>1. badge' = badge /\ handler' = [handler EXCEPT ![w] = AtRest]
    BY <1>6 DEF KillHandler
  <2>2. handler'[w] = AtRest /\ \A v \in Handlers \ {w} : handler'[v] = handler[v]
    BY <1>1, <2>1
  <2> QED  BY <1>2, <2>1, <2>2, ClerkStays
<1>7. CASE \/ \E p \in People : OpenClaim(p)
           \/ MarkForConversion \/ PayFee \/ UNCHANGED groupVars
  <2>1. badge' = badge /\ (handler' = handler \/ handler' = Overtaken)
    BY <1>7 DEF OpenClaim, MarkForConversion, PayFee, groupVars
  <2>2. \A v \in Handlers : handler'[v] \in {handler[v], Stale(handler[v])}
    BY <2>1 DEF Overtaken, Stale
  <2> QED  BY <2>1, <2>2, ClerkWaits
<1>8. ASSUME NEW b \in Badges, PayBadge(b)  PROVE ClerkSound(clerk)'
  <2>1. badge' = [badge EXCEPT ![b].paid = "has"] /\ handler' = Overtaken
    BY <1>8 DEF PayBadge
  <2>2. \A v \in Handlers : handler'[v] \in {handler[v], Stale(handler[v])}
    BY <2>1 DEF Overtaken, Stale
  <2>3. \A c \in Badges : badge'[c].place = badge[c].place
    <3>1. ASSUME NEW c \in Badges  PROVE badge'[c].place = badge[c].place
      <4>1. CASE c = b
        BY <1>1, <2>1, <4>1 DEF Row
      <4>2. CASE c # b
        BY <1>1, <2>1, <4>2
      <4> QED  BY <4>1, <4>2
    <3> QED  BY <3>1
  <2>4. Members(badge') = Members(badge)
    BY <2>3 DEF Members
  <2> QED  BY <2>2, <2>4, ClerkWaits
<1> QED
  BY <1>3, <1>4, <1>5, <1>6, <1>7, <1>8 DEF GroupNext

(* One commit or turn of current data leaves a declined group no valid     *)
(* badge that it did not have.                                             *)
LEMMA DeclinedStep ==
  ASSUME GroupInv, NEW clerk \in Handlers, ClerkSound(clerk), NEW w \in Handlers, Steps(w),
         group'.status \in {"declined", "cancelled"}, NEW b \in Purchased(badge'),
         badge'[b].state = "ok"
  PROVE  group.status = group'.status /\ badge[b].state = "ok" /\ badge[b].place = "group"
<1> DEFINE j == handler[w]
           merged == Merged(badge, j.write)
<1>1. b \in Badges /\ badge'[b].place = "group"
  BY DEF Purchased, Members
<1>2. CASE FreshWrite(w)
  <2>1. /\ group'.status = StatusAfter(j, group.status) /\ NotValid(j, badge, group.status)
        /\ \/ b \in Purchased(merged) /\ badge'[b] = merged[b]
           \/ badge[b].place = "none" /\ badge'[b] = j.new /\ j.more > 0
    BY <1>2, FreshWritten
  <2>2. /\ j.more > 0 => j.new.state # "ok"
        /\ \A c \in Purchased(merged) : merged[c].state = "ok" =>
             badge[c] = merged[c] /\ group.status = StatusAfter(j, group.status)
    BY <2>1 DEF NotValid
  <2> HIDE DEF merged, j
  <2> QED  BY <1>1, <2>1, <2>2
<1>3. CASE ConvertBadge(w)
  <2>1. /\ j.stage = "convert"
        /\ \/ badge' = badge /\ group' = group
           \/ j.left = {} /\ badge' = badge /\ group'.status = StatusAfter(j, group.status)
           \/ \A c \in Badges :
                group'.status \in {"declined", "cancelled"} /\ c \in Purchased(badge')
                    /\ badge'[c].state = "ok" => badge[c] = badge'[c] /\ group'.status = group.status
    BY <1>3, ConversionTurn
  <2>2. CASE j.left = {} /\ badge' = badge /\ group'.status = StatusAfter(j, group.status)
    <3>1. b \in Members(badge)
      BY <2>2 DEF Purchased
    <3>2. j.to = "same"
      BY <2>1, <2>2, <3>1 DEF ClerkSound, TaskSound, EmptySound
    <3> QED  BY <1>1, <2>2, <3>2 DEF StatusAfter
  <2> QED  BY <1>1, <2>1, <2>2
<1> QED  BY <1>2, <1>3 DEF Steps

(* No commit of current data leaves a declined or cancelled group with a   *)
(* valid badge of its own that was not one before, if one clerk serves the *)
(* requests beside any number of handlers that run the task.  (A clerk     *)
(* that declines a group without badges does not see those that another    *)
(* adds meanwhile.)                                                        *)
THEOREM OneClerkDeclines ==
  ASSUME NEW clerk \in Handlers,
         \A w \in Handlers \ {clerk} : Serves[w] \subseteq {"task"}
  PROVE  GroupSpec => DeclinedHaveNoBadge
<1>1. GroupInit => ClerkSound(clerk)
  <2> SUFFICES ASSUME GroupInit  PROVE ClerkSound(clerk)
    OBVIOUS
  <2>1. badge \in [Badges -> Row] /\ \A w \in Handlers : handler[w] = AtRest
    BY GroupInvInit, RowsOfInv DEF GroupInit
  <2> QED  BY <2>1, RestTask DEF ClerkSound
<1>2. GroupInv /\ ClerkSound(clerk) /\ [GroupNext]_groupVars => ClerkSound(clerk)'
  BY ClerkStep
<1>3. GroupInv /\ ClerkSound(clerk) /\ [GroupNext]_groupVars =>
        [\A w \in Handlers : Steps(w) /\ group'.status \in {"declined", "cancelled"} =>
           \A b \in Purchased(badge)' :
             badge'[b].state = "ok" => group.status = group'.status /\ badge[b].state = "ok"
                                       /\ badge[b].place = "group"]_groupVars
  BY DeclinedStep
<1> QED
  BY <1>1, <1>2, <1>3, GroupInvInit, GroupStepKeeps, PTL DEF GroupSpec, DeclinedHaveNoBadge

=============================================================================
