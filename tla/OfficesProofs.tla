----------------------------- MODULE OfficesProofs -----------------------------
(***************************************************************************)
(* Proofs about four of the offices.  Badge transfers: when no handler     *)
(* wrote over what another had written and none was killed, a purchase has *)
(* one valid badge while its money is kept and none once it went back.     *)
(* Shifts: when every assignment passed the checks as it was written and   *)
(* no job was edited with shifts on it, hours, overlaps and slots are as   *)
(* they must be.  Print queue: no job is handed out twice or before its    *)
(* fee is paid, and the fee is charged and given back once.  Emails: nobody*)
(* gets an email twice, apart from once more for each process killed.      *)
(***************************************************************************)
EXTENDS Transfers, Shifts, PrintQueue, Emails, FiniteSetTheorems, WellFoundedInduction, TLAPS

(* A set of numbers that is not empty has a least one.                     *)
LEMMA LeastOf ==
  ASSUME NEW S \in SUBSET Nat, S # {}
  PROVE  Min(S) \in S
<1>2. PICK m \in S : \A n \in S : ~ (<<n, m>> \in OpToRel(<, Nat))
  BY WFMin, NatLessThanWellFounded
<1>3. ASSUME NEW n \in S  PROVE m <= n
  <2>1. n \in Nat /\ m \in Nat
    OBVIOUS
  <2>2. ~ (n < m)
    BY <1>2, <2>1 DEF OpToRel
  <2> QED  BY <2>1, <2>2
<1> QED  BY <1>3 DEF Min

-----------------------------------------------------------------------------
(***************************************************************************)
(* Transfers                                                               *)
(***************************************************************************)

(* A handler that is to write has read a valid badge, and one that         *)
(* completes a transfer a pending row.                                     *)
ReadSound(d) ==
  /\ desk[d].step \in {"complete", "transfer", "abandon"} => desk[d].sawOld.state = "valid"
  /\ desk[d].step = "complete" => desk[d].sawNew.state = "pending" /\ desk[d].old # desk[d].new

(* The badges of a purchase, row by row.                                   *)
IsBadgeOf(i, p) == holder[i].state = "valid" /\ holder[i].purchase = p

Moves(d, p) == desk[d].step = "receipt" /\ desk[d].receipt = p

(* Between the two commits of a transfer nobody else moves the receipt; it *)
(* is still that of the old row, which is gone for good; and if the new    *)
(* row is still valid, it alone has the badge.                             *)
MoveSound(d) ==
  desk[d].step = "receipt" =>
    /\ desk[d].receipt \in Purchases \ refunded
    /\ receiptOf[desk[d].receipt] = desk[d].old
    /\ holder[desk[d].old].state = "invalid"
    /\ holder[desk[d].new].state \in {"valid", "invalid", "refunded"}
    /\ holder[desk[d].new].state = "valid" =>
         \A i \in Holders : IsBadgeOf(i, desk[d].receipt) <=> i = desk[d].new
    /\ \A e \in Desks : Moves(e, desk[d].receipt) => e = d

(* Otherwise whoever owns the receipt has the badge, until it is refunded. *)
PurchaseSettled(p) ==
  \A i \in Holders : IsBadgeOf(i, p) <=> p \notin refunded /\ i = receiptOf[p]

MoneySound ==
  /\ \A i \in Holders : holder[i].state = "valid" => holder[i].purchase \in Purchases
  /\ \A d \in Desks : MoveSound(d)
  /\ \A p \in Purchases : (\A d \in Desks : ~Moves(d, p)) => PurchaseSettled(p)

TransferInv ==
  /\ TransferTypeOK
  /\ \A d \in Desks : ReadSound(d)
  /\ ~raced /\ deskKills = 0 => MoneySound

-----------------------------------------------------------------------------
(* Lemmas about the operators                                              *)

(* The row that a new holder gets is a fresh one.                          *)
LEMMA FreshIsFresh ==
  ASSUME FreshRows # {}
  PROVE  Fresh \in Holders /\ holder[Fresh].state = "none"
<1>1. FreshRows \subseteq Nat
  BY TransferAssumption DEF FreshRows, Holders, TransferAssumption
<1>2. Fresh \in FreshRows
  <2> HIDE DEF FreshRows
  <2> QED  BY <1>1, LeastOf DEF Fresh
<1> QED  BY <1>2 DEF FreshRows

(* The receipt of a row is open and its own, and there is none only if it  *)
(* owns no open one.                                                       *)
LEMMA ReceiptOfRow ==
  ASSUME NEW i
  PROVE  /\ ReceiptBy(i) # NoPurchase =>
              ReceiptBy(i) \in Purchases \ refunded /\ receiptOf[ReceiptBy(i)] = i
         /\ ReceiptBy(i) = NoPurchase => \A p \in Purchases \ refunded : receiptOf[p] # i
<1> DEFINE open == {p \in Purchases \ refunded : receiptOf[p] = i}
<1>1. NoPurchase \notin Purchases
  BY TransferAssumption DEF TransferAssumption, NoPurchase
<1>2. ReceiptBy(i) = IF open = {} THEN NoPurchase ELSE CHOOSE p \in open : TRUE
  BY DEF ReceiptBy
<1>3. open # {} => (CHOOSE p \in open : TRUE) \in open
  OBVIOUS
<1>4. CASE open = {}
  BY <1>2, <1>4
<1>5. CASE open # {}
  <2>1. ReceiptBy(i) \in open
    BY <1>2, <1>3, <1>5
  <2> QED  BY <1>1, <2>1
<1> QED  BY <1>4, <1>5

(* What a handler knows, once it has read.                                 *)
LEMMA KnownRead ==
  ASSUME TransferTypeOK, NEW d \in Desks, desk[d].step # "idle"
  PROVE  /\ desk[d] \in [ step : {"complete", "transfer", "abandon", "receipt"},
                          old : Holders, new : Holders, sawOld : Holder, sawNew : Holder,
                          receipt : Purchases \cup {NoPurchase} ]
         /\ desk[d] # NoDesk
<1>1. NoDesk.step = "idle"
  BY DEF NoDesk
<1> QED  BY <1>1 DEF TransferTypeOK, DeskJobs

(* A handler is idle, or has read.                                         *)
LEMMA IdleDesk ==
  /\ NoDesk.step = "idle" /\ NoDesk \in DeskJobs
  BY DEF NoDesk, DeskJobs

(* What a handler that begins has read.                                   *)
LEMMA ReadsDesk ==
  ASSUME TransferTypeOK, NEW d \in Desks, NEW old \in Holders, NEW new \in Holders,
         NEW step \in {"complete", "transfer", "abandon"}, Reads(d, step, old, new)
  PROVE  /\ desk' \in [Desks -> DeskJobs]
         /\ \A e \in Desks : e # d => desk'[e] = desk[e]
         /\ desk'[d].step = step /\ desk'[d].sawOld = holder[old]
         /\ desk'[d].sawNew = holder[new] /\ desk'[d].old = old /\ desk'[d].new = new
<1> DEFINE read == [ step |-> step, old |-> old, new |-> new,
                     sawOld |-> holder[old], sawNew |-> holder[new],
                     receipt |-> ReceiptBy(old) ]
<1>1. ReceiptBy(old) \in Purchases \cup {NoPurchase}
  BY ReceiptOfRow
<1>2. read \in DeskJobs
  BY <1>1 DEF DeskJobs, TransferTypeOK
<1>3. desk' = [desk EXCEPT ![d] = read]
  BY DEF Reads
<1>4. read.step = step /\ read.sawOld = holder[old] /\ read.sawNew = holder[new]
      /\ read.old = old /\ read.new = new
  OBVIOUS
<1> HIDE DEF read
<1> QED  BY <1>2, <1>3, <1>4 DEF TransferTypeOK

-----------------------------------------------------------------------------
(* Steps                                                                   *)

(* Steps that neither make a badge valid nor take one away.                *)
LEMMA SameBadges ==
  ASSUME MoneySound, UNCHANGED <<receiptOf, refunded>>,
         \A i \in Holders :
           /\ holder'[i].state = "valid" <=> holder[i].state = "valid"
           /\ holder[i].state \in {"valid", "invalid", "refunded"} =>
                holder'[i].state = holder[i].state /\ holder'[i].purchase = holder[i].purchase,
         \A d \in Desks :
           desk'[d] = desk[d] \/ (desk[d].step # "receipt" /\ desk'[d].step # "receipt"),
         \A d \in Desks :
           desk[d].step = "receipt" => desk[d].old \in Holders /\ desk[d].new \in Holders
  PROVE  MoneySound'
<1>1. ASSUME NEW d \in Desks  PROVE MoveSound(d)'
  BY DEF MoneySound, MoveSound, Moves, IsBadgeOf
<1>2. ASSUME NEW p \in Purchases, \A d \in Desks : ~Moves(d, p)'  PROVE PurchaseSettled(p)'
  <2>1. \A d \in Desks : ~Moves(d, p)
    BY <1>2 DEF Moves
  <2> QED  BY <2>1 DEF MoneySound, PurchaseSettled, IsBadgeOf
<1> QED  BY <1>1, <1>2 DEF MoneySound

(* A badge changes hands: the new row gets what the old one had, if both   *)
(* are as they were read.                                                  *)
LEMMA HandOverMoney ==
  ASSUME TransferTypeOK, MoneySound, NEW d \in Desks, NEW new \in Holders,
         desk[d].step \in {"complete", "transfer"}, desk[d].sawOld.state = "valid",
         holder[new].state \in {"none", "pending"}, HandOver(d, new), ~Stale(d)
  PROVE  MoneySound'
<1>1. PICK old \in Holders, q \in Purchases, r \in Purchases \cup {NoPurchase} :
        /\ old = desk[d].old /\ r = desk[d].receipt /\ q = holder[old].purchase
        /\ holder[old] = desk[d].sawOld /\ holder[old].state = "valid"
        /\ ReceiptBy(old) = r /\ old # new /\ desk[d].step # "receipt"
  BY KnownRead DEF Stale, MoneySound
<1>2. /\ holder'[old].state = "invalid" /\ holder'[new].state = "valid"
      /\ holder'[new].purchase = q
      /\ \A i \in Holders \ {old, new} : holder'[i] = holder[i]
      /\ holder \in [Holders -> Holder]
  BY <1>1 DEF HandOver, Inherited, TransferTypeOK, Holder
<1>3. UNCHANGED <<receiptOf, refunded>>
  BY DEF HandOver
<1>4. /\ \A e \in Desks : e # d => desk'[e] = desk[e]
      /\ r = NoPurchase => desk'[d].step = "idle"
      /\ r # NoPurchase => desk'[d].step = "receipt" /\ desk'[d].receipt = r
                           /\ desk'[d].old = old /\ desk'[d].new = new
  BY <1>1, KnownRead, IdleDesk DEF HandOver, TransferTypeOK
<1>5. ASSUME NEW i \in Holders, NEW p
      PROVE  IsBadgeOf(i, p)' <=> (i = new /\ p = q) \/ (i \notin {old, new} /\ IsBadgeOf(i, p))
  <2>1. CASE i = new
    BY <1>2, <2>1 DEF IsBadgeOf
  <2>2. CASE i = old
    BY <1>1, <1>2, <2>2 DEF IsBadgeOf
  <2>3. CASE i \notin {old, new}
    BY <1>2, <2>3 DEF IsBadgeOf
  <2> QED  BY <2>1, <2>2, <2>3
<1>6. \A p : ~IsBadgeOf(new, p) /\ (IsBadgeOf(old, p) <=> p = q)
  BY <1>1 DEF IsBadgeOf
\* another handler between its two commits
<1>7. ASSUME NEW e \in Desks \ {d}, NEW p, Moves(e, p)
      PROVE  /\ p \in Purchases \ refunded /\ receiptOf[p] = desk[e].old
             /\ holder'[desk[e].old].state = "invalid"
             /\ holder'[desk[e].new].state \in {"valid", "invalid", "refunded"}
             /\ holder'[desk[e].new].state = "valid" =>
                  \A i \in Holders : IsBadgeOf(i, p)' <=> i = desk[e].new
             /\ desk[e].old # old
             /\ \A c \in Desks : Moves(c, p) => c = e
  <2>1. PICK n \in Holders, o \in Holders : n = desk[e].new /\ o = desk[e].old
    BY <1>7, KnownRead DEF Moves
  <2>2. /\ p \in Purchases \ refunded /\ receiptOf[p] = o
        /\ holder[o].state = "invalid" /\ holder[n].state \in {"valid", "invalid", "refunded"}
        /\ holder[n].state = "valid" => \A i \in Holders : IsBadgeOf(i, p) <=> i = n
        /\ \A c \in Desks : Moves(c, p) => c = e
    BY <1>7, <2>1 DEF MoneySound, MoveSound, Moves
  <2>3. o \notin {old, new} /\ n # new
    BY <1>1, <2>2
  <2>4. holder'[o].state = "invalid"
    BY <1>2, <2>2, <2>3
  <2>5. CASE n = old
    BY <1>2, <2>1, <2>2, <2>3, <2>4, <2>5
  <2>6. CASE n # old
    <3>1. holder'[n] = holder[n]
      BY <1>2, <2>3, <2>6
    <3>2. ASSUME holder[n].state = "valid", NEW i \in Holders
          PROVE  IsBadgeOf(i, p)' <=> i = n
      <4>1. \A k \in Holders : IsBadgeOf(k, p) <=> k = n
        BY <2>2, <3>2
      <4>2. p # q
        BY <1>6, <2>6, <4>1
      <4> QED  BY <1>5, <1>6, <2>3, <2>6, <4>1, <4>2
    <3> QED  BY <2>1, <2>2, <2>3, <2>4, <3>1, <3>2
  <2> QED  BY <2>5, <2>6
\* what is settled stays so, unless it is the purchase of the old row
<1>8. ASSUME NEW p \in Purchases, p # q, PurchaseSettled(p)  PROVE PurchaseSettled(p)'
  <2> SUFFICES ASSUME NEW i \in Holders
               PROVE  IsBadgeOf(i, p)' <=> p \notin refunded /\ i = receiptOf[p]
    BY <1>3 DEF PurchaseSettled
  <2> QED  BY <1>1, <1>5, <1>6, <1>8 DEF PurchaseSettled
<1>9. \A i \in Holders : holder'[i].state = "valid" => holder'[i].purchase \in Purchases
  BY <1>1, <1>2 DEF MoneySound
<1>10. CASE r = NoPurchase
  <2>1. \E e \in Desks : Moves(e, q)
    <3> SUFFICES ASSUME \A e \in Desks : ~Moves(e, q)  PROVE FALSE
      OBVIOUS
    <3>1. q \notin refunded /\ receiptOf[q] = old
      BY <1>1, <1>6 DEF MoneySound, PurchaseSettled
    <3> QED  BY <1>1, <1>10, <3>1, ReceiptOfRow
  <2>2. \A p : \A e \in Desks : Moves(e, p)' <=> Moves(e, p)
    BY <1>1, <1>4, <1>10 DEF Moves
  <2>3. ASSUME NEW e \in Desks  PROVE MoveSound(e)'
    <3>1. CASE e = d
      BY <1>4, <1>10, <3>1 DEF MoveSound
    <3>2. CASE e # d
      BY <1>3, <1>4, <1>7, <2>2, <3>2 DEF MoveSound, Moves
    <3> QED  BY <3>1, <3>2
  <2>4. ASSUME NEW p \in Purchases, \A e \in Desks : ~Moves(e, p)'  PROVE PurchaseSettled(p)'
    BY <1>8, <2>1, <2>2, <2>4 DEF MoneySound
  <2> QED  BY <1>9, <2>3, <2>4 DEF MoneySound
<1>11. CASE r # NoPurchase
  <2>1. r \in Purchases \ refunded /\ receiptOf[r] = old
    BY <1>1, <1>11, ReceiptOfRow
  <2>2. \A e \in Desks : ~Moves(e, r)
    BY <1>1, <1>7, <2>1 DEF Moves
  <2>3. PurchaseSettled(r)
    BY <2>1, <2>2 DEF MoneySound
  <2>4. q = r
    BY <1>1, <1>6, <2>1, <2>3 DEF PurchaseSettled
  <2>5. /\ Moves(d, r)' /\ \A p : Moves(d, p)' => p = r
        /\ \A p : \A e \in Desks \ {d} : Moves(e, p)' <=> Moves(e, p)
    BY <1>4, <1>11 DEF Moves
  <2>6. ASSUME NEW i \in Holders  PROVE IsBadgeOf(i, r)' <=> i = new
    BY <1>1, <1>5, <2>1, <2>3, <2>4 DEF PurchaseSettled
  <2>7. ASSUME NEW e \in Desks  PROVE MoveSound(e)'
    <3>1. CASE e = d
      BY <1>2, <1>3, <1>4, <1>11, <2>1, <2>2, <2>5, <2>6, <3>1 DEF MoveSound
    <3>2. CASE e # d
      BY <1>3, <1>4, <1>7, <2>1, <2>5, <3>2 DEF MoveSound, Moves
    <3> QED  BY <3>1, <3>2
  <2>8. ASSUME NEW p \in Purchases, \A e \in Desks : ~Moves(e, p)'  PROVE PurchaseSettled(p)'
    <3>1. p # r /\ \A e \in Desks : ~Moves(e, p)
      BY <1>1, <2>5, <2>8 DEF Moves
    <3> QED  BY <1>8, <2>4, <3>1 DEF MoneySound
  <2> QED  BY <1>9, <2>7, <2>8 DEF MoneySound
<1> QED  BY <1>10, <1>11

(* The receipt follows, and the purchase is settled.                       *)
LEMMA MoveReceiptMoney ==
  ASSUME TransferTypeOK, MoneySound, NEW d \in Desks, MoveReceipt(d), ~raced'
  PROVE  MoneySound'
<1>1. PICK p \in Purchases \cup {NoPurchase}, old \in Holders, new \in Holders :
        /\ p = desk[d].receipt /\ old = desk[d].old /\ new = desk[d].new
        /\ holder[new].state = "valid" /\ desk[d].step = "receipt"
  <2>1. desk[d].step = "receipt" /\ holder[desk[d].new].state = "valid"
    BY DEF MoveReceipt
  <2> QED  BY <2>1, KnownRead
<1>2. /\ p \in Purchases \ refunded
      /\ \A i \in Holders : IsBadgeOf(i, p) <=> i = new
      /\ \A e \in Desks : Moves(e, p) => e = d
  BY <1>1 DEF MoneySound, MoveSound
<1>3. /\ UNCHANGED <<holder, refunded>> /\ receiptOf' = [receiptOf EXCEPT ![p] = new]
      /\ desk' = [desk EXCEPT ![d] = NoDesk]
  BY <1>1 DEF MoveReceipt
<1>4. /\ desk'[d].step = "idle" /\ \A e \in Desks : e # d => desk'[e] = desk[e]
      /\ receiptOf'[p] = new /\ \A q \in Purchases \ {p} : receiptOf'[q] = receiptOf[q]
  BY <1>2, <1>3, IdleDesk DEF TransferTypeOK
<1>5. \A e \in Desks : \A q : Moves(e, q)' => Moves(e, q) /\ q # p
  BY <1>2, <1>4 DEF Moves
<1>6. ASSUME NEW e \in Desks  PROVE MoveSound(e)'
  BY <1>2, <1>3, <1>4, <1>5 DEF MoneySound, MoveSound, IsBadgeOf, Moves
<1>7. ASSUME NEW q \in Purchases, \A e \in Desks : ~Moves(e, q)'  PROVE PurchaseSettled(q)'
  <2>1. CASE q = p
    BY <1>2, <1>3, <1>4, <2>1 DEF PurchaseSettled, IsBadgeOf
  <2>2. CASE q # p
    <3>1. \A e \in Desks : ~Moves(e, q)
      BY <1>1, <1>4, <1>7, <2>2 DEF Moves
    <3> QED  BY <1>3, <1>4, <2>2, <3>1 DEF MoneySound, PurchaseSettled, IsBadgeOf
  <2> QED  BY <2>1, <2>2
<1> QED  BY <1>3, <1>6, <1>7 DEF MoneySound

(* An abandoned badge goes, and its money with it.                         *)
LEMMA AbandonMoney ==
  ASSUME TransferTypeOK, MoneySound, NEW d \in Desks, desk[d].step = "abandon",
         desk[d].sawOld.state = "valid", ~Stale(d), desk[d].receipt \notin refunded,
         refunded' = refunded \cup ({desk[d].receipt} \ {NoPurchase}),
         holder' = [holder EXCEPT ![desk[d].old].state = "refunded"],
         desk' = [desk EXCEPT ![d] = NoDesk], UNCHANGED receiptOf
  PROVE  MoneySound'
<1>1. PICK old \in Holders, q \in Purchases, r \in Purchases \cup {NoPurchase} :
        /\ old = desk[d].old /\ r = desk[d].receipt /\ q = holder[old].purchase
        /\ holder[old].state = "valid" /\ ReceiptBy(old) = r
  BY KnownRead DEF Stale, MoneySound
<1>2. /\ holder'[old].state = "refunded"
      /\ \A i \in Holders \ {old} : holder'[i] = holder[i]
  BY <1>1 DEF TransferTypeOK, Holder
<1>3. /\ refunded' = refunded \cup ({r} \ {NoPurchase})
      /\ desk'[d].step = "idle" /\ \A e \in Desks : e # d => desk'[e] = desk[e]
      /\ desk[d].step # "receipt"
  BY <1>1, IdleDesk DEF TransferTypeOK
<1>4. \A p : \A e \in Desks : Moves(e, p)' <=> Moves(e, p)
  BY <1>3 DEF Moves
<1>5. ASSUME NEW i \in Holders, NEW p
      PROVE  IsBadgeOf(i, p)' <=> i # old /\ IsBadgeOf(i, p)
  BY <1>2 DEF IsBadgeOf
<1>6. \A p : IsBadgeOf(old, p) <=> p = q
  BY <1>1 DEF IsBadgeOf
\* the refund is of this purchase, if it is nobody's to move
<1>7. ASSUME NEW p \in Purchases, \A e \in Desks : ~Moves(e, p)
      PROVE  p = q <=> p = r
  <2>1. PurchaseSettled(p)
    BY <1>7 DEF MoneySound
  <2>2. p = q => p \notin refunded /\ receiptOf[p] = old
    BY <1>6, <2>1 DEF PurchaseSettled
  <2>3. p = r => p \notin refunded /\ receiptOf[p] = old
    BY <1>1, ReceiptOfRow, TransferAssumption DEF TransferAssumption, NoPurchase
  <2>4. p = r => p = q
    BY <1>6, <2>1, <2>3 DEF PurchaseSettled
  <2>5. ASSUME p = q  PROVE p = r
    <3>1. r # NoPurchase
      BY <1>1, <2>2, <2>5, ReceiptOfRow
    <3>2. r \in Purchases \ refunded /\ receiptOf[r] = old
      BY <1>1, <3>1, ReceiptOfRow
    <3>3. \A e \in Desks : ~Moves(e, r)
      <4> SUFFICES ASSUME NEW e \in Desks, Moves(e, r)  PROVE FALSE
        OBVIOUS
      <4>1. desk[e].step = "receipt" /\ desk[e].receipt = r
        BY DEF Moves
      <4>2. holder[receiptOf[r]].state = "invalid"
        BY <4>1 DEF MoneySound, MoveSound
      <4> QED  BY <1>1, <3>2, <4>2
    <3>4. PurchaseSettled(r)
      BY <3>2, <3>3 DEF MoneySound
    <3>5. IsBadgeOf(old, r)
      BY <3>2, <3>4 DEF PurchaseSettled
    <3> QED  BY <1>6, <2>5, <3>5
  <2> QED  BY <2>4, <2>5
<1>8. ASSUME NEW e \in Desks, NEW p, Moves(e, p)
      PROVE  p # r
  <2>1. p \in Purchases /\ holder[receiptOf[p]].state = "invalid"
    BY <1>8 DEF MoneySound, MoveSound, Moves
  <2>2. p # NoPurchase
    BY <2>1, TransferAssumption DEF TransferAssumption, NoPurchase
  <2> QED  BY <1>1, <2>1, <2>2, ReceiptOfRow
<1>9. ASSUME NEW e \in Desks  PROVE MoveSound(e)'
  <2> SUFFICES ASSUME desk'[e].step = "receipt"  PROVE MoveSound(e)'
    BY DEF MoveSound
  <2>1. e # d /\ desk'[e] = desk[e] /\ desk[e].step = "receipt"
    BY <1>3
  <2>2. PICK p \in Purchases \cup {NoPurchase}, n \in Holders, o \in Holders :
          p = desk[e].receipt /\ n = desk[e].new /\ o = desk[e].old
    BY <2>1, KnownRead
  <2>3. /\ p \in Purchases \ refunded /\ receiptOf[p] = o
        /\ holder[o].state = "invalid" /\ holder[n].state \in {"valid", "invalid", "refunded"}
        /\ holder[n].state = "valid" => \A i \in Holders : IsBadgeOf(i, p) <=> i = n
        /\ \A c \in Desks : Moves(c, p) => c = e
    BY <2>1, <2>2 DEF MoneySound, MoveSound
  <2>4. p # r /\ p \notin refunded'
    BY <1>3, <1>8, <2>1, <2>2, <2>3 DEF Moves
  <2>5. o # old /\ holder'[o].state = "invalid"
    BY <1>1, <1>2, <2>2, <2>3
  <2>6. holder'[n].state \in {"valid", "invalid", "refunded"}
        /\ holder'[n].state = "valid" => n # old /\ holder[n].state = "valid"
    BY <1>2, <2>2, <2>3
  <2>7. holder'[n].state = "valid" => \A i \in Holders : IsBadgeOf(i, p)' <=> i = n
    BY <1>5, <2>3, <2>6
  <2> QED  BY <1>4, <2>1, <2>2, <2>3, <2>4, <2>5, <2>6, <2>7 DEF MoveSound
<1>10. ASSUME NEW p \in Purchases, \A e \in Desks : ~Moves(e, p)'  PROVE PurchaseSettled(p)'
  <2>1. (p = q <=> p = r) /\ PurchaseSettled(p)
    BY <1>4, <1>7, <1>10 DEF MoneySound
  <2>2. p \in refunded' <=> p \in refunded \/ p = q
    BY <1>3, <2>1, TransferAssumption DEF TransferAssumption, NoPurchase
  <2> SUFFICES ASSUME NEW i \in Holders
               PROVE  IsBadgeOf(i, p)' <=> p \notin refunded' /\ i = receiptOf[p]
    BY DEF PurchaseSettled
  <2> QED  BY <1>5, <1>6, <2>1, <2>2 DEF PurchaseSettled
<1>11. \A i \in Holders : holder'[i].state = "valid" => holder'[i].purchase \in Purchases
  BY <1>1, <1>2 DEF MoneySound
<1> QED  BY <1>9, <1>10, <1>11 DEF MoneySound

-----------------------------------------------------------------------------
(* The invariant                                                           *)

(* It holds at the start.                                                  *)
LEMMA TransferInitInv == TransferInit => TransferInv
<1> SUFFICES ASSUME TransferInit PROVE TransferInv
  OBVIOUS
<1>1. /\ Purchases \subseteq Holders /\ NoPurchase \notin Purchases
      /\ Blank \in Holder /\ Blank.state = "none" /\ Blank.purchase = NoPurchase
  BY TransferAssumption DEF TransferAssumption, Holders, NoPurchase, Blank, Holder
<1>2. ASSUME NEW p \in Purchases
      PROVE  Bought(p) \in Holder /\ Bought(p).state = "valid" /\ Bought(p).purchase = p
  <2>1. PICK b \in BOOLEAN : b <=> p \in Transferable
    <3>1. CASE p \in Transferable
      BY <3>1
    <3>2. CASE p \notin Transferable
      BY <3>2
    <3> QED  BY <3>1, <3>2
  <2>2. b = (p \in Transferable)
    BY <2>1
  <2>3. Bought(p) = [Blank EXCEPT !.state = "valid", !.purchase = p, !.always = b]
    BY <2>2 DEF Bought
  <2> QED  BY <2>3 DEF Blank, Holder
<1>3. \A d \in Desks : desk[d] = NoDesk /\ desk[d].step = "idle"
  BY IdleDesk DEF TransferInit
<1>4. TransferTypeOK
  <2>1. holder \in [Holders -> Holder]
    BY <1>1, <1>2 DEF TransferInit
  <2>2. receiptOf \in [Purchases -> Holders]
    BY <1>1 DEF TransferInit
  <2>3. desk \in [Desks -> DeskJobs]
    BY IdleDesk DEF TransferInit
  <2>4. deskKills \in 0 .. MaxDeskKills
    BY TransferAssumption DEF TransferAssumption, TransferInit
  <2> QED  BY <2>1, <2>2, <2>3, <2>4 DEF TransferInit, TransferTypeOK
<1>5. \A i \in Holders : holder[i] = IF i \in Purchases THEN Bought(i) ELSE Blank
  BY DEF TransferInit
<1>6. ASSUME NEW p \in Purchases  PROVE PurchaseSettled(p)
  <2> SUFFICES ASSUME NEW i \in Holders  PROVE IsBadgeOf(i, p) <=> i = p
    BY DEF PurchaseSettled, TransferInit
  <2> QED  BY <1>1, <1>2, <1>5 DEF IsBadgeOf
<1>7. MoneySound
  BY <1>1, <1>2, <1>3, <1>5, <1>6 DEF MoneySound, MoveSound
<1> QED  BY <1>3, <1>4, <1>7 DEF TransferInv, ReadSound

(* Steps that only change what handlers have read.                         *)
LEMMA BeginStep ==
  ASSUME TransferInv, NEW d \in Desks, NEW old \in Holders, NEW new \in Holders,
         \/ BeginComplete(d, old, new)
         \/ old = new /\ (BeginTransfer(d, old) \/ BeginAbandon(d, old))
  PROVE  TransferInv'
<1>1. PICK step \in {"complete", "transfer", "abandon"} :
        /\ Reads(d, step, old, new) /\ holder[old].state = "valid"
        /\ step = "complete" => holder[new].state = "pending" /\ old # new
  BY DEF BeginComplete, BeginTransfer, BeginAbandon, Found
<1>2. /\ UNCHANGED <<holder, receiptOf, refunded, raced, deskKills>> /\ desk[d] = NoDesk
  BY DEF BeginComplete, BeginTransfer, BeginAbandon, Idle
<1>3. /\ desk' \in [Desks -> DeskJobs]
      /\ \A e \in Desks : e # d => desk'[e] = desk[e]
      /\ desk'[d].step = step /\ desk'[d].sawOld = holder[old]
      /\ desk'[d].sawNew = holder[new] /\ desk'[d].old = old /\ desk'[d].new = new
  BY <1>1, ReadsDesk DEF TransferInv
<1>4. TransferTypeOK'
  BY <1>2, <1>3 DEF TransferInv, TransferTypeOK
<1>5. \A e \in Desks : ReadSound(e)'
  BY <1>1, <1>3 DEF TransferInv, ReadSound
<1>6. ASSUME MoneySound  PROVE MoneySound'
  <2>1. \A e \in Desks :
          desk'[e] = desk[e] \/ (desk[e].step # "receipt" /\ desk'[e].step # "receipt")
    BY <1>1, <1>2, <1>3, IdleDesk
  <2>2. \A e \in Desks :
          desk[e].step = "receipt" => desk[e].old \in Holders /\ desk[e].new \in Holders
    BY KnownRead DEF TransferInv
  <2> QED  BY <1>2, <1>6, <2>1, <2>2, SameBadges
<1> QED  BY <1>2, <1>4, <1>5, <1>6 DEF TransferInv

(* A pending row is made, or a badge picked up.                            *)
LEMMA RowStep ==
  ASSUME TransferInv, StartBadgeTransfer \/ \E i \in Holders : PickUp(i)
  PROVE  TransferInv'
<1>1. UNCHANGED <<receiptOf, refunded, desk, raced, deskKills>>
  BY DEF StartBadgeTransfer, PickUp
<1>2. /\ holder' \in [Holders -> Holder]
      /\ \A i \in Holders :
           /\ holder'[i].state = "valid" <=> holder[i].state = "valid"
           /\ holder[i].state \in {"valid", "invalid", "refunded"} =>
                holder'[i].state = holder[i].state /\ holder'[i].purchase = holder[i].purchase
  <2>1. CASE StartBadgeTransfer
    <3> DEFINE row == [Blank EXCEPT !.state = "pending", !.hasCode = TRUE]
    <3>1. row \in Holder /\ row.state = "pending"
      BY DEF Blank, Holder
    <3>2. /\ Fresh \in Holders /\ holder[Fresh].state = "none"
          /\ holder' = [holder EXCEPT ![Fresh] = row]
      BY <2>1, FreshIsFresh DEF StartBadgeTransfer
    <3> HIDE DEF row
    <3> QED  BY <3>1, <3>2 DEF TransferInv, TransferTypeOK
  <2>2. ASSUME NEW i \in Holders, PickUp(i)
        PROVE  /\ holder' \in [Holders -> Holder]
               /\ \A k \in Holders : holder'[k].state = holder[k].state
                                    /\ holder'[k].purchase = holder[k].purchase
    <3> DEFINE row == [holder[i] EXCEPT !.pickedUp = TRUE]
    <3>1. row \in Holder /\ row.state = holder[i].state /\ row.purchase = holder[i].purchase
      BY DEF TransferInv, TransferTypeOK, Holder
    <3>2. holder' = [holder EXCEPT ![i] = row]
      BY <2>2 DEF PickUp
    <3> HIDE DEF row
    <3> QED  BY <3>1, <3>2 DEF TransferInv, TransferTypeOK
  <2> QED  BY <2>1, <2>2
<1>3. ASSUME MoneySound  PROVE MoneySound'
  <2>1. \A e \in Desks :
          desk[e].step = "receipt" => desk[e].old \in Holders /\ desk[e].new \in Holders
    BY KnownRead DEF TransferInv
  <2> QED  BY <1>1, <1>2, <1>3, <2>1, SameBadges
<1> QED  BY <1>1, <1>2, <1>3 DEF TransferInv, TransferTypeOK, ReadSound

(* A transfer, once it is written.                                         *)
LEMMA HandOverStep ==
  ASSUME TransferInv, NEW d \in Desks, WriteComplete(d) \/ WriteTransfer(d)
  PROVE  TransferInv'
<1>1. PICK new \in Holders :
        /\ HandOver(d, new) /\ desk[d].step \in {"complete", "transfer"}
        /\ ~Stale(d) => holder[new].state \in {"none", "pending"}
  <2>1. CASE WriteComplete(d)
    <3>1. desk[d].new \in Holders /\ desk[d].sawNew.state = "pending"
      BY <2>1, KnownRead DEF WriteComplete, TransferInv, ReadSound
    <3>2. ~Stale(d) => holder[desk[d].new] = desk[d].sawNew
      BY <2>1 DEF WriteComplete, Stale
    <3> QED  BY <2>1, <3>1, <3>2 DEF WriteComplete
  <2>2. CASE WriteTransfer(d)
    BY <2>2, FreshIsFresh DEF WriteTransfer
  <2> QED  BY <2>1, <2>2
<1>2. /\ desk[d] \in [ step : {"complete", "transfer", "abandon", "receipt"},
                       old : Holders, new : Holders, sawOld : Holder, sawNew : Holder,
                       receipt : Purchases \cup {NoPurchase} ]
      /\ desk[d].sawOld.state = "valid"
  BY <1>1, KnownRead DEF TransferInv, ReadSound
<1>3. UNCHANGED <<receiptOf, refunded, deskKills>> /\ raced' = (raced \/ Stale(d))
  BY <1>1 DEF HandOver
<1>4. holder' \in [Holders -> Holder]
  <2>1. Inherited(d) \in Holder
    BY <1>2 DEF Inherited, Holder
  <2> DEFINE row == [holder[desk[d].old] EXCEPT !.state = "invalid"]
  <2>2. row \in Holder
    BY <1>2 DEF TransferInv, TransferTypeOK, Holder
  <2>3. holder' = [[holder EXCEPT ![desk[d].old] = row] EXCEPT ![new] = Inherited(d)]
    BY <1>1 DEF HandOver
  <2> HIDE DEF row
  <2> QED  BY <1>2, <2>1, <2>2, <2>3 DEF TransferInv, TransferTypeOK
<1>5. /\ desk' \in [Desks -> DeskJobs] /\ desk'[d].step \in {"idle", "receipt"}
      /\ \A e \in Desks : e # d => desk'[e] = desk[e]
  <2> DEFINE next == IF desk[d].receipt = NoPurchase THEN NoDesk
                     ELSE [desk[d] EXCEPT !.step = "receipt", !.new = new]
  <2>1. next \in DeskJobs /\ next.step \in {"idle", "receipt"}
    BY <1>2, IdleDesk DEF DeskJobs
  <2>2. desk' = [desk EXCEPT ![d] = next]
    BY <1>1 DEF HandOver
  <2> HIDE DEF next
  <2> QED  BY <2>1, <2>2 DEF TransferInv, TransferTypeOK
<1>6. TransferTypeOK'
  BY <1>3, <1>4, <1>5 DEF TransferInv, TransferTypeOK
<1>7. \A e \in Desks : ReadSound(e)'
  BY <1>5 DEF TransferInv, ReadSound
<1>8. ASSUME ~raced', MoneySound  PROVE MoneySound'
  BY <1>1, <1>2, <1>3, <1>8, HandOverMoney DEF TransferInv
<1> QED  BY <1>3, <1>6, <1>7, <1>8 DEF TransferInv

(* Any other step of a handler ends it.                                    *)
LEMMA EndDeskType ==
  ASSUME TransferInv, NEW d \in Desks, desk' = [desk EXCEPT ![d] = NoDesk]
  PROVE  desk' \in [Desks -> DeskJobs] /\ \A e \in Desks : ReadSound(e)'
<1>1. desk' \in [Desks -> DeskJobs] /\ desk'[d].step = "idle"
      /\ \A e \in Desks : e # d => desk'[e] = desk[e]
  BY IdleDesk DEF TransferInv, TransferTypeOK
<1> QED  BY <1>1 DEF TransferInv, ReadSound

(* The receipt follows in a commit of its own.                             *)
LEMMA MoveReceiptStep ==
  ASSUME TransferInv, NEW d \in Desks, MoveReceipt(d)
  PROVE  TransferInv'
<1>1. desk' = [desk EXCEPT ![d] = NoDesk] /\ UNCHANGED <<holder, refunded, deskKills>>
      /\ raced' \in BOOLEAN /\ (raced => raced')
  BY DEF MoveReceipt
<1>2. receiptOf' \in [Purchases -> Holders]
  <2>1. desk[d].new \in Holders
    BY KnownRead DEF MoveReceipt, TransferInv
  <2> QED  BY <2>1 DEF MoveReceipt, TransferInv, TransferTypeOK
<1>3. TransferTypeOK' /\ \A e \in Desks : ReadSound(e)'
  BY <1>1, <1>2, EndDeskType DEF TransferInv, TransferTypeOK
<1>4. ASSUME ~raced', MoneySound  PROVE MoneySound'
  BY <1>4, MoveReceiptMoney DEF TransferInv
<1> QED  BY <1>1, <1>3, <1>4 DEF TransferInv

(* A badge is abandoned.                                                   *)
LEMMA AbandonStep ==
  ASSUME TransferInv, NEW d \in Desks, WriteAbandon(d)
  PROVE  TransferInv'
<1>1. /\ desk' = [desk EXCEPT ![d] = NoDesk] /\ UNCHANGED <<receiptOf, deskKills>>
      /\ desk[d].step = "abandon"
  BY DEF WriteAbandon
<1>2. desk[d].old \in Holders /\ desk[d].receipt \in Purchases \cup {NoPurchase}
      /\ desk[d].sawOld.state = "valid"
  BY <1>1, KnownRead DEF TransferInv, ReadSound
<1>3. CASE UNCHANGED <<holder, refunded, raced>>
  <2>1. TransferTypeOK' /\ \A e \in Desks : ReadSound(e)'
    BY <1>1, <1>3, EndDeskType DEF TransferInv, TransferTypeOK
  <2>2. ASSUME MoneySound  PROVE MoneySound'
    <3>1. \A e \in Desks :
            desk'[e] = desk[e] \/ (desk[e].step # "receipt" /\ desk'[e].step # "receipt")
      BY <1>1, IdleDesk DEF TransferInv, TransferTypeOK
    <3>2. \A e \in Desks :
            desk[e].step = "receipt" => desk[e].old \in Holders /\ desk[e].new \in Holders
      BY KnownRead DEF TransferInv
    <3> QED  BY <1>1, <1>3, <2>2, <3>1, <3>2, SameBadges
  <2> QED  BY <1>1, <1>3, <2>1, <2>2 DEF TransferInv
<1>4. CASE /\ desk[d].receipt \notin refunded
           /\ refunded' = refunded \cup ({desk[d].receipt} \ {NoPurchase})
           /\ holder' = [holder EXCEPT ![desk[d].old].state = "refunded"]
           /\ raced' = (raced \/ Stale(d))
  <2>1. holder' \in [Holders -> Holder]
    <3> DEFINE row == [holder[desk[d].old] EXCEPT !.state = "refunded"]
    <3>1. row \in Holder
      BY <1>2 DEF TransferInv, TransferTypeOK, Holder
    <3>2. holder' = [holder EXCEPT ![desk[d].old] = row]
      BY <1>4
    <3> HIDE DEF row
    <3> QED  BY <3>1, <3>2 DEF TransferInv, TransferTypeOK
  <2>2. refunded' \subseteq Purchases
    BY <1>2, <1>4 DEF TransferInv, TransferTypeOK
  <2>3. TransferTypeOK' /\ \A e \in Desks : ReadSound(e)'
    BY <1>1, <1>4, <2>1, <2>2, EndDeskType DEF TransferInv, TransferTypeOK
  <2>4. ASSUME ~raced', MoneySound  PROVE MoneySound'
    BY <1>1, <1>2, <1>4, <2>4, AbandonMoney DEF TransferInv
  <2> QED  BY <1>1, <1>4, <2>3, <2>4 DEF TransferInv
<1> QED  BY <1>3, <1>4 DEF WriteAbandon

(* A killed handler ends what is said of quiet times.                      *)
LEMMA KillDeskStep ==
  ASSUME TransferInv, NEW d \in Desks, KillDesk(d)
  PROVE  TransferInv'
<1>1. /\ desk' = [desk EXCEPT ![d] = NoDesk] /\ UNCHANGED <<holder, receiptOf, refunded, raced>>
      /\ deskKills' = deskKills + 1 /\ deskKills < MaxDeskKills
      /\ deskKills \in 0 .. MaxDeskKills
  BY DEF KillDesk, TransferInv, TransferTypeOK
<1>2. deskKills' \in 0 .. MaxDeskKills /\ deskKills' # 0
  BY <1>1, TransferAssumption DEF TransferAssumption
<1>3. TransferTypeOK' /\ \A e \in Desks : ReadSound(e)'
  BY <1>1, <1>2, EndDeskType DEF TransferInv, TransferTypeOK
<1> QED  BY <1>2, <1>3 DEF TransferInv

(* Every step keeps it.                                                    *)
LEMMA TransferStep == TransferInv /\ [TransferNext]_transferVars => TransferInv'
<1> SUFFICES ASSUME TransferInv, [TransferNext]_transferVars PROVE TransferInv'
  OBVIOUS
<1>1. CASE UNCHANGED transferVars
  BY <1>1 DEF transferVars, TransferInv, TransferTypeOK, ReadSound, MoneySound, MoveSound, Moves,
              PurchaseSettled, IsBadgeOf
<1>2. CASE StartBadgeTransfer \/ \E i \in Holders : PickUp(i)
  BY <1>2, RowStep
<1>3. ASSUME NEW d \in Desks,
             \/ \E old, new \in Holders : BeginComplete(d, old, new)
             \/ \E old \in Holders : BeginTransfer(d, old) \/ BeginAbandon(d, old)
      PROVE  TransferInv'
  BY <1>3, BeginStep
<1>4. ASSUME NEW d \in Desks, WriteComplete(d) \/ WriteTransfer(d)  PROVE TransferInv'
  BY <1>4, HandOverStep
<1>5. ASSUME NEW d \in Desks, WriteAbandon(d) \/ MoveReceipt(d) \/ KillDesk(d)  PROVE TransferInv'
  BY <1>5, AbandonStep, MoveReceiptStep, KillDeskStep
<1> QED  BY <1>1, <1>2, <1>3, <1>4, <1>5 DEF TransferNext

(* So it always holds.                                                     *)
LEMMA TransferInvariant == TransferSpec => []TransferInv
  BY TransferInitInv, TransferStep, PTL DEF TransferSpec

(* Rows, receipts and what handlers have read are always of their form.    *)
THEOREM TransferTypeCorrect == TransferSpec => []TransferTypeOK
<1>1. TransferInv => TransferTypeOK
  BY DEF TransferInv
<1> QED  BY <1>1, TransferInvariant, PTL

(* However many transfers a badge goes through, its purchase has one valid *)
(* badge while the money is kept, and none once it went back.              *)
THEOREM OneBadgeForTheMoney == TransferSpec => []BadgeForMoney
<1>1. TransferInv => BadgeForMoney
  <2> SUFFICES ASSUME TransferInv, ~raced, deskKills = 0,
                      \A d \in Desks : desk[d].step # "receipt",
                      NEW p \in Purchases
               PROVE  Cardinality(BadgesOf(p)) = IF p \in refunded THEN 0 ELSE 1
    BY DEF BadgeForMoney
  <2>1. PurchaseSettled(p) /\ receiptOf[p] \in Holders
    BY DEF TransferInv, TransferTypeOK, MoneySound, Moves
  <2>2. CASE p \in refunded
    <3>1. BadgesOf(p) = {}
      BY <2>1, <2>2 DEF PurchaseSettled, IsBadgeOf, BadgesOf
    <3> QED  BY <2>2, <3>1, FS_EmptySet
  <2>3. CASE p \notin refunded
    <3>1. BadgesOf(p) = {receiptOf[p]}
      BY <2>1, <2>3 DEF PurchaseSettled, IsBadgeOf, BadgesOf
    <3> QED  BY <2>3, <3>1, FS_Singleton
  <2> QED  BY <2>2, <2>3
<1> QED  BY <1>1, TransferInvariant, PTL

-----------------------------------------------------------------------------
(***************************************************************************)
(* Shifts                                                                  *)
(***************************************************************************)

VolunteerFits(v) ==
  WithinLimits(v) /\ \A j, k \in JobsOf(v) : j # k => Minutes(j) \cap Minutes(k) = {}

JobFits(j) == details[j].slots > 0 => SlotsTaken(j) <= details[j].slots

AllFit == (\A v \in Volunteers : VolunteerFits(v)) /\ (\A j \in jobs : JobFits(j))

(* ShiftsFit is inductive as it stands.                                    *)
ShiftInv == ShiftTypeOK /\ (~rushed /\ edited = {} => AllFit)

(* The minutes of a job are an interval, and not empty.                    *)
LEMMA MinutesOfJob ==
  ASSUME ShiftTypeOK, NEW j \in Jobs
  PROVE  /\ details[j].start \in Nat /\ details[j].duration \in Nat \ {0}
         /\ details[j].slots \in Nat /\ details[j].limit \in Nat
         /\ End(j) \in Nat /\ details[j].start < End(j)
         /\ \A m : m \in Minutes(j) <=> m \in Nat /\ details[j].start <= m /\ m < End(j)
         /\ IsFiniteSet(Minutes(j)) /\ Cardinality(Minutes(j)) = details[j].duration
<1>1. /\ details[j].start \in Nat /\ details[j].duration \in Nat \ {0}
      /\ details[j].slots \in Nat /\ details[j].limit \in Nat
  BY DEF ShiftTypeOK, Details
<1>2. PICK a \in Nat, b \in Nat : a = details[j].start /\ b = details[j].duration /\ b > 0
  BY <1>1
<1>3. End(j) = a + b /\ Minutes(j) = a .. (a + b - 1)
  BY <1>2 DEF End, Minutes
<1>4. PICK c \in Int : c = a + b - 1
  OBVIOUS
<1>5. IsFiniteSet(a .. c) /\ Cardinality(a .. c) = b
  <2>1. Cardinality(a .. c) = IF a > c THEN 0 ELSE c - a + 1
    BY FS_Interval
  <2>2. IsFiniteSet(a .. c)
    BY FS_Interval
  <2>3. ~(a > c) /\ c - a + 1 = b
    BY <1>2, <1>4
  <2> QED  BY <2>1, <2>2, <2>3
<1> QED  BY <1>1, <1>2, <1>3, <1>4, <1>5

(* A shift is free, or of a volunteer and a job.                           *)
LEMMA ShiftOf ==
  ASSUME ShiftTypeOK, NEW i \in ShiftIds, shift[i] # NoShift
  PROVE  /\ shift[i][1] \in Volunteers /\ shift[i][2] \in Jobs
         /\ shift[i] = <<shift[i][1], shift[i][2]>>
  BY DEF ShiftTypeOK

(* A free shift is nobody's.                                               *)
LEMMA NoShiftIsNoPair == \A v, j : <<v, j>> # NoShift
  BY DEF NoShift

(* The shifts of a job; SlotsTaken is their number, and finite.            *)
TakenBy(j) == {i \in ShiftIds : shift[i] # NoShift /\ shift[i][2] = j}

(* A job has finitely many shifts.                                         *)
LEMMA TakenIsFinite ==
  ASSUME NEW j
  PROVE  IsFiniteSet(TakenBy(j)) /\ SlotsTaken(j) = Cardinality(TakenBy(j)) /\ SlotsTaken(j) \in Nat
<1>1. IsFiniteSet(ShiftIds)
  BY ShiftAssumption, FS_Interval DEF ShiftAssumption, ShiftIds
<1>2. IsFiniteSet(TakenBy(j))
  BY <1>1, FS_Subset DEF TakenBy
<1> QED  BY <1>2, FS_CardinalityType DEF TakenBy, SlotsTaken

(* The minutes of a volunteer are finite, as their shifts are.             *)
LEMMA ShiftMinutesFinite ==
  ASSUME ShiftTypeOK, NEW v
  PROVE  /\ IsFiniteSet(ShiftMinutes(v)) /\ ShiftMinutes(v) \subseteq Nat
         /\ \A m : m \in ShiftMinutes(v) <=> \E j \in JobsOf(v) : m \in Minutes(j)
<1>1. IsFiniteSet(ShiftIds)
  BY ShiftAssumption, FS_Interval DEF ShiftAssumption, ShiftIds
<1> DEFINE works == {i \in ShiftIds : \E j \in jobs : shift[i] = <<v, j>>}
           f == [i \in works |-> Minutes(shift[i][2])]
           all == {Minutes(j) : j \in JobsOf(v)}
<1>2. IsFiniteSet(works)
  BY <1>1, FS_Subset
<1>3. f \in Surjection(works, all)
  <2>1. ASSUME NEW i \in works  PROVE f[i] \in all
    <3>1. PICK j \in jobs : shift[i] = <<v, j>>
      OBVIOUS
    <3>2. j \in JobsOf(v) /\ f[i] = Minutes(j)
      BY <3>1 DEF JobsOf
    <3> QED  BY <3>2
  <2>2. ASSUME NEW s \in all  PROVE \E i \in works : f[i] = s
    <3>1. PICK j \in JobsOf(v) : s = Minutes(j)
      OBVIOUS
    <3>2. PICK i \in ShiftIds : shift[i] = <<v, j>> /\ j \in jobs
      BY DEF JobsOf
    <3>3. i \in works /\ f[i] = s
      BY <3>1, <3>2
    <3> QED  BY <3>3
  <2>3. f \in [works -> all]
    BY <2>1
  <2> HIDE DEF f, works, all
  <2> QED  BY <2>2, <2>3 DEF Surjection
<1>4. IsFiniteSet(all)
  BY <1>2, <1>3, FS_Surjection
<1>5. JobsOf(v) \subseteq Jobs
  BY DEF JobsOf, ShiftTypeOK
<1>6. \A s \in all : IsFiniteSet(s)
  BY <1>5, MinutesOfJob
<1>7. ShiftMinutes(v) = UNION all
  BY DEF ShiftMinutes
<1>8. IsFiniteSet(UNION all)
  BY <1>4, <1>6, FS_UNION
<1>9. \A m : m \in ShiftMinutes(v) <=> \E j \in JobsOf(v) : m \in Minutes(j)
  BY <1>7
<1>10. ShiftMinutes(v) \subseteq Nat
  BY <1>5, <1>9, MinutesOfJob
<1> QED  BY <1>7, <1>8, <1>9, <1>10

(* What stays is no more than what fitted: shifts only go, and no job that *)
(* is worked changes.                                                      *)
LEMMA FewerShiftsFit ==
  ASSUME ShiftTypeOK, ShiftTypeOK', AllFit, jobs' \subseteq jobs,
         \A i \in ShiftIds : shift'[i] = shift[i] \/ shift'[i] = NoShift,
         \A j \in Jobs : details'[j] = details[j] \/ SlotsTaken(j) = 0
  PROVE  AllFit'
<1>1. ASSUME NEW v \in Volunteers, NEW j \in JobsOf(v)'
      PROVE  j \in JobsOf(v) /\ j \in Jobs /\ details'[j] = details[j] /\ Minutes(j)' = Minutes(j)
  <2>1. PICK i \in ShiftIds : shift'[i] = <<v, j>> /\ j \in jobs'
    BY DEF JobsOf
  <2>2. /\ shift[i] = <<v, j>> /\ shift[i] # NoShift /\ shift[i][2] = j
        /\ j \in jobs /\ j \in Jobs
    BY <2>1, NoShiftIsNoPair DEF ShiftTypeOK
  <2>3. j \in JobsOf(v)
    BY <2>2 DEF JobsOf
  <2>4. SlotsTaken(j) # 0
    <3>1. i \in TakenBy(j)
      BY <2>2 DEF TakenBy
    <3> QED  BY <3>1, TakenIsFinite, FS_EmptySet
  <2>5. details'[j] = details[j]
    BY <2>2, <2>4
  <2> QED  BY <2>2, <2>3, <2>5 DEF Minutes, End
<1>2. ASSUME NEW v \in Volunteers  PROVE VolunteerFits(v)'
  <2>1. \A m : m \in ShiftMinutes(v)' => m \in ShiftMinutes(v)
    <3> SUFFICES ASSUME NEW m, m \in ShiftMinutes(v)'  PROVE m \in ShiftMinutes(v)
      OBVIOUS
    <3>1. PICK j \in JobsOf(v)' : m \in Minutes(j)'
      BY DEF ShiftMinutes
    <3> QED  BY <1>1, <3>1, ShiftMinutesFinite
  <2>2. \A s : s \in Stretches(v)' => s \in Stretches(v)
    BY <2>1 DEF Stretches
  <2>3. VolunteerFits(v)
    BY DEF AllFit
  <2>4. WithinLimits(v)'
    BY <1>1, <2>2, <2>3 DEF WithinLimits, VolunteerFits
  <2>5. ASSUME NEW j \in JobsOf(v)', NEW k \in JobsOf(v)', j # k
        PROVE  Minutes(j)' \cap Minutes(k)' = {}
    BY <1>1, <2>3, <2>5 DEF VolunteerFits
  <2> QED  BY <2>4, <2>5 DEF VolunteerFits
<1>3. ASSUME NEW j \in jobs'  PROVE JobFits(j)'
  <2>1. j \in jobs /\ j \in Jobs /\ JobFits(j)
    BY DEF AllFit, ShiftTypeOK
  <2>2. TakenBy(j)' \subseteq TakenBy(j)
    BY DEF TakenBy
  <2>3. PICK n \in Nat, k \in Nat :
          /\ SlotsTaken(j) = n /\ SlotsTaken(j)' = k /\ k <= n
    <3>1. /\ IsFiniteSet(TakenBy(j)) /\ SlotsTaken(j) = Cardinality(TakenBy(j))
          /\ SlotsTaken(j) \in Nat
      BY TakenIsFinite
    <3>2. SlotsTaken(j)' = Cardinality(TakenBy(j)')
      BY DEF TakenBy, SlotsTaken
    <3>3. IsFiniteSet(TakenBy(j)') /\ Cardinality(TakenBy(j)') <= Cardinality(TakenBy(j))
      BY <2>2, <3>1, FS_Subset
    <3>4. Cardinality(TakenBy(j)') \in Nat
      BY <3>3, FS_CardinalityType
    <3> QED  BY <3>1, <3>2, <3>3, <3>4
  <2>4. details'[j].slots \in Nat /\ details[j].slots \in Nat
    BY <2>1 DEF ShiftTypeOK, Details
  <2>5. CASE SlotsTaken(j) = 0
    BY <2>3, <2>4, <2>5 DEF JobFits
  <2>6. CASE details'[j] = details[j]
    BY <2>1, <2>3, <2>4, <2>6 DEF JobFits
  <2> QED  BY <2>1, <2>5, <2>6
<1> QED  BY <1>2, <1>3 DEF AllFit

(* The minutes around a job that a stretch over it covers were worked      *)
(* before and after it without a break.                                    *)
LEMMA AroundJob ==
  ASSUME ShiftTypeOK, NEW v, NEW j \in Jobs, NEW a \in Nat, NEW b \in Nat,
         a .. b \subseteq ShiftMinutes(v) \cup Minutes(j),
         Minutes(j) \cap a .. b # {}
  PROVE  a .. b \subseteq Minutes(j) \cup Before(v, j) \cup After(v, j)
<1>1. PICK s \in Nat, e \in Nat :
        /\ s = details[j].start /\ e = End(j) /\ s < e
        /\ \A m : m \in Minutes(j) <=> m \in Nat /\ s <= m /\ m < e
  BY MinutesOfJob
<1>2. PICK x \in Nat : s <= x /\ x < e /\ a <= x /\ x <= b
  BY <1>1
<1> SUFFICES ASSUME NEW m \in a .. b, m \notin Minutes(j)
             PROVE  m \in Before(v, j) \cup After(v, j)
  OBVIOUS
<1>3. m \in Nat /\ m \in ShiftMinutes(v) /\ (m < s \/ m >= e)
  BY <1>1
<1>4. CASE m < s
  <2>1. ASSUME NEW n \in m .. s - 1  PROVE n \in ShiftMinutes(v)
    <3>1. n \in Nat /\ n \in a .. b /\ n < s
      BY <1>1, <1>2, <1>3
    <3>2. n \notin Minutes(j)
      BY <1>1, <3>1
    <3> QED  BY <3>1, <3>2
  <2> QED  BY <1>1, <1>3, <1>4, <2>1 DEF Before
<1>5. CASE m >= e
  <2>1. ASSUME NEW n \in e .. m  PROVE n \in ShiftMinutes(v)
    <3>1. n \in Nat /\ n \in a .. b /\ n >= e
      BY <1>1, <1>2, <1>3
    <3>2. n \notin Minutes(j)
      BY <1>1, <3>1
    <3> QED  BY <3>1, <3>2
  <2> QED  BY <1>1, <1>3, <1>5, <2>1 DEF After
<1> QED  BY <1>3, <1>4, <1>5

(* A stretch over a job that may be taken is no longer than the limit of   *)
(* any job in it.                                                          *)
LEMMA StretchOverJob ==
  ASSUME ShiftTypeOK, NEW v, NEW j \in Jobs, CanWork(v, j), NEW a \in Nat, NEW b \in Nat,
         a .. b \subseteq ShiftMinutes(v) \cup Minutes(j),
         Minutes(j) \cap a .. b # {},
         NEW k \in JobsOf(v) \cup {j}, Minutes(k) \cap a .. b # {}, details[k].limit > 0
  PROVE  b - a + 1 <= details[k].limit
<1> DEFINE around == Before(v, j) \cup After(v, j)
<1>1. /\ a .. b \subseteq Minutes(j) \cup around
      /\ IsFiniteSet(Minutes(j)) /\ Cardinality(Minutes(j)) = details[j].duration
      /\ details[j].duration \in Nat /\ k \in Jobs /\ details[k].limit \in Nat \ {0}
  <2>1. k \in Jobs
    BY DEF JobsOf, ShiftTypeOK
  <2>2. details[k].limit \in Nat \ {0}
    BY <2>1, MinutesOfJob
  <2> QED  BY <2>1, <2>2, AroundJob, MinutesOfJob
<1>2. IsFiniteSet(around)
  <2>1. around \subseteq ShiftMinutes(v)
    BY DEF Before, After
  <2> QED  BY <2>1, ShiftMinutesFinite, FS_Subset
<1>3. details[k].limit \in Limits(v, j)
  <2>1. CASE k = j
    BY <1>1, <2>1 DEF Limits
  <2>2. CASE k # j
    <3>1. k \in JobsOf(v)
      BY <2>2
    <3>2. PICK m \in a .. b : m \in Minutes(k)
      OBVIOUS
    <3>3. m \in ShiftMinutes(v)
      BY <3>1, <3>2, ShiftMinutesFinite
    <3>4. m \notin Minutes(j)
      BY <3>3 DEF CanWork, NoOverlap
    <3>5. m \in around /\ k \in AtMinute(v, m)
      BY <1>1, <3>1, <3>2, <3>4 DEF AtMinute
    <3> QED  BY <1>1, <3>5 DEF Limits
  <2> QED  BY <2>1, <2>2
<1>4. details[j].duration + Cardinality(around) <= details[k].limit
  BY <1>3 DEF CanWork, WorkingLimitOk
<1> HIDE DEF around
<1>5. PICK n \in Nat, c \in Nat, d \in Nat :
        /\ n = Cardinality(around) /\ d = details[j].duration
        /\ c = Cardinality(Minutes(j) \cup around) /\ c <= d + n
        /\ IsFiniteSet(Minutes(j) \cup around)
  <2>1. /\ IsFiniteSet(Minutes(j) \cup around)
        /\ Cardinality(Minutes(j) \cup around) =
             Cardinality(Minutes(j)) + Cardinality(around) - Cardinality(Minutes(j) \cap around)
    BY <1>1, <1>2, FS_Union
  <2>2. IsFiniteSet(Minutes(j) \cap around)
    BY <1>1, FS_Intersection
  <2>3. /\ Cardinality(around) \in Nat /\ Cardinality(Minutes(j) \cup around) \in Nat
        /\ Cardinality(Minutes(j) \cap around) \in Nat
    BY <1>2, <2>1, <2>2, FS_CardinalityType
  <2> QED  BY <1>1, <2>1, <2>3
<1>6. PICK l \in Nat : l = Cardinality(a .. b) /\ l <= c /\ (a <= b => l = b - a + 1)
  <2>1. Cardinality(a .. b) = IF a > b THEN 0 ELSE b - a + 1
    BY FS_Interval
  <2>2. Cardinality(a .. b) <= Cardinality(Minutes(j) \cup around)
    BY <1>1, <1>5, FS_Subset
  <2> QED  BY <1>5, <2>1, <2>2
<1>7. a <= b
  OBVIOUS
<1> QED  BY <1>1, <1>4, <1>5, <1>6, <1>7

(* An assignment that passes the checks when it is written keeps all fit.  *)
LEMMA OneMoreShiftFits ==
  ASSUME ShiftTypeOK, ShiftTypeOK', AllFit, UNCHANGED <<details, jobs>>,
         NEW v \in Volunteers, NEW j \in Jobs, CanWork(v, j),
         NEW n \in ShiftIds, shift[n] = NoShift, shift' = [shift EXCEPT ![n] = <<v, j>>]
  PROVE  AllFit'
<1>1. /\ shift'[n] = <<v, j>> /\ \A i \in ShiftIds \ {n} : shift'[i] = shift[i]
      /\ j \in jobs
  BY DEF ShiftTypeOK, CanWork
<1>2. ASSUME NEW u  PROVE JobsOf(u)' = IF u = v THEN JobsOf(v) \cup {j} ELSE JobsOf(u)
  <2>1. ASSUME NEW k, k \in JobsOf(u)'  PROVE k \in JobsOf(u) \/ (u = v /\ k = j)
    <3>1. PICK i \in ShiftIds : shift'[i] = <<u, k>> /\ k \in jobs
      BY <2>1 DEF JobsOf
    <3> QED  BY <1>1, <3>1 DEF JobsOf
  <2>2. ASSUME NEW k, k \in JobsOf(u)  PROVE k \in JobsOf(u)'
    <3>1. PICK i \in ShiftIds : shift[i] = <<u, k>> /\ k \in jobs
      BY <2>2 DEF JobsOf
    <3>2. i # n
      BY <3>1, NoShiftIsNoPair
    <3> QED  BY <1>1, <3>1, <3>2 DEF JobsOf
  <2>3. j \in JobsOf(v)'
    BY <1>1 DEF JobsOf
  <2> QED  BY <2>1, <2>2, <2>3
<1>3. \A k : Minutes(k)' = Minutes(k)
  BY DEF Minutes, End
<1>4. ASSUME NEW u, u # v  PROVE ShiftMinutes(u)' = ShiftMinutes(u)
  BY <1>2, <1>3, <1>4 DEF ShiftMinutes
<1>5. ShiftMinutes(v)' = ShiftMinutes(v) \cup Minutes(j)
  BY <1>2, <1>3 DEF ShiftMinutes
<1>6. ASSUME NEW u \in Volunteers, u # v  PROVE VolunteerFits(u)'
  <2>1. VolunteerFits(u)
    BY DEF AllFit
  <2>2. JobsOf(u)' = JobsOf(u) /\ Stretches(u)' = Stretches(u)
    BY <1>2, <1>4, <1>6 DEF Stretches
  <2> QED  BY <1>3, <2>1, <2>2 DEF VolunteerFits, WithinLimits
<1>7. VolunteerFits(v)'
  <2>1. VolunteerFits(v)
    BY DEF AllFit
  <2>2. ASSUME NEW k \in JobsOf(v)', NEW l \in JobsOf(v)', k # l
        PROVE  Minutes(k)' \cap Minutes(l)' = {}
    <3>1. ASSUME NEW i \in JobsOf(v)  PROVE Minutes(i) \cap Minutes(j) = {}
      BY ShiftMinutesFinite DEF CanWork, NoOverlap
    <3> QED  BY <1>2, <1>3, <2>1, <2>2, <3>1 DEF VolunteerFits
  <2>3. ASSUME NEW s \in Stretches(v)', NEW k \in JobsOf(v)',
               Minutes(k)' \cap s[1] .. s[2] # {}, details'[k].limit > 0
        PROVE  s[2] - s[1] + 1 <= details'[k].limit
    <3>1. PICK a \in Nat, b \in Nat :
            /\ a = s[1] /\ b = s[2] /\ s = <<a, b>>
            /\ a \in ShiftMinutes(v) \cup Minutes(j) /\ b \in ShiftMinutes(v) \cup Minutes(j)
            /\ a .. b \subseteq ShiftMinutes(v) \cup Minutes(j)
      <4>1. ShiftMinutes(v) \cup Minutes(j) \subseteq Nat
        BY ShiftMinutesFinite, MinutesOfJob
      <4> QED  BY <1>5, <4>1 DEF Stretches
    <3>2. /\ k \in JobsOf(v) \cup {j} /\ details'[k] = details[k] /\ details[k].limit > 0
          /\ Minutes(k) \cap a .. b # {}
      BY <1>2, <1>3, <2>3, <3>1
    <3>3. CASE Minutes(j) \cap a .. b # {}
      <4>1. b - a + 1 <= details[k].limit
        BY <3>1, <3>2, <3>3, StretchOverJob
      <4> QED  BY <3>1, <3>2, <4>1
    <3>4. CASE Minutes(j) \cap a .. b = {}
      <4>1. k \in JobsOf(v) /\ a .. b \subseteq ShiftMinutes(v)
        BY <3>1, <3>2, <3>4
      <4>2. a \in a .. b /\ b \in a .. b
        BY <3>2
      <4>3. <<a, b>> \in Stretches(v)
        BY <4>1, <4>2 DEF Stretches
      <4> QED  BY <2>1, <3>1, <3>2, <4>1, <4>3 DEF VolunteerFits, WithinLimits
    <3> QED  BY <3>3, <3>4
  <2> QED  BY <2>2, <2>3 DEF VolunteerFits, WithinLimits
<1>8. ASSUME NEW k \in jobs'  PROVE JobFits(k)'
  <2>1. k \in Jobs /\ JobFits(k) /\ details[k].slots \in Nat
    <3>1. k \in Jobs
      BY DEF ShiftTypeOK
    <3> QED  BY <3>1, MinutesOfJob DEF AllFit
  <2>2. SlotsTaken(k)' = Cardinality(TakenBy(k)') /\ SlotsTaken(k) = Cardinality(TakenBy(k))
        /\ IsFiniteSet(TakenBy(k)) /\ SlotsTaken(k) \in Nat
    BY TakenIsFinite DEF SlotsTaken, TakenBy
  <2>3. CASE k # j
    <3>1. TakenBy(k)' = TakenBy(k)
      BY <1>1, <2>3, NoShiftIsNoPair DEF TakenBy
    <3> QED  BY <2>1, <2>2, <3>1 DEF JobFits
  <2>4. CASE k = j
    <3>1. TakenBy(j)' = TakenBy(j) \cup {n} /\ n \notin TakenBy(j)
      BY <1>1, NoShiftIsNoPair DEF TakenBy
    <3>2. SlotsTaken(j)' = SlotsTaken(j) + 1
      BY <2>2, <2>4, <3>1, FS_AddElement
    <3> QED  BY <2>1, <2>2, <2>4, <3>2 DEF JobFits, CanWork, HasSlot
  <2> QED  BY <2>3, <2>4
<1> QED  BY <1>6, <1>7, <1>8 DEF AllFit

(* At the start there are no shifts.                                       *)
LEMMA ShiftInitInv == ShiftInit => ShiftInv
<1> SUFFICES ASSUME ShiftInit PROVE ShiftInv
  OBVIOUS
<1>1. ShiftTypeOK
  BY ShiftAssumption DEF ShiftAssumption, ShiftInit, ShiftTypeOK
<1>2. ASSUME NEW v  PROVE JobsOf(v) = {}
  BY NoShiftIsNoPair DEF ShiftInit, JobsOf
<1>3. ASSUME NEW j \in jobs  PROVE JobFits(j)
  <2>1. TakenBy(j) = {}
    BY DEF ShiftInit, TakenBy
  <2>2. SlotsTaken(j) = 0
    BY <2>1, TakenIsFinite, FS_EmptySet
  <2> QED  BY <1>1, <2>2, MinutesOfJob DEF JobFits, ShiftTypeOK
<1> QED  BY <1>1, <1>2, <1>3 DEF ShiftInv, AllFit, VolunteerFits, WithinLimits

(* An assignment is written.                                               *)
LEMMA WriteAssignStep ==
  ASSUME ShiftInv, NEW d \in ShiftDesks, WriteAssign(d)
  PROVE  ShiftInv'
<1>1. PICK v \in Volunteers, j \in Jobs : assigning[d] = <<v, j>>
  BY DEF ShiftInv, ShiftTypeOK, WriteAssign
<1>2. PICK n \in ShiftIds : n = Min(FreeShifts) /\ shift[n] = NoShift
  <2>1. FreeShifts \subseteq Nat
    BY ShiftAssumption DEF FreeShifts, ShiftIds, ShiftAssumption
  <2>2. Min(FreeShifts) \in FreeShifts
    <3> HIDE DEF FreeShifts
    <3> QED  BY <2>1, LeastOf DEF WriteAssign
  <2> QED  BY <2>2 DEF FreeShifts
<1>3. /\ shift' = IF j \in jobs THEN [shift EXCEPT ![n] = <<v, j>>] ELSE shift
      /\ rushed' = (rushed \/ ~CanWork(v, j))
      /\ UNCHANGED <<details, jobs, edited>>
      /\ assigning' = [assigning EXCEPT ![d] = NoShift]
  BY <1>1, <1>2 DEF WriteAssign
<1>4. ShiftTypeOK'
  <2>1. shift' \in [ShiftIds -> (Volunteers \X Jobs) \cup {NoShift}]
    BY <1>3 DEF ShiftInv, ShiftTypeOK
  <2>2. assigning' \in [ShiftDesks -> (Volunteers \X Jobs) \cup {NoShift}]
    BY <1>3 DEF ShiftInv, ShiftTypeOK
  <2> QED  BY <1>3, <2>1, <2>2 DEF ShiftInv, ShiftTypeOK
<1>5. ASSUME ~rushed', edited' = {}  PROVE AllFit'
  <2>1. AllFit /\ CanWork(v, j)
    BY <1>3, <1>5 DEF ShiftInv
  <2>2. j \in jobs
    BY <2>1 DEF CanWork
  <2> QED  BY <1>2, <1>3, <1>4, <2>1, <2>2, OneMoreShiftFits DEF ShiftInv
<1> QED  BY <1>4, <1>5 DEF ShiftInv

(* Steps that take shifts away, or change a job that nobody works.         *)
LEMMA FewerShiftsStep ==
  ASSUME ShiftInv,
         \/ \E i \in ShiftIds : Drop(i)
         \/ \E j \in Jobs : \E new \in OtherDetails[j] : EditJob(j, new)
         \/ \E j \in Jobs : DeleteJob(j)
  PROVE  ShiftInv'
<1>1. /\ ShiftTypeOK' /\ jobs' \subseteq jobs /\ rushed' = rushed
      /\ edited' = {} => edited = {}
      /\ \A i \in ShiftIds : shift'[i] = shift[i] \/ shift'[i] = NoShift
      /\ edited' = {} => \A j \in Jobs : details'[j] = details[j] \/ SlotsTaken(j) = 0
  <2>1. ASSUME NEW i \in ShiftIds, Drop(i)
        PROVE  /\ ShiftTypeOK' /\ jobs' \subseteq jobs /\ rushed' = rushed
               /\ UNCHANGED <<edited, details>>
               /\ \A k \in ShiftIds : shift'[k] = shift[k] \/ shift'[k] = NoShift
    BY <2>1 DEF Drop, ShiftInv, ShiftTypeOK
  <2>2. ASSUME NEW j \in Jobs, NEW new \in OtherDetails[j], EditJob(j, new)
        PROVE  /\ ShiftTypeOK' /\ UNCHANGED <<jobs, rushed, shift>>
               /\ edited' = {} => edited = {}
               /\ edited' = {} => \A k \in Jobs : details'[k] = details[k] \/ SlotsTaken(k) = 0
    <3>1. new \in Details
      BY ShiftAssumption DEF ShiftAssumption
    <3>2. /\ details' = [details EXCEPT ![j] = new]
          /\ edited' = IF SlotsTaken(j) > 0 THEN edited \cup {j} ELSE edited
          /\ UNCHANGED <<jobs, shift, assigning, rushed>>
      BY <2>2 DEF EditJob
    <3>3. SlotsTaken(j) \in Nat
      BY TakenIsFinite
    <3>4. ShiftTypeOK'
      BY <3>1, <3>2 DEF ShiftInv, ShiftTypeOK
    <3>5. \A k \in Jobs : k # j => details'[k] = details[k]
      BY <3>2 DEF ShiftInv, ShiftTypeOK
    <3> QED  BY <3>2, <3>3, <3>4, <3>5
  <2>3. ASSUME NEW j \in Jobs, DeleteJob(j)
        PROVE  /\ ShiftTypeOK' /\ jobs' \subseteq jobs /\ UNCHANGED <<rushed, edited, details>>
               /\ \A k \in ShiftIds : shift'[k] = shift[k] \/ shift'[k] = NoShift
    BY <2>3 DEF DeleteJob, ShiftInv, ShiftTypeOK
  <2> QED  BY <2>1, <2>2, <2>3
<1>2. ASSUME ~rushed', edited' = {}  PROVE AllFit'
  BY <1>1, <1>2, FewerShiftsFit DEF ShiftInv
<1> QED  BY <1>1, <1>2 DEF ShiftInv

(* Every step keeps the invariant.                                         *)
LEMMA ShiftStep == ShiftInv /\ [ShiftNext]_shiftVars => ShiftInv'
<1> SUFFICES ASSUME ShiftInv, [ShiftNext]_shiftVars PROVE ShiftInv'
  OBVIOUS
<1>1. ASSUME UNCHANGED <<details, jobs, shift, edited, rushed>>, ShiftTypeOK'  PROVE ShiftInv'
  BY <1>1, FewerShiftsFit DEF ShiftInv
<1>2. CASE UNCHANGED shiftVars
  BY <1>1, <1>2 DEF shiftVars, ShiftInv, ShiftTypeOK
<1>3. ASSUME NEW d \in ShiftDesks, NEW v \in Volunteers, NEW j \in Jobs, CheckAssign(d, v, j)
      PROVE  ShiftInv'
  BY <1>1, <1>3 DEF CheckAssign, ShiftInv, ShiftTypeOK
<1>4. ASSUME NEW d \in ShiftDesks, WriteAssign(d)  PROVE ShiftInv'
  BY <1>4, WriteAssignStep
<1>5. CASE \/ \E i \in ShiftIds : Drop(i)
           \/ \E j \in Jobs : (\E new \in OtherDetails[j] : EditJob(j, new)) \/ DeleteJob(j)
  BY <1>5, FewerShiftsStep
<1> QED  BY <1>2, <1>3, <1>4, <1>5 DEF ShiftNext

(* So all fits, always.                                                    *)
LEMMA ShiftInvariant == ShiftSpec => []ShiftInv
  BY ShiftInitInv, ShiftStep, PTL DEF ShiftSpec

(* Jobs, shifts and what handlers have checked are always of their form.   *)
THEOREM ShiftTypeCorrect == ShiftSpec => []ShiftTypeOK
<1>1. ShiftInv => ShiftTypeOK
  BY DEF ShiftInv
<1> QED  BY <1>1, ShiftInvariant, PTL

(* No volunteer works longer without a break than a job of that stretch    *)
(* allows, nor two jobs at once, and no job has more volunteers than       *)
(* slots, however many shifts were taken, dropped and taken again; unless  *)
(* two assignments were checked side by side or a job was edited with      *)
(* shifts on it.                                                           *)
THEOREM ShiftsStayFit == ShiftSpec => []ShiftsFit
<1>1. ShiftInv => ShiftsFit
  BY DEF ShiftInv, ShiftsFit, AllFit, VolunteerFits, JobFits
<1> QED  BY <1>1, ShiftInvariant, PTL

-----------------------------------------------------------------------------
(***************************************************************************)
(* The print queue                                                         *)
(***************************************************************************)

(* A row that does not exist yet is empty and has no fee; only a job with  *)
(* a fee has an item for it, and it is ready once that is paid.            *)
JobSound(j) ==
  /\ job[j].of = NoJob => job[j] = NoRowYet /\ fee[j] = [item |-> "none", credits |-> 0]
  /\ fee[j].item # "none" => job[j].hasFee
  /\ job[j].hasFee /\ job[j].ready => fee[j].item = "closed"

(* A handler has a row that exists, and is the only one to add its fee.    *)
DeskSound(d) ==
  /\ regDesk[d].step \in {"item", "invalidate"} => job[regDesk[d].job].of # NoJob
  /\ regDesk[d].step = "item" =>
       /\ job[regDesk[d].job].hasFee /\ fee[regDesk[d].job].item = "none"
       /\ \A e \in RegDesks : regDesk[e] = regDesk[d] => e = d

(* What a page holds is pending, was never handed out, and is held by no   *)
(* other page.                                                             *)
PrinterSound(p) ==
  printer[p] # NoJob =>
    /\ Pending(printer[p]) /\ handedOut[printer[p]] = 0
    /\ \A q \in Printers : printer[q] = printer[p] => q = p

ClientSound(k) == \A j \in client[k] : job[j].of # NoJob

(* What was handed out is printed, and nothing is handed out twice.        *)
OutSound(j) ==
  /\ handedOut[j] <= 1
  /\ handedOut[j] > 0 => job[j].printed /\ job[j].ready

QueueInv ==
  /\ QueueTypeOK
  /\ \A j \in PrintJobs : JobSound(j)
  /\ \A d \in RegDesks : DeskSound(d)
  /\ \A p \in Printers : PrinterSound(p)
  /\ \A k \in Clients : ClientSound(k)
  /\ \A j \in PrintJobs : OutSound(j)
  /\ FeeMatchesJob

-----------------------------------------------------------------------------
(* The fields of what a handler of the desk is to write.                   *)
LEMMA DeskFields ==
  ASSUME QueueTypeOK, NEW d \in RegDesks
  PROVE  /\ regDesk[d].step \in {"idle", "add", "item", "invalidate"}
         /\ regDesk[d].step = "add" => regDesk[d].of \in Printed /\ regDesk[d].hasFee \in BOOLEAN
         /\ regDesk[d].step \in {"item", "invalidate"} =>
              /\ regDesk[d].job \in PrintJobs
              /\ regDesk[d] = [step |-> regDesk[d].step, job |-> regDesk[d].job]
  BY DEF QueueTypeOK, DeskStates, FreeDesk

(* No job is the absence of one.                                           *)
LEMMA JobsAreNoNoJob == NoJob \notin PrintJobs
  BY DEF NoJob, PrintJobs

(* A row that does not exist yet has the type of one.                      *)
LEMMA NoRowIsJob == NoRowYet \in Job /\ NoRowYet.of = NoJob
  BY DEF NoRowYet, Job

-----------------------------------------------------------------------------
(* The queue begins empty.                                                 *)
LEMMA QueueInitInv == QueueInit => QueueInv
<1> SUFFICES ASSUME QueueInit  PROVE  QueueInv
  OBVIOUS
<1>1. QueueTypeOK
  <2>1. job \in [PrintJobs -> Job] /\ fee \in [PrintJobs -> Fee]
    BY NoRowIsJob DEF QueueInit, Fee
  <2>2. regDesk \in [RegDesks -> DeskStates]
    BY DEF QueueInit, DeskStates
  <2>3. queueKills \in 0 .. MaxQueueKills
    BY QueueAssumption DEF QueueInit, QueueAssumption
  <2>4. /\ printer \in [Printers -> PrintJobs \cup {NoJob}]
        /\ client \in [Clients -> SUBSET PrintJobs] /\ handedOut \in [PrintJobs -> Nat]
    BY DEF QueueInit
  <2>5. overlapped \in BOOLEAN
    BY DEF QueueInit
  <2> QED  BY <2>1, <2>2, <2>3, <2>4, <2>5 DEF QueueTypeOK
<1>2. \A j \in PrintJobs : JobSound(j) /\ OutSound(j)
  BY DEF QueueInit, JobSound, OutSound, NoRowYet
<1>3. \A d \in RegDesks : DeskSound(d)
  BY DEF QueueInit, DeskSound, FreeDesk
<1>4. \A p \in Printers : PrinterSound(p)
  BY DEF QueueInit, PrinterSound
<1>5. \A k \in Clients : ClientSound(k)
  BY DEF QueueInit, ClientSound
<1>6. FeeMatchesJob
  BY DEF QueueInit, FeeMatchesJob, NoRowYet
<1> QED  BY <1>1, <1>2, <1>3, <1>4, <1>5, <1>6 DEF QueueInv

(* A write to a row that exists and that no page holds: it keeps the       *)
(* attendee and whether there is a fee, never takes back that the job is   *)
(* ready or printed, and leaves the items of fees or closes the open one.  *)
LEMMA RowWrite ==
  ASSUME QueueInv, QueueTypeOK', FeeMatchesJob',
         NEW j \in PrintJobs, NEW r \in Job, Unheld(j), job[j].of # NoJob,
         job' = [job EXCEPT ![j] = r],
         r.of = job[j].of, r.hasFee = job[j].hasFee,
         job[j].printed => r.printed, job[j].ready => r.ready,
         \A i \in PrintJobs : i # j => fee'[i] = fee[i],
         \/ fee'[j].item = fee[j].item /\ r.ready = job[j].ready
         \/ fee[j].item = "open" /\ fee'[j].item = "closed",
         \A d \in RegDesks : regDesk'[d] \in {regDesk[d], FreeDesk},
         \A k \in Clients : client'[k] \subseteq client[k],
         UNCHANGED <<printer, handedOut>>
  PROVE  QueueInv'
<1>1. job'[j] = r /\ \A i \in PrintJobs : i # j => job'[i] = job[i]
  BY DEF QueueInv, QueueTypeOK
<1>2. \A i \in PrintJobs : JobSound(i)'
  BY <1>1 DEF QueueInv, JobSound
<1>3. \A d \in RegDesks : DeskSound(d)'
  <2> SUFFICES ASSUME NEW d \in RegDesks, regDesk'[d] = regDesk[d]  PROVE  DeskSound(d)'
    BY DEF DeskSound, FreeDesk
  <2>1. DeskSound(d)
    BY DEF QueueInv
  <2>2. CASE regDesk[d].step \in {"item", "invalidate"}
    <3>1. regDesk[d].job \in PrintJobs
      BY <2>2, DeskFields DEF QueueInv
    <3>2. \A e \in RegDesks : regDesk[d].step = "item" /\ regDesk'[e] = regDesk[d] => e = d
      BY <2>1 DEF DeskSound, FreeDesk
    <3> QED  BY <2>1, <3>1, <3>2, <1>1 DEF DeskSound
  <2>3. CASE regDesk[d].step \notin {"item", "invalidate"}
    BY <2>3 DEF DeskSound
  <2> QED  BY <2>2, <2>3
<1>4. \A p \in Printers : PrinterSound(p)'
  <2> SUFFICES ASSUME NEW p \in Printers, printer[p] # NoJob  PROVE  PrinterSound(p)'
    BY DEF PrinterSound
  <2>1. printer[p] \in PrintJobs /\ printer[p] # j
    BY DEF QueueInv, QueueTypeOK, Unheld
  <2>2. PrinterSound(p)
    BY DEF QueueInv
  <2> QED  BY <2>1, <2>2, <1>1 DEF PrinterSound, Pending, Open
<1>5. \A k \in Clients : ClientSound(k)'
  BY <1>1 DEF QueueInv, QueueTypeOK, ClientSound
<1>6. \A i \in PrintJobs : OutSound(i)'
  BY <1>1 DEF QueueInv, OutSound
<1> QED  BY <1>2, <1>3, <1>4, <1>5, <1>6 DEF QueueInv

(* A write to a row that is not about the fee or the validity of the job.  *)
LEMMA FeeKept ==
  ASSUME QueueInv, NEW j \in PrintJobs, NEW r \in Job, job' = [job EXCEPT ![j] = r],
         r.of = job[j].of, r.hasFee = job[j].hasFee, r.invalid = job[j].invalid,
         UNCHANGED <<fee, regDesk, overlapped, queueKills>>
  PROVE  FeeMatchesJob'
  BY DEF QueueInv, QueueTypeOK, FeeMatchesJob

(* The fee is paid.                                                        *)
LEMMA CloseFeeItemStep ==
  ASSUME QueueInv, NEW j \in PrintJobs, CloseFeeItem(j)
  PROVE  QueueInv'
<1> DEFINE r == [job[j] EXCEPT !.ready = TRUE]
<1>1. /\ job' = [job EXCEPT ![j] = r] /\ fee' = [fee EXCEPT ![j].item = "closed"]
      /\ UNCHANGED <<regDesk, printer, client, handedOut, overlapped, queueKills>>
      /\ fee[j].item = "open" /\ Unheld(j)
  BY DEF CloseFeeItem
<1>2. r \in Job /\ r.of = job[j].of /\ r.hasFee = job[j].hasFee /\ r.printed = job[j].printed
      /\ r.invalid = job[j].invalid /\ r.ready
  BY DEF QueueInv, QueueTypeOK, Job
<1> HIDE DEF r
<1>3. QueueTypeOK'
  BY <1>1, <1>2 DEF QueueInv, QueueTypeOK, Fee
<1>4. /\ fee'[j].item = "closed" /\ fee'[j].credits = fee[j].credits
      /\ \A i \in PrintJobs : i # j => fee'[i] = fee[i]
  BY <1>1 DEF QueueInv, QueueTypeOK, Fee
<1>5. job[j].of # NoJob
  BY <1>1 DEF QueueInv, JobSound
<1>6. FeeMatchesJob'
  <2>1. job'[j] = r /\ \A i \in PrintJobs : i # j => job'[i] = job[i]
    BY <1>1 DEF QueueInv, QueueTypeOK
  <2>2. job[j].hasFee
    BY <1>1 DEF QueueInv, JobSound
  <2>3. ASSUME NEW i \in PrintJobs
        PROVE  /\ job'[i].of = job[i].of /\ job'[i].hasFee = job[i].hasFee
               /\ job'[i].invalid = job[i].invalid /\ fee'[i].credits = fee[i].credits
               /\ fee'[i].item = fee[i].item \/ (fee'[i].item # "none" /\ job[i].hasFee)
    BY <2>1, <2>2, <1>2, <1>4
  <2> QED  BY <2>3, <1>1 DEF QueueInv, FeeMatchesJob
<1> QED  BY <1>1, <1>2, <1>3, <1>4, <1>5, <1>6, RowWrite

(* A job is sent back to the queue.                                        *)
LEMMA MarkAsUnsentStep ==
  ASSUME QueueInv, NEW j \in PrintJobs, MarkAsUnsent(j)
  PROVE  QueueInv'
<1> DEFINE r == [job[j] EXCEPT !.queued = FALSE]
<1>1. /\ job' = [job EXCEPT ![j] = r]
      /\ UNCHANGED <<fee, regDesk, printer, client, handedOut, overlapped, queueKills>>
      /\ job[j].queued /\ Unheld(j)
  BY DEF MarkAsUnsent
<1>2. r \in Job /\ r.of = job[j].of /\ r.hasFee = job[j].hasFee /\ r.printed = job[j].printed
      /\ r.invalid = job[j].invalid /\ r.ready = job[j].ready
  BY DEF QueueInv, QueueTypeOK, Job
<1> HIDE DEF r
<1>3. job[j].of # NoJob
  BY <1>1 DEF QueueInv, JobSound, NoRowYet
<1>4. QueueTypeOK' /\ FeeMatchesJob'
  BY <1>1, <1>2, FeeKept DEF QueueInv, QueueTypeOK
<1> QED  BY <1>1, <1>2, <1>3, <1>4, RowWrite

(* The desk and the API alike mark a job as printed.                       *)
LEMMA PrintedStep ==
  ASSUME QueueInv, NEW j \in PrintJobs, MarkAsPrinted(j) \/ MarkComplete(j)
  PROVE  QueueInv'
<1> DEFINE r == [job[j] EXCEPT !.printed = TRUE]
<1>1. /\ job' = [job EXCEPT ![j] = r]
      /\ UNCHANGED <<fee, regDesk, printer, client, handedOut, overlapped, queueKills>>
      /\ job[j].of # NoJob /\ Unheld(j)
  BY DEF MarkAsPrinted, MarkComplete
<1>2. r \in Job /\ r.of = job[j].of /\ r.hasFee = job[j].hasFee /\ r.printed
      /\ r.invalid = job[j].invalid /\ r.ready = job[j].ready
  BY DEF QueueInv, QueueTypeOK, Job
<1> HIDE DEF r
<1>3. QueueTypeOK' /\ FeeMatchesJob'
  BY <1>1, <1>2, FeeKept DEF QueueInv, QueueTypeOK
<1> QED  BY <1>1, <1>2, <1>3, RowWrite

(* A job is marked with an error.                                          *)
LEMMA AddErrorStep ==
  ASSUME QueueInv, NEW j \in PrintJobs, AddError(j)
  PROVE  QueueInv'
<1> DEFINE r == [job[j] EXCEPT !.invalid = "api"]
<1>1. /\ job' = [job EXCEPT ![j] = r]
      /\ UNCHANGED <<fee, regDesk, printer, client, handedOut, overlapped, queueKills>>
      /\ job[j].of # NoJob /\ Unheld(j)
  BY DEF AddError
<1>2. r \in Job /\ r.of = job[j].of /\ r.hasFee = job[j].hasFee /\ r.printed = job[j].printed
      /\ r.invalid = "api" /\ r.ready = job[j].ready
  BY DEF QueueInv, QueueTypeOK, Job
<1> HIDE DEF r
<1>3. QueueTypeOK' /\ FeeMatchesJob'
  BY <1>1, <1>2 DEF QueueInv, QueueTypeOK, FeeMatchesJob
<1> QED  BY <1>1, <1>2, <1>3, RowWrite

(* An API client reports a job as sent.                                    *)
LEMMA MarkAsSentStep ==
  ASSUME QueueInv, NEW k \in Clients, NEW j \in PrintJobs, MarkAsSent(k, j)
  PROVE  QueueInv'
<1> DEFINE r == [job[j] EXCEPT !.queued = TRUE]
<1>1. /\ job' = [job EXCEPT ![j] = r] /\ client' = [client EXCEPT ![k] = @ \ {j}]
      /\ UNCHANGED <<fee, regDesk, printer, handedOut, overlapped, queueKills>>
      /\ j \in client[k] /\ Unheld(j)
  BY DEF MarkAsSent
<1>2. r \in Job /\ r.of = job[j].of /\ r.hasFee = job[j].hasFee /\ r.printed = job[j].printed
      /\ r.invalid = job[j].invalid /\ r.ready = job[j].ready
  BY DEF QueueInv, QueueTypeOK, Job
<1> HIDE DEF r
<1>3. job[j].of # NoJob
  BY <1>1 DEF QueueInv, ClientSound
<1>4. QueueTypeOK' /\ FeeMatchesJob' /\ \A m \in Clients : client'[m] \subseteq client[m]
  BY <1>1, <1>2, FeeKept DEF QueueInv, QueueTypeOK
<1> QED  BY <1>1, <1>2, <1>3, <1>4, RowWrite

(* A desk writes that a job is invalid.                                    *)
LEMMA WriteInvalidStep ==
  ASSUME QueueInv, NEW d \in RegDesks, WriteInvalid(d)
  PROVE  QueueInv'
<1> DEFINE j == regDesk[d].job
           r == [job[j] EXCEPT !.invalid = "desk"]
           busy == \E e \in RegDesks : regDesk[e].step = "item" /\ regDesk[e].job = j
<1>1. /\ job' = [job EXCEPT ![j] = r] /\ fee' = [fee EXCEPT ![j].credits = @ + Credit(j)]
      /\ regDesk' = [regDesk EXCEPT ![d] = FreeDesk]
      /\ overlapped' = (overlapped \/ job[j].invalid # "no" \/ busy)
      /\ UNCHANGED <<printer, client, handedOut, queueKills>>
      /\ Unheld(j) /\ regDesk[d].step = "invalidate"
  BY DEF WriteInvalid, SetDesk
<1>2. j \in PrintJobs /\ job[j].of # NoJob
  BY <1>1, DeskFields DEF QueueInv, DeskSound
<1>3. Credit(j) \in Nat
  BY DEF Credit
<1> HIDE DEF j
<1>4. r \in Job /\ r.of = job[j].of /\ r.hasFee = job[j].hasFee /\ r.printed = job[j].printed
      /\ r.invalid = "desk" /\ r.ready = job[j].ready
  BY <1>2 DEF QueueInv, QueueTypeOK, Job
<1> HIDE DEF r
<1>5. /\ fee'[j].item = fee[j].item /\ fee'[j].credits = fee[j].credits + Credit(j)
      /\ \A i \in PrintJobs : i # j => fee'[i] = fee[i]
  BY <1>1, <1>2, <1>3 DEF QueueInv, QueueTypeOK, Fee
<1>6. QueueTypeOK'
  <2>1. job' \in [PrintJobs -> Job]
    BY <1>1, <1>2, <1>4 DEF QueueInv, QueueTypeOK
  <2>2. fee' \in [PrintJobs -> Fee]
    BY <1>1, <1>2, <1>3 DEF QueueInv, QueueTypeOK, Fee
  <2>3. regDesk' \in [RegDesks -> DeskStates]
    BY <1>1 DEF QueueInv, QueueTypeOK, DeskStates
  <2>4. overlapped' \in BOOLEAN
    BY <1>1 DEF QueueInv, QueueTypeOK
  <2> QED  BY <1>1, <2>1, <2>2, <2>3, <2>4 DEF QueueInv, QueueTypeOK
<1>7. FeeMatchesJob'
  <2> SUFFICES ASSUME ~overlapped, queueKills = 0, job[j].invalid = "no", NEW i \in PrintJobs,
                      job'[i].of # NoJob, job'[i].invalid # "api"
               PROVE  /\ fee'[i].item # "none" => job'[i].hasFee
                      /\ fee'[i].credits =
                           IF job'[i].hasFee /\ job'[i].invalid = "desk" THEN 1 ELSE 0
                      /\ job'[i].hasFee /\ fee'[i].item = "none" =>
                           \E e \in RegDesks : regDesk'[e] = [step |-> "item", job |-> i]
    BY <1>1 DEF FeeMatchesJob
  <2>1. job'[j] = r /\ \A h \in PrintJobs : h # j => job'[h] = job[h]
    BY <1>1, <1>2 DEF QueueInv, QueueTypeOK
  <2>2. job'[i].of = job[i].of /\ job'[i].hasFee = job[i].hasFee /\ job[i].invalid # "api"
    BY <2>1, <1>4
  <2>3. /\ fee[i].item # "none" => job[i].hasFee
        /\ fee[i].credits = IF job[i].hasFee /\ job[i].invalid = "desk" THEN 1 ELSE 0
        /\ job[i].hasFee /\ fee[i].item = "none" =>
             \E e \in RegDesks : regDesk[e] = [step |-> "item", job |-> i]
    BY <2>2 DEF QueueInv, FeeMatchesJob
  <2>4. fee'[i].credits = IF job'[i].hasFee /\ job'[i].invalid = "desk" THEN 1 ELSE 0
    BY <2>1, <2>2, <2>3, <1>2, <1>4, <1>5 DEF Credit
  <2>5. ASSUME NEW e \in RegDesks, regDesk[e] = [step |-> "item", job |-> i]
        PROVE  regDesk'[e] = [step |-> "item", job |-> i]
    BY <2>5, <1>1 DEF QueueInv, QueueTypeOK
  <2> QED  BY <2>2, <2>3, <2>4, <2>5, <1>5
<1>8. \A e \in RegDesks : regDesk'[e] \in {regDesk[e], FreeDesk}
  BY <1>1 DEF QueueInv, QueueTypeOK
<1> QED  BY <1>1, <1>2, <1>4, <1>5, <1>6, <1>7, <1>8, RowWrite

(* A step that only lets desks, pages or clients read.                     *)
LEMMA RowsKept ==
  ASSUME QueueInv, UNCHANGED <<job, fee>>
  PROVE  \A j \in PrintJobs : JobSound(j)'
  BY DEF QueueInv, JobSound

(* A handler that stops, or that begins anything but an item of a fee.     *)
LEMMA DeskStep ==
  ASSUME QueueInv, NEW d \in RegDesks, NEW v \in DeskStates,
         regDesk' = [regDesk EXCEPT ![d] = v],
         regDesk[d].step # "item" \/ queueKills' > 0,
         v.step # "item", v.step = "invalidate" => job[v.job].of # NoJob,
         queueKills' \in 0 .. MaxQueueKills, queueKills' >= queueKills,
         UNCHANGED <<job, fee, printer, client, handedOut, overlapped>>
  PROVE  QueueInv'
<1>1. regDesk'[d] = v /\ \A e \in RegDesks : e # d => regDesk'[e] = regDesk[e]
  BY DEF QueueInv, QueueTypeOK
<1>2. QueueTypeOK'
  BY DEF QueueInv, QueueTypeOK
<1>3. \A e \in RegDesks : DeskSound(e)'
  BY <1>1 DEF QueueInv, DeskSound
<1>4. FeeMatchesJob'
  <2> SUFFICES ASSUME queueKills = 0, queueKills' = 0  PROVE  FeeMatchesJob'
    BY DEF FeeMatchesJob, QueueInv, QueueTypeOK
  <2>1. ASSUME NEW e \in RegDesks, NEW j, regDesk[e] = [step |-> "item", job |-> j]
        PROVE  regDesk'[e] = [step |-> "item", job |-> j]
    BY <2>1, <1>1
  <2> QED  BY <2>1 DEF QueueInv, FeeMatchesJob
<1>5. \A j \in PrintJobs : OutSound(j)'
  BY DEF QueueInv, OutSound
<1>6. \A p \in Printers : PrinterSound(p)'
  BY DEF QueueInv, PrinterSound, Pending, Open
<1>7. \A k \in Clients : ClientSound(k)'
  BY DEF QueueInv, ClientSound
<1> QED  BY <1>2, <1>3, <1>4, <1>5, <1>6, <1>7, RowsKept DEF QueueInv

(* A desk finds no open job of an attendee, and is to add one.             *)
LEMMA CheckNewJobStep ==
  ASSUME QueueInv, NEW d \in RegDesks, NEW a \in Printed, NEW hasFee \in BOOLEAN,
         CheckNewJob(d, a, hasFee)
  PROVE  QueueInv'
<1> DEFINE v == [step |-> "add", of |-> a, hasFee |-> hasFee]
<1>1. v \in DeskStates /\ v.step = "add"
  BY DEF DeskStates
<1>2. regDesk' = [regDesk EXCEPT ![d] = v] /\ regDesk[d].step # "item"
  BY DEF CheckNewJob, SetDesk, FreeDesk
<1> HIDE DEF v
<1>3. queueKills' = queueKills /\ queueKills' \in 0 .. MaxQueueKills /\ queueKills' >= queueKills
  BY DEF CheckNewJob, QueueInv, QueueTypeOK
<1> QED  BY <1>1, <1>2, <1>3, DeskStep DEF CheckNewJob

(* A desk reads a job that it is to invalidate.                            *)
LEMMA CheckInvalidStep ==
  ASSUME QueueInv, NEW d \in RegDesks, NEW j \in PrintJobs, CheckInvalid(d, j)
  PROVE  QueueInv'
<1> DEFINE v == [step |-> "invalidate", job |-> j]
<1>1. v \in DeskStates /\ v.step = "invalidate" /\ v.job = j
  BY DEF DeskStates
<1>2. regDesk' = [regDesk EXCEPT ![d] = v] /\ regDesk[d].step # "item"
  BY DEF CheckInvalid, SetDesk, FreeDesk
<1> HIDE DEF v
<1>3. queueKills' = queueKills /\ queueKills' \in 0 .. MaxQueueKills /\ queueKills' >= queueKills
  BY DEF CheckInvalid, QueueInv, QueueTypeOK
<1> QED  BY <1>1, <1>2, <1>3, DeskStep DEF CheckInvalid

(* The handler of a desk is killed.                                        *)
LEMMA KillRegDeskStep ==
  ASSUME QueueInv, NEW d \in RegDesks, KillRegDesk(d)
  PROVE  QueueInv'
<1>1. FreeDesk \in DeskStates /\ FreeDesk.step = "idle"
  BY DEF DeskStates, FreeDesk
<1>2. queueKills' = queueKills + 1 /\ queueKills \in Nat /\ queueKills' \in 0 .. MaxQueueKills
  BY QueueAssumption DEF QueueAssumption, KillRegDesk, QueueInv, QueueTypeOK
<1>3. queueKills' > 0 /\ queueKills' >= queueKills
  BY <1>2
<1> HIDE DEF FreeDesk
<1> QED  BY <1>1, <1>2, <1>3, DeskStep DEF KillRegDesk, SetDesk

(* A new job takes a row that no handler, page or client has.              *)
LEMMA AddJobStep ==
  ASSUME QueueInv, NEW d \in RegDesks, AddJob(d)
  PROVE  QueueInv'
<1>1. regDesk[d].of \in Printed /\ regDesk[d].of # NoJob /\ regDesk[d].hasFee \in BOOLEAN
  BY DeskFields, QueueAssumption DEF QueueInv, AddJob, QueueAssumption
<1> DEFINE h == regDesk[d].hasFee
           r == [NoRowYet EXCEPT !.of = regDesk[d].of, !.hasFee = h, !.ready = ReadyAtFirst(h)]
<1>2. PICK j \in PrintJobs :
        /\ job[j] = NoRowYet /\ job' = [job EXCEPT ![j] = r]
        /\ regDesk' = [regDesk EXCEPT ![d] = IF h THEN [step |-> "item", job |-> j] ELSE FreeDesk]
  BY DEF AddJob, SetDesk
<1>3. /\ overlapped' = (overlapped \/ OpenJobs(regDesk[d].of) # {})
      /\ UNCHANGED <<fee, printer, client, handedOut, queueKills>>
      /\ regDesk[d].step = "add"
  BY DEF AddJob
<1>4. r \in Job /\ r.of # NoJob /\ r.hasFee = h /\ r.ready = ~h /\ ~r.printed /\ r.invalid = "no"
  BY <1>1 DEF NoRowYet, Job, ReadyAtFirst
<1> HIDE DEF r
<1>5. job'[j] = r /\ \A i \in PrintJobs : i # j => job'[i] = job[i]
  BY <1>2 DEF QueueInv, QueueTypeOK
<1>6. job[j].of = NoJob /\ fee[j].item = "none" /\ fee[j].credits = 0
  BY <1>2 DEF QueueInv, JobSound, NoRowYet
<1>7. /\ regDesk'[d] = IF h THEN [step |-> "item", job |-> j] ELSE FreeDesk
      /\ \A e \in RegDesks : e # d => regDesk'[e] = regDesk[e]
  BY <1>2 DEF QueueInv, QueueTypeOK
<1>8. ASSUME NEW e \in RegDesks, e # d, regDesk[e].step \in {"item", "invalidate"}
      PROVE  regDesk[e].job \in PrintJobs /\ regDesk[e].job # j
  BY <1>8, <1>6, DeskFields DEF QueueInv, DeskSound
<1>9. QueueTypeOK'
  <2>1. (IF h THEN [step |-> "item", job |-> j] ELSE FreeDesk) \in DeskStates
    BY DEF DeskStates
  <2>2. regDesk' \in [RegDesks -> DeskStates]
    BY <2>1, <1>2 DEF QueueInv, QueueTypeOK
  <2>3. job' \in [PrintJobs -> Job] /\ overlapped' \in BOOLEAN
    BY <1>2, <1>3, <1>4 DEF QueueInv, QueueTypeOK
  <2> QED  BY <2>2, <2>3, <1>3 DEF QueueInv, QueueTypeOK
<1>10. \A i \in PrintJobs : JobSound(i)'
  BY <1>1, <1>3, <1>4, <1>5, <1>6 DEF QueueInv, JobSound
<1>11. \A e \in RegDesks : DeskSound(e)'
  <2>1. DeskSound(d)'
    <3>1. CASE h
      <4>1. regDesk'[d] = [step |-> "item", job |-> j]
        BY <3>1, <1>7
      <4>2. \A e \in RegDesks : regDesk'[e] = regDesk'[d] => e = d
        BY <4>1, <1>7, <1>8
      <4>3. regDesk'[d].step = "item" /\ regDesk'[d].job = j
        BY <4>1
      <4>4. job'[j].of # NoJob /\ job'[j].hasFee /\ fee'[j].item = "none"
        BY <3>1, <1>3, <1>4, <1>5, <1>6
      <4> QED  BY <4>2, <4>3, <4>4 DEF DeskSound
    <3>2. CASE ~h
      BY <3>2, <1>7 DEF DeskSound, FreeDesk
    <3> QED  BY <3>1, <3>2, <1>1
  <2>2. ASSUME NEW e \in RegDesks, e # d  PROVE  DeskSound(e)'
    <3>1. CASE regDesk[e].step \in {"item", "invalidate"}
      <4>1. regDesk'[e] = regDesk[e] /\ job'[regDesk[e].job] = job[regDesk[e].job]
        BY <3>1, <2>2, <1>5, <1>7, <1>8
      <4>2. regDesk'[d] # regDesk[e]
        BY <3>1, <2>2, <1>7, <1>8 DEF FreeDesk
      <4> QED  BY <4>1, <4>2, <2>2, <1>3, <1>7 DEF QueueInv, DeskSound
    <3>2. CASE regDesk[e].step \notin {"item", "invalidate"}
      BY <3>2, <2>2, <1>7 DEF DeskSound
    <3> QED  BY <3>1, <3>2
  <2> QED  BY <2>1, <2>2
<1>12. \A p \in Printers : PrinterSound(p)'
  BY <1>3, <1>5, <1>6 DEF QueueInv, QueueTypeOK, PrinterSound, Pending, Open
<1>13. \A k \in Clients : ClientSound(k)'
  BY <1>3, <1>4, <1>5 DEF QueueInv, QueueTypeOK, ClientSound
<1>14. \A i \in PrintJobs : OutSound(i)'
  BY <1>2, <1>3, <1>5 DEF QueueInv, OutSound, NoRowYet
<1>15. FeeMatchesJob'
  <2> SUFFICES ASSUME ~overlapped, queueKills = 0, NEW i \in PrintJobs,
                      job'[i].of # NoJob, job'[i].invalid # "api"
               PROVE  /\ fee'[i].item # "none" => job'[i].hasFee
                      /\ fee'[i].credits =
                           IF job'[i].hasFee /\ job'[i].invalid = "desk" THEN 1 ELSE 0
                      /\ job'[i].hasFee /\ fee'[i].item = "none" =>
                           \E e \in RegDesks : regDesk'[e] = [step |-> "item", job |-> i]
    BY <1>3 DEF FeeMatchesJob
  <2>1. CASE i = j
    BY <2>1, <1>3, <1>4, <1>5, <1>6, <1>7
  <2>2. CASE i # j
    <3>1. /\ fee[i].item # "none" => job[i].hasFee
          /\ fee[i].credits = IF job[i].hasFee /\ job[i].invalid = "desk" THEN 1 ELSE 0
          /\ job[i].hasFee /\ fee[i].item = "none" =>
               \E e \in RegDesks : regDesk[e] = [step |-> "item", job |-> i]
      BY <2>2, <1>5 DEF QueueInv, FeeMatchesJob
    <3>2. ASSUME NEW e \in RegDesks, regDesk[e] = [step |-> "item", job |-> i]
          PROVE  regDesk'[e] = [step |-> "item", job |-> i]
      BY <3>2, <1>3, <1>7
    <3> QED  BY <3>1, <3>2, <2>2, <1>3, <1>5
  <2> QED  BY <2>1, <2>2
<1> QED  BY <1>9, <1>10, <1>11, <1>12, <1>13, <1>14, <1>15 DEF QueueInv

(* The item of a fee comes after its job: until then the job is not ready, *)
(* so that no page has it.                                                 *)
LEMMA AddFeeItemStep ==
  ASSUME QueueInv, NEW d \in RegDesks, AddFeeItem(d)
  PROVE  QueueInv'
<1> DEFINE j == regDesk[d].job
<1>1. /\ fee' = [fee EXCEPT ![j].item = "open"] /\ regDesk' = [regDesk EXCEPT ![d] = FreeDesk]
      /\ overlapped' = (overlapped \/ job[j].invalid # "no")
      /\ UNCHANGED <<job, printer, client, handedOut, queueKills>>
      /\ regDesk[d].step = "item"
  BY DEF AddFeeItem, SetDesk
<1>2. /\ j \in PrintJobs /\ regDesk[d] = [step |-> "item", job |-> j]
      /\ job[j].of # NoJob /\ job[j].hasFee /\ fee[j].item = "none"
      /\ \A e \in RegDesks : regDesk[e] = regDesk[d] => e = d
  BY <1>1, DeskFields DEF QueueInv, DeskSound
<1> HIDE DEF j
<1>3. /\ fee'[j].item = "open" /\ fee'[j].credits = fee[j].credits
      /\ \A i \in PrintJobs : i # j => fee'[i] = fee[i]
  BY <1>1, <1>2 DEF QueueInv, QueueTypeOK, Fee
<1>4. regDesk'[d] = FreeDesk /\ \A e \in RegDesks : e # d => regDesk'[e] = regDesk[e]
  BY <1>1 DEF QueueInv, QueueTypeOK
<1>5. ASSUME NEW e \in RegDesks, e # d, regDesk[e].step = "item"
      PROVE  regDesk[e].job \in PrintJobs \ {j}
  BY <1>5, <1>2, DeskFields DEF QueueInv
<1>6. QueueTypeOK'
  <2>1. fee' \in [PrintJobs -> Fee] /\ overlapped' \in BOOLEAN
    BY <1>1, <1>2 DEF QueueInv, QueueTypeOK, Fee
  <2>2. regDesk' \in [RegDesks -> DeskStates]
    BY <1>1 DEF QueueInv, QueueTypeOK, DeskStates
  <2> QED  BY <2>1, <2>2, <1>1 DEF QueueInv, QueueTypeOK
<1>7. ~job[j].ready
  BY <1>2 DEF QueueInv, JobSound
<1>8. \A i \in PrintJobs : JobSound(i)'
  BY <1>1, <1>2, <1>3, <1>7 DEF QueueInv, JobSound
<1>9. \A e \in RegDesks : DeskSound(e)'
  <2> SUFFICES ASSUME NEW e \in RegDesks, e # d  PROVE  DeskSound(e)'
    BY <1>4 DEF DeskSound, FreeDesk
  <2>1. regDesk'[e] = regDesk[e] /\ DeskSound(e)
    BY <1>4 DEF QueueInv
  <2>2. CASE regDesk[e].step = "item"
    <3>1. fee'[regDesk[e].job] = fee[regDesk[e].job]
      BY <2>2, <1>3, <1>5
    <3>2. regDesk'[d] # regDesk[e]
      BY <2>2, <1>4 DEF FreeDesk
    <3> QED  BY <2>1, <3>1, <3>2, <1>1, <1>4 DEF DeskSound
  <2>3. CASE regDesk[e].step # "item"
    BY <2>1, <2>3, <1>1 DEF DeskSound
  <2> QED  BY <2>2, <2>3
<1>10. \A p \in Printers : PrinterSound(p)'
  BY <1>1 DEF QueueInv, PrinterSound, Pending, Open
<1>11. \A k \in Clients : ClientSound(k)'
  BY <1>1 DEF QueueInv, ClientSound
<1>12. \A i \in PrintJobs : OutSound(i)'
  BY <1>1 DEF QueueInv, OutSound
<1>13. FeeMatchesJob'
  <2> SUFFICES ASSUME ~overlapped, queueKills = 0, NEW i \in PrintJobs,
                      job[i].of # NoJob, job[i].invalid # "api"
               PROVE  /\ fee'[i].item # "none" => job[i].hasFee
                      /\ fee'[i].credits =
                           IF job[i].hasFee /\ job[i].invalid = "desk" THEN 1 ELSE 0
                      /\ job[i].hasFee /\ fee'[i].item = "none" =>
                           \E e \in RegDesks : regDesk'[e] = [step |-> "item", job |-> i]
    BY <1>1 DEF FeeMatchesJob
  <2>1. /\ fee[i].item # "none" => job[i].hasFee
        /\ fee[i].credits = IF job[i].hasFee /\ job[i].invalid = "desk" THEN 1 ELSE 0
        /\ job[i].hasFee /\ fee[i].item = "none" =>
             \E e \in RegDesks : regDesk[e] = [step |-> "item", job |-> i]
    BY DEF QueueInv, FeeMatchesJob
  <2>2. CASE i = j
    BY <2>1, <2>2, <1>2, <1>3
  <2>3. CASE i # j
    <3>1. ASSUME NEW e \in RegDesks, regDesk[e] = [step |-> "item", job |-> i]
          PROVE  regDesk'[e] = [step |-> "item", job |-> i]
      <4>1. e # d
        BY <3>1, <2>3, <1>2
      <4> QED  BY <4>1, <3>1, <1>4
    <3> QED  BY <2>1, <2>3, <3>1, <1>3
  <2> QED  BY <2>2, <2>3
<1> QED  BY <1>6, <1>8, <1>9, <1>10, <1>11, <1>12, <1>13 DEF QueueInv

-----------------------------------------------------------------------------
(* A step that leaves rows, fees and the desk alone.                       *)
LEMMA ReaderStep ==
  ASSUME QueueInv, UNCHANGED <<job, fee, regDesk, overlapped, queueKills>>
  PROVE  /\ \A j \in PrintJobs : JobSound(j)'
         /\ \A d \in RegDesks : DeskSound(d)'
         /\ FeeMatchesJob'
  BY DEF QueueInv, JobSound, DeskSound, FeeMatchesJob

(* A printer page takes the next job.                                      *)
LEMMA GetNextBadgeStep ==
  ASSUME QueueInv, NEW p \in Printers, GetNextBadgeToPrint(p)
  PROVE  QueueInv'
<1>1. PICK j \in PrintJobs : Pending(j) /\ Unheld(j) /\ printer' = [printer EXCEPT ![p] = j]
  BY DEF GetNextBadgeToPrint, Selectable
<1>2. UNCHANGED <<job, fee, regDesk, client, handedOut, overlapped, queueKills>>
  BY DEF GetNextBadgeToPrint
<1>3. QueueTypeOK'
  BY <1>1, <1>2 DEF QueueInv, QueueTypeOK
<1>4. handedOut[j] = 0
  BY <1>1 DEF QueueInv, QueueTypeOK, OutSound, Pending, Open
<1>5. \A q \in Printers : PrinterSound(q)'
  BY <1>1, <1>2, <1>4 DEF QueueInv, QueueTypeOK, PrinterSound, Unheld, Pending, Open
<1>6. (\A k \in Clients : ClientSound(k)') /\ \A i \in PrintJobs : OutSound(i)'
  BY <1>2 DEF QueueInv, ClientSound, OutSound
<1> QED  BY <1>2, <1>3, <1>5, <1>6, ReaderStep DEF QueueInv

(* An API client asks for the jobs that are pending.                       *)
LEMMA GetPendingStep ==
  ASSUME QueueInv, NEW k \in Clients, NEW restart \in BOOLEAN, GetPending(k, restart)
  PROVE  QueueInv'
<1> DEFINE js == {j \in PrintJobs : Pending(j) /\ (restart \/ ~job[j].queued)}
<1>1. client' = [client EXCEPT ![k] = js]
      /\ UNCHANGED <<job, fee, regDesk, printer, handedOut, overlapped, queueKills>>
  BY DEF GetPending
<1>2. js \subseteq PrintJobs /\ \A j \in js : job[j].of # NoJob
  BY DEF Pending, Open
<1> HIDE DEF js
<1>3. QueueTypeOK'
  BY <1>1, <1>2 DEF QueueInv, QueueTypeOK
<1>4. \A m \in Clients : ClientSound(m)'
  BY <1>1, <1>2 DEF QueueInv, QueueTypeOK, ClientSound
<1>5. (\A p \in Printers : PrinterSound(p)') /\ \A i \in PrintJobs : OutSound(i)'
  BY <1>1 DEF QueueInv, PrinterSound, OutSound, Pending, Open
<1> QED  BY <1>1, <1>3, <1>4, <1>5, ReaderStep DEF QueueInv

(* A page hands out what it holds: it was not handed out before, and is    *)
(* printed from then on.                                                   *)
LEMMA PrintNextBadgeStep ==
  ASSUME QueueInv, NEW p \in Printers, PrintNextBadge(p)
  PROVE  QueueInv'
<1> DEFINE j == printer[p]
           r == [job[j] EXCEPT !.queued = TRUE, !.printed = TRUE]
<1>1. /\ job' = [job EXCEPT ![j].queued = TRUE, ![j].printed = TRUE]
      /\ handedOut' = [handedOut EXCEPT ![j] = @ + 1]
      /\ printer' = [printer EXCEPT ![p] = NoJob]
      /\ UNCHANGED <<fee, regDesk, client, overlapped, queueKills>>
  BY DEF PrintNextBadge
<1>2. /\ j \in PrintJobs /\ Pending(j) /\ handedOut[j] = 0
      /\ \A q \in Printers : printer[q] = j => q = p
  BY DEF QueueInv, QueueTypeOK, PrinterSound, PrintNextBadge
<1> HIDE DEF j
<1>3. job' = [job EXCEPT ![j] = r]
  BY <1>1, <1>2 DEF QueueInv, QueueTypeOK, Job
<1>4. r \in Job /\ r.of = job[j].of /\ r.hasFee = job[j].hasFee /\ r.printed
      /\ r.invalid = job[j].invalid /\ r.ready = job[j].ready
  BY <1>2 DEF QueueInv, QueueTypeOK, Job
<1> HIDE DEF r
<1>5. job'[j] = r /\ \A i \in PrintJobs : i # j => job'[i] = job[i]
  BY <1>2, <1>3 DEF QueueInv, QueueTypeOK
<1>6. job[j].of # NoJob /\ job[j].ready
  BY <1>2 DEF Pending, Open
<1>7. QueueTypeOK'
  <2>1. job' \in [PrintJobs -> Job]
    BY <1>2, <1>3, <1>4 DEF QueueInv, QueueTypeOK
  <2>2. handedOut' \in [PrintJobs -> Nat] /\ printer' \in [Printers -> PrintJobs \cup {NoJob}]
    BY <1>1, <1>2 DEF QueueInv, QueueTypeOK
  <2> QED  BY <2>1, <2>2, <1>1 DEF QueueInv, QueueTypeOK
<1>8. FeeMatchesJob'
  BY <1>1, <1>2, <1>3, <1>4, FeeKept
<1>9. \A i \in PrintJobs : JobSound(i)'
  BY <1>1, <1>4, <1>5, <1>6 DEF QueueInv, JobSound
<1>10. \A d \in RegDesks : DeskSound(d)'
  <2> SUFFICES ASSUME NEW d \in RegDesks, regDesk[d].step \in {"item", "invalidate"}
               PROVE  DeskSound(d)'
    BY <1>1 DEF DeskSound
  <2>1. regDesk[d].job \in PrintJobs
    BY DeskFields DEF QueueInv
  <2>2. /\ job'[regDesk[d].job].of = job[regDesk[d].job].of
        /\ job'[regDesk[d].job].hasFee = job[regDesk[d].job].hasFee
    BY <2>1, <1>4, <1>5
  <2>3. DeskSound(d)
    BY DEF QueueInv
  <2> QED  BY <2>2, <2>3, <1>1 DEF DeskSound
<1>11. \A q \in Printers : PrinterSound(q)'
  <2> SUFFICES ASSUME NEW q \in Printers, printer'[q] # NoJob  PROVE  PrinterSound(q)'
    BY DEF PrinterSound
  <2>1. q # p /\ printer'[q] = printer[q] /\ printer[q] \in PrintJobs \ {j}
    BY <1>1, <1>2 DEF QueueInv, QueueTypeOK
  <2>2. job'[printer[q]] = job[printer[q]] /\ handedOut'[printer[q]] = handedOut[printer[q]]
    BY <2>1, <1>1, <1>5 DEF QueueInv, QueueTypeOK
  <2>3. \A s \in Printers : printer'[s] = printer[q] => s = q
    BY <2>1, <1>1 DEF QueueInv, QueueTypeOK, PrinterSound
  <2> QED  BY <2>1, <2>2, <2>3 DEF QueueInv, PrinterSound, Pending, Open
<1>12. \A k \in Clients : ClientSound(k)'
  BY <1>1, <1>4, <1>5 DEF QueueInv, QueueTypeOK, ClientSound
<1>13. \A i \in PrintJobs : OutSound(i)'
  BY <1>1, <1>2, <1>4, <1>5, <1>6 DEF QueueInv, QueueTypeOK, OutSound
<1> QED  BY <1>7, <1>8, <1>9, <1>10, <1>11, <1>12, <1>13 DEF QueueInv

-----------------------------------------------------------------------------
(* Every step keeps the invariant.                                         *)
LEMMA QueueStep == QueueInv /\ [QueueNext]_queueVars => QueueInv'
<1> SUFFICES ASSUME QueueInv, [QueueNext]_queueVars  PROVE  QueueInv'
  OBVIOUS
<1>1. CASE UNCHANGED queueVars
  <2>1. QueueTypeOK'
    BY <1>1 DEF queueVars, QueueInv, QueueTypeOK
  <2>2. (\A p \in Printers : PrinterSound(p)') /\ (\A k \in Clients : ClientSound(k)')
        /\ \A i \in PrintJobs : OutSound(i)'
    BY <1>1 DEF queueVars, QueueInv, PrinterSound, ClientSound, OutSound, Pending, Open
  <2> QED  BY <1>1, <2>1, <2>2, ReaderStep DEF queueVars, QueueInv
<1>2. ASSUME NEW d \in RegDesks,
             \/ \E a \in Printed, hasFee \in BOOLEAN : CheckNewJob(d, a, hasFee)
             \/ AddJob(d) \/ AddFeeItem(d)
             \/ \E j \in PrintJobs : CheckInvalid(d, j)
             \/ WriteInvalid(d)
             \/ KillRegDesk(d)
      PROVE  QueueInv'
  BY <1>2, CheckNewJobStep, AddJobStep, AddFeeItemStep, CheckInvalidStep, WriteInvalidStep,
     KillRegDeskStep
<1>3. ASSUME NEW j \in PrintJobs,
             \/ CloseFeeItem(j) \/ MarkAsUnsent(j) \/ MarkAsPrinted(j)
             \/ AddError(j) \/ MarkComplete(j)
      PROVE  QueueInv'
  BY <1>3, CloseFeeItemStep, MarkAsUnsentStep, PrintedStep, AddErrorStep
<1>4. ASSUME NEW p \in Printers, GetNextBadgeToPrint(p) \/ PrintNextBadge(p)
      PROVE  QueueInv'
  BY <1>4, GetNextBadgeStep, PrintNextBadgeStep
<1>5. ASSUME NEW k \in Clients,
             \/ \E restart \in BOOLEAN : GetPending(k, restart)
             \/ \E j \in PrintJobs : MarkAsSent(k, j)
      PROVE  QueueInv'
  BY <1>5, GetPendingStep, MarkAsSentStep
<1> QED  BY <1>1, <1>2, <1>3, <1>4, <1>5 DEF QueueNext

(* The variables of the print queue keep their types (PrintJob, PrintBadge *)
(* and the handlers of badge_printing and print_jobs).                     *)
THEOREM QueueTypeCorrect == QueueSpec => []QueueTypeOK
<1>1. QueueInv => QueueTypeOK
  BY DEF QueueInv
<1> QED  BY <1>1, QueueInitInv, QueueStep, PTL DEF QueueSpec

(* Two pages never print the same job, and none prints a badge whose       *)
(* reprint fee was not paid (get_next_badge_to_print).                     *)
THEOREM JobsAreHandedOutOncePaid == QueueSpec => []HandedOutOncePaid
<1>1. QueueInv => HandedOutOncePaid
  BY DEF QueueInv, QueueTypeOK, JobSound, OutSound, HandedOutOncePaid
<1> QED  BY <1>1, QueueInitInv, QueueStep, PTL DEF QueueSpec

(* The fee of a job is charged once, and given back once if the desk takes *)
(* the job back, unless handlers overlapped on the job, one was killed, or *)
(* the job was made invalid through the API (mark_as_invalid).             *)
THEOREM FeesMatchJobs == QueueSpec => []FeeMatchesJob
<1>1. QueueInv => FeeMatchesJob
  BY DEF QueueInv
<1> QED  BY <1>1, QueueInitInv, QueueStep, PTL DEF QueueSpec

-----------------------------------------------------------------------------
(***************************************************************************)
(* Emails                                                                  *)
(***************************************************************************)

(* A run has a connection of its own process, holds the locks of the mails *)
(* it is to send, none of which is recorded, and the mail that SES just    *)
(* took is one of them.                                                    *)
RunSound(p) ==
  /\ run[p].stage # "idle" => run[p].guard \in PoolOf[p]
  /\ run[p].stage \in {"idle", "next"} => run[p].mails = {}
  /\ run[p].stage # "record" => run[p].mail = {}
  /\ run[p].mail \subseteq run[p].mails
  /\ \A m, n \in run[p].mail : m = n
  /\ \A m \in run[p].mails : lockedBy[m[1]] = run[p].guard /\ m \notin recorded

RunsSound == \A p \in Processes : RunSound(p)

(* SES took the mail, and it is recorded, or about to be.                  *)
Known(m) == m \in recorded \/ \E p \in Processes : m \in run[p].mail

(* What was sent is known, apart from one sending for each kill.           *)
Counted ==
  \A m \in Mails :
    /\ mailed[m] <= emailKills + 1
    /\ ~Known(m) => mailed[m] <= emailKills

EmailInv == EmailTypeOK /\ RunsSound /\ Counted

-----------------------------------------------------------------------------
(* A process between two runs.                                             *)
LEMMA NoRunIsRun == NoRun \in Run
  BY DEF NoRun, Run

(* A mail is on the list of one process at most: its lock is held by one   *)
(* connection, and no two processes have a connection in common.           *)
LEMMA OneSender ==
  ASSUME EmailInv,
         NEW p \in Processes, NEW q \in Processes, NEW m,
         m \in run[p].mails, m \in run[q].mails
  PROVE  p = q
<1>1. run[p].stage # "idle" /\ run[q].stage # "idle"
  BY DEF EmailInv, RunsSound, RunSound
<1>2. run[p].guard \in PoolOf[p] /\ run[q].guard \in PoolOf[q]
  BY <1>1 DEF EmailInv, RunsSound, RunSound
<1>3. run[p].guard = run[q].guard
  BY DEF EmailInv, RunsSound, RunSound
<1> QED  BY <1>2, <1>3, EmailAssumption DEF EmailAssumption

(* A step that sends nothing, forgets no mail that SES took and kills      *)
(* nobody keeps the count.                                                 *)
LEMMA QuietCount ==
  ASSUME EmailInv, mailed' = mailed, emailKills' = emailKills,
         \A m \in Mails : Known(m) => Known(m)'
  PROVE  Counted'
  BY DEF EmailInv, Counted

-----------------------------------------------------------------------------
(* At first nothing was sent, and no run began.                            *)
LEMMA EmailInitInv == EmailInit => EmailInv
<1> SUFFICES ASSUME EmailInit  PROVE  EmailInv
  OBVIOUS
<1>1. EmailTypeOK
  BY NoRunIsRun, EmailAssumption DEF EmailAssumption, EmailInit, EmailTypeOK
<1>2. RunsSound
  BY DEF EmailInit, RunsSound, RunSound, NoRun
<1>3. Counted
  BY DEF EmailInit, Counted
<1> QED  BY <1>1, <1>2, <1>3 DEF EmailInv

(* The admins and the rows touch nothing that a run has.                   *)
LEMMA OutsideStep ==
  ASSUME EmailInv, EmailTypeOK',
         UNCHANGED <<recorded, mailed, lockedBy, run, emailKills>>
  PROVE  EmailInv'
<1>1. RunsSound'
  BY DEF EmailInv, RunsSound, RunSound
<1>2. Counted'
  BY DEF EmailInv, Counted, Known
<1> QED  BY <1>1, <1>2 DEF EmailInv

(* A run of the task begins.                                               *)
LEMMA StartRunStep ==
  ASSUME EmailInv, NEW p \in Processes, StartRun(p)
  PROVE  EmailInv'
<1>1. PICK c \in PoolOf[p] :
        run' = [run EXCEPT ![p] =
          [NoRun EXCEPT !.stage = "next", !.guard = c, !.approved = approved,
                        !.due = due, !.emails = EmailIds]]
  BY DEF StartRun, SetRun
<1>2. c \in Connections
  BY EmailAssumption DEF EmailAssumption
<1>3. run[p].mail = {}
  BY DEF EmailInv, RunsSound, RunSound, StartRun
<1>4. EmailTypeOK'
  BY <1>1, <1>2 DEF EmailInv, EmailTypeOK, StartRun, NoRun, Run
<1>5. RunsSound'
  <2> SUFFICES ASSUME NEW q \in Processes  PROVE  RunSound(q)'
    BY DEF RunsSound
  <2>1. CASE q = p
    BY <2>1, <1>1 DEF EmailInv, EmailTypeOK, StartRun, NoRun, Run, RunSound
  <2>2. CASE q # p
    BY <2>2, <1>1 DEF EmailInv, EmailTypeOK, StartRun, RunsSound, RunSound
  <2> QED  BY <2>1, <2>2
<1>6. Counted'
  <2>1. ASSUME NEW q \in Processes  PROVE  run'[q].mail = run[q].mail
    BY <1>1, <1>3 DEF EmailInv, EmailTypeOK, NoRun, Run
  <2> QED  BY <2>1, QuietCount DEF Known, StartRun
<1> QED  BY <1>4, <1>5, <1>6 DEF EmailInv

(* The steps that change the run of p alone, and neither a lock, a record, *)
(* nor what was sent.                                                      *)
LEMMA OwnStep ==
  ASSUME EmailInv, EmailTypeOK', NEW p \in Processes, NEW r \in Run,
         run' = [run EXCEPT ![p] = r], RunSound(p)', r.mail = run[p].mail,
         UNCHANGED <<recorded, mailed, lockedBy, emailKills>>
  PROVE  EmailInv'
<1>1. \A q \in Processes : q # p => run'[q] = run[q]
  BY DEF EmailInv, EmailTypeOK
<1>2. RunsSound'
  BY <1>1 DEF EmailInv, RunsSound, RunSound
<1>3. \A q \in Processes : run'[q].mail = run[q].mail
  BY <1>1 DEF EmailInv, EmailTypeOK
<1>4. Counted'
  BY <1>3, QuietCount DEF Known
<1> QED  BY <1>2, <1>4 DEF EmailInv

(* What a run is to send is not recorded.                                  *)
LEMMA ToSendSound ==
  ASSUME EmailInv, NEW p \in Processes, NEW e \in EmailIds
  PROVE  /\ ToSend(p, e) \subseteq Mails \ recorded
         /\ \A m \in ToSend(p, e) : m[1] = e
  BY DEF EmailInv, EmailTypeOK, Run, ToSend

(* A run takes the lock of an email.                                       *)
LEMMA TakeEmailStep ==
  ASSUME EmailInv, NEW p \in Processes, NEW e \in EmailIds, TakeEmail(p, e)
  PROVE  EmailInv'
<1> DEFINE S == ToSend(p, e)
           r == [run[p] EXCEPT !.stage = IF S = {} THEN "next" ELSE "send",
                               !.emails = @ \ {e}, !.mails = S]
<1>1. S \subseteq Mails \ recorded /\ \A m \in S : m[1] = e
  BY ToSendSound
<1>2. /\ run' = [run EXCEPT ![p] = r]
      /\ lockedBy' = [lockedBy EXCEPT ![e] = run[p].guard]
      /\ UNCHANGED <<approved, due, recorded, mailed, emailKills>>
      /\ run[p].stage = "next"
      /\ lockedBy[e] \in {NoConnection, run[p].guard}
  BY DEF TakeEmail, SetRun, MayTake
<1> HIDE DEF S
<1>3. run[p] \in Run
  BY DEF EmailInv, EmailTypeOK
<1>4. r \in Run /\ r.mails = S /\ r.mail = run[p].mail /\ r.guard = run[p].guard
      /\ r.stage = IF S = {} THEN "next" ELSE "send"
  BY <1>1, <1>3 DEF Run
<1> HIDE DEF r
<1>5. run[p].mail = {} /\ run[p].guard \in PoolOf[p] /\ run[p].guard \in Connections
  BY <1>2, EmailAssumption DEF EmailInv, RunsSound, RunSound, EmailAssumption
<1>6. EmailTypeOK'
  BY <1>2, <1>4, <1>5 DEF EmailInv, EmailTypeOK
<1>7. RunsSound'
  <2> SUFFICES ASSUME NEW q \in Processes  PROVE  RunSound(q)'
    BY DEF RunsSound
  <2>1. CASE q = p
    <3>1. run'[p] = r
      BY <1>2 DEF EmailInv, EmailTypeOK
    <3>2. lockedBy'[e] = run[p].guard
      BY <1>2 DEF EmailInv, EmailTypeOK
    <3> QED  BY <2>1, <3>1, <3>2, <1>1, <1>2, <1>4, <1>5 DEF RunSound
  <2>2. CASE q # p
    <3>1. run'[q] = run[q] /\ RunSound(q)
      BY <2>2, <1>2 DEF EmailInv, EmailTypeOK, RunsSound
    <3>2. ASSUME NEW m \in run[q].mails  PROVE  lockedBy'[m[1]] = lockedBy[m[1]]
      <4>1. run[q].guard \in PoolOf[q] /\ lockedBy[m[1]] = run[q].guard
        BY <3>1 DEF RunSound
      <4>2. lockedBy[m[1]] \notin {NoConnection, run[p].guard}
        BY <4>1, <1>5, <2>2, EmailAssumption DEF EmailAssumption
      <4> QED  BY <4>2, <1>2 DEF EmailInv, EmailTypeOK
    <3> QED  BY <3>1, <3>2, <1>2 DEF RunSound
  <2> QED  BY <2>1, <2>2
<1>8. Counted'
  <2>1. \A q \in Processes : run'[q].mail = run[q].mail
    BY <1>2, <1>4 DEF EmailInv, EmailTypeOK
  <2> QED  BY <2>1, <1>2, QuietCount DEF Known
<1> QED  BY <1>6, <1>7, <1>8 DEF EmailInv

(* A run leaves an email to the one that has the lock.                     *)
LEMMA SkipEmailStep ==
  ASSUME EmailInv, NEW p \in Processes, NEW e \in EmailIds, SkipEmail(p, e)
  PROVE  EmailInv'
<1> DEFINE r == [run[p] EXCEPT !.emails = @ \ {e}]
<1>1. /\ run' = [run EXCEPT ![p] = r]
      /\ UNCHANGED <<approved, due, recorded, mailed, lockedBy, emailKills>>
  BY DEF SkipEmail, SetRun
<1>2. r \in Run /\ r.mail = run[p].mail
  BY DEF EmailInv, EmailTypeOK, Run
<1>3. EmailTypeOK' /\ run'[p] = r
  BY <1>1, <1>2 DEF EmailInv, EmailTypeOK
<1>4. RunSound(p)'
  BY <1>1, <1>3 DEF EmailInv, EmailTypeOK, Run, RunsSound, RunSound
<1> HIDE DEF r
<1> QED  BY <1>1, <1>2, <1>3, <1>4, OwnStep

(* A run is over, and its connection keeps its locks.                      *)
LEMMA EndRunStep ==
  ASSUME EmailInv, NEW p \in Processes, EndRun(p)
  PROVE  EmailInv'
<1>1. /\ run' = [run EXCEPT ![p] = NoRun]
      /\ UNCHANGED <<approved, due, recorded, mailed, lockedBy, emailKills>>
  BY DEF EndRun, SetRun
<1>2. NoRun \in Run /\ NoRun.mail = run[p].mail
  BY NoRunIsRun DEF EmailInv, RunsSound, RunSound, EndRun, NoRun
<1>3. EmailTypeOK' /\ run'[p] = NoRun
  BY <1>1, <1>2 DEF EmailInv, EmailTypeOK
<1>4. RunSound(p)'
  BY <1>3 DEF RunSound, NoRun
<1> QED  BY <1>1, <1>2, <1>3, <1>4, OwnStep

(* SES takes a mail that was not known before: it is on the list of this   *)
(* run, so not recorded, and on no other.                                  *)
LEMMA SesTakesStep ==
  ASSUME EmailInv, NEW p \in Processes, NEW m \in Mails, SesTakes(p, m)
  PROVE  EmailInv'
<1> DEFINE r == [run[p] EXCEPT !.stage = "record", !.mail = {m}]
<1>1. /\ run' = [run EXCEPT ![p] = r]
      /\ mailed' = [mailed EXCEPT ![m] = @ + 1]
      /\ UNCHANGED <<approved, due, recorded, lockedBy, emailKills>>
      /\ run[p].stage = "send" /\ m \in run[p].mails
  BY DEF SesTakes, SetRun
<1>2. r \in Run /\ r.stage = "record" /\ r.mail = {m} /\ r.mails = run[p].mails
      /\ r.guard = run[p].guard
  BY DEF EmailInv, EmailTypeOK, Run
<1> HIDE DEF r
<1>3. run'[p] = r /\ \A q \in Processes : q # p => run'[q] = run[q]
  BY <1>1 DEF EmailInv, EmailTypeOK
<1>4. EmailTypeOK'
  BY <1>1, <1>2 DEF EmailInv, EmailTypeOK
<1>5. RunsSound'
  BY <1>1, <1>2, <1>3 DEF EmailInv, RunsSound, RunSound
<1>6. ~Known(m)
  BY <1>1, OneSender DEF EmailInv, RunsSound, RunSound, Known
<1>7. run[p].mail = {}
  BY <1>1 DEF EmailInv, RunsSound, RunSound
<1>8. Counted'
  <2> SUFFICES ASSUME NEW n \in Mails
               PROVE  mailed'[n] <= emailKills + 1 /\ (~Known(n)' => mailed'[n] <= emailKills)
    BY <1>1 DEF Counted
  <2>1. CASE n = m
    <3>1. Known(n)'
      BY <2>1, <1>2, <1>3 DEF Known
    <3> QED  BY <3>1, <2>1, <1>1, <1>6 DEF EmailInv, EmailTypeOK, Counted
  <2>2. CASE n # m
    <3>1. Known(n) => Known(n)'
      BY <1>1, <1>3, <1>7 DEF Known
    <3> QED  BY <3>1, <2>2, <1>1 DEF EmailInv, EmailTypeOK, Counted
  <2> QED  BY <2>1, <2>2
<1> QED  BY <1>4, <1>5, <1>8 DEF EmailInv

(* The run that is done with a mail, whether it has recorded it or not.    *)
LEMMA DoneStep ==
  ASSUME EmailInv, NEW p \in Processes, NEW m \in Mails, NEW X \in SUBSET {m},
         m \in run[p].mails, run[p].mail \subseteq X,
         run' = [run EXCEPT ![p] = DoneWith(p, m)], recorded' = recorded \cup X,
         UNCHANGED <<approved, due, mailed, lockedBy, emailKills>>
  PROVE  EmailInv'
<1> DEFINE r == DoneWith(p, m)
<1>1. r \in Run /\ r.mail = {} /\ r.mails = run[p].mails \ {m} /\ r.guard = run[p].guard
      /\ r.stage = IF run[p].mails = {m} THEN "next" ELSE "send"
  BY DEF EmailInv, EmailTypeOK, Run, DoneWith
<1> HIDE DEF r
<1>2. run'[p] = r /\ \A q \in Processes : q # p => run'[q] = run[q]
  BY DEF EmailInv, EmailTypeOK, r
<1>3. EmailTypeOK'
  BY <1>1 DEF EmailInv, EmailTypeOK, r
<1>4. RunsSound'
  <2> SUFFICES ASSUME NEW q \in Processes  PROVE  RunSound(q)'
    BY DEF RunsSound
  <2>1. CASE q = p
    <3>1. run[p].stage # "idle"
      BY DEF EmailInv, RunsSound, RunSound
    <3> QED  BY <3>1, <2>1, <1>1, <1>2 DEF EmailInv, RunsSound, RunSound
  <2>2. CASE q # p
    <3>1. m \notin run[q].mails
      BY <2>2, OneSender
    <3> QED  BY <3>1, <2>2, <1>2 DEF EmailInv, RunsSound, RunSound
  <2> QED  BY <2>1, <2>2
<1>5. Counted'
  <2>1. ASSUME NEW n \in Mails, Known(n)  PROVE  Known(n)'
    BY <2>1, <1>2 DEF Known
  <2> QED  BY <2>1, QuietCount
<1> QED  BY <1>3, <1>4, <1>5 DEF EmailInv

(* SES refuses a mail.                                                     *)
LEMMA SesRefusesStep ==
  ASSUME EmailInv, NEW p \in Processes, NEW m \in Mails, SesRefuses(p, m)
  PROVE  EmailInv'
<1>1. run[p].mail = {}
  BY DEF EmailInv, RunsSound, RunSound, SesRefuses
<1> QED  BY <1>1, DoneStep DEF SesRefuses, Refused, SetRun

(* A mail that SES took is recorded.                                       *)
LEMMA RecordEmailStep ==
  ASSUME EmailInv, NEW p \in Processes, RecordEmail(p)
  PROVE  EmailInv'
<1>1. PICK m \in run[p].mail : run' = [run EXCEPT ![p] = DoneWith(p, m)]
  BY DEF RecordEmail, SetRun
<1>2. run[p].mail = {m} /\ m \in run[p].mails /\ m \in Mails
  BY <1>1 DEF EmailInv, EmailTypeOK, Run, RunsSound, RunSound
<1> QED  BY <1>1, <1>2, DoneStep DEF RecordEmail

(* A pool closes connections that no run uses.                             *)
LEMMA ReleasedKeeps ==
  ASSUME EmailInv, NEW C, Released(C), NEW q \in Processes, run[q].guard \notin C,
         NEW m \in run[q].mails
  PROVE  lockedBy'[m[1]] = run[q].guard
<1>1. m \in Mails /\ lockedBy[m[1]] = run[q].guard
  BY DEF EmailInv, EmailTypeOK, Run, RunsSound, RunSound
<1>2. m[1] \in EmailIds
  BY <1>1 DEF Mails
<1> QED  BY <1>1, <1>2 DEF Released

(* The pool closes a connection, and its locks are gone.                   *)
LEMMA RecycleStep ==
  ASSUME EmailInv, NEW c \in Connections, Recycle(c)
  PROVE  EmailInv'
<1>1. EmailTypeOK'
  BY DEF EmailInv, EmailTypeOK, Recycle, Released
<1>2. RunsSound'
  <2>1. \A q \in Processes : \A m \in run[q].mails : lockedBy'[m[1]] = run[q].guard
    BY ReleasedKeeps DEF Recycle
  <2> QED  BY <2>1 DEF EmailInv, RunsSound, RunSound, Recycle
<1>3. Counted'
  BY QuietCount DEF Recycle, Known
<1> QED  BY <1>1, <1>2, <1>3 DEF EmailInv

(* A killed process forgets what SES took: the kill pays for it.           *)
LEMMA KillProcessStep ==
  ASSUME EmailInv, NEW p \in Processes, KillProcess(p)
  PROVE  EmailInv'
<1>1. /\ run' = [run EXCEPT ![p] = NoRun] /\ Released(PoolOf[p])
      /\ emailKills' = emailKills + 1 /\ emailKills < MaxEmailKills
      /\ UNCHANGED <<approved, due, recorded, mailed>>
  BY DEF KillProcess, SetRun
<1>2. run'[p] = NoRun /\ \A q \in Processes : q # p => run'[q] = run[q]
  BY <1>1 DEF EmailInv, EmailTypeOK
<1>3. EmailTypeOK'
  BY <1>1, NoRunIsRun, EmailAssumption DEF EmailInv, EmailTypeOK, Released, EmailAssumption
<1>4. RunsSound'
  <2> SUFFICES ASSUME NEW q \in Processes  PROVE  RunSound(q)'
    BY DEF RunsSound
  <2>1. CASE q = p
    BY <2>1, <1>2 DEF RunSound, NoRun
  <2>2. CASE q # p
    <3>1. \A m \in run[q].mails : lockedBy'[m[1]] = run[q].guard
      <4>1. SUFFICES ASSUME NEW m \in run[q].mails  PROVE  lockedBy'[m[1]] = run[q].guard
        OBVIOUS
      <4>2. run[q].guard \in PoolOf[q]
        BY <4>1 DEF EmailInv, RunsSound, RunSound
      <4>3. run[q].guard \notin PoolOf[p]
        BY <4>2, <2>2, EmailAssumption DEF EmailAssumption
      <4> QED  BY <4>3, <1>1, ReleasedKeeps
    <3> QED  BY <3>1, <2>2, <1>1, <1>2 DEF EmailInv, RunsSound, RunSound
  <2> QED  BY <2>1, <2>2
<1>5. Counted'
  BY <1>1, EmailAssumption DEF EmailInv, EmailTypeOK, Counted, EmailAssumption
<1> QED  BY <1>3, <1>4, <1>5 DEF EmailInv

-----------------------------------------------------------------------------
(* Every step keeps the invariant.                                         *)
LEMMA EmailStep == EmailInv /\ [EmailNext]_emailVars => EmailInv'
<1> SUFFICES ASSUME EmailInv, [EmailNext]_emailVars  PROVE  EmailInv'
  OBVIOUS
<1>1. ASSUME NEW e \in EmailIds, Approve(e) \/ Unapprove(e)  PROVE  EmailInv'
  BY <1>1, OutsideStep DEF Approve, Unapprove, EmailInv, EmailTypeOK
<1>2. ASSUME NEW m \in Mails, RowChanges(m)  PROVE  EmailInv'
  BY <1>2, OutsideStep DEF RowChanges, EmailInv, EmailTypeOK
<1>3. ASSUME NEW p \in Processes, StartRun(p)  PROVE  EmailInv'
  BY <1>3, StartRunStep
<1>4. ASSUME NEW p \in Processes, RunStep(p)  PROVE  EmailInv'
  BY <1>4, TakeEmailStep, SkipEmailStep, SesTakesStep, SesRefusesStep, RecordEmailStep,
     EndRunStep DEF RunStep
<1>5. ASSUME NEW p \in Processes, KillProcess(p)  PROVE  EmailInv'
  BY <1>5, KillProcessStep
<1>6. ASSUME NEW c \in Connections, Recycle(c)  PROVE  EmailInv'
  BY <1>6, RecycleStep
<1>7. CASE UNCHANGED emailVars
  BY <1>7 DEF emailVars, EmailInv, EmailTypeOK, RunsSound, RunSound, Counted, Known
<1> QED  BY <1>1, <1>2, <1>3, <1>4, <1>5, <1>6, <1>7 DEF EmailNext

(* The variables of the emails keep their types (send_automated_emails).   *)
THEOREM EmailTypeCorrect == EmailSpec => []EmailTypeOK
<1>1. EmailInv => EmailTypeOK
  BY DEF EmailInv
<1> QED  BY <1>1, EmailInitInv, EmailStep, PTL DEF EmailSpec

(* Nobody gets an email twice, apart from one more time for each process   *)
(* killed between SES and the record (send_automated_emails).              *)
THEOREM MailsAreSentOnce == EmailSpec => []SentOnce
<1>1. EmailInv => SentOnce
  BY DEF EmailInv, EmailTypeOK, Counted, SentOnce
<1> QED  BY <1>1, EmailInitInv, EmailStep, PTL DEF EmailSpec
================================================================================
