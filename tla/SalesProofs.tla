------------------------------ MODULE SalesProofs ------------------------------
(***************************************************************************)
(* Proofs about the two offices that add up money, and about all six.      *)
(* Card terminals, for any number of sales, buyers, costs and kills: a sale*)
(* that is over has recorded what the card was charged for it, and sales   *)
(* one after the other charge no more than is owed; the invariant follows  *)
(* a sale and its rows stage by stage (SaleSound), the hash of the terminal*)
(* (InTurn), and what the others leave for it to ask (OwedSound).  The art *)
(* show, for any number of pieces, receipts, payments and desks: what is   *)
(* marked as paid is booked once; the invariant follows a receipt from     *)
(* open to closed, booked and open again (ReceiptSound).                   *)
(***************************************************************************)
EXTENDS MCOffices, OfficesProofs, SumTheorems

-----------------------------------------------------------------------------
(***************************************************************************)
(* TerminalSale                                                            *)
(***************************************************************************)

RowAmounts(s) == [b \in Buyers |-> rows[s][b].amount]

(* What is recorded as paid on a receipt, sale by sale.                    *)
RowPaid(s, b) == IF rows[s][b].charged /\ ~rows[s][b].cancelled THEN rows[s][b].amount ELSE 0
PaidColumn(b) == [s \in SaleIds |-> RowPaid(s, b)]
PaidByOthers(s, b) == SumFunctionOnSet(PaidColumn(b), SaleIds \ {s})

(* A sale and its rows, stage by stage.                                    *)
SaleSound(s) ==
  /\ stage[s] \in {"none", "queued"} => terminal[s] = "idle" /\ asked[s] = Nothing
  /\ stage[s] \in {"sent", "lost"} => terminal[s] # "idle"
  /\ stage[s] \in {"sent", "lost"} /\ terminal[s] \in {"approved", "unsigned"} => captured[s] > 0
  /\ stage[s] \in {"fit", "mark"} => terminal[s] \in {"approved", "unsigned"} /\ captured[s] > 0
  /\ stage[s] = "void" => terminal[s] = "unsigned" /\ captured[s] > 0
  /\ stage[s] = "done" => terminal[s] # "asked"
  /\ terminal[s] \in {"idle", "asked", "declined"} => captured[s] = 0
  /\ captured[s] <= SumOver(asked[s])
  /\ \A b \in Buyers : rows[s][b].amount <= asked[s][b]
  /\ \A b \in Buyers : rows[s][b].charged => Exists(rows[s][b])
  /\ stage[s] \in {"none", "queued", "sent"} => \A b \in Buyers : ~Exists(rows[s][b])
  /\ stage[s] \in {"lost", "fit", "void"} => \A b \in Buyers : ~rows[s][b].charged
  /\ stage[s] = "mark" => SumOver(RowAmounts(s)) = captured[s]
  /\ stage[s] = "done" => SumFunctionOnSet(RowAmounts(s), ChargedRows(s)) = captured[s]
  /\ stage[s] = "dead" /\ captured[s] = 0 => \A b \in Buyers : ~rows[s][b].charged

(* A sale that is worked on, or may still be checked.                      *)
InFlight(s) == stage[s] \notin Ended \/ (stage[s] = "lost" /\ hash.intent = s)

(* Without overlap there is one such sale, and the hash is about it; so a  *)
(* poll cancels no charged row but after a partial approval.               *)
HashSound(s) ==
  /\ stage[s] = "queued" => hash.intent = NoSale /\ ~hash.error
  /\ stage[s] \in {"sent", "fit", "mark", "void"} => hash.intent = s
  /\ stage[s] = "sent" => ~hash.error
  /\ stage[s] = "sent" => \A tb \in superseded[s] : ~rows[tb[1]][tb[2]].charged
  /\ stage[s] \in {"fit", "mark"} /\ ~Partial(s) => ~hash.error
  /\ stage[s] = "done" /\ hash.intent = s /\ ~Partial(s) /\ ChargedRows(s) # {} => ~hash.error
  /\ stage[s] \in {"mark", "done"} /\ ~Partial(s) =>
       \A b \in ChargedRows(s) : ~rows[s][b].cancelled

InTurn ==
  /\ \A s, t \in SaleIds : InFlight(s) /\ InFlight(t) => s = t
  /\ \A s \in SaleIds : HashSound(s)

(* What this sale took is not known, or not recorded, and never will be.   *)
Gone(s) ==
  /\ captured[s] > 0
  /\ \/ stage[s] = "dead" \/ (stage[s] = "lost" /\ hash.intent # s)
     \/ \E b \in ChargedRows(s) : rows[s][b].cancelled

(* Otherwise no buyer is asked for more than the other sales left.         *)
OwedSound ==
  /\ \A b \in Buyers : PaidBy(b) <= Costs[b]
  /\ \A s \in SaleIds : InFlight(s) =>
       \A b \in Buyers : PaidByOthers(s, b) + asked[s][b] <= Costs[b]

TerminalInv ==
  /\ TerminalTypeOK
  /\ \A s \in SaleIds : SaleSound(s)
  /\ ~salesOverlap => InTurn
  /\ ~salesOverlap /\ (\A s \in SaleIds : ~Gone(s)) => OwedSound

-----------------------------------------------------------------------------
(* Lemmas about the operators                                              *)

(* All is what the receipts add up to, and no receipt is more.             *)
LEMMA AllType ==
  /\ IsFiniteSet(SaleIds) /\ IsFiniteSet(Buyers) /\ NoSale \notin SaleIds
  /\ All \in Nat
  /\ \A b \in Buyers : Costs[b] \in Nat /\ Costs[b] > 0 /\ Costs[b] <= All
  /\ Nothing \in [Buyers -> 0 .. All] /\ SumOver(Nothing) = 0
<1>1. /\ IsFiniteSet(SaleIds) /\ IsFiniteSet(Buyers) /\ NoSale \notin SaleIds
      /\ \A b \in Buyers : Costs[b] \in Nat /\ Costs[b] > 0
  BY TerminalAssumption DEF TerminalAssumption
<1>2. All \in Nat
  BY <1>1, SumNat DEF All, SumOver
<1>3. ASSUME NEW b \in Buyers  PROVE Costs[b] <= All
  <2>1. SumFunctionOnSet(Costs, Buyers) = Costs[b] + SumFunctionOnSet(Costs, Buyers \ {b})
    BY <1>1, SumWithout
  <2>2. SumFunctionOnSet(Costs, Buyers \ {b}) \in Nat
    <3>1. IsFiniteSet(Buyers \ {b}) /\ \A c \in Buyers \ {b} : Costs[c] \in Nat
      BY <1>1, FS_Subset
    <3> QED  BY <3>1, SumNat
  <2> QED  BY <1>1, <1>2, <2>1, <2>2 DEF All, SumOver
<1>4. Nothing \in [Buyers -> 0 .. All] /\ \A b \in Buyers : Nothing[b] = 0
  BY <1>2 DEF Nothing
<1>5. SumOver(Nothing) = 0
  BY <1>1, <1>4, SumZero DEF SumOver
<1> QED  BY <1>1, <1>2, <1>3, <1>4, <1>5

(* A column of payments adds up, with any of them taken out first.         *)
LEMMA ColumnType ==
  ASSUME NEW c, \A t \in SaleIds : c[t] \in Nat
  PROVE  /\ SumFunctionOnSet(c, SaleIds) \in Nat
         /\ \A s \in SaleIds :
              /\ SumFunctionOnSet(c, SaleIds \ {s}) \in Nat
              /\ SumFunctionOnSet(c, SaleIds) = SumFunctionOnSet(c, SaleIds \ {s}) + c[s]
<1>1. SumFunctionOnSet(c, SaleIds) \in Nat
  BY AllType, SumNat
<1>2. ASSUME NEW s \in SaleIds
      PROVE  /\ SumFunctionOnSet(c, SaleIds \ {s}) \in Nat
             /\ SumFunctionOnSet(c, SaleIds) = SumFunctionOnSet(c, SaleIds \ {s}) + c[s]
  <2>1. IsFiniteSet(SaleIds \ {s}) /\ \A t \in SaleIds \ {s} : c[t] \in Nat
    BY AllType, FS_Subset
  <2>2. SumFunctionOnSet(c, SaleIds \ {s}) \in Nat
    BY <2>1, SumNat
  <2>3. SumFunctionOnSet(c, SaleIds) = c[s] + SumFunctionOnSet(c, SaleIds \ {s})
    BY AllType, SumWithout
  <2>4. c[s] \in Nat
    OBVIOUS
  <2> QED  BY <2>2, <2>3, <2>4
<1> QED  BY <1>1, <1>2

(* A row has an amount, and so has what is paid.                           *)
LEMMA PaidType ==
  ASSUME TerminalTypeOK
  PROVE  /\ \A s \in SaleIds, b \in Buyers :
              /\ rows[s][b] \in [amount : 0 .. All, charged : BOOLEAN, cancelled : BOOLEAN]
              /\ rows[s][b].amount \in Nat /\ RowPaid(s, b) \in Nat
              /\ PaidColumn(b)[s] = RowPaid(s, b)
         /\ \A b \in Buyers :
              /\ PaidBy(b) = SumFunctionOnSet(PaidColumn(b), SaleIds)
              /\ PaidBy(b) \in Nat /\ Owed(b) \in 0 .. All /\ Owed(b) <= Costs[b]
              /\ PaidBy(b) <= Costs[b] => Owed(b) = Costs[b] - PaidBy(b)
         /\ \A s \in SaleIds, b \in Buyers :
              /\ PaidByOthers(s, b) \in Nat
              /\ PaidBy(b) = PaidByOthers(s, b) + RowPaid(s, b)
<1>1. ASSUME NEW s \in SaleIds, NEW b \in Buyers
      PROVE  /\ rows[s][b] \in [amount : 0 .. All, charged : BOOLEAN, cancelled : BOOLEAN]
             /\ rows[s][b].amount \in Nat /\ RowPaid(s, b) \in Nat
             /\ PaidColumn(b)[s] = RowPaid(s, b)
  BY AllType DEF TerminalTypeOK, RowPaid, PaidColumn
<1>2. \A b \in Buyers : PaidBy(b) = SumFunctionOnSet(PaidColumn(b), SaleIds)
  BY DEF PaidBy, PaidColumn, RowPaid
<1>3. ASSUME NEW b \in Buyers
      PROVE  /\ SumFunctionOnSet(PaidColumn(b), SaleIds) \in Nat
             /\ \A s \in SaleIds :
                  /\ PaidByOthers(s, b) \in Nat
                  /\ SumFunctionOnSet(PaidColumn(b), SaleIds) = PaidByOthers(s, b) + RowPaid(s, b)
  BY <1>1, ColumnType DEF PaidByOthers
<1>4. ASSUME NEW b \in Buyers
      PROVE  /\ Owed(b) \in 0 .. All /\ Owed(b) <= Costs[b]
             /\ PaidBy(b) <= Costs[b] => Owed(b) = Costs[b] - PaidBy(b)
  BY <1>2, <1>3, AllType DEF Owed
<1> QED  BY <1>1, <1>2, <1>3, <1>4

(* What is asked adds up to a natural number.                              *)
LEMMA AskedType ==
  ASSUME NEW f \in [Buyers -> 0 .. All]
  PROVE  SumOver(f) \in Nat
<1>1. \A b \in Buyers : f[b] \in Nat
  BY AllType
<1> QED  BY <1>1, AllType, SumNat DEF SumOver

(* The steps of sale s leave the other sales alone, but for the rows of    *)
(* theirs that they cancel, and ...                                        *)
LeavesOthers(s) ==
  \A t \in SaleIds \ {s} :
    /\ stage'[t] = stage[t] /\ asked'[t] = asked[t] /\ terminal'[t] = terminal[t]
    /\ captured'[t] = captured[t]
    /\ \A b \in Buyers : /\ rows'[t][b].amount = rows[t][b].amount
                         /\ rows'[t][b].charged = rows[t][b].charged

(* ... without overlap these were not charged.                             *)
LeavesCharged(s) ==
  \A t \in SaleIds \ {s}, b \in Buyers :
    rows[t][b].charged => rows'[t][b].cancelled = rows[t][b].cancelled

(* Nothing of a sale changes but that rows are cancelled.                  *)
LEMMA SaleKept ==
  ASSUME NEW t \in SaleIds, SaleSound(t), stage'[t] = stage[t], asked'[t] = asked[t],
         terminal'[t] = terminal[t], captured'[t] = captured[t],
         \A b \in Buyers : /\ rows'[t][b].amount = rows[t][b].amount
                           /\ rows'[t][b].charged = rows[t][b].charged
  PROVE  SaleSound(t)'
<1>1. RowAmounts(t)' = RowAmounts(t) /\ ChargedRows(t)' = ChargedRows(t)
  BY DEF RowAmounts, ChargedRows
<1>2. (stage[t] = "mark" => SumOver(RowAmounts(t)) = captured[t])' /\
      (stage[t] = "done" => SumFunctionOnSet(RowAmounts(t), ChargedRows(t)) = captured[t])'
  BY <1>1 DEF SaleSound, SumOver
<1> QED  BY <1>2 DEF SaleSound, SumOver, Exists, Nothing

(* Who is in flight is alone, and the hash is not about another sale.      *)
LEMMA InFlightAlone ==
  ASSUME InTurn, NEW s \in SaleIds, InFlight(s), TerminalTypeOK
  PROVE  /\ \A t \in SaleIds \ {s} : stage[t] \in Ended /\ hash.intent # t
         /\ hash.intent \in {s, NoSale}
<1>1. \A t \in SaleIds \ {s} : ~InFlight(t)
  BY DEF InTurn
<1>2. hash.intent \in {s, NoSale}
  <2>1. CASE stage[s] = "lost"
    BY <2>1 DEF InFlight, Ended
  <2>2. CASE stage[s] # "lost"
    BY <2>2 DEF InFlight, Ended, InTurn, HashSound, TerminalTypeOK
  <2> QED  BY <2>1, <2>2
<1> QED  BY <1>1, <1>2, AllType DEF InFlight

(* The same after a step.                                                  *)
LEMMA PaidNextType ==
  ASSUME TerminalTypeOK'
  PROVE  /\ \A s \in SaleIds, b \in Buyers :
              RowPaid(s, b)' \in Nat /\ PaidColumn(b)'[s] = RowPaid(s, b)'
         /\ \A b \in Buyers :
              /\ PaidBy(b)' = SumFunctionOnSet(PaidColumn(b)', SaleIds)
              /\ PaidBy(b)' \in Nat
         /\ \A s \in SaleIds, b \in Buyers :
              /\ PaidByOthers(s, b)' \in Nat
              /\ PaidByOthers(s, b)' = SumFunctionOnSet(PaidColumn(b)', SaleIds \ {s})
              /\ PaidBy(b)' = PaidByOthers(s, b)' + RowPaid(s, b)'
<1>1. ASSUME NEW s \in SaleIds, NEW b \in Buyers
      PROVE  RowPaid(s, b)' \in Nat /\ PaidColumn(b)'[s] = RowPaid(s, b)'
  BY AllType DEF TerminalTypeOK, RowPaid, PaidColumn
<1>2. \A b \in Buyers : PaidBy(b)' = SumFunctionOnSet(PaidColumn(b)', SaleIds)
  BY DEF PaidBy, PaidColumn, RowPaid
<1>3. \A s \in SaleIds, b \in Buyers :
        PaidByOthers(s, b)' = SumFunctionOnSet(PaidColumn(b)', SaleIds \ {s})
  BY DEF PaidByOthers, PaidColumn, RowPaid
<1>4. ASSUME NEW b \in Buyers
      PROVE  /\ SumFunctionOnSet(PaidColumn(b)', SaleIds) \in Nat
             /\ \A s \in SaleIds :
                  /\ SumFunctionOnSet(PaidColumn(b)', SaleIds \ {s}) \in Nat
                  /\ SumFunctionOnSet(PaidColumn(b)', SaleIds) =
                       SumFunctionOnSet(PaidColumn(b)', SaleIds \ {s}) + PaidColumn(b)'[s]
  BY <1>1, ColumnType
<1> QED  BY <1>1, <1>2, <1>3, <1>4

(* What is paid in other sales, or in all, grows only if a payment does.   *)
LEMMA PaidGrows ==
  ASSUME TerminalTypeOK, TerminalTypeOK', NEW b \in Buyers, NEW S \in SUBSET SaleIds,
         \A t \in S : RowPaid(t, b)' <= RowPaid(t, b)
  PROVE  SumFunctionOnSet(PaidColumn(b)', S) <= SumFunctionOnSet(PaidColumn(b), S)
<1>1. IsFiniteSet(S)
  BY AllType, FS_Subset
<1>2. \A t \in S : /\ PaidColumn(b)'[t] \in Int /\ PaidColumn(b)[t] \in Int
                   /\ PaidColumn(b)'[t] <= PaidColumn(b)[t]
  BY PaidType, PaidNextType
<1> QED  BY <1>1, <1>2, SumAtMost

(* What is paid does not grow, and no more sales are in flight.            *)
LEMMA OwedKept ==
  ASSUME TerminalTypeOK, TerminalTypeOK', OwedSound,
         \A t \in SaleIds, b \in Buyers : RowPaid(t, b)' <= RowPaid(t, b),
         \A t \in SaleIds : InFlight(t)' => InFlight(t) /\ asked'[t] = asked[t]
  PROVE  OwedSound'
<1>1. ASSUME NEW b \in Buyers  PROVE PaidBy(b)' <= Costs[b]
  <2>1. PaidBy(b)' <= PaidBy(b)
    BY PaidGrows, PaidType, PaidNextType
  <2> QED  BY <2>1, PaidType, PaidNextType, AllType DEF OwedSound
<1>2. ASSUME NEW t \in SaleIds, InFlight(t)', NEW b \in Buyers
      PROVE  PaidByOthers(t, b)' + asked'[t][b] <= Costs[b]
  <2>1. PaidByOthers(t, b)' <= PaidByOthers(t, b)
    BY PaidGrows, PaidNextType DEF PaidByOthers
  <2>2. PaidByOthers(t, b) + asked[t][b] <= Costs[b] /\ asked'[t] = asked[t]
    BY <1>2 DEF OwedSound
  <2>3. asked[t][b] \in Nat /\ PaidByOthers(t, b) \in Nat /\ PaidByOthers(t, b)' \in Nat
    <3>1. asked[t] \in [Buyers -> 0 .. All]
      BY DEF TerminalTypeOK
    <3>2. asked[t][b] \in Nat
      BY <3>1, AllType
    <3> QED  BY <3>2, PaidType, PaidNextType
  <2>4. Costs[b] \in Nat /\ asked'[t][b] = asked[t][b]
    BY <2>2, AllType
  <2> QED  BY <2>1, <2>2, <2>3, <2>4
<1> QED  BY <1>1, <1>2 DEF OwedSound

(* The steps of a sale in its turn.  It is enough to know what becomes of  *)
(* the sale itself.                                                        *)
LEMMA SaleStep ==
  ASSUME TerminalInv, TerminalTypeOK', NEW s \in SaleIds, LeavesOthers(s), SaleSound(s)',
         salesOverlap => salesOverlap',
         ~salesOverlap' =>
           /\ \A t \in SaleIds \ {s} : stage[t] \in Ended
           /\ hash'.intent \in {s, NoSale}
           /\ LeavesCharged(s) /\ HashSound(s)'
           /\ Gone(s) => Gone(s)',
         ~salesOverlap' /\ OwedSound => OwedSound'
  PROVE  TerminalInv'
<1>1. ASSUME NEW t \in SaleIds  PROVE SaleSound(t)'
  BY SaleKept DEF TerminalInv, LeavesOthers
<1>2. ASSUME ~salesOverlap'  PROVE InTurn'
  <2>1. ASSUME NEW t \in SaleIds \ {s}  PROVE stage'[t] \in Ended /\ hash'.intent # t
    BY <1>2, AllType DEF LeavesOthers
  <2>2. ASSUME NEW t \in SaleIds \ {s}  PROVE HashSound(t)'
    <3>1. stage[t] = stage'[t] /\ stage'[t] \in Ended /\ hash'.intent # t
      BY <2>1 DEF LeavesOthers
    <3>2. (Partial(t)' <=> Partial(t)) /\ ChargedRows(t)' = ChargedRows(t)
      BY DEF LeavesOthers, Partial, SumOver, ChargedRows
    <3>3. \A b \in ChargedRows(t) : rows'[t][b].cancelled = rows[t][b].cancelled
      BY <1>2 DEF LeavesCharged, ChargedRows
    <3>4. stage[t] = "done" /\ ~Partial(t) => \A b \in ChargedRows(t) : ~rows[t][b].cancelled
      BY <1>2 DEF TerminalInv, InTurn, HashSound
    <3> QED  BY <3>1, <3>2, <3>3, <3>4 DEF HashSound, Ended
  <2>3. \A t \in SaleIds \ {s} : ~InFlight(t)'
    BY <2>1 DEF InFlight
  <2>4. \A t \in SaleIds : HashSound(t)'
    BY <1>2, <2>2
  <2> QED  BY <2>3, <2>4 DEF InTurn
<1>3. ASSUME ~salesOverlap', \A t \in SaleIds : ~Gone(t)'  PROVE OwedSound'
  <2>1. ASSUME NEW t \in SaleIds \ {s}  PROVE ~Gone(t)
    <3>1. hash'.intent # t
      BY <1>3, AllType
    <3>2. ChargedRows(t)' = ChargedRows(t)
      BY DEF LeavesOthers, ChargedRows
    <3>3. \A b \in ChargedRows(t) : rows'[t][b].cancelled = rows[t][b].cancelled
      BY <1>3 DEF LeavesCharged, ChargedRows
    <3> QED  BY <1>3, <3>1, <3>2, <3>3 DEF Gone, LeavesOthers
  <2>2. ~Gone(s)
    BY <1>3
  <2> QED  BY <1>3, <2>1, <2>2 DEF TerminalInv
<1> QED  BY <1>1, <1>2, <1>3 DEF TerminalInv

-----------------------------------------------------------------------------
(* Steps                                                                   *)

(* Nothing is recorded, and no more is in flight than there was.           *)
LEMMA SameOwed ==
  ASSUME TerminalInv, TerminalTypeOK', NEW s \in SaleIds, LeavesOthers(s), OwedSound,
         LeavesCharged(s), hash'.intent \in {hash.intent, NoSale}, InFlight(s),
         asked'[s] = asked[s], \A b \in Buyers : RowPaid(s, b)' <= RowPaid(s, b)
  PROVE  OwedSound'
<1>1. ASSUME NEW t \in SaleIds, NEW b \in Buyers  PROVE RowPaid(t, b)' <= RowPaid(t, b)
  <2>1. CASE t = s
    BY <2>1
  <2>2. CASE t # s
    <3>1. RowPaid(t, b)' = RowPaid(t, b)
      BY <2>2 DEF LeavesOthers, LeavesCharged, RowPaid
    <3> QED  BY <3>1, PaidType DEF TerminalInv
  <2> QED  BY <2>1, <2>2
<1>2. ASSUME NEW t \in SaleIds, InFlight(t)'  PROVE InFlight(t) /\ asked'[t] = asked[t]
  <2>1. CASE t = s
    BY <2>1
  <2>2. CASE t # s
    BY <1>2, <2>2, AllType DEF LeavesOthers, InFlight
  <2> QED  BY <2>1, <2>2
<1> QED  BY <1>1, <1>2, OwedKept DEF TerminalInv

(* A sale is started.                                                      *)
LEMMA StartStep ==
  ASSUME TerminalInv, NEW s \in SaleIds, StartTerminalPayment(s)
  PROVE  TerminalInv'
<1>1. /\ stage[s] = "none" /\ stage' = [stage EXCEPT ![s] = "queued"] /\ hash' = NoHash
      /\ UNCHANGED <<asked, superseded, rows, terminal, captured, saleKills>>
      /\ salesOverlap' = (salesOverlap \/ \E t \in SaleIds : stage[t] \notin Ended)
  BY DEF StartTerminalPayment, Go
<1>2. /\ stage'[s] = "queued" /\ \A t \in SaleIds : t # s => stage'[t] = stage[t]
      /\ hash'.intent = NoSale /\ ~hash'.error
  BY <1>1 DEF TerminalInv, TerminalTypeOK, NoHash
<1>3. TerminalTypeOK'
  <2>1. stage' \in [SaleIds -> Ended \cup {"queued", "sent", "fit", "mark", "void"}]
    BY <1>1 DEF TerminalInv, TerminalTypeOK
  <2>2. hash' \in [intent : SaleIds \cup {NoSale}, error : BOOLEAN, response : BOOLEAN,
                   recorded : BOOLEAN]
    BY <1>1 DEF NoHash
  <2>3. salesOverlap' \in BOOLEAN
    BY <1>1
  <2> QED  BY <1>1, <2>1, <2>2, <2>3 DEF TerminalInv, TerminalTypeOK
<1>4. LeavesOthers(s) /\ LeavesCharged(s)
  BY <1>1, <1>2 DEF LeavesOthers, LeavesCharged
<1>5. /\ terminal[s] = "idle" /\ asked[s] = Nothing /\ captured[s] = 0 /\ ~Gone(s)
      /\ \A b \in Buyers : ~rows[s][b].charged
  BY <1>1 DEF TerminalInv, SaleSound, Exists, Gone
<1>6. SaleSound(s)'
  BY <1>1, <1>2, <1>5 DEF TerminalInv, SaleSound, SumOver, Exists, Nothing
<1>7. ~salesOverlap' => \A t \in SaleIds : stage[t] \in Ended
  BY <1>1
<1>8. HashSound(s)'
  BY <1>2 DEF HashSound
<1>9. ASSUME ~salesOverlap', OwedSound  PROVE OwedSound'
  <2>1. ASSUME NEW b \in Buyers, NEW t \in SaleIds
        PROVE  PaidBy(b)' = PaidBy(b) /\ PaidByOthers(t, b)' = PaidByOthers(t, b)
    BY <1>1 DEF PaidBy, PaidByOthers, PaidColumn, RowPaid
  <2>2. ASSUME NEW t \in SaleIds, InFlight(t)'  PROVE t = s
    BY <1>2, <1>7, <1>9, <2>2, AllType DEF InFlight
  <2>3. ASSUME NEW b \in Buyers  PROVE PaidByOthers(s, b) + asked'[s][b] <= Costs[b]
    <3>1. asked'[s][b] = 0
      BY <1>1, <1>5 DEF Nothing
    <3>2. PaidByOthers(s, b) <= PaidBy(b) /\ PaidBy(b) <= Costs[b]
      BY <1>9, PaidType DEF TerminalInv, OwedSound
    <3> QED  BY <3>1, <3>2, PaidType, AllType DEF TerminalInv
  <2>4. \A t \in SaleIds : InFlight(t)' =>
          \A b \in Buyers : PaidByOthers(t, b)' + asked'[t][b] <= Costs[b]
    BY <2>1, <2>2, <2>3
  <2>5. \A b \in Buyers : PaidBy(b)' <= Costs[b]
    BY <1>9, <2>1 DEF OwedSound
  <2> QED  BY <2>4, <2>5 DEF OwedSound
<1> QED  BY <1>1, <1>2, <1>3, <1>4, <1>5, <1>6, <1>7, <1>8, <1>9, SaleStep

(* Pending rows of other sales are cancelled; they are not charged.        *)
LEMMA CancelPending ==
  ASSUME TerminalTypeOK, NEW s \in SaleIds, NEW gone \in SUBSET Incomplete(s),
         rows' = [t \in SaleIds |-> [b \in Buyers |->
                   IF <<t, b>> \in gone THEN [rows[t][b] EXCEPT !.cancelled = TRUE]
                   ELSE rows[t][b]]]
  PROVE  /\ rows' \in [SaleIds -> [Buyers -> [amount : 0 .. All, charged : BOOLEAN,
                                              cancelled : BOOLEAN]]]
         /\ \A t \in SaleIds, b \in Buyers :
              /\ rows'[t][b].amount = rows[t][b].amount
              /\ rows'[t][b].charged = rows[t][b].charged
              /\ rows[t][b].charged \/ t = s => rows'[t][b].cancelled = rows[t][b].cancelled
              /\ RowPaid(t, b)' = RowPaid(t, b)
<1>1. ASSUME NEW t \in SaleIds, NEW b \in Buyers
      PROVE  /\ rows'[t][b] \in [amount : 0 .. All, charged : BOOLEAN, cancelled : BOOLEAN]
             /\ rows'[t][b].amount = rows[t][b].amount
             /\ rows'[t][b].charged = rows[t][b].charged
             /\ rows[t][b].charged \/ t = s => rows'[t][b].cancelled = rows[t][b].cancelled
             /\ RowPaid(t, b)' = RowPaid(t, b)
  <2>1. PICK row \in [amount : 0 .. All, charged : BOOLEAN, cancelled : BOOLEAN] : row = rows[t][b]
    BY DEF TerminalTypeOK
  <2>2. <<t, b>> \in gone => t # s /\ ~row.charged
    BY <2>1 DEF Incomplete, PendingCharge
  <2>3. rows'[t][b] = IF <<t, b>> \in gone THEN [row EXCEPT !.cancelled = TRUE] ELSE row
    BY <2>1
  <2> QED  BY <2>1, <2>2, <2>3 DEF RowPaid
<1>2. rows' \in [SaleIds -> [Buyers -> [amount : 0 .. All, charged : BOOLEAN,
                                        cancelled : BOOLEAN]]]
  BY <1>1
<1> QED  BY <1>1, <1>2

(* It is sent to the terminal, for what is owed.                           *)
LEMMA SendStep ==
  ASSUME TerminalInv, NEW s \in SaleIds, SendSale(s)
  PROVE  TerminalInv'
<1> DEFINE owed == [b \in Buyers |-> Owed(b)]
           kept == {tb \in Incomplete(s) : AsOwed(tb)}
           gone == {tb \in Incomplete(s) : ~AsOwed(tb)}
<1>1. /\ stage[s] = "queued" /\ stage' = [stage EXCEPT ![s] = "sent"]
      /\ asked' = [asked EXCEPT ![s] = owed] /\ superseded' = [superseded EXCEPT ![s] = kept]
      /\ hash' = [hash EXCEPT !.intent = s] /\ terminal' = [terminal EXCEPT ![s] = "asked"]
      /\ UNCHANGED <<captured, salesOverlap, saleKills>>
      /\ rows' = [t \in SaleIds |-> [b \in Buyers |->
                   IF <<t, b>> \in gone THEN [rows[t][b] EXCEPT !.cancelled = TRUE]
                   ELSE rows[t][b]]]
  BY DEF SendSale, Go
<1>2. /\ rows' \in [SaleIds -> [Buyers -> [amount : 0 .. All, charged : BOOLEAN,
                                           cancelled : BOOLEAN]]]
      /\ \A t \in SaleIds, b \in Buyers :
           /\ rows'[t][b].amount = rows[t][b].amount
           /\ rows'[t][b].charged = rows[t][b].charged
           /\ rows[t][b].charged => rows'[t][b].cancelled = rows[t][b].cancelled
           /\ RowPaid(t, b)' = RowPaid(t, b)
  <2>1. gone \in SUBSET Incomplete(s)
    OBVIOUS
  <2> HIDE DEF gone
  <2> QED  BY <1>1, <2>1, CancelPending DEF TerminalInv
<1>3. owed \in [Buyers -> 0 .. All] /\ kept \in SUBSET (SaleIds \X Buyers)
  BY PaidType DEF TerminalInv, Incomplete
<1>4. \A tb \in kept : tb[1] \in SaleIds /\ tb[2] \in Buyers /\ ~rows[tb[1]][tb[2]].charged
  BY DEF Incomplete, PendingCharge
<1> HIDE DEF owed, kept, gone
<1>5. /\ stage'[s] = "sent" /\ terminal'[s] = "asked" /\ asked'[s] = owed /\ superseded'[s] = kept
      /\ hash'.intent = s /\ hash'.error = hash.error
      /\ \A t \in SaleIds \ {s} : /\ stage'[t] = stage[t] /\ asked'[t] = asked[t]
                                  /\ terminal'[t] = terminal[t]
  BY <1>1 DEF TerminalInv, TerminalTypeOK
<1>6. TerminalTypeOK'
  <2>1. stage' \in [SaleIds -> Ended \cup {"queued", "sent", "fit", "mark", "void"}]
    BY <1>1 DEF TerminalInv, TerminalTypeOK
  <2>2. hash' \in [intent : SaleIds \cup {NoSale}, error : BOOLEAN, response : BOOLEAN,
                   recorded : BOOLEAN]
    BY <1>1 DEF TerminalInv, TerminalTypeOK
  <2>3. asked' \in [SaleIds -> [Buyers -> 0 .. All]]
    BY <1>1, <1>3 DEF TerminalInv, TerminalTypeOK
  <2>4. superseded' \in [SaleIds -> SUBSET (SaleIds \X Buyers)]
    BY <1>1, <1>3 DEF TerminalInv, TerminalTypeOK
  <2>5. terminal' \in [SaleIds -> {"idle", "asked", "approved", "unsigned", "declined"}]
    BY <1>1 DEF TerminalInv, TerminalTypeOK
  <2> QED  BY <1>1, <1>2, <2>1, <2>2, <2>3, <2>4, <2>5 DEF TerminalInv, TerminalTypeOK
<1>7. LeavesOthers(s) /\ LeavesCharged(s)
  BY <1>1, <1>2, <1>5 DEF LeavesOthers, LeavesCharged
<1>8. /\ captured[s] = 0 /\ ~Gone(s)
      /\ \A b \in Buyers : ~Exists(rows[s][b]) /\ ~rows[s][b].charged
  BY <1>1 DEF TerminalInv, SaleSound, Gone
<1>9. SaleSound(s)'
  <2>1. captured'[s] <= SumOver(asked'[s])
    BY <1>1, <1>3, <1>5, <1>8, AskedType
  <2>2. ASSUME NEW b \in Buyers
        PROVE  /\ ~Exists(rows'[s][b]) /\ ~rows'[s][b].charged
               /\ rows'[s][b].amount <= asked'[s][b]
    BY <1>2, <1>3, <1>5, <1>8, PaidType, AllType DEF Exists, TerminalInv
  <2> QED  BY <1>1, <1>5, <1>8, <2>1, <2>2 DEF SaleSound, Exists, SumOver
<1>10. ASSUME ~salesOverlap'
       PROVE  /\ \A t \in SaleIds \ {s} : stage[t] \in Ended
              /\ HashSound(s)'
  <2>1. InTurn /\ InFlight(s) /\ ~hash.error
    BY <1>1, <1>10 DEF TerminalInv, InFlight, Ended, InTurn, HashSound
  <2>2. \A tb \in kept : ~rows'[tb[1]][tb[2]].charged
    BY <1>2, <1>4
  <2> QED  BY <1>5, <2>1, <2>2, InFlightAlone DEF HashSound, TerminalInv
<1>11. ASSUME ~salesOverlap', OwedSound  PROVE OwedSound'
  <2>1. ASSUME NEW b \in Buyers
        PROVE  /\ PaidBy(b)' <= Costs[b] /\ PaidByOthers(s, b)' + asked'[s][b] <= Costs[b]
    <3>1. PaidBy(b)' <= PaidBy(b) /\ PaidByOthers(s, b)' <= PaidBy(b)'
      <4>1. \A t \in SaleIds : RowPaid(t, b)' <= RowPaid(t, b)
        BY <1>2, PaidType DEF TerminalInv
      <4>2. PaidBy(b)' <= PaidBy(b)
        BY <1>6, <4>1, PaidGrows, PaidType, PaidNextType DEF TerminalInv
      <4>3. /\ PaidByOthers(s, b)' \in Nat /\ RowPaid(s, b)' \in Nat
            /\ PaidBy(b)' = PaidByOthers(s, b)' + RowPaid(s, b)'
        BY <1>6, PaidNextType
      <4> QED  BY <4>2, <4>3
    <3>2. PaidBy(b) <= Costs[b] /\ asked'[s][b] = Costs[b] - PaidBy(b)
      BY <1>5, <1>11, PaidType DEF OwedSound, owed, TerminalInv
    <3>3. PaidBy(b) \in Nat /\ PaidBy(b)' \in Nat /\ PaidByOthers(s, b)' \in Nat /\ Costs[b] \in Nat
      BY <1>6, PaidType, PaidNextType, AllType DEF TerminalInv
    <3> QED  BY <3>1, <3>2, <3>3
  <2>2. ASSUME NEW t \in SaleIds, InFlight(t)'  PROVE t = s
    BY <1>5, <1>10, <1>11, <2>2 DEF InFlight
  <2> QED  BY <2>1, <2>2 DEF OwedSound
<1> QED  BY <1>1, <1>5, <1>6, <1>7, <1>8, <1>9, <1>10, <1>11, SaleStep

(* Nothing is owed, and the sale refused.                                  *)
LEMMA RefuseStep ==
  ASSUME TerminalInv, NEW s \in SaleIds, RefuseSale(s)
  PROVE  TerminalInv'
<1>1. /\ stage[s] = "queued" /\ stage' = [stage EXCEPT ![s] = "done"]
      /\ hash' = [hash EXCEPT !.error = TRUE]
      /\ UNCHANGED <<asked, superseded, terminal, captured, salesOverlap, saleKills>>
      /\ rows' = [t \in SaleIds |-> [b \in Buyers |->
                   IF <<t, b>> \in Incomplete(s) THEN [rows[t][b] EXCEPT !.cancelled = TRUE]
                   ELSE rows[t][b]]]
  BY DEF RefuseSale, Go
<1>2. /\ rows' \in [SaleIds -> [Buyers -> [amount : 0 .. All, charged : BOOLEAN,
                                           cancelled : BOOLEAN]]]
      /\ \A t \in SaleIds, b \in Buyers :
           /\ rows'[t][b].amount = rows[t][b].amount
           /\ rows'[t][b].charged = rows[t][b].charged
           /\ rows[t][b].charged => rows'[t][b].cancelled = rows[t][b].cancelled
           /\ RowPaid(t, b)' = RowPaid(t, b)
  BY <1>1, CancelPending DEF TerminalInv
<1>3. /\ stage'[s] = "done" /\ hash'.intent = hash.intent
      /\ \A t \in SaleIds \ {s} : stage'[t] = stage[t]
  BY <1>1 DEF TerminalInv, TerminalTypeOK
<1>4. TerminalTypeOK'
  <2>1. stage' \in [SaleIds -> Ended \cup {"queued", "sent", "fit", "mark", "void"}]
    BY <1>1 DEF TerminalInv, TerminalTypeOK, Ended
  <2>2. hash' \in [intent : SaleIds \cup {NoSale}, error : BOOLEAN, response : BOOLEAN,
                   recorded : BOOLEAN]
    BY <1>1 DEF TerminalInv, TerminalTypeOK
  <2> QED  BY <1>1, <1>2, <2>1, <2>2 DEF TerminalInv, TerminalTypeOK
<1>5. LeavesOthers(s) /\ LeavesCharged(s)
  BY <1>1, <1>2, <1>3 DEF LeavesOthers, LeavesCharged
<1>6. /\ captured[s] = 0 /\ terminal[s] = "idle" /\ ~Gone(s)
      /\ \A b \in Buyers : ~Exists(rows[s][b]) /\ ~rows[s][b].charged
  BY <1>1 DEF TerminalInv, SaleSound, Gone
<1>7. ChargedRows(s)' = {}
  BY <1>2, <1>6 DEF ChargedRows
<1>8. SaleSound(s)'
  <2>1. SumFunctionOnSet(RowAmounts(s)', ChargedRows(s)') = 0
    BY <1>7, SumEmpty
  <2>2. \A b \in Buyers : ~Exists(rows[s][b])' /\ ~rows'[s][b].charged
    BY <1>2, <1>6 DEF Exists
  <2> QED  BY <1>1, <1>2, <1>3, <1>6, <2>1, <2>2 DEF TerminalInv, SaleSound, SumOver
<1>9. ASSUME ~salesOverlap'
      PROVE  /\ \A t \in SaleIds \ {s} : stage[t] \in Ended
             /\ HashSound(s)' /\ hash'.intent = NoSale /\ InFlight(s)
  <2>1. InTurn /\ InFlight(s) /\ hash.intent = NoSale
    BY <1>1, <1>9 DEF TerminalInv, InFlight, Ended, InTurn, HashSound
  <2>2. HashSound(s)'
    BY <1>3, <1>7 DEF HashSound
  <2> QED  BY <1>3, <2>1, <2>2, InFlightAlone DEF TerminalInv
<1>10. ASSUME ~salesOverlap', OwedSound  PROVE OwedSound'
  <2>1. \A b \in Buyers : RowPaid(s, b)' <= RowPaid(s, b)
    BY <1>2, PaidType DEF TerminalInv
  <2> QED  BY <1>1, <1>3, <1>4, <1>5, <1>9, <1>10, <2>1, SameOwed
<1> QED  BY <1>1, <1>4, <1>5, <1>6, <1>8, <1>9, <1>10, SaleStep

(* What the session of a sale commits when the answer is there, or late.   *)
LEMMA CommittedRows ==
  ASSUME TerminalTypeOK, NEW s \in SaleIds, rows' = Committed(s)
  PROVE  /\ rows' \in [SaleIds -> [Buyers -> [amount : 0 .. All, charged : BOOLEAN,
                                              cancelled : BOOLEAN]]]
         /\ \A b \in Buyers : /\ rows'[s][b].amount = asked[s][b] /\ ~rows'[s][b].charged
                              /\ RowPaid(s, b)' = 0
         /\ \A t \in SaleIds \ {s}, b \in Buyers :
              /\ rows'[t][b].amount = rows[t][b].amount
              /\ rows'[t][b].charged = rows[t][b].charged
         /\ (\A tb \in superseded[s] : ~rows[tb[1]][tb[2]].charged) => LeavesCharged(s)
<1>1. ASSUME NEW t \in SaleIds, NEW b \in Buyers
      PROVE  /\ rows'[t][b] \in [amount : 0 .. All, charged : BOOLEAN, cancelled : BOOLEAN]
             /\ t = s => /\ rows'[s][b].amount = asked[s][b] /\ ~rows'[s][b].charged
                         /\ RowPaid(s, b)' = 0
             /\ t # s => /\ rows'[t][b].amount = rows[t][b].amount
                         /\ rows'[t][b].charged = rows[t][b].charged
                         /\ <<t, b>> \in superseded[s] \/ rows'[t][b] = rows[t][b]
  <2>1. PICK row \in [amount : 0 .. All, charged : BOOLEAN, cancelled : BOOLEAN] : row = rows[t][b]
    BY DEF TerminalTypeOK
  <2>2. PICK a \in 0 .. All : a = asked[s][b]
    BY DEF TerminalTypeOK
  <2>3. rows'[t][b] = IF t = s THEN [NoRow EXCEPT !.amount = asked[s][b]]
                      ELSE IF <<t, b>> \in superseded[s] THEN [rows[t][b] EXCEPT !.cancelled = TRUE]
                      ELSE rows[t][b]
    BY DEF Committed
  <2>4. CASE t = s
    <3>1. rows'[t][b] = [NoRow EXCEPT !.amount = a]
      BY <2>2, <2>3, <2>4
    <3>2. rows'[t][b] = [amount |-> a, charged |-> FALSE, cancelled |-> FALSE]
      BY <3>1 DEF NoRow
    <3> QED  BY <2>2, <2>4, <3>2 DEF RowPaid
  <2>5. CASE t # s /\ <<t, b>> \in superseded[s]
    <3>1. rows'[t][b] = [row EXCEPT !.cancelled = TRUE]
      BY <2>1, <2>3, <2>5
    <3> QED  BY <2>1, <2>5, <3>1
  <2>6. CASE t # s /\ <<t, b>> \notin superseded[s]
    BY <2>1, <2>3, <2>6
  <2> QED  BY <2>4, <2>5, <2>6
<1>2. rows' \in [SaleIds -> [Buyers -> [amount : 0 .. All, charged : BOOLEAN,
                                        cancelled : BOOLEAN]]]
  BY <1>1 DEF Committed
<1>3. ASSUME \A tb \in superseded[s] : ~rows[tb[1]][tb[2]].charged  PROVE LeavesCharged(s)
  <2> SUFFICES ASSUME NEW t \in SaleIds \ {s}, NEW b \in Buyers, rows[t][b].charged
               PROVE  rows'[t][b].cancelled = rows[t][b].cancelled
    BY DEF LeavesCharged
  <2>1. <<t, b>> \notin superseded[s]
    BY <1>3
  <2> QED  BY <1>1, <2>1
<1> QED  BY <1>1, <1>2, <1>3

(* The stages a sale can move to when its answer is there, or late.        *)
LEMMA CommitStep ==
  ASSUME TerminalInv, NEW s \in SaleIds, stage[s] = "sent", rows' = Committed(s),
         superseded' = [superseded EXCEPT ![s] = {}],
         NEW e \in BOOLEAN, hash' = [hash EXCEPT !.error = e],
         NEW st \in {"fit", "void", "done", "lost"}, stage' = [stage EXCEPT ![s] = st],
         st = "fit" => terminal[s] = "approved" /\ (e => hash.error \/ Partial(s)),
         st = "void" => terminal[s] = "unsigned",
         st = "done" => terminal[s] = "declined",
         UNCHANGED <<asked, terminal, captured, salesOverlap, saleKills>>
  PROVE  TerminalInv'
<1>1. /\ rows' \in [SaleIds -> [Buyers -> [amount : 0 .. All, charged : BOOLEAN,
                                           cancelled : BOOLEAN]]]
      /\ \A b \in Buyers : /\ rows'[s][b].amount = asked[s][b] /\ ~rows'[s][b].charged
                           /\ RowPaid(s, b)' = 0
      /\ \A t \in SaleIds \ {s}, b \in Buyers :
           /\ rows'[t][b].amount = rows[t][b].amount
           /\ rows'[t][b].charged = rows[t][b].charged
      /\ (\A tb \in superseded[s] : ~rows[tb[1]][tb[2]].charged) => LeavesCharged(s)
  BY CommittedRows DEF TerminalInv
<1>2. /\ stage'[s] = st /\ hash'.intent = hash.intent /\ hash'.error = e
      /\ \A t \in SaleIds \ {s} : stage'[t] = stage[t]
  BY DEF TerminalInv, TerminalTypeOK
<1>3. TerminalTypeOK'
  <2>1. stage' \in [SaleIds -> Ended \cup {"queued", "sent", "fit", "mark", "void"}]
    BY DEF TerminalInv, TerminalTypeOK, Ended
  <2>2. hash' \in [intent : SaleIds \cup {NoSale}, error : BOOLEAN, response : BOOLEAN,
                   recorded : BOOLEAN]
    BY DEF TerminalInv, TerminalTypeOK
  <2>3. superseded' \in [SaleIds -> SUBSET (SaleIds \X Buyers)]
    BY DEF TerminalInv, TerminalTypeOK
  <2> QED  BY <1>1, <2>1, <2>2, <2>3 DEF TerminalInv, TerminalTypeOK
<1>4. LeavesOthers(s)
  BY <1>1, <1>2 DEF LeavesOthers
<1>5. /\ terminal[s] # "idle" /\ captured[s] <= SumOver(asked[s])
      /\ terminal[s] \in {"approved", "unsigned"} => captured[s] > 0
      /\ terminal[s] \in {"asked", "declined"} => captured[s] = 0
      /\ \A b \in Buyers : ~rows[s][b].charged /\ asked[s][b] \in Nat
  BY AllType DEF TerminalInv, TerminalTypeOK, SaleSound
<1>6. ChargedRows(s)' = {} /\ ~Gone(s)
  BY <1>1, <1>5 DEF ChargedRows, Gone
<1>7. SaleSound(s)'
  <2>1. SumFunctionOnSet(RowAmounts(s)', ChargedRows(s)') = 0
    BY <1>6, SumEmpty
  <2> QED  BY <1>1, <1>2, <1>5, <2>1 DEF SaleSound, SumOver
<1>8. ASSUME ~salesOverlap'
      PROVE  /\ \A t \in SaleIds \ {s} : stage[t] \in Ended
             /\ HashSound(s)' /\ LeavesCharged(s) /\ InFlight(s) /\ hash.intent \in {s, NoSale}
  <2>1. InTurn /\ InFlight(s) /\ ~hash.error /\ hash.intent = s
        /\ \A tb \in superseded[s] : ~rows[tb[1]][tb[2]].charged
    BY <1>8 DEF TerminalInv, InFlight, Ended, InTurn, HashSound
  <2>2. Partial(s)' <=> Partial(s)
    BY DEF Partial, SumOver
  <2>3. HashSound(s)'
    BY <1>2, <1>6, <2>1, <2>2 DEF HashSound
  <2> QED  BY <1>1, <2>1, <2>3, InFlightAlone DEF TerminalInv
<1>9. ASSUME ~salesOverlap', OwedSound  PROVE OwedSound'
  <2>1. \A b \in Buyers : RowPaid(s, b)' <= RowPaid(s, b)
    BY <1>1, PaidType DEF TerminalInv
  <2> QED  BY <1>2, <1>3, <1>4, <1>8, <1>9, <2>1, SameOwed
<1> QED  BY <1>2, <1>3, <1>4, <1>6, <1>7, <1>8, <1>9, SaleStep

(* The answer is there, or it is late.                                     *)
LEMMA AnswerStep ==
  ASSUME TerminalInv, NEW s \in SaleIds, TakeAnswer(s) \/ LoseAnswer(s)
  PROVE  TerminalInv'
<1>1. CASE TakeAnswer(s)
  <2> DEFINE error == terminal[s] # "approved" \/ Partial(s)
  <2>1. hash.error \in BOOLEAN /\ hash' = [hash EXCEPT !.error = hash.error \/ error]
    BY <1>1 DEF TakeAnswer, TerminalInv, TerminalTypeOK
  <2>2. error \in BOOLEAN
    BY DEF Partial
  <2> HIDE DEF error
  <2>3. PICK e \in BOOLEAN : e = (hash.error \/ error) /\ hash' = [hash EXCEPT !.error = e]
    <3>1. CASE error
      <4>1. (hash.error \/ error) = TRUE
        BY <3>1
      <4> QED  BY <2>1, <4>1
    <3>2. CASE ~error
      <4>1. (hash.error \/ error) = hash.error
        BY <2>1, <3>2
      <4> QED  BY <2>1, <4>1
    <3> QED  BY <3>1, <3>2
  <2>4. terminal[s] \in {"approved", "unsigned", "declined"} /\ stage[s] = "sent"
    BY <1>1 DEF TakeAnswer, TerminalInv, TerminalTypeOK, SaleSound
  <2>5. PICK st \in {"fit", "void", "done"} :
          /\ stage' = [stage EXCEPT ![s] = st]
          /\ st = "fit" => terminal[s] = "approved"
          /\ st = "void" => terminal[s] = "unsigned"
          /\ st = "done" => terminal[s] = "declined"
    BY <1>1, <2>4 DEF TakeAnswer, Go
  <2>6. /\ rows' = Committed(s) /\ superseded' = [superseded EXCEPT ![s] = {}]
        /\ UNCHANGED <<asked, terminal, captured, salesOverlap, saleKills>>
    BY <1>1 DEF TakeAnswer
  <2>7. st = "fit" => (e => hash.error \/ Partial(s))
    BY <2>3, <2>5 DEF error
  <2> QED  BY <2>3, <2>4, <2>5, <2>6, <2>7, CommitStep
<1>2. CASE LoseAnswer(s)
  <2>1. /\ rows' = Committed(s) /\ superseded' = [superseded EXCEPT ![s] = {}]
        /\ hash' = [hash EXCEPT !.error = TRUE] /\ stage' = [stage EXCEPT ![s] = "lost"]
        /\ stage[s] = "sent" /\ UNCHANGED <<asked, terminal, captured, salesOverlap, saleKills>>
    BY <1>2 DEF LoseAnswer, Go
  <2> QED  BY <2>1, CommitStep
<1> QED  BY <1>1, <1>2

(* The stage of a sale moves on; its rows, if not charged, change.         *)
LEMMA StageType ==
  ASSUME TerminalTypeOK, NEW s \in SaleIds,
         NEW st \in Ended \cup {"queued", "sent", "fit", "mark", "void"},
         stage' = [stage EXCEPT ![s] = st]
  PROVE  /\ stage' \in [SaleIds -> Ended \cup {"queued", "sent", "fit", "mark", "void"}]
         /\ stage'[s] = st /\ \A t \in SaleIds \ {s} : stage'[t] = stage[t]
BY DEF TerminalTypeOK

(* What the cancellation of the rows of a sale leaves of them.             *)
LEMMA CancelRows ==
  ASSUME TerminalTypeOK, NEW s \in SaleIds, rows' = [rows EXCEPT ![s] = CancelledRows(s)]
  PROVE  /\ rows' \in [SaleIds -> [Buyers -> [amount : 0 .. All, charged : BOOLEAN,
                                              cancelled : BOOLEAN]]]
         /\ \A t \in SaleIds, b \in Buyers :
              /\ rows'[t][b].amount = rows[t][b].amount
              /\ rows'[t][b].charged = rows[t][b].charged
              /\ t # s => rows'[t][b] = rows[t][b]
              /\ rows'[s][b].cancelled = Exists(rows[s][b])
<1>1. ASSUME NEW b \in Buyers
      PROVE  /\ CancelledRows(s)[b] \in [amount : 0 .. All, charged : BOOLEAN,
                                         cancelled : BOOLEAN]
             /\ CancelledRows(s)[b].amount = rows[s][b].amount
             /\ CancelledRows(s)[b].charged = rows[s][b].charged
             /\ CancelledRows(s)[b].cancelled = Exists(rows[s][b])
  <2>1. PICK row \in [amount : 0 .. All, charged : BOOLEAN, cancelled : BOOLEAN] : row = rows[s][b]
    BY DEF TerminalTypeOK
  <2>2. CancelledRows(s)[b] = [row EXCEPT !.cancelled = Exists(row)]
    BY <2>1 DEF CancelledRows
  <2>3. Exists(row) \in BOOLEAN
    BY DEF Exists
  <2> QED  BY <2>1, <2>2, <2>3
<1>2. CancelledRows(s) \in [Buyers -> [amount : 0 .. All, charged : BOOLEAN,
                                       cancelled : BOOLEAN]]
  BY <1>1 DEF CancelledRows
<1>3. /\ rows'[s] = CancelledRows(s) /\ \A t \in SaleIds : t # s => rows'[t] = rows[t]
      /\ rows' \in [SaleIds -> [Buyers -> [amount : 0 .. All, charged : BOOLEAN,
                                           cancelled : BOOLEAN]]]
  BY <1>2 DEF TerminalTypeOK
<1> QED  BY <1>1, <1>3

(* The sale is voided, and nothing of it remains.                          *)
LEMMA VoidStep ==
  ASSUME TerminalInv, NEW s \in SaleIds, VoidSale(s)
  PROVE  TerminalInv'
<1>1. /\ stage[s] = "void" /\ stage' = [stage EXCEPT ![s] = "done"]
      /\ captured' = [captured EXCEPT ![s] = 0] /\ rows' = [rows EXCEPT ![s] = CancelledRows(s)]
      /\ hash' = [hash EXCEPT !.response = TRUE, !.error = TRUE]
      /\ UNCHANGED <<asked, superseded, terminal, salesOverlap, saleKills>>
  BY DEF VoidSale, Go
<1>2. /\ rows' \in [SaleIds -> [Buyers -> [amount : 0 .. All, charged : BOOLEAN,
                                           cancelled : BOOLEAN]]]
      /\ \A t \in SaleIds, b \in Buyers :
           /\ rows'[t][b].amount = rows[t][b].amount
           /\ rows'[t][b].charged = rows[t][b].charged
           /\ t # s => rows'[t][b] = rows[t][b]
  BY <1>1, CancelRows DEF TerminalInv
<1>3. /\ stage'[s] = "done" /\ captured'[s] = 0 /\ hash'.intent = hash.intent
      /\ \A t \in SaleIds \ {s} : stage'[t] = stage[t] /\ captured'[t] = captured[t]
  BY <1>1 DEF TerminalInv, TerminalTypeOK
<1>4. TerminalTypeOK'
  <2>1. stage' \in [SaleIds -> Ended \cup {"queued", "sent", "fit", "mark", "void"}]
    BY <1>1, StageType DEF TerminalInv, Ended
  <2>2. hash' \in [intent : SaleIds \cup {NoSale}, error : BOOLEAN, response : BOOLEAN,
                   recorded : BOOLEAN]
    BY <1>1 DEF TerminalInv, TerminalTypeOK
  <2>3. captured' \in [SaleIds -> 0 .. All]
    BY <1>1, AllType DEF TerminalInv, TerminalTypeOK
  <2> QED  BY <1>1, <1>2, <2>1, <2>2, <2>3 DEF TerminalInv, TerminalTypeOK
<1>5. LeavesOthers(s) /\ LeavesCharged(s)
  BY <1>1, <1>2, <1>3 DEF LeavesOthers, LeavesCharged
<1>6. /\ terminal[s] = "unsigned" /\ ~Gone(s) /\ \A b \in Buyers : ~rows[s][b].charged
  BY <1>1 DEF TerminalInv, SaleSound, Gone, ChargedRows
<1>7. ChargedRows(s)' = {}
  BY <1>2, <1>6 DEF ChargedRows
<1>8. SaleSound(s)'
  <2>1. SumFunctionOnSet(RowAmounts(s)', ChargedRows(s)') = 0
    BY <1>7, SumEmpty
  <2>2. 0 <= SumOver(asked[s])
    <3>1. asked[s] \in [Buyers -> 0 .. All]
      BY DEF TerminalInv, TerminalTypeOK
    <3> QED  BY <3>1, AskedType
  <2>3. ASSUME NEW b \in Buyers
        PROVE  rows'[s][b].amount <= asked[s][b] /\ ~rows'[s][b].charged
    <3>1. rows[s][b].amount <= asked[s][b]
      BY DEF TerminalInv, SaleSound
    <3> QED  BY <1>2, <1>6, <3>1
  <2> QED  BY <1>1, <1>3, <1>6, <2>1, <2>2, <2>3 DEF SaleSound, SumOver
<1>9. ASSUME ~salesOverlap'
      PROVE  /\ \A t \in SaleIds \ {s} : stage[t] \in Ended
             /\ HashSound(s)' /\ hash.intent \in {s, NoSale} /\ InFlight(s)
  <2>1. InTurn /\ InFlight(s)
    BY <1>1, <1>9 DEF TerminalInv, InFlight, Ended
  <2>2. HashSound(s)'
    BY <1>3, <1>7 DEF HashSound
  <2> QED  BY <2>1, <2>2, InFlightAlone DEF TerminalInv
<1>10. ASSUME ~salesOverlap', OwedSound  PROVE OwedSound'
  <2>1. \A b \in Buyers : RowPaid(s, b)' <= RowPaid(s, b)
    BY <1>2, <1>6, PaidType DEF TerminalInv, RowPaid
  <2> QED  BY <1>1, <1>3, <1>4, <1>5, <1>9, <1>10, <2>1, SameOwed
<1> QED  BY <1>1, <1>3, <1>4, <1>5, <1>6, <1>8, <1>9, <1>10, SaleStep

(* The work on a sale ends, with what was charged for it not recorded.     *)
LEMMA DeadStep ==
  ASSUME TerminalInv, NEW s \in SaleIds, stage[s] \notin Ended,
         stage' = [stage EXCEPT ![s] = "dead"], saleKills' \in 0 .. MaxSaleKills,
         UNCHANGED <<asked, superseded, rows, hash, terminal, captured, salesOverlap>>
  PROVE  TerminalInv'
<1>1. /\ stage' \in [SaleIds -> Ended \cup {"queued", "sent", "fit", "mark", "void"}]
      /\ stage'[s] = "dead" /\ \A t \in SaleIds \ {s} : stage'[t] = stage[t]
  BY StageType DEF TerminalInv, Ended
<1>2. TerminalTypeOK'
  BY <1>1 DEF TerminalInv, TerminalTypeOK
<1>3. LeavesOthers(s) /\ LeavesCharged(s)
  BY <1>1 DEF LeavesOthers, LeavesCharged
<1>4. SaleSound(s) /\ stage[s] \in {"queued", "sent", "fit", "mark", "void"}
  BY DEF TerminalInv, TerminalTypeOK, Ended
<1>5. captured[s] = 0 => \A b \in Buyers : ~rows[s][b].charged
  BY <1>4 DEF SaleSound
<1>6. SaleSound(s)'
  BY <1>1, <1>4, <1>5 DEF SaleSound, SumOver, Exists, Nothing
<1>7. HashSound(s)'
  BY <1>1 DEF HashSound
<1>8. InFlight(s)
  BY DEF InFlight
<1>9. ASSUME ~salesOverlap'
      PROVE  /\ \A t \in SaleIds \ {s} : stage[t] \in Ended
             /\ hash.intent \in {s, NoSale}
  BY <1>8, <1>9, InFlightAlone DEF TerminalInv
<1>10. Gone(s) => Gone(s)'
  BY <1>1 DEF Gone, ChargedRows
<1>11. ASSUME ~salesOverlap', OwedSound  PROVE OwedSound'
  <2>1. \A b \in Buyers : RowPaid(s, b)' <= RowPaid(s, b)
    BY PaidType DEF TerminalInv, RowPaid
  <2> QED  BY <1>2, <1>3, <1>8, <1>11, <2>1, SameOwed
<1> QED  BY <1>2, <1>3, <1>6, <1>7, <1>9, <1>10, <1>11, SaleStep

(* A void that fails, and a process killed, leave the sale so.             *)
LEMMA VoidFailsStep ==
  ASSUME TerminalInv, NEW s \in SaleIds, VoidFails(s) \/ KillSale(s)
  PROVE  TerminalInv'
<1>1. saleKills \in 0 .. MaxSaleKills /\ MaxSaleKills \in Nat
  BY TerminalAssumption DEF TerminalAssumption, TerminalInv, TerminalTypeOK
<1>2. /\ stage[s] \notin Ended /\ stage' = [stage EXCEPT ![s] = "dead"]
      /\ saleKills' \in 0 .. MaxSaleKills
      /\ UNCHANGED <<asked, superseded, rows, hash, terminal, captured, salesOverlap>>
  BY <1>1 DEF VoidFails, KillSale, Go, Ended
<1> QED  BY <1>2, DeadStep

(* Staff ask the terminal about the last sale.                             *)
LEMMA CheckStep ==
  ASSUME TerminalInv, NEW s \in SaleIds, CheckTerminalPayment(s)
  PROVE  TerminalInv'
<1>1. /\ hash.intent = s /\ stage[s] = "lost"
      /\ UNCHANGED <<asked, superseded, rows, terminal, captured, salesOverlap, saleKills>>
  BY DEF CheckTerminalPayment
<1>2. PICK st \in {"fit", "done"} :
        /\ stage' = [stage EXCEPT ![s] = st]
        /\ st = "fit" => /\ terminal[s] \in {"approved", "unsigned"}
                         /\ hash' = [hash EXCEPT !.response = TRUE, !.error = Partial(s)]
        /\ st = "done" => terminal[s] = "declined" /\ hash' = [hash EXCEPT !.error = TRUE]
  BY DEF CheckTerminalPayment, Go
<1>3. /\ hash' \in [intent : SaleIds \cup {NoSale}, error : BOOLEAN, response : BOOLEAN,
                    recorded : BOOLEAN]
      /\ hash'.intent = s
      /\ st = "fit" => hash'.error = Partial(s)
  <2>1. Partial(s) \in BOOLEAN
    BY DEF Partial
  <2> QED  BY <1>1, <1>2, <2>1 DEF TerminalInv, TerminalTypeOK
<1>4. /\ stage' \in [SaleIds -> Ended \cup {"queued", "sent", "fit", "mark", "void"}]
      /\ stage'[s] = st /\ \A t \in SaleIds \ {s} : stage'[t] = stage[t]
  BY <1>2, StageType DEF TerminalInv, Ended
<1>5. TerminalTypeOK'
  BY <1>1, <1>3, <1>4 DEF TerminalInv, TerminalTypeOK
<1>6. LeavesOthers(s) /\ LeavesCharged(s)
  BY <1>1, <1>4 DEF LeavesOthers, LeavesCharged
<1>7. SaleSound(s) /\ ChargedRows(s) = {} /\ ~Gone(s)
  BY <1>1 DEF TerminalInv, SaleSound, ChargedRows, Gone
<1>8. ChargedRows(s)' = {}
  BY <1>1, <1>7 DEF ChargedRows
<1>9. SaleSound(s)'
  <2>1. SumFunctionOnSet(RowAmounts(s)', ChargedRows(s)') = 0
    BY <1>8, SumEmpty
  <2> QED  BY <1>1, <1>2, <1>4, <1>7, <2>1 DEF SaleSound, SumOver, Exists, Nothing
<1>10. (Partial(s)' <=> Partial(s)) /\ HashSound(s)'
  <2>1. Partial(s)' <=> Partial(s)
    BY <1>1 DEF Partial, SumOver
  <2> QED  BY <1>3, <1>4, <1>8, <2>1 DEF HashSound
<1>11. InFlight(s)
  BY <1>1 DEF InFlight
<1>12. ASSUME ~salesOverlap'  PROVE \A t \in SaleIds \ {s} : stage[t] \in Ended
  BY <1>1, <1>11, <1>12, InFlightAlone DEF TerminalInv
<1>13. ASSUME ~salesOverlap', OwedSound  PROVE OwedSound'
  <2>1. \A b \in Buyers : RowPaid(s, b)' <= RowPaid(s, b)
    BY <1>1, PaidType DEF TerminalInv, RowPaid
  <2> QED  BY <1>1, <1>3, <1>5, <1>6, <1>11, <1>13, <2>1, SameOwed
<1> QED  BY <1>1, <1>3, <1>5, <1>6, <1>7, <1>9, <1>10, <1>12, <1>13, SaleStep

(* The rows share out what was approved.                                   *)
LEMMA FitStep ==
  ASSUME TerminalInv, NEW s \in SaleIds, FitRows(s)
  PROVE  TerminalInv'
<1>1. /\ stage[s] = "fit" /\ stage' = [stage EXCEPT ![s] = "mark"]
      /\ UNCHANGED <<asked, superseded, hash, terminal, captured, salesOverlap, saleKills>>
  BY DEF FitRows, Go
<1>2. PICK f \in [Buyers -> 0 .. captured[s]] :
        /\ SumOver(f) = captured[s] /\ \A b \in Buyers : f[b] <= rows[s][b].amount
        /\ rows' = [rows EXCEPT ![s] = [b \in Buyers |->
                     IF f[b] = 0 THEN NoRow
                     ELSE [rows[s][b] EXCEPT !.amount = f[b], !.cancelled = FALSE]]]
  BY DEF FitRows, Fitted
<1>3. /\ SaleSound(s) /\ captured[s] \in 0 .. All /\ captured[s] <= All /\ captured[s] \in Nat
      /\ \A b \in Buyers : ~rows[s][b].charged
  BY <1>1, AllType DEF TerminalInv, TerminalTypeOK, SaleSound
<1> DEFINE row(b) == IF f[b] = 0 THEN NoRow
                     ELSE [rows[s][b] EXCEPT !.amount = f[b], !.cancelled = FALSE]
<1>4. ASSUME NEW b \in Buyers
      PROVE  /\ row(b) \in [amount : 0 .. All, charged : BOOLEAN, cancelled : BOOLEAN]
             /\ row(b).amount = f[b] /\ ~row(b).charged /\ row(b).amount <= rows[s][b].amount
  <2>1. PICK r \in [amount : 0 .. All, charged : BOOLEAN, cancelled : BOOLEAN] : r = rows[s][b]
    BY DEF TerminalInv, TerminalTypeOK
  <2>2. PICK n \in 0 .. All : n = f[b] /\ n <= r.amount
    <3>1. f[b] \in 0 .. captured[s] /\ f[b] <= rows[s][b].amount
      BY <1>2
    <3>2. captured[s] \in Nat /\ All \in Nat /\ captured[s] <= All
      BY <1>3, AllType
    <3>3. f[b] \in 0 .. All
      BY <3>1, <3>2
    <3> QED  BY <2>1, <3>1, <3>3
  <2>3. row(b) = IF n = 0 THEN [amount |-> 0, charged |-> FALSE, cancelled |-> FALSE]
                 ELSE [r EXCEPT !.amount = n, !.cancelled = FALSE]
    BY <2>1, <2>2 DEF NoRow
  <2>4. ~r.charged
    BY <1>3, <2>1
  <2>5. r.amount = rows[s][b].amount /\ r.amount \in Int
    BY <2>1, AllType
  <2> HIDE DEF row
  <2>6. CASE n = 0
    <3>1. row(b) = [amount |-> 0, charged |-> FALSE, cancelled |-> FALSE]
      BY <2>3, <2>6
    <3> QED  BY <2>2, <2>5, <2>6, <3>1
  <2>7. CASE n # 0
    <3>1. row(b) = [r EXCEPT !.amount = n, !.cancelled = FALSE]
      BY <2>3, <2>7
    <3> QED  BY <2>1, <2>2, <2>4, <2>5, <3>1
  <2> QED  BY <2>6, <2>7
<1>5. /\ rows' = [rows EXCEPT ![s] = [b \in Buyers |-> row(b)]]
      /\ [b \in Buyers |-> row(b)] \in [Buyers -> [amount : 0 .. All, charged : BOOLEAN,
                                                   cancelled : BOOLEAN]]
  BY <1>2, <1>4
<1> HIDE DEF row
<1>6. /\ rows' \in [SaleIds -> [Buyers -> [amount : 0 .. All, charged : BOOLEAN,
                                           cancelled : BOOLEAN]]]
      /\ \A t \in SaleIds \ {s} : rows'[t] = rows[t]
      /\ \A b \in Buyers : rows'[s][b] = row(b)
  BY <1>5 DEF TerminalInv, TerminalTypeOK
<1>7. /\ stage' \in [SaleIds -> Ended \cup {"queued", "sent", "fit", "mark", "void"}]
      /\ stage'[s] = "mark" /\ \A t \in SaleIds \ {s} : stage'[t] = stage[t]
  BY <1>1, StageType DEF TerminalInv, Ended
<1>8. TerminalTypeOK'
  BY <1>1, <1>6, <1>7 DEF TerminalInv, TerminalTypeOK
<1>9. LeavesOthers(s) /\ LeavesCharged(s)
  BY <1>1, <1>6, <1>7 DEF LeavesOthers, LeavesCharged
<1>10. ChargedRows(s)' = {} /\ ~Gone(s)
  BY <1>1, <1>3, <1>4, <1>6 DEF ChargedRows, Gone
<1>11. SaleSound(s)'
  <2>1. SumOver(RowAmounts(s)') = captured[s]
    <3>1. \A b \in Buyers : RowAmounts(s)'[b] = f[b]
      BY <1>4, <1>6 DEF RowAmounts
    <3>2. IsFiniteSet(Buyers)
      BY AllType
    <3>3. SumFunctionOnSet(RowAmounts(s)', Buyers) = SumFunctionOnSet(f, Buyers)
      BY <3>1, <3>2, SumSame
    <3> QED  BY <1>2, <3>3 DEF SumOver
  <2>2. ASSUME NEW b \in Buyers
        PROVE  rows'[s][b].amount <= asked[s][b] /\ ~rows'[s][b].charged
    <3>1. rows[s][b].amount <= asked[s][b] /\ rows'[s][b].amount <= rows[s][b].amount
      BY <1>3, <1>4, <1>6 DEF SaleSound
    <3>2. /\ rows[s][b].amount \in Nat /\ rows'[s][b].amount \in Nat
          /\ asked[s] \in [Buyers -> 0 .. All]
      BY <1>4, <1>6, AllType, PaidType DEF TerminalInv, TerminalTypeOK
    <3>3. asked[s][b] \in Nat
      BY <3>2, AllType
    <3> QED  BY <1>4, <1>6, <3>1, <3>2, <3>3
  <2> QED  BY <1>1, <1>3, <1>7, <2>1, <2>2 DEF SaleSound, SumOver
<1>12. ASSUME ~salesOverlap'
       PROVE  /\ \A t \in SaleIds \ {s} : stage[t] \in Ended
              /\ HashSound(s)' /\ hash.intent \in {s, NoSale} /\ InFlight(s)
  <2>1. InTurn /\ InFlight(s) /\ hash.intent = s /\ (~Partial(s) => ~hash.error)
    BY <1>1, <1>12 DEF TerminalInv, InFlight, Ended, InTurn, HashSound
  <2>2. Partial(s)' <=> Partial(s)
    BY <1>1 DEF Partial, SumOver
  <2>3. HashSound(s)'
    BY <1>1, <1>7, <1>10, <2>1, <2>2 DEF HashSound
  <2> QED  BY <2>1, <2>3, InFlightAlone DEF TerminalInv
<1>13. ASSUME ~salesOverlap', OwedSound  PROVE OwedSound'
  <2>1. \A b \in Buyers : RowPaid(s, b)' <= RowPaid(s, b)
    BY <1>4, <1>6, PaidType DEF TerminalInv, RowPaid
  <2> QED  BY <1>1, <1>8, <1>9, <1>12, <1>13, <2>1, SameOwed
<1> QED  BY <1>1, <1>8, <1>9, <1>10, <1>11, <1>12, <1>13, SaleStep

(* A row is marked as paid.                                                *)
LEMMA MarkStep ==
  ASSUME TerminalInv, NEW s \in SaleIds, NEW b \in Buyers, MarkRow(s, b)
  PROVE  TerminalInv'
<1>1. /\ stage[s] = "mark" /\ Exists(rows[s][b]) /\ ~rows[s][b].charged
      /\ rows' = [rows EXCEPT ![s][b].charged = TRUE, ![s][b].cancelled = FALSE]
      /\ UNCHANGED <<stage, asked, superseded, hash, terminal, captured, salesOverlap, saleKills>>
  BY DEF MarkRow, Unmarked
<1>2. PICK row \in [amount : 0 .. All, charged : BOOLEAN, cancelled : BOOLEAN] : row = rows[s][b]
  BY DEF TerminalInv, TerminalTypeOK
<1>3. [row EXCEPT !.charged = TRUE, !.cancelled = FALSE] \in
        [amount : 0 .. All, charged : BOOLEAN, cancelled : BOOLEAN]
  BY <1>2
<1>4. /\ rows' \in [SaleIds -> [Buyers -> [amount : 0 .. All, charged : BOOLEAN,
                                           cancelled : BOOLEAN]]]
      /\ \A t \in SaleIds \ {s} : rows'[t] = rows[t]
      /\ \A c \in Buyers \ {b} : rows'[s][c] = rows[s][c]
      /\ rows'[s][b].amount = rows[s][b].amount
      /\ rows'[s][b].charged = TRUE /\ rows'[s][b].cancelled = FALSE
  BY <1>1, <1>2, <1>3 DEF TerminalInv, TerminalTypeOK
<1>5. TerminalTypeOK'
  BY <1>1, <1>4 DEF TerminalInv, TerminalTypeOK
<1>6. LeavesOthers(s) /\ LeavesCharged(s)
  BY <1>1, <1>4 DEF LeavesOthers, LeavesCharged
<1>7. \A c \in Buyers : rows'[s][c].amount = rows[s][c].amount
  BY <1>4
<1>8. SaleSound(s)'
  <2>1. SumOver(RowAmounts(s)') = captured[s]
    <3>1. RowAmounts(s)' = RowAmounts(s)
      BY <1>7 DEF RowAmounts
    <3> QED  BY <1>1, <3>1 DEF TerminalInv, SaleSound
  <2>2. \A c \in Buyers : rows'[s][c].charged => Exists(rows[s][c])'
    BY <1>1, <1>4 DEF TerminalInv, SaleSound, Exists
  <2> QED  BY <1>1, <1>7, <2>1, <2>2 DEF TerminalInv, SaleSound, SumOver
<1>9. InFlight(s)
  BY <1>1 DEF InFlight, Ended
<1>10. ASSUME ~salesOverlap'
       PROVE  /\ InTurn /\ (\A t \in SaleIds \ {s} : stage[t] \in Ended /\ hash.intent # t)
              /\ HashSound(s)' /\ hash.intent \in {s, NoSale}
  <2>1. InTurn /\ HashSound(s)
    BY <1>1, <1>10 DEF TerminalInv, InTurn
  <2>2. Partial(s)' <=> Partial(s)
    BY <1>1 DEF Partial, SumOver
  <2>3. ~Partial(s) => \A c \in ChargedRows(s)' : ~rows'[s][c].cancelled
    BY <1>1, <1>4, <2>1 DEF HashSound, ChargedRows
  <2>4. HashSound(s)'
    BY <1>1, <2>1, <2>2, <2>3 DEF HashSound
  <2> QED  BY <1>9, <2>1, <2>4, InFlightAlone DEF TerminalInv
<1>11. Gone(s) => Gone(s)'
  BY <1>1, <1>4 DEF Gone, ChargedRows
<1>12. ASSUME ~salesOverlap', OwedSound  PROVE OwedSound'
  <2>1. ASSUME NEW c \in Buyers, NEW t \in SaleIds, NEW S \in SUBSET (SaleIds \ {s})
        PROVE  SumFunctionOnSet(PaidColumn(c)', S) = SumFunctionOnSet(PaidColumn(c), S)
    <3>1. IsFiniteSet(S)
      BY AllType, FS_Subset
    <3>2. \A u \in S : PaidColumn(c)'[u] = PaidColumn(c)[u]
      BY <1>4 DEF PaidColumn, RowPaid
    <3> QED  BY <3>1, <3>2, SumSame
  <2>2. ASSUME NEW c \in Buyers
        PROVE  /\ PaidByOthers(s, c)' = PaidByOthers(s, c)
               /\ PaidBy(c)' <= Costs[c]
    <3>1. PaidByOthers(s, c)' = PaidByOthers(s, c)
      BY <1>5, <2>1, PaidNextType DEF PaidByOthers
    <3>2. PaidByOthers(s, c) + asked[s][c] <= Costs[c] /\ PaidBy(c) <= Costs[c]
      BY <1>9, <1>12 DEF OwedSound
    <3>3. /\ RowPaid(s, c)' \in Nat
          /\ RowPaid(s, c)' <= asked[s][c] \/ RowPaid(s, c)' = RowPaid(s, c)
      <4>1. CASE c = b
        <5>1. rows[s][b].amount <= asked[s][b] /\ RowPaid(s, b)' = rows[s][b].amount
          BY <1>4 DEF TerminalInv, SaleSound, RowPaid
        <5> QED  BY <1>5, <4>1, <5>1, PaidNextType
      <4>2. CASE c # b
        <5>1. RowPaid(s, c)' = RowPaid(s, c)
          BY <1>4, <4>2 DEF RowPaid
        <5> QED  BY <1>5, <5>1, PaidNextType
      <4> QED  BY <4>1, <4>2
    <3>4. asked[s][c] \in Nat
      <4>1. asked[s] \in [Buyers -> 0 .. All]
        BY DEF TerminalInv, TerminalTypeOK
      <4> QED  BY <4>1, AllType
    <3>5. /\ PaidBy(c)' = PaidByOthers(s, c)' + RowPaid(s, c)'
          /\ PaidBy(c) = PaidByOthers(s, c) + RowPaid(s, c)
          /\ PaidByOthers(s, c) \in Nat /\ RowPaid(s, c) \in Nat /\ Costs[c] \in Nat
      BY <1>5, PaidType, PaidNextType, AllType DEF TerminalInv
    <3> QED  BY <3>1, <3>2, <3>3, <3>4, <3>5
  <2>3. ASSUME NEW t \in SaleIds, InFlight(t)'  PROVE t = s
    BY <1>1, <1>10, <1>12, <2>3 DEF InFlight
  <2>4. \A c \in Buyers : PaidByOthers(s, c)' + asked'[s][c] <= Costs[c]
    BY <1>1, <1>9, <1>12, <2>2 DEF OwedSound
  <2> QED  BY <2>2, <2>3, <2>4 DEF OwedSound
<1> QED  BY <1>1, <1>5, <1>6, <1>8, <1>10, <1>11, <1>12, SaleStep

(* All rows are marked, and the sale is over.                              *)
LEMMA LogStep ==
  ASSUME TerminalInv, NEW s \in SaleIds, LogSuccess(s)
  PROVE  TerminalInv'
<1>1. /\ stage[s] = "mark" /\ Unmarked(s) = {} /\ stage' = [stage EXCEPT ![s] = "done"]
      /\ hash' = [hash EXCEPT !.response = TRUE, !.error = FALSE]
      /\ UNCHANGED <<asked, superseded, rows, terminal, captured, salesOverlap, saleKills>>
  BY DEF LogSuccess, Go
<1>2. /\ stage' \in [SaleIds -> Ended \cup {"queued", "sent", "fit", "mark", "void"}]
      /\ stage'[s] = "done" /\ \A t \in SaleIds \ {s} : stage'[t] = stage[t]
  BY <1>1, StageType DEF TerminalInv, Ended
<1>3. /\ hash' \in [intent : SaleIds \cup {NoSale}, error : BOOLEAN, response : BOOLEAN,
                    recorded : BOOLEAN]
      /\ hash'.intent = hash.intent /\ ~hash'.error
  BY <1>1 DEF TerminalInv, TerminalTypeOK
<1>4. TerminalTypeOK'
  BY <1>1, <1>2, <1>3 DEF TerminalInv, TerminalTypeOK
<1>5. LeavesOthers(s) /\ LeavesCharged(s)
  BY <1>1, <1>2 DEF LeavesOthers, LeavesCharged
<1>6. SumFunctionOnSet(RowAmounts(s), ChargedRows(s)) = captured[s]
  <2>1. SumFunctionOnSet(RowAmounts(s), Buyers) = captured[s]
    BY <1>1 DEF TerminalInv, SaleSound, SumOver
  <2>2. \A b \in Buyers : RowAmounts(s)[b] \in Nat
    BY PaidType DEF RowAmounts, TerminalInv
  <2>3. ASSUME NEW b \in Buyers \ ChargedRows(s)  PROVE RowAmounts(s)[b] = 0
    <3>1. rows[s][b].amount \in Nat /\ ~(rows[s][b].amount > 0)
      BY <1>1, <2>3, PaidType DEF Unmarked, Exists, ChargedRows, TerminalInv
    <3> QED  BY <3>1 DEF RowAmounts
  <2>4. ChargedRows(s) \in SUBSET Buyers
    BY DEF ChargedRows
  <2> QED  BY <2>1, <2>2, <2>3, <2>4, AllType, SumOfPart
<1>7. SaleSound(s)'
  <2>1. SumFunctionOnSet(RowAmounts(s)', ChargedRows(s)') = captured'[s]
    BY <1>1, <1>6 DEF RowAmounts, ChargedRows
  <2> QED  BY <1>1, <1>2, <2>1 DEF TerminalInv, SaleSound, SumOver, Exists
<1>8. ASSUME ~salesOverlap'
      PROVE  /\ \A t \in SaleIds \ {s} : stage[t] \in Ended
             /\ HashSound(s)' /\ hash.intent \in {s, NoSale} /\ InFlight(s)
  <2>1. /\ InTurn /\ InFlight(s)
        /\ ~Partial(s) => \A b \in ChargedRows(s) : ~rows[s][b].cancelled
    BY <1>1, <1>8 DEF TerminalInv, InFlight, Ended, InTurn, HashSound
  <2>2. (Partial(s)' <=> Partial(s)) /\ ChargedRows(s)' = ChargedRows(s)
    BY <1>1 DEF Partial, SumOver, ChargedRows
  <2>3. HashSound(s)'
    BY <1>1, <1>2, <1>3, <2>1, <2>2 DEF HashSound
  <2> QED  BY <2>1, <2>3, InFlightAlone DEF TerminalInv
<1>9. Gone(s) => Gone(s)'
  BY <1>1 DEF Gone, ChargedRows
<1>10. ASSUME ~salesOverlap', OwedSound  PROVE OwedSound'
  <2>1. \A b \in Buyers : RowPaid(s, b)' <= RowPaid(s, b)
    BY <1>1, PaidType DEF TerminalInv, RowPaid
  <2> QED  BY <1>1, <1>3, <1>4, <1>5, <1>8, <1>10, <2>1, SameOwed
<1> QED  BY <1>1, <1>3, <1>4, <1>5, <1>7, <1>8, <1>9, <1>10, SaleStep

(* What the terminal does is known to nobody until it answers.             *)
LEMMA TerminalActs ==
  ASSUME TerminalInv, NEW s \in SaleIds, terminal[s] = "asked",
         NEW how \in {"approved", "unsigned", "declined"}, NEW amount \in 0 .. All,
         amount <= SumOver(asked[s]), how \in {"approved", "unsigned"} <=> amount > 0,
         terminal' = [terminal EXCEPT ![s] = how], captured' = [captured EXCEPT ![s] = amount],
         UNCHANGED <<stage, asked, superseded, rows, hash, salesOverlap, saleKills>>
  PROVE  TerminalInv'
<1>1. SaleSound(s) /\ captured[s] = 0
  BY DEF TerminalInv, SaleSound
<1>2. stage[s] \in {"sent", "lost", "dead"}
  BY <1>1 DEF SaleSound, TerminalInv, TerminalTypeOK, Ended
<1>3. /\ terminal'[s] = how /\ captured'[s] = amount
      /\ \A t \in SaleIds \ {s} : terminal'[t] = terminal[t] /\ captured'[t] = captured[t]
  BY DEF TerminalInv, TerminalTypeOK
<1>4. TerminalTypeOK'
  BY DEF TerminalInv, TerminalTypeOK
<1>5. ASSUME NEW t \in SaleIds  PROVE SaleSound(t)'
  <2>1. CASE t = s
    <3>1. stage[s] = "dead" /\ amount = 0 => \A b \in Buyers : ~rows[s][b].charged
      BY <1>1 DEF SaleSound
    <3> QED  BY <1>1, <1>2, <1>3, <2>1, <3>1 DEF SaleSound, SumOver, Exists
  <2>2. CASE t # s
    BY <1>3, <2>2, SaleKept DEF TerminalInv
  <2> QED  BY <2>1, <2>2
<1>6. ASSUME ~salesOverlap'  PROVE InTurn'
  <2>1. InTurn
    BY <1>6 DEF TerminalInv
  <2>2. \A t \in SaleIds : InFlight(t)' <=> InFlight(t)
    BY DEF InFlight
  <2>3. ASSUME NEW t \in SaleIds  PROVE HashSound(t)'
    <3>1. ChargedRows(t)' = ChargedRows(t)
      BY DEF ChargedRows
    <3>2. CASE t = s
      BY <1>2, <2>1, <3>1, <3>2 DEF InTurn, HashSound
    <3>3. CASE t # s
      <4>1. Partial(t)' <=> Partial(t)
        BY <1>3, <3>3 DEF Partial, SumOver
      <4>2. HashSound(t)
        BY <2>1 DEF InTurn
      <4> QED  BY <3>1, <4>1, <4>2 DEF HashSound
    <3> QED  BY <3>2, <3>3
  <2> QED  BY <2>1, <2>2, <2>3 DEF InTurn
<1>7. ASSUME ~salesOverlap', \A t \in SaleIds : ~Gone(t)'  PROVE OwedSound'
  <2>1. ASSUME NEW t \in SaleIds  PROVE ~Gone(t)
    <3>1. CASE t = s
      BY <1>1, <3>1 DEF Gone
    <3>2. CASE t # s
      <4>1. Gone(t)' <=> Gone(t)
        BY <1>3, <3>2 DEF Gone, ChargedRows
      <4> QED  BY <1>7, <4>1
    <3> QED  BY <3>1, <3>2
  <2>2. OwedSound
    BY <1>7, <2>1 DEF TerminalInv
  <2>3. \A t \in SaleIds, b \in Buyers : RowPaid(t, b)' <= RowPaid(t, b)
    BY PaidType DEF TerminalInv, RowPaid
  <2>4. \A t \in SaleIds : InFlight(t)' => InFlight(t) /\ asked'[t] = asked[t]
    BY DEF InFlight
  <2> QED  BY <1>4, <2>2, <2>3, <2>4, OwedKept DEF TerminalInv
<1> QED  BY <1>4, <1>5, <1>6, <1>7 DEF TerminalInv

(* The card is charged, or not.                                            *)
LEMMA ChargeStep ==
  ASSUME TerminalInv, NEW s \in SaleIds,
         \/ TerminalDeclines(s)
         \/ \E amount \in 1 .. All : \E how \in {"approved", "unsigned"} :
              TerminalApproves(s, amount, how)
  PROVE  TerminalInv'
<1>1. CASE TerminalDeclines(s)
  <2>1. /\ terminal[s] = "asked" /\ terminal' = [terminal EXCEPT ![s] = "declined"]
        /\ UNCHANGED <<stage, asked, superseded, rows, hash, captured, salesOverlap, saleKills>>
    BY <1>1 DEF TerminalDeclines
  <2>2. captured[s] = 0 /\ 0 <= SumOver(asked[s]) /\ captured \in [SaleIds -> 0 .. All]
    BY <2>1 DEF TerminalInv, TerminalTypeOK, SaleSound
  <2>3. captured' = [captured EXCEPT ![s] = 0] /\ 0 \in 0 .. All
    BY <2>1, <2>2, AllType
  <2>4. ("declined" \in {"approved", "unsigned"} <=> 0 > 0) /\ 0 <= SumOver(asked[s])
    BY <2>2
  <2> QED  BY <2>1, <2>3, <2>4, TerminalActs
<1>2. CASE \E amount \in 1 .. All : \E how \in {"approved", "unsigned"} :
             TerminalApproves(s, amount, how)
  <2>1. PICK amount \in 1 .. All, how \in {"approved", "unsigned"} :
          TerminalApproves(s, amount, how)
    BY <1>2
  <2>2. amount \in 0 .. All /\ amount > 0
    BY AllType
  <2>3. /\ terminal[s] = "asked" /\ amount <= SumOver(asked[s])
        /\ terminal' = [terminal EXCEPT ![s] = how] /\ captured' = [captured EXCEPT ![s] = amount]
        /\ UNCHANGED <<stage, asked, superseded, rows, hash, salesOverlap, saleKills>>
    BY <2>1 DEF TerminalApproves
  <2> QED  BY <2>2, <2>3, TerminalActs
<1> QED  BY <1>1, <1>2

(* A poll after an error cancels the rows of the last sale: none that is   *)
(* charged, but after a partial approval.                                  *)
LEMMA PollErrorStep ==
  ASSUME TerminalInv, PollError
  PROVE  TerminalInv'
<1>1. PICK s \in SaleIds :
        /\ hash.intent = s /\ hash.error /\ rows' = [rows EXCEPT ![s] = CancelledRows(s)]
        /\ UNCHANGED <<stage, asked, superseded, hash, terminal, captured, salesOverlap, saleKills>>
  BY DEF PollError, TerminalInv, TerminalTypeOK
<1>2. /\ rows' \in [SaleIds -> [Buyers -> [amount : 0 .. All, charged : BOOLEAN,
                                           cancelled : BOOLEAN]]]
      /\ \A t \in SaleIds, b \in Buyers :
           /\ rows'[t][b].amount = rows[t][b].amount
           /\ rows'[t][b].charged = rows[t][b].charged
           /\ t # s => rows'[t][b] = rows[t][b]
           /\ rows'[s][b].cancelled = Exists(rows[s][b])
  BY <1>1, CancelRows DEF TerminalInv
<1>3. TerminalTypeOK'
  BY <1>1, <1>2 DEF TerminalInv, TerminalTypeOK
<1>4. ASSUME NEW t \in SaleIds  PROVE SaleSound(t)'
  BY <1>1, <1>2, SaleKept DEF TerminalInv
<1>5. ASSUME NEW t \in SaleIds
      PROVE  /\ ChargedRows(t)' = ChargedRows(t) /\ (InFlight(t)' <=> InFlight(t))
             /\ (Partial(t)' <=> Partial(t))
  BY <1>1, <1>2 DEF ChargedRows, InFlight, Partial, SumOver
<1>6. ASSUME NEW b \in Buyers, rows[s][b].charged  PROVE rows'[s][b].cancelled
  BY <1>2, <1>6 DEF TerminalInv, SaleSound
<1>7. ASSUME ~salesOverlap'  PROVE InTurn'
  <2>1. InTurn
    BY <1>1, <1>7 DEF TerminalInv
  <2>2. ASSUME NEW t \in SaleIds  PROVE HashSound(t)'
    <3>1. HashSound(t)
      BY <2>1 DEF InTurn
    <3>2. stage[t] = "sent" => \A tb \in superseded[t] : ~rows'[tb[1]][tb[2]].charged
      <4>1. superseded[t] \in SUBSET (SaleIds \X Buyers)
        BY DEF TerminalInv, TerminalTypeOK
      <4>2. ASSUME NEW tb \in superseded[t]
            PROVE  rows'[tb[1]][tb[2]].charged = rows[tb[1]][tb[2]].charged
        <5>1. tb[1] \in SaleIds /\ tb[2] \in Buyers
          BY <4>1
        <5> QED  BY <1>2, <5>1
      <4>3. stage[t] = "sent" => \A tb \in superseded[t] : ~rows[tb[1]][tb[2]].charged
        BY <3>1 DEF HashSound
      <4> QED  BY <4>2, <4>3
    <3>3. stage[t] \in {"mark", "done"} /\ ~Partial(t) =>
            \A b \in ChargedRows(t) : ~rows'[t][b].cancelled
      <4>1. CASE t = s
        <5>1. stage[t] \in {"mark", "done"} /\ ~Partial(t) => ChargedRows(t) = {}
          BY <1>1, <3>1, <4>1 DEF HashSound
        <5> QED  BY <5>1
      <4>2. CASE t # s
        BY <1>2, <3>1, <4>2 DEF HashSound, ChargedRows
      <4> QED  BY <4>1, <4>2
    <3> QED  BY <1>1, <1>5, <3>1, <3>2, <3>3 DEF HashSound
  <2> QED  BY <1>5, <2>1, <2>2 DEF InTurn
<1>8. ASSUME ~salesOverlap', \A t \in SaleIds : ~Gone(t)'  PROVE OwedSound'
  <2>1. ASSUME NEW t \in SaleIds  PROVE ~Gone(t)
    <3>1. Gone(t) => Gone(t)'
      BY <1>1, <1>2, <1>5, <1>6 DEF Gone, ChargedRows
    <3> QED  BY <1>8, <3>1
  <2>2. OwedSound
    BY <1>1, <1>8, <2>1 DEF TerminalInv
  <2>3. ASSUME NEW t \in SaleIds, NEW b \in Buyers  PROVE RowPaid(t, b)' <= RowPaid(t, b)
    <3>1. CASE t = s
      <4>1. RowPaid(t, b)' = 0
        BY <1>2, <1>6, <3>1 DEF RowPaid
      <4> QED  BY <4>1, PaidType DEF TerminalInv
    <3>2. CASE t # s
      BY <1>2, <3>2, PaidType DEF RowPaid, TerminalInv
    <3> QED  BY <3>1, <3>2
  <2> QED  BY <1>1, <1>3, <1>5, <2>2, <2>3, OwedKept DEF TerminalInv
<1> QED  BY <1>3, <1>4, <1>7, <1>8 DEF TerminalInv

(* A poll after a sale, and a step that leaves it all as it is.            *)
LEMMA PollSuccessStep ==
  ASSUME TerminalInv, PollSuccess \/ UNCHANGED terminalVars
  PROVE  TerminalInv'
<1>1. /\ hash'.intent = hash.intent /\ hash'.error = hash.error
      /\ hash' \in [intent : SaleIds \cup {NoSale}, error : BOOLEAN, response : BOOLEAN,
                    recorded : BOOLEAN]
      /\ UNCHANGED <<stage, asked, superseded, rows, terminal, captured, salesOverlap, saleKills>>
  BY DEF PollSuccess, terminalVars, TerminalInv, TerminalTypeOK
<1>2. TerminalTypeOK'
  BY <1>1 DEF TerminalInv, TerminalTypeOK
<1>3. ASSUME NEW t \in SaleIds
      PROVE  /\ SaleSound(t)' /\ ChargedRows(t)' = ChargedRows(t)
             /\ (InFlight(t)' <=> InFlight(t)) /\ (Gone(t)' <=> Gone(t))
             /\ (Partial(t)' <=> Partial(t))
  <2>1. SaleSound(t)'
    BY <1>1, SaleKept DEF TerminalInv
  <2>2. ChargedRows(t)' = ChargedRows(t) /\ (Partial(t)' <=> Partial(t))
    BY <1>1 DEF ChargedRows, Partial, SumOver
  <2>3. (InFlight(t)' <=> InFlight(t)) /\ (Gone(t)' <=> Gone(t))
    BY <1>1, <2>2 DEF InFlight, Gone
  <2> QED  BY <2>1, <2>2, <2>3
<1>4. ASSUME ~salesOverlap'  PROVE InTurn'
  <2>1. InTurn
    BY <1>1, <1>4 DEF TerminalInv
  <2>2. ASSUME NEW t \in SaleIds  PROVE HashSound(t)'
    <3>1. HashSound(t)
      BY <2>1 DEF InTurn
    <3> QED  BY <1>1, <1>3, <3>1 DEF HashSound
  <2> QED  BY <1>3, <2>1, <2>2 DEF InTurn
<1>5. ASSUME ~salesOverlap', \A t \in SaleIds : ~Gone(t)'  PROVE OwedSound'
  <2>1. OwedSound
    BY <1>1, <1>3, <1>5 DEF TerminalInv
  <2>2. \A t \in SaleIds, b \in Buyers : RowPaid(t, b)' <= RowPaid(t, b)
    BY <1>1, PaidType DEF TerminalInv, RowPaid
  <2> QED  BY <1>1, <1>2, <1>3, <2>1, <2>2, OwedKept DEF TerminalInv
<1> QED  BY <1>2, <1>3, <1>4, <1>5 DEF TerminalInv

-----------------------------------------------------------------------------
(* The invariant                                                           *)

(* Nothing was started.                                                    *)
LEMMA TerminalInitInv == TerminalInit => TerminalInv
<1> SUFFICES ASSUME TerminalInit  PROVE TerminalInv
  OBVIOUS
<1>1. All \in Nat /\ 0 \in 0 .. All
  BY AllType
<1>2. TerminalTypeOK
  <2>1. asked \in [SaleIds -> [Buyers -> 0 .. All]]
    BY AllType DEF TerminalInit
  <2>2. rows \in [SaleIds -> [Buyers -> [amount : 0 .. All, charged : BOOLEAN,
                                         cancelled : BOOLEAN]]]
    BY <1>1 DEF TerminalInit, NoRow
  <2>3. saleKills \in 0 .. MaxSaleKills
    BY TerminalAssumption DEF TerminalAssumption, TerminalInit
  <2> QED  BY <1>1, <2>1, <2>2, <2>3 DEF TerminalInit, TerminalTypeOK, Ended, NoHash
<1>3. ASSUME NEW s \in SaleIds
      PROVE  /\ stage[s] = "none" /\ terminal[s] = "idle" /\ asked[s] = Nothing /\ captured[s] = 0
             /\ \A b \in Buyers : rows[s][b].amount = 0 /\ ~rows[s][b].charged
  BY DEF TerminalInit, NoRow
<1>4. ASSUME NEW s \in SaleIds  PROVE SaleSound(s) /\ ~InFlight(s) /\ HashSound(s)
  <2>1. SumOver(asked[s]) = 0 /\ \A b \in Buyers : asked[s][b] = 0
    BY <1>3, AllType DEF Nothing
  <2> QED  BY <1>3, <2>1 DEF SaleSound, Exists, InFlight, Ended, HashSound
<1>5. ASSUME NEW b \in Buyers  PROVE PaidBy(b) <= Costs[b]
  <2>1. \A s \in SaleIds : PaidColumn(b)[s] = 0
    BY <1>3 DEF PaidColumn, RowPaid
  <2>2. PaidBy(b) = 0
    <3>1. IsFiniteSet(SaleIds)
      BY AllType
    <3>2. SumFunctionOnSet(PaidColumn(b), SaleIds) = 0
      BY <2>1, <3>1, SumZero
    <3> QED  BY <1>2, <3>2, PaidType
  <2> QED  BY <2>2, AllType
<1> QED  BY <1>2, <1>4, <1>5 DEF TerminalInv, InTurn, OwedSound

(* Every step keeps the invariant.                                         *)
LEMMA TerminalStep == TerminalInv /\ [TerminalNext]_terminalVars => TerminalInv'
<1> SUFFICES ASSUME TerminalInv, [TerminalNext]_terminalVars  PROVE TerminalInv'
  OBVIOUS
<1>1. ASSUME NEW s \in SaleIds, StartTerminalPayment(s)  PROVE TerminalInv'
  BY <1>1, StartStep
<1>2. ASSUME NEW s \in SaleIds, SendSale(s)  PROVE TerminalInv'
  BY <1>2, SendStep
<1>3. ASSUME NEW s \in SaleIds, RefuseSale(s)  PROVE TerminalInv'
  BY <1>3, RefuseStep
<1>4. ASSUME NEW s \in SaleIds,
             \/ TerminalDeclines(s)
             \/ \E amount \in 1 .. All : \E how \in {"approved", "unsigned"} :
                  TerminalApproves(s, amount, how)
      PROVE  TerminalInv'
  BY <1>4, ChargeStep
<1>5. ASSUME NEW s \in SaleIds, TakeAnswer(s) \/ LoseAnswer(s)  PROVE TerminalInv'
  BY <1>5, AnswerStep
<1>6. ASSUME NEW s \in SaleIds, VoidSale(s)  PROVE TerminalInv'
  BY <1>6, VoidStep
<1>7. ASSUME NEW s \in SaleIds, VoidFails(s) \/ KillSale(s)  PROVE TerminalInv'
  BY <1>7, VoidFailsStep
<1>8. ASSUME NEW s \in SaleIds, FitRows(s)  PROVE TerminalInv'
  BY <1>8, FitStep
<1>9. ASSUME NEW s \in SaleIds, NEW b \in Buyers, MarkRow(s, b)  PROVE TerminalInv'
  BY <1>9, MarkStep
<1>10. ASSUME NEW s \in SaleIds, LogSuccess(s)  PROVE TerminalInv'
  BY <1>10, LogStep
<1>11. ASSUME NEW s \in SaleIds, CheckTerminalPayment(s)  PROVE TerminalInv'
  BY <1>11, CheckStep
<1>12. ASSUME PollError  PROVE TerminalInv'
  BY <1>12, PollErrorStep
<1>13. ASSUME PollSuccess \/ UNCHANGED terminalVars  PROVE TerminalInv'
  BY <1>13, PollSuccessStep
<1> QED  BY <1>1, <1>2, <1>3, <1>4, <1>5, <1>6, <1>7, <1>8, <1>9, <1>10, <1>11, <1>12, <1>13
         DEF TerminalNext

(* So the invariant holds throughout.                                      *)
LEMMA TerminalInvariant == TerminalSpec => []TerminalInv
BY TerminalInitInv, TerminalStep, PTL DEF TerminalSpec

(* A sale that is over has recorded what it took, and without overlap its  *)
(* rows are cancelled after a partial approval only.                       *)
LEMMA InvRecorded == TerminalInv => RecordedIsCaptured
<1> SUFFICES ASSUME TerminalInv, NEW s \in SaleIds, stage[s] = "done"
             PROVE  /\ SumFunctionOnSet([b \in Buyers |-> rows[s][b].amount], ChargedRows(s))
                         = captured[s]
                    /\ (\E b \in ChargedRows(s) : rows[s][b].cancelled) =>
                         salesOverlap \/ Partial(s)
  BY DEF RecordedIsCaptured
<1>1. SumFunctionOnSet([b \in Buyers |-> rows[s][b].amount], ChargedRows(s)) = captured[s]
  BY DEF TerminalInv, SaleSound, RowAmounts
<1>2. ~salesOverlap /\ ~Partial(s) => \A b \in ChargedRows(s) : ~rows[s][b].cancelled
  BY DEF TerminalInv, InTurn, HashSound
<1> QED  BY <1>1, <1>2

(* A sale that nobody works on any more, and that is not Gone, has paid    *)
(* the receipts of the buyers what the card was charged.                   *)
LEMMA SettledSale ==
  ASSUME TerminalInv, NEW s \in SaleIds, stage[s] \in Ended,
         captured[s] > 0 => ~Unsure(s)
  PROVE  captured[s] = SumFunctionOnSet([b \in Buyers |-> RowPaid(s, b)], Buyers)
<1> DEFINE paid == [b \in Buyers |-> RowPaid(s, b)]
<1>1. IsFiniteSet(Buyers) /\ SaleSound(s) /\ captured[s] \in Nat /\ captured[s] >= 0
  BY AllType DEF TerminalInv, TerminalTypeOK
<1>2. CASE captured[s] = 0
  <2>1. stage[s] # "done" => \A b \in Buyers : ~rows[s][b].charged
    BY <1>1, <1>2 DEF SaleSound, Ended
  <2>2. ASSUME stage[s] = "done", NEW b \in Buyers  PROVE ~rows[s][b].charged
    <3>1. SUFFICES ASSUME rows[s][b].charged  PROVE FALSE
      OBVIOUS
    <3>2. ChargedRows(s) \in SUBSET Buyers /\ b \in ChargedRows(s) /\ IsFiniteSet(ChargedRows(s))
      BY <1>1, <3>1, FS_Subset DEF ChargedRows
    <3>3. \A c \in ChargedRows(s) : RowAmounts(s)[c] \in Nat
      BY PaidType DEF TerminalInv, RowAmounts, ChargedRows
    <3>4. SumFunctionOnSet(RowAmounts(s), ChargedRows(s)) = 0
      BY <1>1, <1>2, <2>2 DEF SaleSound
    <3>5. SumFunctionOnSet(RowAmounts(s), ChargedRows(s)) =
            RowAmounts(s)[b] + SumFunctionOnSet(RowAmounts(s), ChargedRows(s) \ {b})
      BY <3>2, <3>3, SumWithout
    <3>6. SumFunctionOnSet(RowAmounts(s), ChargedRows(s) \ {b}) \in Nat
      <4>1. IsFiniteSet(ChargedRows(s) \ {b})
        BY <3>2, FS_Subset
      <4> QED  BY <3>3, <4>1, SumNat
    <3>7. RowAmounts(s)[b] > 0
      BY <1>1, <3>1 DEF SaleSound, Exists, RowAmounts
    <3>8. RowAmounts(s)[b] \in Nat
      BY <3>2, <3>3
    <3> QED  BY <3>4, <3>5, <3>6, <3>7, <3>8
  <2>3. \A b \in Buyers : paid[b] = 0
    BY <2>1, <2>2 DEF RowPaid
  <2>4. SumFunctionOnSet(paid, Buyers) = 0
    BY <1>1, <2>3, SumZero
  <2> QED  BY <1>2, <2>4
<1>3. CASE captured[s] > 0
  <2>1. stage[s] = "done" /\ \A b \in ChargedRows(s) : ~rows[s][b].cancelled
    BY <1>1, <1>3 DEF Unsure, Ended, SaleSound
  <2>2. SumFunctionOnSet(RowAmounts(s), ChargedRows(s)) = captured[s]
    BY <1>1, <2>1 DEF SaleSound
  <2>3. ChargedRows(s) \in SUBSET Buyers /\ IsFiniteSet(ChargedRows(s))
    BY <1>1, FS_Subset DEF ChargedRows
  <2>4. \A b \in ChargedRows(s) : RowAmounts(s)[b] = paid[b]
    BY <2>1, <2>3 DEF RowAmounts, RowPaid, ChargedRows
  <2>5. SumFunctionOnSet(RowAmounts(s), ChargedRows(s)) = SumFunctionOnSet(paid, ChargedRows(s))
    BY <2>3, <2>4, SumSame
  <2>6. \A b \in Buyers : paid[b] \in Nat
    BY PaidType DEF TerminalInv
  <2>7. \A b \in Buyers \ ChargedRows(s) : paid[b] = 0
    BY DEF ChargedRows, RowPaid
  <2>8. SumFunctionOnSet(paid, ChargedRows(s)) = SumFunctionOnSet(paid, Buyers)
    BY <1>1, <2>3, <2>6, <2>7, SumOfPart
  <2> QED  BY <2>2, <2>5, <2>8
<1> QED  BY <1>1, <1>2, <1>3

(* What several sales that are settled took is what they paid.             *)
LEMMA SettledSales ==
  ASSUME TerminalInv, NEW S \in SUBSET SaleIds,
         \A s \in S : stage[s] \in Ended /\ (captured[s] > 0 => ~Unsure(s))
  PROVE  SumFunctionOnSet(captured, S) =
           SumFunctionOnSet([b \in Buyers |-> SumFunctionOnSet(PaidColumn(b), S)], Buyers)
<1> DEFINE table == [s \in S |-> [b \in Buyers |-> RowPaid(s, b)]]
<1>1. IsFiniteSet(S) /\ IsFiniteSet(Buyers)
  BY AllType, FS_Subset
<1>2. \A s \in S, b \in Buyers : table[s][b] \in Int
  BY PaidType DEF TerminalInv
<1> DEFINE totals == [t \in S |-> SumFunctionOnSet(table[t], Buyers)]
<1>3. ASSUME NEW s \in S  PROVE captured[s] = totals[s]
  BY SettledSale
<1>4. SumFunctionOnSet(captured, S) = SumFunctionOnSet(totals, S)
  <2> HIDE DEF totals
  <2> QED  BY <1>1, <1>3, SumSame
<1>5. ASSUME NEW b \in Buyers
      PROVE  SumFunctionOnSet([t \in S |-> table[t][b]], S) = SumFunctionOnSet(PaidColumn(b), S)
  <2>1. \A t \in S : [u \in S |-> table[u][b]][t] = PaidColumn(b)[t]
    BY DEF PaidColumn
  <2> QED  BY <1>1, <2>1, SumSame
<1>6. [b \in Buyers |-> SumFunctionOnSet([t \in S |-> table[t][b]], S)] =
        [b \in Buyers |-> SumFunctionOnSet(PaidColumn(b), S)]
  BY <1>5
<1>7. SumFunctionOnSet([t \in S |-> SumFunctionOnSet(table[t], Buyers)], S) =
        SumFunctionOnSet([b \in Buyers |-> SumFunctionOnSet([t \in S |-> table[t][b]], S)], Buyers)
  <2> HIDE DEF table
  <2> QED  BY <1>1, <1>2, SumExchange
<1> QED  BY <1>4, <1>6, <1>7

(* The sales took no more than is owed: those that are settled what they   *)
(* paid, and the one in flight no more than the others left.               *)
LEMMA InvCharged == TerminalInv => ChargedOnce
<1> SUFFICES ASSUME TerminalInv, ~salesOverlap,
                    \A s \in SaleIds : captured[s] > 0 => ~Unsure(s)
             PROVE  SumFunctionOnSet(captured, SaleIds) <= All
  BY DEF ChargedOnce
<1>1. InTurn
  BY DEF TerminalInv
<1>2. ASSUME NEW s \in SaleIds  PROVE ~Gone(s)
  BY DEF Gone, Unsure
<1>3. OwedSound
  BY <1>2 DEF TerminalInv
<1>4. ASSUME \A s \in SaleIds : stage[s] \in Ended
      PROVE  SumFunctionOnSet(captured, SaleIds) <= All
  <2> DEFINE paid == [b \in Buyers |-> SumFunctionOnSet(PaidColumn(b), SaleIds)]
  <2>1. SumFunctionOnSet(captured, SaleIds) = SumFunctionOnSet(paid, Buyers)
    BY <1>4, SettledSales
  <2>2. ASSUME NEW b \in Buyers
        PROVE  paid[b] \in Int /\ Costs[b] \in Int /\ paid[b] <= Costs[b]
    BY <1>3, PaidType, AllType DEF OwedSound, TerminalInv
  <2>3. IsFiniteSet(Buyers)
    BY AllType
  <2> HIDE DEF paid
  <2>4. SumFunctionOnSet(paid, Buyers) <= SumFunctionOnSet(Costs, Buyers)
    BY <2>2, <2>3, SumAtMost
  <2> QED  BY <2>1, <2>4 DEF All, SumOver
<1>5. ASSUME NEW s \in SaleIds, stage[s] \notin Ended
      PROVE  SumFunctionOnSet(captured, SaleIds) <= All
  <2> DEFINE others == [b \in Buyers |-> PaidByOthers(s, b)]
             both == [b \in Buyers |-> PaidByOthers(s, b) + asked[s][b]]
  <2>1. InFlight(s) /\ \A t \in SaleIds \ {s} : stage[t] \in Ended
    BY <1>1, <1>5, InFlightAlone DEF InFlight, TerminalInv
  <2>2. SumFunctionOnSet(captured, SaleIds \ {s}) = SumFunctionOnSet(others, Buyers)
    <3>1. SaleIds \ {s} \in SUBSET SaleIds
      OBVIOUS
    <3> QED  BY <2>1, <3>1, SettledSales DEF PaidByOthers
  <2>3. captured[s] <= SumFunctionOnSet(asked[s], Buyers) /\ asked[s] \in [Buyers -> 0 .. All]
    BY DEF TerminalInv, TerminalTypeOK, SaleSound, SumOver
  <2>4. IsFiniteSet(Buyers) /\ IsFiniteSet(SaleIds)
    BY AllType
  <2>5. ASSUME NEW b \in Buyers
        PROVE  /\ others[b] \in Nat /\ asked[s][b] \in Nat /\ both[b] = others[b] + asked[s][b]
               /\ both[b] \in Int /\ Costs[b] \in Int /\ both[b] <= Costs[b]
    <3>1. asked[s][b] \in Nat /\ PaidByOthers(s, b) \in Nat /\ Costs[b] \in Nat
      BY <2>3, PaidType, AllType DEF TerminalInv
    <3>2. PaidByOthers(s, b) + asked[s][b] <= Costs[b]
      BY <1>3, <2>1 DEF OwedSound
    <3> QED  BY <3>1, <3>2
  <2> HIDE DEF others, both
  <2>6. SumFunctionOnSet(both, Buyers) =
          SumFunctionOnSet(others, Buyers) + SumFunctionOnSet(asked[s], Buyers)
    BY <2>4, <2>5, SumOfSums
  <2>7. SumFunctionOnSet(both, Buyers) <= SumFunctionOnSet(Costs, Buyers)
    BY <2>4, <2>5, SumAtMost
  <2>8. SumFunctionOnSet(captured, SaleIds) =
          captured[s] + SumFunctionOnSet(captured, SaleIds \ {s})
    <3>1. \A t \in SaleIds : captured[t] \in Int
      BY AllType DEF TerminalInv, TerminalTypeOK
    <3> QED  BY <2>4, <3>1, SumWithout
  <2>9. /\ SumFunctionOnSet(others, Buyers) \in Nat /\ SumFunctionOnSet(asked[s], Buyers) \in Nat
        /\ captured[s] \in Nat /\ SumFunctionOnSet(Costs, Buyers) = All /\ All \in Nat
    <3>1. SumFunctionOnSet(others, Buyers) \in Nat
      BY <2>4, <2>5, SumNat
    <3>2. SumFunctionOnSet(asked[s], Buyers) \in Nat
      BY <2>4, <2>5, SumNat
    <3>3. captured[s] \in Nat
      BY AllType DEF TerminalInv, TerminalTypeOK
    <3> QED  BY <3>1, <3>2, <3>3, AllType DEF All, SumOver
  <2>10. SumFunctionOnSet(both, Buyers) \in Int
    BY <2>6, <2>9
  <2> QED  BY <2>2, <2>3, <2>6, <2>7, <2>8, <2>9, <2>10
<1> QED  BY <1>4, <1>5

(* The types hold throughout.                                              *)
THEOREM TerminalTypeCorrect == TerminalSpec => []TerminalTypeOK
<1>1. TerminalInv => TerminalTypeOK
  BY DEF TerminalInv
<1> QED  BY <1>1, TerminalInvariant, PTL

(* A sale that is over recorded what the card was charged, and a charged   *)
(* row is cancelled only if sales overlap or the approval was partial.     *)
THEOREM SalesAreRecorded == TerminalSpec => []RecordedIsCaptured
BY InvRecorded, TerminalInvariant, PTL

(* Sales one after the other charge no more than is owed, as long as what  *)
(* the earlier ones took is known and recorded.                            *)
THEOREM BuyersAreChargedOnce == TerminalSpec => []ChargedOnce
BY InvCharged, TerminalInvariant, PTL

-----------------------------------------------------------------------------
(***************************************************************************)
(* ArtSales                                                                *)
(***************************************************************************)

Counts(p) == piece[p].status = "paid" /\ SalePrice(p) > 0
Booked(r) == <<SumFunctionOnSet(SalePrices, PaidOn(r))>>

Piece == [status : Statuses, bid : Bids \cup {0}, invoice : Invoices \cup {NoInvoice}]
Payment == [invoice : Invoices \cup {NoInvoice}, amount : Int, type : {"cash", "refund", "card"}]

(* What a receipt says of its pieces and its payments, step by step.       *)
ReceiptSound(r) ==
  /\ ~IsMade(r) => ~invoice[r].closed
  /\ r \in unbooked => invoice[r].closed /\ ~BeingClosed(r) /\ invoice[r].sales = <<>>
  /\ BeingClosed(r) => /\ invoice[r].closed /\ invoice[r].sales = <<>>
                       /\ \A p \in Pieces : piece[p].invoice = r => piece[p].status = "paid"
  /\ invoice[r].closed /\ r \notin unbooked => invoice[r].cash = CashTotal(r)
  /\ invoice[r].closed /\ r \notin unbooked /\ ~BeingClosed(r) => invoice[r].sales = Booked(r)
  /\ ~invoice[r].closed => /\ invoice[r].sales = <<>> /\ invoice[r].cash = 0
                           /\ \A p \in Pieces : piece[p].invoice = r => ~Counts(p)

ArtSound ==
  /\ unbooked \subseteq Invoices
  /\ \A d, e \in ArtDesks : closing[d] = closing[e] /\ closing[d] # NoInvoice => d = e
  /\ \A r \in Invoices : ReceiptSound(r)
  /\ \A p \in Pieces : Counts(p) => piece[p].invoice # NoInvoice

ArtInv == ArtTypeOK /\ (~misled => ArtSound)

-----------------------------------------------------------------------------
(* Prices and totals are numbers.                                          *)
LEMMA PriceType ==
  ASSUME ArtTypeOK
  PROVE  /\ IsFiniteSet(Pieces)
         /\ \A p \in Pieces : SalePrice(p) \in Nat /\ SalePrices[p] = SalePrice(p)
         /\ \A r \in Invoices : IsFiniteSet(On(r)) /\ InvoiceTotal(r) \in Nat
<1>1. IsFiniteSet(Pieces) /\ QuickPrice \in [Pieces -> Nat] /\ Bids \cup {0} \subseteq Nat
  BY ArtAssumption DEF ArtAssumption
<1>2. ASSUME NEW p \in Pieces  PROVE SalePrice(p) \in Nat /\ SalePrices[p] = SalePrice(p)
  <2>1. piece[p] \in Piece
    BY DEF ArtTypeOK, Piece
  <2>2. piece[p].bid \in Bids \cup {0}
    BY <2>1 DEF Piece
  <2>3. piece[p].bid \in Nat /\ QuickPrice[p] \in Nat
    BY <1>1, <2>2
  <2>4. SalePrice(p) \in Nat
    BY <2>3 DEF SalePrice
  <2> QED  BY <2>4 DEF SalePrices
<1>3. ASSUME NEW r \in Invoices  PROVE IsFiniteSet(On(r)) /\ InvoiceTotal(r) \in Nat
  <2>1. On(r) \subseteq Pieces
    BY DEF On
  <2>2. IsFiniteSet(On(r)) /\ \A p \in On(r) : SalePrices[p] \in Nat
    BY <1>1, <1>2, <2>1, FS_Subset
  <2> QED  BY <2>2, SumNat DEF InvoiceTotal
<1> QED  BY <1>1, <1>2, <1>3

PaymentAmounts == [k \in PaymentIds |-> payment[k].amount]
OfType(r, type) == {k \in PaymentsOf(r) : payment[k].type = type}

(* The sums, with the payments by name.                                    *)
LEMMA AmountsAre ==
  \A r, type : Amounts(r, type) = SumFunctionOnSet(PaymentAmounts, OfType(r, type))
BY DEF Amounts, PaymentAmounts, OfType

(* So are the sums of payments.                                            *)
LEMMA AmountType ==
  ASSUME ArtTypeOK
  PROVE  \A r \in Invoices : /\ \A type \in {"cash", "refund", "card"} : Amounts(r, type) \in Int
                             /\ Paid(r) \in Int /\ CashTotal(r) \in Int /\ OwedOn(r) \in Int
<1> SUFFICES ASSUME NEW r \in Invoices
             PROVE  /\ \A type \in {"cash", "refund", "card"} : Amounts(r, type) \in Int
                    /\ Paid(r) \in Int /\ CashTotal(r) \in Int /\ OwedOn(r) \in Int
  OBVIOUS
<1>1. IsFiniteSet(PaymentIds)
  BY ArtAssumption, FS_Interval DEF ArtAssumption, PaymentIds
<1>2. ASSUME NEW type  PROVE Amounts(r, type) \in Int
  <2>1. OfType(r, type) \subseteq PaymentIds
    BY DEF OfType, PaymentsOf
  <2>2. \A k \in OfType(r, type) : PaymentAmounts[k] \in Int
    BY <2>1 DEF PaymentAmounts, ArtTypeOK
  <2>3. IsFiniteSet(OfType(r, type))
    BY <1>1, <2>1, FS_Subset
  <2> QED  BY <2>2, <2>3, SumType, AmountsAre
<1>3. InvoiceTotal(r) \in Int
  BY PriceType
<1> QED  BY <1>2, <1>3 DEF Paid, CashTotal, OwedOn

(* A payment that is made or undone changes the cash of no other receipt,  *)
(* and a card payment the cash of none.                                    *)
LEMMA CashKept ==
  ASSUME ArtTypeOK, NEW r \in Invoices, NEW k \in PaymentIds, NEW new,
         payment' = [payment EXCEPT ![k] = new],
         payment[k].invoice # r \/ payment[k].type = "card",
         new.invoice # r \/ new.type = "card"
  PROVE  CashTotal(r)' = CashTotal(r)
<1>1. IsFiniteSet(PaymentIds)
  BY ArtAssumption, FS_Interval DEF ArtAssumption, PaymentIds
<1>2. payment' \in [PaymentIds -> {payment'[j] : j \in PaymentIds}] /\ payment'[k] = new
      /\ \A j \in PaymentIds : j # k => payment'[j] = payment[j]
  BY DEF ArtTypeOK
<1>3. ASSUME NEW type \in {"cash", "refund"}  PROVE Amounts(r, type)' = Amounts(r, type)
  <2>1. OfType(r, type)' = OfType(r, type) /\ k \notin OfType(r, type)
    BY <1>2 DEF OfType, PaymentsOf
  <2>2. OfType(r, type) \subseteq PaymentIds
    BY DEF OfType, PaymentsOf
  <2>3. \A j \in OfType(r, type) : PaymentAmounts'[j] = PaymentAmounts[j]
    BY <1>2, <2>1, <2>2 DEF PaymentAmounts
  <2>4. IsFiniteSet(OfType(r, type))
    BY <1>1, <2>2, FS_Subset
  <2>5. SumFunctionOnSet(PaymentAmounts', OfType(r, type)) =
          SumFunctionOnSet(PaymentAmounts, OfType(r, type))
    BY <2>3, <2>4, SumSame
  <2>6. Amounts(r, type)' = SumFunctionOnSet(PaymentAmounts', OfType(r, type)')
    BY DEF Amounts, PaymentAmounts, OfType
  <2> QED  BY <2>1, <2>5, <2>6, AmountsAre
<1> QED  BY <1>3 DEF CashTotal

(* A receipt starts open and without rows.                                 *)
LEMMA NewInvoice ==
  /\ NoInvoiceYet \in Invoice
  /\ NoInvoiceYet.closed = FALSE /\ NoInvoiceYet.sales = <<>> /\ NoInvoiceYet.cash = 0
<1>1. <<>> \in Seq(Nat) /\ 0 \in Int
  OBVIOUS
<1> QED  BY <1>1 DEF NoInvoiceYet, Invoice

(* Steps keep the types.                                                   *)
LEMMA TypeStep ==
  ASSUME ArtTypeOK, ArtNext
  PROVE  ArtTypeOK'
<1>0. /\ piece \in [Pieces -> Piece] /\ invoice \in [Invoices -> Invoice]
      /\ payment \in [PaymentIds -> Payment] /\ closing \in [ArtDesks -> Invoices \cup {NoInvoice}]
      /\ hangForm \in [Hung -> Statuses] \cup {NoForm}
  BY DEF ArtTypeOK, Piece, Payment
<1> SUFFICES /\ piece' \in [Pieces -> Piece] /\ invoice' \in [Invoices -> Invoice]
             /\ payment' \in [PaymentIds -> Payment]
             /\ closing' \in [ArtDesks -> Invoices \cup {NoInvoice}]
             /\ hangForm' \in [Hung -> Statuses] \cup {NoForm}
  BY DEF ArtTypeOK, Piece, Payment
<1>m. ASSUME NEW b \in Shoppers, NEW r \in Invoices  PROVE Made(r, b) \in [Invoices -> Invoice]
  <2>1. NoInvoiceYet \in Invoice
    BY NewInvoice
  <2>3. [NoInvoiceYet EXCEPT !.of = b] \in Invoice
    BY <2>1 DEF Invoice
  <2> QED  BY <1>0, <2>3 DEF Made
<1>f. \A b \in Shoppers : ReceiptFor(b) \subseteq Invoices
  BY DEF ReceiptFor, OpenOf, NextInvoice
<1>1. ASSUME Sell
      PROVE  /\ piece' \in [Pieces -> Piece] /\ invoice' \in [Invoices -> Invoice]
             /\ payment' \in [PaymentIds -> Payment]
  <2>1. ASSUME NEW p \in Pieces, CloseOut(p)
        PROVE  /\ piece' \in [Pieces -> Piece] /\ invoice' \in [Invoices -> Invoice]
               /\ payment' = payment
    <3>1. CASE VoiceAuction(p)
      BY <1>0, <3>1 DEF VoiceAuction, Piece, Statuses
    <3>2. CASE NoBids(p)
      <4>1. PICK st \in Statuses : piece' = [piece EXCEPT ![p].bid = 0, ![p].status = st]
        BY <3>2 DEF NoBids, Statuses
      <4> DEFINE half == [piece EXCEPT ![p].bid = 0]
      <4>2. half \in [Pieces -> Piece]
        BY <1>0 DEF Piece
      <4>3. piece' = [half EXCEPT ![p].status = st]
        BY <4>1
      <4> HIDE DEF half
      <4>4. piece' \in [Pieces -> Piece]
        BY <4>2, <4>3 DEF Piece
      <4> QED  BY <1>0, <3>2, <4>4 DEF NoBids
    <3>3. CASE \E b \in Shoppers, bid \in Bids : SetWinner(p, b, bid)
      <4>1. PICK b \in Shoppers, bid \in Bids : SetWinner(p, b, bid)
        BY <3>3
      <4>2. PICK r \in Invoices :
              /\ invoice' = Made(r, b)
              /\ piece' = [piece EXCEPT ![p] = [status |-> "sold", bid |-> bid, invoice |-> r]]
        BY <4>1, <1>f DEF SetWinner
      <4>3. [status |-> "sold", bid |-> bid, invoice |-> r] \in Piece
        BY DEF Piece, Statuses
      <4> QED  BY <1>0, <1>m, <4>1, <4>2, <4>3 DEF SetWinner
    <3> QED  BY <2>1, <3>1, <3>2, <3>3 DEF CloseOut
  <2>2. ASSUME NEW b \in Shoppers, PiecesBought(b)
        PROVE  /\ piece' \in [Pieces -> Piece] /\ invoice' \in [Invoices -> Invoice]
               /\ payment' = payment
    <3>1. PICK r \in Invoices :
            /\ invoice' = Made(r, b)
            /\ (\E p \in Pieces : piece' = [piece EXCEPT ![p].invoice = r]) \/ piece' = piece
      BY <2>2, <1>f DEF PiecesBought
    <3>2. piece' \in [Pieces -> Piece]
      BY <1>0, <3>1 DEF Piece
    <3> QED  BY <1>m, <2>2, <3>1, <3>2 DEF PiecesBought
  <2>3. ASSUME NEW r \in Invoices, NEW p \in Pieces, UnclaimPiece(r, p)
        PROVE  piece' \in [Pieces -> Piece] /\ invoice' = invoice /\ payment' = payment
    BY <1>0, <2>3 DEF UnclaimPiece, Piece
  <2>4. ASSUME NEW r \in Invoices, RecordPayment(r) \/ ChargeCard(r)
        PROVE  payment' \in [PaymentIds -> Payment] /\ invoice' = invoice /\ piece' = piece
    <3>1. PICK type \in {"cash", "refund", "card"}, amount \in Int : Pays(r, type, amount)
      <4>1. OwedOn(r) \in Int /\ Paid(r) \in Int
        BY AmountType
      <4> QED  BY <2>4, <4>1 DEF RecordPayment, ChargeCard
    <3>2. [invoice |-> r, type |-> type, amount |-> amount] \in Payment
      BY DEF Payment
    <3> QED  BY <1>0, <3>1, <3>2 DEF Pays
  <2>5. ASSUME NEW k \in PaymentIds, UndoPayment(k) \/ CancelCard(k)
        PROVE  payment' \in [PaymentIds -> Payment] /\ invoice' = invoice /\ piece' = piece
    <3>1. NoPayment \in Payment
      BY DEF NoPayment, Payment
    <3> QED  BY <1>0, <2>5, <3>1 DEF UndoPayment, CancelCard
  <2> QED  BY <1>0, <1>1, <2>1, <2>2, <2>3, <2>4, <2>5 DEF Sell
<1>2. CASE Sell
  BY <1>0, <1>1, <1>2 DEF Sell
<1>3. ASSUME NEW d \in ArtDesks, NEW r \in Invoices, CloseReceipt(d, r)
      PROVE  /\ piece' \in [Pieces -> Piece] /\ invoice' \in [Invoices -> Invoice]
             /\ closing' \in [ArtDesks -> Invoices \cup {NoInvoice}]
             /\ payment' = payment /\ hangForm' = hangForm
  <2>1. CashTotal(r) \in Int
    BY AmountType
  <2>2. invoice' \in [Invoices -> Invoice]
    BY <1>0, <1>3, <2>1 DEF CloseReceipt, Invoice
  <2>3. piece' \in [Pieces -> Piece]
    BY <1>0, <1>3 DEF CloseReceipt, Piece, Statuses
  <2> QED  BY <1>0, <1>3, <2>2, <2>3 DEF CloseReceipt
<1>4. ASSUME NEW d \in ArtDesks, BookSale(d)
      PROVE  /\ invoice' \in [Invoices -> Invoice]
             /\ closing' \in [ArtDesks -> Invoices \cup {NoInvoice}]
             /\ piece' = piece /\ payment' = payment /\ hangForm' = hangForm
  <2> DEFINE r == closing[d]
             s == Append(invoice[r].sales, InvoiceTotal(r))
  <2>1. r \in Invoices
    BY <1>0, <1>4 DEF BookSale
  <2>2. invoice[r].sales \in Seq(Nat) /\ InvoiceTotal(r) \in Nat
    BY <1>0, <2>1, PriceType DEF Invoice
  <2>3. s \in Seq(Nat)
    BY <2>2
  <2>4. invoice' = [invoice EXCEPT ![r].sales = s]
    BY <1>4 DEF BookSale
  <2> HIDE DEF s
  <2>5. invoice' \in [Invoices -> Invoice]
    BY <1>0, <2>1, <2>3, <2>4 DEF Invoice
  <2> QED  BY <1>0, <1>4, <2>5 DEF BookSale
<1>5. ASSUME NEW d \in ArtDesks, KillClosing(d)
      PROVE  /\ closing' \in [ArtDesks -> Invoices \cup {NoInvoice}]
             /\ UNCHANGED <<piece, invoice, payment, hangForm>>
  BY <1>0, <1>5 DEF KillClosing
<1>6. ASSUME NEW r \in Invoices, ReopenReceipt(r)
      PROVE  /\ piece' \in [Pieces -> Piece] /\ invoice' \in [Invoices -> Invoice]
             /\ UNCHANGED <<payment, closing, hangForm>>
  <2>1. WithoutRows(invoice[r]) \in Invoice
    <3> DEFINE s == IF invoice[r].sales = <<>> THEN invoice[r].sales ELSE Tail(invoice[r].sales)
    <3>1. invoice[r] \in Invoice /\ invoice[r].sales \in Seq(Nat)
      BY <1>0 DEF Invoice
    <3>2. s \in Seq(Nat) /\ 0 \in Int
      BY <3>1
    <3>3. WithoutRows(invoice[r]) = [invoice[r] EXCEPT !.closed = FALSE, !.cash = 0, !.sales = s]
      BY DEF WithoutRows
    <3> HIDE DEF s
    <3> QED  BY <3>1, <3>2, <3>3 DEF Invoice
  <2>2. invoice' \in [Invoices -> Invoice]
    BY <1>0, <1>6, <2>1 DEF ReopenReceipt
  <2>3. \A p \in Pieces : Unsold(p) \in Statuses
    BY <1>0 DEF Unsold, Statuses, Piece
  <2>4. piece' \in [Pieces -> Piece]
    BY <1>0, <1>6, <2>3 DEF ReopenReceipt, Piece
  <2> QED  BY <1>6, <2>2, <2>4 DEF ReopenReceipt
<1>7. ASSUME OpenForm
      PROVE  /\ hangForm' \in [Hung -> Statuses]
             /\ UNCHANGED <<piece, invoice, payment, closing>>
  <2>1. Hung \subseteq Pieces
    BY ArtAssumption DEF ArtAssumption
  <2>2. \A p \in Hung : piece[p].status \in Statuses
    BY <1>0, <2>1 DEF Piece
  <2> QED  BY <1>7, <2>2 DEF OpenForm
<1>8. ASSUME NEW kind, SaveAndCheckInOut(kind)
      PROVE  /\ piece' \in [Pieces -> Piece] /\ hangForm' = NoForm
             /\ UNCHANGED <<invoice, payment, closing>>
  <2>1. \A p \in Hung : Written(kind, p) \in Statuses
    BY <1>0, <1>8 DEF SaveAndCheckInOut, Written, CheckedOut, Statuses
  <2>2. piece' \in [Pieces -> Piece]
    BY <1>0, <1>8, <2>1 DEF SaveAndCheckInOut, Piece
  <2> QED  BY <1>8, <2>2 DEF SaveAndCheckInOut
<1> QED  BY <1>0, <1>2, <1>3, <1>4, <1>5, <1>6, <1>7, <1>8 DEF ArtNext

-----------------------------------------------------------------------------
(* Steps that leave a receipt as it is, but for pieces that do not count   *)

SameReceipt(r) ==
  /\ IsMade(r) => IsMade(r)'
  /\ invoice'[r].closed = invoice[r].closed /\ invoice'[r].sales = invoice[r].sales
  /\ invoice'[r].cash = invoice[r].cash
  /\ r \in unbooked' <=> r \in unbooked
  /\ BeingClosed(r)' <=> BeingClosed(r)
  /\ invoice[r].closed => CashTotal(r)' = CashTotal(r)

OnAndCounts(p, r) == piece[p].invoice = r /\ Counts(p)

SamePieces(r) ==
  /\ \A p \in Pieces : /\ OnAndCounts(p, r)' <=> OnAndCounts(p, r)
                       /\ OnAndCounts(p, r) => SalePrice(p)' = SalePrice(p)
  /\ BeingClosed(r) => \A p \in Pieces : piece'[p].invoice = r => piece'[p].status = "paid"

(* What counts is on the receipt and adds up to the same sale.             *)
LEMMA BookedKept ==
  ASSUME ArtTypeOK, NEW r \in Invoices, SamePieces(r)
  PROVE  Booked(r)' = Booked(r)
<1>1. \A p \in Pieces : OnAndCounts(p, r)' <=> OnAndCounts(p, r)
  BY DEF SamePieces
<1>2. PaidOn(r) = {p \in Pieces : OnAndCounts(p, r)}
  BY DEF PaidOn, On, OnAndCounts, Counts
<1>3. PaidOn(r)' = {p \in Pieces : OnAndCounts(p, r)'}
  BY DEF PaidOn, On, OnAndCounts, Counts
<1>4. PaidOn(r)' = PaidOn(r)
  BY <1>1, <1>2, <1>3
<1>5. \A p \in PaidOn(r) : SalePrices'[p] = SalePrices[p]
  <2>1. SalePrices' = [p \in Pieces |-> SalePrice(p)']
    BY DEF SalePrices
  <2> QED  BY <1>2, <2>1 DEF SamePieces, SalePrices
<1>6. IsFiniteSet(PaidOn(r))
  BY <1>2, PriceType, FS_Subset
<1>7. SumFunctionOnSet(SalePrices', PaidOn(r)) = SumFunctionOnSet(SalePrices, PaidOn(r))
  BY <1>5, <1>6, SumSame
<1>8. Booked(r)' = <<SumFunctionOnSet(SalePrices', PaidOn(r)')>>
  BY DEF Booked
<1> QED  BY <1>4, <1>7, <1>8 DEF Booked

(* What leaves a receipt and its pieces as they are leaves it sound.       *)
LEMMA ReceiptKept ==
  ASSUME ArtTypeOK, NEW r \in Invoices, ReceiptSound(r), SameReceipt(r), SamePieces(r)
  PROVE  ReceiptSound(r)'
<1>1. Booked(r)' = Booked(r)
  BY BookedKept
<1>2. ~IsMade(r)' => ~invoice'[r].closed
  BY DEF ReceiptSound, SameReceipt
<1>3. r \in unbooked' => invoice'[r].closed /\ ~BeingClosed(r)' /\ invoice'[r].sales = <<>>
  BY DEF ReceiptSound, SameReceipt
<1>4. BeingClosed(r)' =>
        /\ invoice'[r].closed /\ invoice'[r].sales = <<>>
        /\ \A p \in Pieces : piece'[p].invoice = r => piece'[p].status = "paid"
  BY DEF ReceiptSound, SameReceipt, SamePieces
<1>5. invoice'[r].closed /\ r \notin unbooked' => invoice'[r].cash = CashTotal(r)'
  BY DEF ReceiptSound, SameReceipt
<1>6. invoice'[r].closed /\ r \notin unbooked' /\ ~BeingClosed(r)' =>
        invoice'[r].sales = Booked(r)'
  BY <1>1 DEF ReceiptSound, SameReceipt
<1>7. ~invoice'[r].closed =>
        /\ invoice'[r].sales = <<>> /\ invoice'[r].cash = 0
        /\ \A p \in Pieces : piece'[p].invoice = r => ~Counts(p)'
  BY DEF ReceiptSound, SameReceipt, SamePieces, OnAndCounts
<1> QED  BY <1>2, <1>3, <1>4, <1>5, <1>6, <1>7 DEF ReceiptSound

(* Selling changes no piece that counts, and no piece is paid for or not   *)
(* any more; nor does a form that does not mislead.                        *)
PieceQuiet(p) ==
  /\ Counts(p) \/ Counts(p)' => /\ Counts(p) /\ Counts(p)'
                                /\ piece'[p].invoice = piece[p].invoice
                                /\ SalePrice(p)' = SalePrice(p)
  /\ piece[p].status = "paid" => piece'[p].status = "paid"

(* A piece that is not touched is quiet.                                   *)
LEMMA PieceUnchanged ==
  ASSUME NEW p \in Pieces, piece'[p] = piece[p]
  PROVE  PieceQuiet(p)
BY DEF PieceQuiet, Counts, SalePrice

(* Bids are closed out only on pieces that nobody paid for.                *)
LEMMA CloseOutQuiet ==
  ASSUME ArtTypeOK, NEW p \in Pieces, CloseOut(p)
  PROVE  \A q \in Pieces : PieceQuiet(q)
<1>1. piece \in [Pieces -> Piece] /\ ~Settled(p) /\ piece[p].status # "paid"
  BY DEF ArtTypeOK, Piece, CloseOut, VoiceAuction, NoBids, SetWinner, Settled
<1>2. ASSUME NEW q \in Pieces, q # p  PROVE piece'[q] = piece[q]
  BY <1>1, <1>2 DEF CloseOut, VoiceAuction, NoBids, SetWinner
<1>3. piece'[p].status # "paid"
  <2>1. CASE VoiceAuction(p)
    BY <1>1, <2>1 DEF VoiceAuction, Piece
  <2>2. CASE NoBids(p)
    <3>1. PICK st \in {"quick", "returned"} :
            piece' = [piece EXCEPT ![p].bid = 0, ![p].status = st]
      BY <2>2 DEF NoBids
    <3> DEFINE half == [piece EXCEPT ![p].bid = 0]
    <3>2. half \in [Pieces -> Piece]
      BY <1>1 DEF Piece
    <3>3. piece' = [half EXCEPT ![p].status = st]
      BY <3>1
    <3> HIDE DEF half
    <3>4. piece'[p] = [half[p] EXCEPT !.status = st]
      BY <3>2, <3>3
    <3>5. half[p] \in Piece
      BY <3>2
    <3>6. piece'[p].status = st
      BY <3>4, <3>5 DEF Piece
    <3> QED  BY <3>1, <3>6
  <2>3. CASE \E b \in Shoppers, bid \in Bids : SetWinner(p, b, bid)
    BY <1>1, <2>3 DEF SetWinner
  <2> QED  BY <2>1, <2>2, <2>3 DEF CloseOut
<1>4. PieceQuiet(p)
  BY <1>1, <1>3 DEF PieceQuiet, Counts
<1> QED  BY <1>2, <1>4, PieceUnchanged

(* A piece that does not count may go from one receipt to another.         *)
LEMMA ClaimQuiet ==
  ASSUME ArtTypeOK, ArtSound, NEW p \in Pieces, ~Counts(p), NEW r,
         piece' = [piece EXCEPT ![p].invoice = r]
  PROVE  \A q \in Pieces : PieceQuiet(q)
<1>1. piece \in [Pieces -> Piece]
  BY DEF ArtTypeOK, Piece
<1>2. \A q \in Pieces : q # p => piece'[q] = piece[q]
  BY <1>1
<1>3. piece'[p].status = piece[p].status /\ piece'[p].bid = piece[p].bid
  BY <1>1 DEF Piece
<1>4. SalePrice(p)' = SalePrice(p)
  BY <1>3 DEF SalePrice
<1>5. PieceQuiet(p)
  BY <1>3, <1>4 DEF PieceQuiet, Counts
<1> QED  BY <1>2, <1>5, PieceUnchanged

(* The form of an artist, unless it is old.                                *)
LEMMA FormQuiet ==
  ASSUME ArtTypeOK, NEW kind, SaveAndCheckInOut(kind), ~misled'
  PROVE  \A p \in Pieces : PieceQuiet(p)
<1>1. piece \in [Pieces -> Piece] /\ Hung \subseteq Pieces
  BY ArtAssumption DEF ArtTypeOK, Piece, ArtAssumption
<1>2. \A p \in Pieces \ Hung : piece'[p] = piece[p]
  BY DEF SaveAndCheckInOut
<1>3. ASSUME NEW p \in Hung  PROVE PieceQuiet(p)
  <2>1. piece'[p] = [piece[p] EXCEPT !.status = Written(kind, p)]
    BY <1>1 DEF SaveAndCheckInOut
  <2>2. /\ piece'[p].status = Written(kind, p) /\ piece'[p].bid = piece[p].bid
        /\ piece'[p].invoice = piece[p].invoice
    BY <1>1, <2>1 DEF Piece
  <2>3. ~Misleads(kind, p)
    BY DEF SaveAndCheckInOut
  <2>4. (piece[p].status = "paid") <=> (Written(kind, p) = "paid")
    <3>1. CASE kind = "check_out" /\ hangForm[p] = "hung"
      BY <3>1 DEF Written, CheckedOut
    <3>2. CASE ~(kind = "check_out" /\ hangForm[p] = "hung")
      BY <2>3, <3>2 DEF Misleads
    <3> QED  BY <3>1, <3>2
  <2>5. SalePrice(p)' = SalePrice(p)
    BY <2>2 DEF SalePrice
  <2> QED  BY <2>2, <2>4, <2>5 DEF PieceQuiet, Counts
<1> QED  BY <1>2, <1>3, PieceUnchanged

(* Quiet pieces are the same pieces on every receipt, if none that is      *)
(* being closed gets another one.                                          *)
LEMMA QuietIsSame ==
  ASSUME NEW r \in Invoices, ReceiptSound(r), \A p \in Pieces : PieceQuiet(p),
         BeingClosed(r) => \A p \in Pieces : piece'[p].invoice = r => piece[p].invoice = r
  PROVE  SamePieces(r)
<1>1. ASSUME NEW p \in Pieces
      PROVE  /\ OnAndCounts(p, r)' <=> OnAndCounts(p, r)
             /\ OnAndCounts(p, r) => SalePrice(p)' = SalePrice(p)
  BY DEF PieceQuiet, OnAndCounts
<1>2. BeingClosed(r) => \A p \in Pieces : piece'[p].invoice = r => piece'[p].status = "paid"
  BY DEF PieceQuiet, ReceiptSound
<1> QED  BY <1>1, <1>2 DEF SamePieces

(* The cash of a closed receipt stays whatever is paid or undone.          *)
LEMMA CashUnchanged ==
  ASSUME payment' = payment
  PROVE  \A r \in Invoices : CashTotal(r)' = CashTotal(r)
BY DEF CashTotal, Amounts, PaymentsOf

(* Payments are recorded and undone on open receipts, and a late card      *)
(* payment is no cash.                                                     *)
LEMMA PaymentKeepsClosed ==
  ASSUME ArtTypeOK, NEW q \in Invoices, invoice[q].closed,
         \/ \E r \in Invoices : RecordPayment(r) \/ ChargeCard(r)
         \/ \E k \in PaymentIds : UndoPayment(k) \/ CancelCard(k)
  PROVE  CashTotal(q)' = CashTotal(q)
<1>0. q # NoInvoice
  BY ArtAssumption DEF Invoices, NoInvoice, ArtAssumption
<1>1. CASE \E r \in Invoices : RecordPayment(r) \/ ChargeCard(r)
  <2>1. PICK r \in Invoices : RecordPayment(r) \/ ChargeCard(r)
    BY <1>1
  <2>2. PICK type, amount : Pays(r, type, amount) /\ (r # q \/ type = "card")
    BY <2>1 DEF RecordPayment, ChargeCard, IsOpen
  <2> DEFINE new == [invoice |-> r, type |-> type, amount |-> amount]
  <2>3. PICK k \in PaymentIds : payment[k] = NoPayment /\ payment' = [payment EXCEPT ![k] = new]
    BY <2>2 DEF Pays
  <2>4. payment[k].invoice # q
    BY <1>0, <2>3 DEF NoPayment
  <2>5. new.invoice # q \/ new.type = "card"
    BY <2>2
  <2> HIDE DEF new
  <2> QED  BY <2>3, <2>4, <2>5, CashKept
<1>2. CASE \E k \in PaymentIds : UndoPayment(k) \/ CancelCard(k)
  <2>1. PICK k \in PaymentIds : UndoPayment(k) \/ CancelCard(k)
    BY <1>2
  <2>2. payment' = [payment EXCEPT ![k] = NoPayment]
    BY <2>1 DEF UndoPayment, CancelCard
  <2>3. payment[k].invoice # q \/ payment[k].type = "card"
    BY <2>1 DEF UndoPayment, CancelCard, IsOpen
  <2>4. NoPayment.invoice # q
    BY <1>0 DEF NoPayment
  <2> QED  BY <2>2, <2>3, <2>4, CashKept
<1> QED  BY <1>1, <1>2

(* A receipt that is made starts as it was.                                *)
LEMMA MadeKept ==
  ASSUME ArtTypeOK, ArtSound, NEW b \in Shoppers, NEW r \in Invoices, invoice' = Made(r, b)
  PROVE  \A q \in Invoices : /\ IsMade(q) => IsMade(q)'
                             /\ invoice'[q].closed = invoice[q].closed
                             /\ invoice'[q].sales = invoice[q].sales
                             /\ invoice'[q].cash = invoice[q].cash
<1> DEFINE new == [NoInvoiceYet EXCEPT !.of = b]
<1>1. invoice \in [Invoices -> Invoice] /\ ReceiptSound(r)
  BY DEF ArtTypeOK, ArtSound
<1>2. CASE IsMade(r)
  BY <1>2 DEF Made, IsMade
<1>3. CASE ~IsMade(r)
  <2>1. new.closed = FALSE /\ new.sales = <<>> /\ new.cash = 0
    BY NewInvoice DEF Invoice
  <2>2. invoice' = [invoice EXCEPT ![r] = new]
    BY <1>3 DEF Made
  <2>3. invoice[r].closed = FALSE /\ invoice[r].sales = <<>> /\ invoice[r].cash = 0
    BY <1>1, <1>3 DEF ReceiptSound, Invoice
  <2> HIDE DEF new
  <2>4. \A q \in Invoices : q # r => invoice'[q] = invoice[q]
    BY <1>1, <2>2
  <2>5. invoice'[r] = new
    BY <1>1, <2>2
  <2> QED  BY <1>3, <2>1, <2>3, <2>4, <2>5 DEF IsMade
<1> QED  BY <1>2, <1>3

-----------------------------------------------------------------------------
(* Steps                                                                   *)

(* Selling leaves every receipt and every piece that counts as it is.      *)
LEMMA SellSame ==
  ASSUME ArtTypeOK, ArtSound, Sell, ~misled'
  PROVE  /\ \A r \in Invoices : SameReceipt(r)
         /\ \A p \in Pieces : PieceQuiet(p)
<1>0. /\ \A r \in Invoices : ReceiptSound(r)
      /\ \A p \in Pieces : Counts(p) => piece[p].invoice # NoInvoice
      /\ NoInvoice \notin Invoices
  BY ArtAssumption DEF ArtSound, Invoices, NoInvoice, ArtAssumption
<1>1. UNCHANGED <<closing, unbooked>>
  BY DEF Sell
<1>2. \A r \in Invoices : BeingClosed(r)' <=> BeingClosed(r)
  BY <1>1 DEF BeingClosed
<1> DEFINE InvoiceKept(r) == /\ IsMade(r) => IsMade(r)'
                             /\ invoice'[r].closed = invoice[r].closed
                             /\ invoice'[r].sales = invoice[r].sales
                             /\ invoice'[r].cash = invoice[r].cash
                             /\ invoice[r].closed => CashTotal(r)' = CashTotal(r)
<1>3. \A b \in Shoppers : ReceiptFor(b) \subseteq Invoices
  BY DEF ReceiptFor, OpenOf, NextInvoice
<1>u. invoice' = invoice /\ payment' = payment => \A r \in Invoices : InvoiceKept(r)
  BY CashUnchanged DEF IsMade
<1>4. ASSUME NEW p \in Pieces, CloseOut(p)
      PROVE  (\A r \in Invoices : InvoiceKept(r)) /\ (\A q \in Pieces : PieceQuiet(q))
  <2>1. payment' = payment
    BY <1>4 DEF CloseOut, VoiceAuction, NoBids, SetWinner
  <2>2. CASE VoiceAuction(p) \/ NoBids(p)
    BY <1>4, <1>u, <2>1, <2>2, CloseOutQuiet DEF VoiceAuction, NoBids
  <2>3. CASE \E b \in Shoppers, bid \in Bids : SetWinner(p, b, bid)
    <3>1. PICK b \in Shoppers, r \in Invoices : invoice' = Made(r, b)
      BY <2>3, <1>3 DEF SetWinner
    <3> QED  BY <1>4, <2>1, <3>1, CloseOutQuiet, MadeKept, CashUnchanged
  <2> QED  BY <1>4, <2>2, <2>3 DEF CloseOut
<1>5. ASSUME NEW b \in Shoppers, PiecesBought(b)
      PROVE  (\A r \in Invoices : InvoiceKept(r)) /\ (\A q \in Pieces : PieceQuiet(q))
  <2>1. PICK r \in Invoices :
          /\ invoice' = Made(r, b) /\ payment' = payment
          /\ \/ \E p \in Pieces : Claimable(p) /\ piece' = [piece EXCEPT ![p].invoice = r]
             \/ piece' = piece
    BY <1>3, <1>5 DEF PiecesBought
  <2>2. \A q \in Invoices : InvoiceKept(q)
    BY <2>1, MadeKept, CashUnchanged
  <2>3. CASE \E p \in Pieces : Claimable(p) /\ piece' = [piece EXCEPT ![p].invoice = r]
    <3>1. PICK p \in Pieces : Claimable(p) /\ piece' = [piece EXCEPT ![p].invoice = r]
      BY <2>3
    <3>2. ~Counts(p)
      BY <1>0, <3>1 DEF Claimable, Counts
    <3> QED  BY <2>2, <3>1, <3>2, ClaimQuiet
  <2>4. CASE piece' = piece
    BY <2>2, <2>4, PieceUnchanged
  <2> QED  BY <2>1, <2>3, <2>4
<1>6. ASSUME NEW r \in Invoices, NEW p \in Pieces, UnclaimPiece(r, p)
      PROVE  (\A q \in Invoices : InvoiceKept(q)) /\ (\A q \in Pieces : PieceQuiet(q))
  <2>1. ~Counts(p)
    BY <1>0, <1>6 DEF UnclaimPiece, IsOpen, ReceiptSound
  <2>2. piece' = [piece EXCEPT ![p].invoice = NoInvoice]
    BY <1>6 DEF UnclaimPiece
  <2> QED  BY <1>6, <1>u, <2>1, <2>2, ClaimQuiet DEF UnclaimPiece
<1>7. ASSUME \/ \E r \in Invoices : RecordPayment(r) \/ ChargeCard(r)
             \/ \E k \in PaymentIds : UndoPayment(k) \/ CancelCard(k)
      PROVE  (\A r \in Invoices : InvoiceKept(r)) /\ (\A q \in Pieces : PieceQuiet(q))
  <2>1. piece' = piece /\ invoice' = invoice
    BY <1>7 DEF RecordPayment, ChargeCard, Pays, UndoPayment, CancelCard
  <2>2. \A r \in Invoices : invoice[r].closed => CashTotal(r)' = CashTotal(r)
    BY <1>7, PaymentKeepsClosed
  <2> QED  BY <2>1, <2>2, PieceUnchanged DEF IsMade
<1>8. (\A r \in Invoices : InvoiceKept(r)) /\ (\A q \in Pieces : PieceQuiet(q))
  <2> HIDE DEF InvoiceKept
  <2> QED  BY <1>4, <1>5, <1>6, <1>7 DEF Sell
<1> QED  BY <1>1, <1>2, <1>8 DEF SameReceipt

(* A sound receipt and its step make a sound one.                          *)
LEMMA SellStep ==
  ASSUME ArtTypeOK, ArtSound, Sell, ~misled'
  PROVE  ArtSound'
<1>1. /\ \A r \in Invoices : SameReceipt(r)
      /\ \A p \in Pieces : PieceQuiet(p)
  BY SellSame
<1>2. UNCHANGED <<closing, unbooked>>
  BY DEF Sell
<1>3. ASSUME NEW r \in Invoices  PROVE ReceiptSound(r)'
  <2>1. ReceiptSound(r)
    BY DEF ArtSound
  <2>2. BeingClosed(r) => On(r)' = On(r)
    BY DEF Sell
  <2>3. BeingClosed(r) => \A p \in Pieces : piece'[p].invoice = r => piece[p].invoice = r
    BY <2>2 DEF On
  <2>4. SamePieces(r)
    BY <1>1, <2>1, <2>3, QuietIsSame
  <2> QED  BY <1>1, <2>1, <2>4, ReceiptKept
<1>4. \A p \in Pieces : Counts(p)' => piece'[p].invoice # NoInvoice
  BY <1>1 DEF PieceQuiet, ArtSound
<1> QED  BY <1>2, <1>3, <1>4 DEF ArtSound

(* So do the forms of artists.                                             *)
LEMMA FormStep ==
  ASSUME ArtTypeOK, ArtSound, ~misled',
         \/ OpenForm
         \/ \E kind \in {"save", "hanging", "check_in", "check_out"} : SaveAndCheckInOut(kind)
  PROVE  ArtSound'
<1>1. UNCHANGED <<invoice, payment, closing, unbooked>>
  BY DEF OpenForm, SaveAndCheckInOut
<1>2. \A p \in Pieces : piece'[p].invoice = piece[p].invoice
  <2>1. piece \in [Pieces -> Piece]
    BY DEF ArtTypeOK, Piece
  <2> QED  BY <2>1 DEF OpenForm, SaveAndCheckInOut, Piece
<1>3. \A p \in Pieces : PieceQuiet(p)
  <2>1. CASE OpenForm
    BY <2>1, PieceUnchanged DEF OpenForm
  <2>2. CASE \E kind \in {"save", "hanging", "check_in", "check_out"} : SaveAndCheckInOut(kind)
    BY <2>2, FormQuiet
  <2> QED  BY <2>1, <2>2
<1>4. ASSUME NEW r \in Invoices  PROVE ReceiptSound(r)'
  <2>1. ReceiptSound(r)
    BY DEF ArtSound
  <2>2. SamePieces(r)
    BY <1>2, <1>3, <2>1, QuietIsSame
  <2>3. SameReceipt(r)
    BY <1>1, CashUnchanged DEF SameReceipt, IsMade, BeingClosed
  <2> QED  BY <2>1, <2>2, <2>3, ReceiptKept
<1>5. \A p \in Pieces : Counts(p)' => piece'[p].invoice # NoInvoice
  BY <1>3 DEF PieceQuiet, ArtSound
<1> QED  BY <1>1, <1>4, <1>5 DEF ArtSound

(* What a step of closing or reopening r does not touch.                   *)
LEMMA OthersKept ==
  ASSUME ArtTypeOK, NEW r \in Invoices, NEW q \in Invoices, q # r, ReceiptSound(q),
         payment' = payment, invoice'[q] = invoice[q],
         q \in unbooked' <=> q \in unbooked, BeingClosed(q)' <=> BeingClosed(q),
         \A p \in Pieces : /\ piece'[p].invoice = piece[p].invoice
                           /\ piece[p].invoice # r => piece'[p] = piece[p]
  PROVE  ReceiptSound(q)'
<1>1. \A p \in Pieces : piece'[p].invoice = q => piece'[p] = piece[p]
  OBVIOUS
<1>2. \A p \in Pieces : piece[p].invoice = q => piece'[p] = piece[p]
  OBVIOUS
<1>3. \A p \in Pieces : piece'[p] = piece[p] => /\ Counts(p)' <=> Counts(p)
                                                /\ SalePrice(p)' = SalePrice(p)
  BY DEF Counts, SalePrice
<1>4. \A p \in Pieces : OnAndCounts(p, q)' <=> OnAndCounts(p, q)
  BY <1>1, <1>2, <1>3 DEF OnAndCounts
<1>5. SamePieces(q)
  BY <1>1, <1>2, <1>3, <1>4 DEF SamePieces, OnAndCounts, ReceiptSound
<1>6. SameReceipt(q)
  BY CashUnchanged DEF SameReceipt, IsMade
<1> QED  BY <1>5, <1>6, ReceiptKept

(* Closing: what is on the receipt is paid for, and the cash is written.   *)
LEMMA CloseStep ==
  ASSUME ArtTypeOK, ArtSound, NEW d \in ArtDesks, NEW r \in Invoices, CloseReceipt(d, r)
  PROVE  ArtSound'
<1>0. /\ piece \in [Pieces -> Piece] /\ invoice \in [Invoices -> Invoice]
      /\ closing \in [ArtDesks -> Invoices \cup {NoInvoice}] /\ r # NoInvoice
      /\ \A q \in Invoices : ReceiptSound(q)
  BY ArtAssumption DEF ArtTypeOK, Piece, ArtSound, ArtAssumption, Invoices, NoInvoice
<1>1. /\ IsMade(r) /\ ~invoice[r].closed /\ closing[d] = NoInvoice
      /\ payment' = payment /\ unbooked' = unbooked /\ closing' = [closing EXCEPT ![d] = r]
      /\ invoice' = [invoice EXCEPT ![r].closed = TRUE, ![r].cash = CashTotal(r)]
  BY DEF CloseReceipt, IsOpen
<1>2. ~BeingClosed(r) /\ r \notin unbooked /\ invoice[r].sales = <<>>
  BY <1>0, <1>1 DEF ReceiptSound
<1>3. \A p \in Pieces : /\ piece'[p].invoice = piece[p].invoice /\ SalePrice(p)' = SalePrice(p)
                        /\ piece[p].invoice = r => piece'[p].status = "paid"
                        /\ piece[p].invoice # r => piece'[p] = piece[p]
  BY <1>0 DEF CloseReceipt, On, Piece, SalePrice
<1>4. ASSUME NEW q \in Invoices, q # r  PROVE ReceiptSound(q)'
  <2>1. BeingClosed(q)' <=> BeingClosed(q)
    BY <1>0, <1>1, <1>4 DEF BeingClosed, NoInvoice, Invoices
  <2>2. invoice'[q] = invoice[q]
    BY <1>0, <1>1, <1>4
  <2>3. ReceiptSound(q)
    BY <1>0
  <2> QED  BY <1>1, <1>3, <1>4, <2>1, <2>2, <2>3, OthersKept
<1>5. /\ invoice'[r].of = invoice[r].of /\ invoice'[r].closed = TRUE
      /\ invoice'[r].sales = invoice[r].sales /\ invoice'[r].cash = CashTotal(r)
  <2>1. invoice'[r] = [[invoice[r] EXCEPT !.closed = TRUE] EXCEPT !.cash = CashTotal(r)]
    BY <1>0, <1>1
  <2>2. invoice[r] \in Invoice
    BY <1>0
  <2> QED  BY <2>1, <2>2 DEF Invoice
<1>6. ReceiptSound(r)'
  <2>1. BeingClosed(r)' /\ r \notin unbooked'
    BY <1>0, <1>1, <1>2 DEF BeingClosed
  <2>2. IsMade(r)'
    BY <1>1, <1>5 DEF IsMade
  <2>3. CashTotal(r)' = CashTotal(r)
    BY <1>1, CashUnchanged
  <2> QED  BY <1>2, <1>3, <1>5, <2>1, <2>2, <2>3 DEF ReceiptSound
<1>7. ASSUME NEW e \in ArtDesks, NEW f \in ArtDesks,
             closing'[e] = closing'[f], closing'[e] # NoInvoice
      PROVE  e = f
  <2>1. \A g \in ArtDesks : closing[g] # r
    BY <1>2 DEF BeingClosed
  <2> QED  BY <1>0, <1>1, <1>7, <2>1 DEF ArtSound
<1>8. ASSUME NEW p \in Pieces, Counts(p)'  PROVE piece'[p].invoice # NoInvoice
  <2>1. CASE piece[p].invoice = r
    BY <1>0, <1>3, <2>1
  <2>2. CASE piece[p].invoice # r
    BY <1>3, <1>8, <2>2 DEF ArtSound, Counts
  <2> QED  BY <2>1, <2>2
<1> QED  BY <1>1, <1>4, <1>6, <1>7, <1>8 DEF ArtSound

(* What is on a receipt that is being closed adds up to what counts.       *)
LEMMA TotalIsBooked ==
  ASSUME ArtTypeOK, NEW r \in Invoices, ReceiptSound(r), BeingClosed(r)
  PROVE  <<InvoiceTotal(r)>> = Booked(r)
<1>1. IsFiniteSet(On(r)) /\ PaidOn(r) \subseteq On(r)
  BY PriceType DEF PaidOn
<1>2. \A p \in On(r) : p \in Pieces /\ piece[p].status = "paid"
  BY DEF On, ReceiptSound
<1>3. \A p \in On(r) : SalePrices[p] \in Nat
  BY <1>2, PriceType
<1>4. \A p \in On(r) \ PaidOn(r) : SalePrices[p] = 0
  BY <1>2, PriceType DEF PaidOn
<1>5. SumFunctionOnSet(SalePrices, PaidOn(r)) = SumFunctionOnSet(SalePrices, On(r))
  BY <1>1, <1>3, <1>4, SumOfPart
<1> QED  BY <1>5 DEF Booked, InvoiceTotal

(* Booking, or being killed before it: the desk is free again.             *)
LEMMA BookStep ==
  ASSUME ArtTypeOK, ArtSound, NEW d \in ArtDesks, BookSale(d) \/ KillClosing(d)
  PROVE  ArtSound'
<1>0. PICK r \in Invoices :
      /\ r = closing[d] /\ r # NoInvoice /\ invoice \in [Invoices -> Invoice]
      /\ closing \in [ArtDesks -> Invoices \cup {NoInvoice}]
      /\ \A q \in Invoices : ReceiptSound(q)
  BY DEF ArtTypeOK, ArtSound, BookSale, KillClosing
<1>1. /\ piece' = piece /\ payment' = payment
      /\ closing' = [closing EXCEPT ![d] = NoInvoice]
  BY DEF BookSale, KillClosing
<1>2. /\ BeingClosed(r) /\ IsMade(r) /\ invoice[r].closed /\ r \notin unbooked
      /\ invoice[r].sales = <<>> /\ invoice[r].cash = CashTotal(r)
  BY <1>0 DEF BeingClosed, ReceiptSound
<1>3. ~BeingClosed(r)'
  BY <1>0, <1>1 DEF BeingClosed, ArtSound
<1>4. \/ unbooked' = unbooked /\ invoice' = [invoice EXCEPT ![r].sales = <<InvoiceTotal(r)>>]
      \/ unbooked' = unbooked \cup {r} /\ invoice' = invoice
  <2>1. CASE BookSale(d)
    <3>1. invoice' = [invoice EXCEPT ![r].sales = Append(invoice[r].sales, InvoiceTotal(r))]
      BY <1>0, <2>1 DEF BookSale
    <3>2. Append(invoice[r].sales, InvoiceTotal(r)) = <<InvoiceTotal(r)>>
      BY <1>2
    <3> QED  BY <2>1, <3>1, <3>2 DEF BookSale
  <2>2. CASE KillClosing(d)
    BY <1>0, <2>2 DEF KillClosing
  <2> QED  BY <2>1, <2>2
<1>5. ASSUME NEW q \in Invoices, q # r  PROVE ReceiptSound(q)'
  <2>1. BeingClosed(q)' <=> BeingClosed(q)
    BY <1>0, <1>1, <1>5 DEF BeingClosed, NoInvoice, Invoices
  <2>2. invoice'[q] = invoice[q] /\ (q \in unbooked' <=> q \in unbooked)
    BY <1>0, <1>4, <1>5
  <2>3. ReceiptSound(q)
    BY <1>0
  <2> QED  BY <1>0, <1>1, <1>5, <2>1, <2>2, <2>3, OthersKept
<1>6. CashTotal(r)' = CashTotal(r) /\ Booked(r)' = Booked(r)
  BY <1>0, <1>1, CashUnchanged DEF Booked, PaidOn, On, SalePrices, SalePrice
<1>7. ReceiptSound(r)'
  <2>1. CASE unbooked' = unbooked /\ invoice' = [invoice EXCEPT ![r].sales = <<InvoiceTotal(r)>>]
    <3>1. invoice[r] \in Invoice
      BY <1>0
    <3>2. invoice'[r] = [invoice[r] EXCEPT !.sales = <<InvoiceTotal(r)>>]
      BY <1>0, <2>1
    <3>3. <<InvoiceTotal(r)>> = Booked(r)
      BY <1>0, <1>2, TotalIsBooked
    <3>4. /\ invoice'[r].of = invoice[r].of /\ invoice'[r].closed = invoice[r].closed
          /\ invoice'[r].cash = invoice[r].cash /\ invoice'[r].sales = Booked(r)
      BY <3>1, <3>2, <3>3 DEF Invoice
    <3>5. r \notin unbooked'
      BY <1>2, <2>1
    <3> QED  BY <1>2, <1>3, <1>6, <3>4, <3>5 DEF ReceiptSound, IsMade
  <2>2. CASE unbooked' = unbooked \cup {r} /\ invoice' = invoice
    BY <1>2, <1>3, <2>2 DEF ReceiptSound, IsMade
  <2> QED  BY <1>4, <2>1, <2>2
<1>8. unbooked' \subseteq Invoices
  BY <1>0, <1>4 DEF ArtSound
<1>9. \A e, f \in ArtDesks : closing'[e] = closing'[f] /\ closing'[e] # NoInvoice => e = f
  BY <1>0, <1>1 DEF ArtSound
<1>10. \A p \in Pieces : Counts(p)' => piece'[p].invoice # NoInvoice
  BY <1>1 DEF ArtSound, Counts, SalePrice
<1> QED  BY <1>5, <1>7, <1>8, <1>9, <1>10 DEF ArtSound

(* Reopening, while nobody closes it: its rows go, and nothing counts.     *)
LEMMA ReopenStep ==
  ASSUME ArtTypeOK, ArtSound, NEW r \in Invoices, ReopenReceipt(r), ~misled'
  PROVE  ArtSound'
<1>0. /\ piece \in [Pieces -> Piece] /\ invoice \in [Invoices -> Invoice]
      /\ \A q \in Invoices : ReceiptSound(q)
  BY DEF ArtTypeOK, Piece, ArtSound
<1>1. /\ IsMade(r) /\ ~BeingClosed(r)
      /\ payment' = payment /\ closing' = closing /\ unbooked' = unbooked \ {r}
      /\ invoice' = [invoice EXCEPT ![r] = WithoutRows(@)]
  BY DEF ReopenReceipt
<1>2. \A p \in Pieces : /\ piece'[p].invoice = piece[p].invoice /\ SalePrice(p)' = SalePrice(p)
                        /\ piece[p].invoice = r => piece'[p].status = Unsold(p)
                        /\ piece[p].invoice # r => piece'[p] = piece[p]
  BY <1>0 DEF ReopenReceipt, On, Piece, SalePrice
<1>3. ASSUME NEW p \in Pieces, piece[p].invoice = r  PROVE ~Counts(p)'
  <2>1. SalePrice(p) > 0 => Unsold(p) # "paid"
    BY DEF SalePrice, Unsold
  <2> QED  BY <1>2, <1>3, <2>1 DEF Counts
<1>4. \A q \in Invoices : BeingClosed(q)' <=> BeingClosed(q)
  BY <1>1 DEF BeingClosed
<1>5. ASSUME NEW q \in Invoices, q # r  PROVE ReceiptSound(q)'
  <2>1. invoice'[q] = invoice[q] /\ (q \in unbooked' <=> q \in unbooked)
    BY <1>0, <1>1, <1>5
  <2>2. ReceiptSound(q) /\ (BeingClosed(q)' <=> BeingClosed(q))
    BY <1>0, <1>4
  <2> QED  BY <1>1, <1>2, <1>5, <2>1, <2>2, OthersKept
<1>6. ReceiptSound(r)'
  <2>1. invoice[r].sales = <<>> \/ Tail(invoice[r].sales) = <<>>
    <3>1. invoice[r].sales = <<>> \/ invoice[r].sales = Booked(r)
      BY <1>0, <1>1 DEF ReceiptSound
    <3>2. Tail(Booked(r)) = <<>>
      BY DEF Booked
    <3> QED  BY <3>1, <3>2
  <2> DEFINE s == IF invoice[r].sales = <<>> THEN invoice[r].sales ELSE Tail(invoice[r].sales)
  <2>2. invoice'[r] = [invoice[r] EXCEPT !.closed = FALSE, !.cash = 0, !.sales = s]
    BY <1>0, <1>1 DEF WithoutRows
  <2>3. s = <<>>
    BY <2>1
  <2>4. invoice[r] \in Invoice
    BY <1>0
  <2> HIDE DEF s
  <2>5. invoice'[r].closed = FALSE /\ invoice'[r].cash = 0 /\ invoice'[r].sales = <<>>
    BY <2>2, <2>3, <2>4 DEF Invoice
  <2>6. r \notin unbooked' /\ ~BeingClosed(r)'
    BY <1>1, <1>4
  <2>7. \A p \in Pieces : piece'[p].invoice = r => ~Counts(p)'
    BY <1>2, <1>3
  <2> QED  BY <2>5, <2>6, <2>7 DEF ReceiptSound
<1>7. ASSUME NEW p \in Pieces, Counts(p)'  PROVE piece'[p].invoice # NoInvoice
  <2>1. piece'[p] = piece[p]
    BY <1>2, <1>3, <1>7
  <2> QED  BY <1>7, <2>1 DEF ArtSound, Counts, SalePrice
<1> QED  BY <1>1, <1>5, <1>6, <1>7 DEF ArtSound

(* It holds at first: every receipt is open and empty.                     *)
LEMMA ArtStart ==
  ASSUME ArtInit  PROVE ArtInv
<1>1. ArtTypeOK
  <2>1. piece \in [Pieces -> Piece]
    BY DEF ArtInit, Piece, Statuses
  <2>2. invoice \in [Invoices -> Invoice]
    BY NewInvoice DEF ArtInit
  <2>3. payment \in [PaymentIds -> Payment]
    BY DEF ArtInit, Payment, NoPayment
  <2> QED  BY <2>1, <2>2, <2>3 DEF ArtInit, ArtTypeOK, Piece, Payment
<1>2. \A p \in Pieces : ~Counts(p)
  BY DEF ArtInit, Counts
<1>3. ASSUME NEW r \in Invoices  PROVE ReceiptSound(r)
  <2>1. invoice[r].closed = FALSE /\ invoice[r].sales = <<>> /\ invoice[r].cash = 0
    BY NewInvoice DEF ArtInit
  <2>2. r # NoInvoice /\ ~BeingClosed(r) /\ r \notin unbooked
    BY ArtAssumption DEF ArtInit, BeingClosed, NoInvoice, Invoices, ArtAssumption
  <2> QED  BY <1>2, <2>1, <2>2 DEF ReceiptSound
<1>4. ArtSound
  BY <1>2, <1>3 DEF ArtSound, ArtInit
<1> QED  BY <1>1, <1>4 DEF ArtInv

(* Every step keeps the invariant: nothing is said once somebody is misled. *)
LEMMA ArtStep ==
  ASSUME ArtInv, [ArtNext]_artVars  PROVE ArtInv'
<1>1. CASE UNCHANGED artVars
  <2>1. ArtTypeOK'
    BY <1>1 DEF ArtInv, ArtTypeOK, artVars
  <2>2. (~misled => ArtSound)' <=> (~misled => ArtSound)
    BY <1>1 DEF artVars, ArtSound, ReceiptSound, IsMade, BeingClosed, CashTotal, Amounts,
                PaymentsOf, Booked, PaidOn, On, SalePrices, SalePrice, Counts
  <2> QED  BY <2>1, <2>2 DEF ArtInv
<1>2. CASE ArtNext
  <2>1. ArtTypeOK /\ ArtSound
    BY <1>2 DEF ArtInv, ArtNext
  <2>2. ArtTypeOK'
    BY <1>2, <2>1, TypeStep
  <2>3. ASSUME ~misled'  PROVE ArtSound'
    <3>1. CASE Sell
      BY <2>1, <2>3, <3>1, SellStep
    <3>2. CASE \E d \in ArtDesks, r \in Invoices : CloseReceipt(d, r)
      BY <2>1, <3>2, CloseStep
    <3>3. CASE \E d \in ArtDesks : BookSale(d) \/ KillClosing(d)
      BY <2>1, <3>3, BookStep
    <3>4. CASE \E r \in Invoices : ReopenReceipt(r)
      BY <2>1, <2>3, <3>4, ReopenStep
    <3>5. CASE OpenForm \/ \E kind \in {"save", "hanging", "check_in", "check_out"} :
                             SaveAndCheckInOut(kind)
      BY <2>1, <2>3, <3>5, FormStep
    <3> QED  BY <1>2, <3>1, <3>2, <3>3, <3>4, <3>5 DEF ArtNext
  <2> QED  BY <2>2, <2>3 DEF ArtInv
<1> QED  BY <1>1, <1>2

(* The invariant holds in every state of the art show.                     *)
LEMMA ArtInvariant == ArtSpec => []ArtInv
<1>1. ArtInit => ArtInv
  BY ArtStart
<1>2. ArtInv /\ [ArtNext]_artVars => ArtInv'
  BY ArtStep
<1> QED  BY <1>1, <1>2, PTL DEF ArtSpec

(* Pieces, receipts, payments, desks and the form keep their types; no     *)
(* sale is booked for a negative amount.                                   *)
THEOREM ArtTypeCorrect == ArtSpec => []ArtTypeOK
BY ArtInvariant, PTL DEF ArtInv

(* A piece is marked as paid if and only if its price is in the one sale   *)
(* that is booked for its buyer, and the cash is booked with it            *)
(* (print_receipt, reopen_receipt, close_out, save_and_check_in_out).      *)
THEOREM SalesAreBookedOnce == ArtSpec => []SalesAreBooked
<1>1. ArtInv => SalesAreBooked
  <2> SUFFICES ASSUME ArtTypeOK, ArtSound  PROVE SalesAreBooked
    BY DEF ArtInv, SalesAreBooked
  <2>1. \A r \in Invoices \ unbooked :
          invoice[r].closed /\ ~BeingClosed(r) =>
            /\ invoice[r].sales = <<SumFunctionOnSet(SalePrices, PaidOn(r))>>
            /\ invoice[r].cash = CashTotal(r)
    BY DEF ArtSound, ReceiptSound, Booked
  <2>2. \A r \in Invoices :
          ~invoice[r].closed => invoice[r].sales = <<>> /\ invoice[r].cash = 0 /\ PaidOn(r) = {}
    BY DEF ArtSound, ReceiptSound, PaidOn, On, Counts
  <2>3. \A p \in Pieces : piece[p].status = "paid" /\ SalePrice(p) > 0 =>
                            piece[p].invoice # NoInvoice
    BY DEF ArtSound, Counts
  <2> QED  BY <2>1, <2>2, <2>3 DEF SalesAreBooked
<1> QED  BY <1>1, ArtInvariant, PTL

-----------------------------------------------------------------------------
(***************************************************************************)
(* The six offices of MCOffices together                                   *)
(***************************************************************************)

(* Whoever works, every office sees one of its own steps, or none.         *)
LEMMA OfficesActs ==
  ASSUME [OfficesNext]_officesVars
  PROVE  /\ [TransferNext]_transferVars /\ [QueueNext]_queueVars /\ [ShiftNext]_shiftVars
         /\ [TerminalNext]_terminalVars /\ [EmailNext]_emailVars /\ [ArtNext]_artVars
BY DEF OfficesNext, officesVars

(* So the run of MCOffices, in which one office works at a time, is one of *)
(* each office, and every office keeps its types.                          *)
THEOREM OfficesTypesHold == OfficesSpec => []OfficesTypeOK
<1>1. OfficesInit => /\ TransferInit /\ QueueInit /\ ShiftInit
                     /\ TerminalInit /\ EmailInit /\ ArtInit
  BY DEF OfficesInit
<1>2. [OfficesNext]_officesVars =>
        /\ [TransferNext]_transferVars /\ [QueueNext]_queueVars /\ [ShiftNext]_shiftVars
        /\ [TerminalNext]_terminalVars /\ [EmailNext]_emailVars /\ [ArtNext]_artVars
  BY OfficesActs
<1>3. OfficesSpec => TransferSpec /\ QueueSpec /\ ShiftSpec
  BY <1>1, <1>2, PTL DEF OfficesSpec, TransferSpec, QueueSpec, ShiftSpec
<1>4. OfficesSpec => TerminalSpec /\ ArtSpec
  BY <1>1, <1>2, PTL DEF OfficesSpec, TerminalSpec, ArtSpec
<1>5. OfficesSpec => EmailSpec
  BY <1>1, <1>2, PTL DEF OfficesSpec, EmailSpec
<1>6. TransferTypeOK /\ QueueTypeOK /\ ShiftTypeOK /\ TerminalTypeOK /\ EmailTypeOK
        /\ ArtTypeOK => OfficesTypeOK
  BY DEF OfficesTypeOK
<1> QED  BY <1>3, <1>4, <1>5, <1>6, TransferTypeCorrect, QueueTypeCorrect, ShiftTypeCorrect,
            TerminalTypeCorrect, EmailTypeCorrect, ArtTypeCorrect, PTL

================================================================================
