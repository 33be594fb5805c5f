---------------------------- MODULE PaymentsProofs ----------------------------
(***************************************************************************)
(* Theorems about Payments, for every set of attendees, receipts, items,   *)
(* handlers and intents, and any number of crashes.                        *)
(*                                                                         *)
(* The inductive invariant IInv adds to the properties what the handlers   *)
(* remember between two of their steps (HandlersSound).                    *)
(* IntentsSound, what they know of the intent they record rows for and of  *)
(* the row they mark, is what the refinement of CardPayments needs.        *)
(* The last two parts prove what holds where one handler works at a time   *)
(* (SerialInv), and where nothing is bought after a receipt has its items  *)
(* (BilledInv).                                                            *)
(***************************************************************************)
EXTENDS Payments, SumTheorems

IInv == TypeOK /\ HandlersSound /\ ChargeBacked /\ ClosedItemHasCharge /\ AdmittedHasCharge

-----------------------------------------------------------------------------
(* Lemmas about the operators.                                             *)

(* The newest of some intents is one of them.                              *)
LEMMA NewestIn ==
  ASSUME NEW S \in SUBSET Intents, S # {}
  PROVE  Newest(S) \in S
<1> DEFINE T == {MaxIntents - i : i \in S}
<1>1. T \subseteq Nat /\ T # {}
  <2>1. \A i \in S : MaxIntents - i \in Nat
    BY ConstantsAssumption DEF ConstantsAssumption, Intents
  <2> QED  BY <2>1
<1>2. PICK m \in T : \A n \in T : ~ (<<n, m>> \in OpToRel(<, Nat))
  <2> HIDE DEF T
  <2> QED  BY <1>1, WFMin, NatLessThanWellFounded
<1>3. PICK i \in S : m = MaxIntents - i
  BY <1>2
<1>4. ASSUME NEW k \in S  PROVE  k <= i
  <2>1. MaxIntents - k \in T
    OBVIOUS
  <2>2. ~ (MaxIntents - k < m)
    BY <2>1, <1>1, <1>2 DEF OpToRel
  <2> QED  BY <2>2, <1>3, ConstantsAssumption DEF ConstantsAssumption, Intents
<1> QED  BY <1>3, <1>4 DEF Newest

(* An idle handler remembers nothing.                                      *)
LEMMA IdleJob == Idle \in Jobs /\ JobSound(Idle) /\ Idle.stage = "idle"
  BY ConstantsAssumption DEF ConstantsAssumption, Idle, Jobs, Stages, Reasons, JobSound

(* Where a handler goes when nothing is left to mark: it has forgotten     *)
(* every intent and every row.                                             *)
LEMMA ResumeJob ==
  ASSUME NEW j \in Jobs
  PROVE  /\ Resume(j) \in Jobs
         /\ Resume(j).todo = {}
         /\ Resume(j).stage \in {"idle", "begin", "view"}
<1>1. CASE j.why = "prereg"
  BY <1>1, IdleJob DEF Resume, Idle, Jobs, Stages
<1>2. CASE j.why = "confirm"
  BY <1>2, IdleJob DEF Resume, Idle, Jobs, Stages
<1>3. CASE j.why \notin {"prereg", "confirm"}
  BY <1>3, IdleJob DEF Resume, Idle, Jobs, Stages
<1> QED  BY <1>1, <1>2, <1>3

(* Loading a row of an intent.                                             *)
LEMMA LoadJob ==
  ASSUME NEW j \in Jobs, NEW i \in Intents, NEW rows \in SUBSET Receipts,
         NEW r \in rows
  PROVE  LET k == Load(j, i, rows, r) IN
         /\ k \in Jobs
         /\ k.todo = j.todo /\ k.stage = "row" /\ k.intent = i
         /\ k.loaded \cup k.rows = rows
<1> DEFINE b == <<r, i>> \in cancelled
<1>1. b \in BOOLEAN
  OBVIOUS
<1>2. Load(j, i, rows, r) = [j EXCEPT !.stage = "row", !.intent = i, !.rows = rows \ {r},
                                      !.loaded = {r}, !.seen = b]
  BY DEF Load
<1> DEFINE k == [j EXCEPT !.stage = "row", !.intent = i, !.rows = rows \ {r},
                          !.loaded = {r}, !.seen = b]
<1> HIDE DEF b
<1>3. k \in Jobs
  BY <1>1 DEF Jobs, Stages
<1>4. k.todo = j.todo /\ k.stage = "row" /\ k.intent = i /\ k.loaded \cup k.rows = rows
  BY <1>1 DEF Jobs
<1> QED  BY <1>2, <1>3, <1>4

(* The totals a handler may charge.                                        *)
LEMMA ChargeableAmount ==
  ASSUME NEW n, Chargeable(n)
  PROVE  n \in 0 .. MaxCharge /\ n > 0
  BY ConstantsAssumption DEF ConstantsAssumption, Chargeable

-----------------------------------------------------------------------------
(* What every step leaves true of what handlers remember: charges stay,    *)
(* succeeded intents stay so, and rows stay.                               *)
Grows ==
  /\ charged \subseteq charged'
  /\ \A i \in Intents : stripe[i] = "succeeded" => stripe'[i] = "succeeded"
  /\ \A r \in Receipts, i \in Intents : RowExists(r, i) => RowExists(r, i)'

(* A step that grows keeps what the handlers that do not move remember.    *)
LEMMA HandlersStep ==
  ASSUME TypeOK, HandlersSound, Grows,
         \A v \in Workers : job'[v] = job[v] \/ JobSound(job[v])'
  PROVE  HandlersSound'
<1> SUFFICES ASSUME NEW v \in Workers, job'[v] = job[v]
             PROVE  JobSound(job[v])'
  BY DEF HandlersSound
<1>1. JobSound(job[v]) /\ job[v] \in Jobs
  BY DEF HandlersSound, TypeOK
<1>2. /\ job[v].todo \subseteq Intents
      /\ job[v].loaded \cup job[v].rows \subseteq Receipts
  BY <1>1 DEF Jobs
<1> QED  BY <1>1, <1>2 DEF Grows, JobSound

(* A step that marks nothing as paid keeps the invariant when it keeps the *)
(* types and what the handlers remember.                                   *)
LEMMA QuietStep ==
  ASSUME IInv, TypeOK', Grows,
         \A v \in Workers : job'[v] = job[v] \/ JobSound(job[v])',
         charged' = charged, hasPaid' = hasPaid,
         \A a \in Attendees : status'[a] = "new" => status[a] = "new",
         \A x \in Items : item'[x].state = "closed" => item[x].state = "closed"
  PROVE  IInv'
<1>1. HandlersSound'
  BY HandlersStep DEF IInv
<1>2. ChargeBacked'
  BY DEF IInv, ChargeBacked, Grows, TypeOK, Rows
<1>3. ClosedItemHasCharge'
  BY DEF IInv, ClosedItemHasCharge
<1>4. AdmittedHasCharge'
  BY DEF IInv, AdmittedHasCharge
<1> QED  BY <1>1, <1>2, <1>3, <1>4 DEF IInv

-----------------------------------------------------------------------------
(* Init, and the steps that no handler takes.                              *)
LEMMA InitIInv == Init => IInv
<1> SUFFICES ASSUME Init  PROVE  IInv
  OBVIOUS
<1>1. TypeOK
  BY IdleJob, ConstantsAssumption DEF ConstantsAssumption, Init, TypeOK
<1>2. HandlersSound
  BY IdleJob DEF Init, HandlersSound
<1>3. ChargeBacked /\ ClosedItemHasCharge /\ AdmittedHasCharge
  BY DEF Init, ChargeBacked, ClosedItemHasCharge, AdmittedHasCharge
<1> QED  BY <1>1, <1>2, <1>3 DEF IInv

LEMMA EnvironmentStep ==
  ASSUME IInv, Environment
  PROVE  IInv'
<1> USE DEF IInv
<1>1. ASSUME NEW i \in Intents, StripeSucceeds(i)  PROVE  IInv'
  <2>1. TypeOK'
    BY <1>1 DEF StripeSucceeds, TypeOK, db
  <2>2. Grows
    BY <1>1 DEF StripeSucceeds, Grows, TypeOK, db, RowExists
  <2> QED  BY <1>1, <2>1, <2>2, QuietStep DEF StripeSucceeds, db
<1>2. ASSUME NEW x \in Items, AddItem(x)  PROVE  IInv'
  <2>1. TypeOK'
    BY <1>2 DEF AddItem, TypeOK, gateway
  <2>2. Grows
    BY <1>2 DEF AddItem, Grows, gateway, RowExists
  <2>3. \A y \in Items : item'[y].state = "closed" => item[y].state = "closed"
    BY <1>2 DEF AddItem, TypeOK
  <2> QED  BY <1>2, <2>1, <2>2, <2>3, QuietStep DEF AddItem
<1>3. ASSUME NEW a \in Attendees, InvalidatePending(a)  PROVE  IInv'
  <2>1. TypeOK'
    BY <1>3 DEF InvalidatePending, TypeOK, gateway
  <2>2. Grows
    BY <1>3 DEF InvalidatePending, Grows, gateway, RowExists
  <2>3. \A b \in Attendees : status'[b] = "new" => status[b] = "new"
    BY <1>3 DEF InvalidatePending, TypeOK
  <2> QED  BY <1>3, <2>1, <2>2, <2>3, QuietStep DEF InvalidatePending
<1> QED  BY <1>1, <1>2, <1>3 DEF Environment

-----------------------------------------------------------------------------
(* Handlers that start, and those that are killed.                         *)

(* A step that only moves one handler, to a sound job.                     *)
LEMMA OnlyJobStep ==
  ASSUME IInv, NEW w \in Workers, NEW k \in Jobs,
         job' = [job EXCEPT ![w] = k], JobSound(job[w])',
         UNCHANGED <<db, gateway>>, crashes' \in 0 .. MaxCrashes
  PROVE  IInv'
<1>1. TypeOK'
  BY DEF IInv, TypeOK, db, gateway
<1>2. Grows
  BY DEF Grows, db, gateway, RowExists
<1>3. \A v \in Workers : job'[v] = job[v] \/ JobSound(job[v])'
  BY DEF IInv, TypeOK
<1> QED  BY <1>1, <1>2, <1>3, QuietStep DEF db

(* A sound job, told by its stage and the intents it has to mark.          *)
LEMMA EasyJob ==
  ASSUME TypeOK, NEW w \in Workers, NEW k \in Jobs, job' = [job EXCEPT ![w] = k],
         k.stage \notin {"row", "model"}, \A i \in k.todo : stripe'[i] = "succeeded"
  PROVE  JobSound(job[w])'
<1>1. job'[w] = k
  BY DEF TypeOK
<1> QED  BY <1>1 DEF JobSound

(* Refreshing receipts finds only intents that succeeded.                  *)
LEMMA FoundPaidSucceeded ==
  ASSUME NEW rs
  PROVE  FoundPaid(rs) \in SUBSET {i \in Intents : stripe[i] = "succeeded"}
  BY DEF FoundPaid, PendingIntents

(* A job that starts or resumes with what there is to mark.                *)
LEMMA MarkingJob ==
  ASSUME NEW j \in Jobs, NEW todo \in SUBSET Intents
  PROVE  LET k == [j EXCEPT !.todo = todo, !.stage = "mark"] IN
         k \in Jobs /\ k.todo = todo /\ k.stage = "mark"
  BY DEF Jobs, Stages

LEMMA RefreshStep ==
  ASSUME IInv, NEW w \in Workers, NEW why \in {"prereg", "confirm"},
         NEW cart \in SUBSET Attendees, NEW rs,
         LET j == [Idle EXCEPT !.why = why, !.cart = cart, !.todo = FoundPaid(rs)] IN
           job' = [job EXCEPT ![w] = IF FoundPaid(rs) = {} THEN Resume(j)
                                     ELSE [j EXCEPT !.stage = "mark"]],
         UNCHANGED <<db, gateway, crashes>>
  PROVE  IInv'
<1> DEFINE found == FoundPaid(rs)
           j == [Idle EXCEPT !.why = why, !.cart = cart, !.todo = found]
           k == [j EXCEPT !.stage = "mark"]
<1>1. found \in SUBSET Intents /\ \A i \in found : stripe[i] = "succeeded"
  BY FoundPaidSucceeded
<1>2. j \in Jobs /\ k \in Jobs /\ k.stage = "mark" /\ k.todo = found
  <2> HIDE DEF found
  <2>1. Idle \in Jobs
    BY IdleJob
  <2>2. j \in Jobs /\ j.todo = found
    BY <1>1, <2>1 DEF Jobs, Reasons
  <2> HIDE DEF j
  <2> QED  BY <2>2 DEF Jobs, Stages
<1>3. PICK n \in Jobs : /\ job' = [job EXCEPT ![w] = n]
                        /\ n.stage \notin {"row", "model"}
                        /\ n.todo \subseteq found
  <2>1. job' = [job EXCEPT ![w] = IF found = {} THEN Resume(j) ELSE k]
    OBVIOUS
  <2> HIDE DEF found, j, k
  <2>2. CASE found = {}
    BY <2>1, <2>2, <1>2, ResumeJob
  <2>3. CASE found # {}
    BY <2>1, <2>3, <1>2
  <2> QED  BY <2>2, <2>3
<1>4. JobSound(job[w])'
  BY <1>1, <1>3, EasyJob DEF IInv, gateway
<1> QED  BY <1>3, <1>4, OnlyJobStep DEF IInv, TypeOK

LEMMA StartMarkingStep ==
  ASSUME IInv, NEW w \in Workers, NEW todo \in SUBSET Intents,
         \A i \in todo : stripe[i] = "succeeded",
         StartMarking(w, [Idle EXCEPT !.todo = todo])
  PROVE  IInv'
<1> DEFINE k == [[Idle EXCEPT !.todo = todo] EXCEPT !.stage = "mark"]
<1>1. k \in Jobs /\ k.stage = "mark" /\ k.todo = todo
  <2>1. Idle \in Jobs
    BY IdleJob
  <2> QED  BY <2>1 DEF Jobs, Stages
<1>2. job' = [job EXCEPT ![w] = k] /\ UNCHANGED <<db, gateway, crashes>>
  BY DEF StartMarking
<1> HIDE DEF k
<1>3. JobSound(job[w])'
  BY <1>1, <1>2, EasyJob DEF IInv, gateway
<1> QED  BY <1>1, <1>2, <1>3, OnlyJobStep DEF IInv, TypeOK

(* A new intent at Stripe, and a handler that is to record rows for it.    *)
LEMMA ProcessAttendeePaymentStep ==
  ASSUME IInv, NEW w \in Workers, NEW r \in Receipts, ProcessAttendeePayment(w, r)
  PROVE  IInv'
<1> USE DEF IInv
<1>1. PICK i \in NextIntents :
        /\ stripe' = [stripe EXCEPT ![i] = "open"]
        /\ captured' = [captured EXCEPT ![i] = Owed(r)]
        /\ job' = [job EXCEPT ![w] =
             [Idle EXCEPT !.stage = "commit", !.intent = i,
                          !.due[r] = Owed(r), !.attach = OpenItems(r)]]
  BY DEF ProcessAttendeePayment
<1>2. i \in Intents /\ stripe[i] = "none"
  BY DEF NextIntents, Unused
<1>3. Owed(r) \in 0 .. MaxCharge
  BY ChargeableAmount DEF ProcessAttendeePayment
<1> DEFINE k == [Idle EXCEPT !.stage = "commit", !.intent = i,
                             !.due[r] = Owed(r), !.attach = OpenItems(r)]
<1>4. k \in Jobs /\ k.stage = "commit" /\ k.todo = {}
  <2>1. OpenItems(r) \subseteq Items
    BY DEF OpenItems
  <2>2. Idle \in Jobs /\ Idle.todo = {}
    BY IdleJob DEF Idle
  <2> QED  BY <1>2, <1>3, <2>1, <2>2 DEF Jobs, Stages
<1>5. UNCHANGED <<db, crashes>>
  BY DEF ProcessAttendeePayment
<1> HIDE DEF k
<1>6. TypeOK'
  BY <1>1, <1>2, <1>3, <1>4, <1>5 DEF TypeOK, db, k
<1>7. Grows
  BY <1>1, <1>2, <1>5 DEF Grows, TypeOK, db, RowExists
<1>8. JobSound(job[w])'
  BY <1>1, <1>4, EasyJob DEF k
<1>9. \A v \in Workers : job'[v] = job[v] \/ JobSound(job[v])'
  BY <1>1, <1>8 DEF TypeOK
<1> QED  BY <1>5, <1>6, <1>7, <1>9, QuietStep DEF db

(* A cancellation that has been read but not committed.                    *)
LEMMA CancelStep ==
  ASSUME IInv, NEW w \in Workers, NEW k \in Jobs, k.stage = "cancel", k.todo = {},
         job' = [job EXCEPT ![w] = k], UNCHANGED <<db, gateway, crashes>>
  PROVE  IInv'
<1>1. JobSound(job[w])'
  BY EasyJob DEF IInv
<1> QED  BY <1>1, OnlyJobStep DEF IInv, TypeOK

LEMMA StartStep ==
  ASSUME IInv, NEW w \in Workers, Start(w)
  PROVE  IInv'
<1>1. ASSUME NEW i \in Intents, StripeWebhook(w, i)  PROVE  IInv'
  BY <1>1, StartMarkingStep DEF StripeWebhook
<1>2. ASSUME CheckMissedStripePayments(w)  PROVE  IInv'
  BY <1>2, StartMarkingStep DEF CheckMissedStripePayments
<1>3. ASSUME NEW r \in Receipts, ProcessAttendeePayment(w, r)  PROVE  IInv'
  BY <1>3, ProcessAttendeePaymentStep
<1>4. ASSUME NEW cart \in Carts, PreregPayment(w, cart)  PROVE  IInv'
  <2>1. cart \in SUBSET Attendees
    BY ConstantsAssumption DEF ConstantsAssumption
  <2> QED  BY <1>4, <2>1, RefreshStep DEF PreregPayment
<1>5. ASSUME NEW a \in Attendees, Confirm(w, a)  PROVE  IInv'
  BY <1>5, RefreshStep DEF Confirm
<1>6. ASSUME NEW i \in Intents, CancelPayment(w, i)  PROVE  IInv'
  <2> DEFINE drop == MatchingRows(i) \X {i}
             k == [Idle EXCEPT !.stage = "cancel", !.drop = drop]
  <2>1. drop \in SUBSET Rows /\ Idle \in Jobs /\ Idle.todo = {}
    BY IdleJob DEF MatchingRows, Rows, Idle
  <2>2. job' = [job EXCEPT ![w] = k] /\ UNCHANGED <<db, gateway, crashes>>
    BY <1>6 DEF CancelPayment
  <2> HIDE DEF drop
  <2>3. k \in Jobs /\ k.stage = "cancel" /\ k.todo = {}
    BY <2>1 DEF Jobs, Stages
  <2> QED  BY <2>2, <2>3, CancelStep
<1>7. ASSUME NEW r \in Receipts, NEW i \in Intents, CancelReceiptTxn(w, r, i)  PROVE  IInv'
  <2>1. UNCHANGED <<db, gateway, crashes>> /\ "admin" \in Reasons
    BY <1>7 DEF CancelReceiptTxn, Reasons
  <2>2. CASE stripe[i] = "succeeded"
    <3>1. [Idle EXCEPT !.stage = "mark", !.todo = {i}]
            = [[Idle EXCEPT !.todo = {i}] EXCEPT !.stage = "mark"]
      BY DEF Idle
    <3>2. StartMarking(w, [Idle EXCEPT !.todo = {i}])
      BY <1>7, <2>1, <2>2, <3>1 DEF CancelReceiptTxn, StartMarking
    <3> QED  BY <2>2, <3>2, StartMarkingStep
  <2>3. CASE stripe[i] # "succeeded"
    <3> DEFINE k == [Idle EXCEPT !.stage = "cancel", !.why = "admin",
                                 !.drop = {<<r, i>>}]
    <3>1. {<<r, i>>} \in SUBSET Rows /\ Idle \in Jobs /\ Idle.todo = {}
      BY IdleJob DEF Rows, Idle
    <3>2. job' = [job EXCEPT ![w] = k]
      BY <1>7, <2>3 DEF CancelReceiptTxn
    <3>3. k \in Jobs /\ k.stage = "cancel" /\ k.todo = {}
      BY <2>1, <3>1 DEF Jobs, Stages
    <3> QED  BY <2>1, <3>2, <3>3, CancelStep
  <2> QED  BY <2>2, <2>3
<1> QED  BY <1>1, <1>2, <1>3, <1>4, <1>5, <1>6, <1>7 DEF Start

LEMMA CrashStep ==
  ASSUME IInv, NEW w \in Workers, Crash(w)
  PROVE  IInv'
<1>1. /\ job' = [job EXCEPT ![w] = Idle] /\ UNCHANGED <<db, gateway>>
      /\ crashes' \in 0 .. MaxCrashes
  BY ConstantsAssumption DEF ConstantsAssumption, Crash, IInv, TypeOK
<1>2. Idle \in Jobs /\ Idle.todo = {} /\ Idle.stage = "idle"
  BY IdleJob DEF Idle
<1>3. JobSound(job[w])'
  BY <1>1, <1>2, EasyJob DEF IInv
<1> QED  BY <1>1, <1>2, <1>3, OnlyJobStep

-----------------------------------------------------------------------------
(* Marking rows as paid.                                                   *)

(* What is known of a handler that takes a step.                           *)
LEMMA KnownJob ==
  ASSUME IInv, NEW w \in Workers
  PROVE  /\ job[w] \in Jobs
         /\ JobSound(job[w])
         /\ job[w].todo \subseteq Intents
         /\ job[w].rows \subseteq Receipts
         /\ job[w].loaded \subseteq Receipts
         /\ job[w].intent \in Intents \cup {NoIntent}
<1>1. job[w] \in Jobs /\ JobSound(job[w])
  BY DEF IInv, TypeOK, HandlersSound
<1> QED  BY <1>1 DEF Jobs

LEMMA MarkQueryStep ==
  ASSUME IInv, NEW w \in Workers, MarkQuery(w)
  PROVE  IInv'
<1>1. PICK i \in job[w].todo :
        LET rest == [job[w] EXCEPT !.todo = @ \ {i}] IN
        IF MatchingRows(i) = {}
        THEN job' = [job EXCEPT ![w] = IF rest.todo = {} THEN Resume(rest) ELSE rest]
        ELSE \E r \in MatchingRows(i) :
               job' = [job EXCEPT ![w] = Load(rest, i, MatchingRows(i), r)]
  BY DEF MarkQuery
<1> DEFINE rest == [job[w] EXCEPT !.todo = @ \ {i}]
<1>2. i \in Intents /\ stripe[i] = "succeeded"
  BY KnownJob DEF JobSound
<1>3. /\ rest \in Jobs /\ rest.stage = "mark"
      /\ rest.todo \subseteq job[w].todo
  BY KnownJob DEF Jobs, MarkQuery
<1>4. \A n \in rest.todo : stripe[n] = "succeeded"
  BY <1>3, KnownJob DEF JobSound
<1>5. UNCHANGED <<db, gateway, crashes>> /\ crashes' \in 0 .. MaxCrashes
  BY DEF MarkQuery, IInv, TypeOK
<1>6. CASE MatchingRows(i) = {}
  <2>1. job' = [job EXCEPT ![w] = IF rest.todo = {} THEN Resume(rest) ELSE rest]
    BY <1>1, <1>6
  <2> HIDE DEF rest
  <2>2. PICK k \in Jobs : /\ job' = [job EXCEPT ![w] = k]
                          /\ k.stage \notin {"row", "model"}
                          /\ k.todo \subseteq rest.todo
    <3>1. CASE rest.todo = {}
      BY <2>1, <3>1, <1>3, ResumeJob
    <3>2. CASE rest.todo # {}
      BY <2>1, <3>2, <1>3
    <3> QED  BY <3>1, <3>2
  <2>3. JobSound(job[w])'
    BY <2>2, <1>4, <1>5, EasyJob DEF IInv, gateway
  <2> QED  BY <2>2, <2>3, <1>5, OnlyJobStep
<1>7. CASE MatchingRows(i) # {}
  <2>1. PICK r \in MatchingRows(i) :
          job' = [job EXCEPT ![w] = Load(rest, i, MatchingRows(i), r)]
    BY <1>1, <1>7
  <2> DEFINE k == Load(rest, i, MatchingRows(i), r)
  <2>2. /\ MatchingRows(i) \in SUBSET Receipts
        /\ \A q \in MatchingRows(i) : RowExists(q, i)
    BY DEF MatchingRows
  <2> HIDE DEF rest
  <2>3. /\ k \in Jobs /\ k.todo = rest.todo /\ k.stage = "row" /\ k.intent = i
        /\ k.loaded \cup k.rows = MatchingRows(i)
    BY <1>2, <1>3, <2>2, LoadJob
  <2> HIDE DEF k
  <2>4. job' = [job EXCEPT ![w] = k] /\ job'[w] = k
    BY <2>1 DEF k, IInv, TypeOK
  <2>5. JobSound(job[w])'
    BY <1>2, <1>4, <1>5, <2>2, <2>3, <2>4 DEF JobSound, RowExists, db, gateway
  <2> QED  BY <2>3, <2>4, <2>5, <1>5, OnlyJobStep
<1> QED  BY <1>6, <1>7

LEMMA MarkTxnStep ==
  ASSUME IInv, NEW w \in Workers, MarkTxn(w)
  PROVE  IInv'
<1> DEFINE j == job[w]
           now == j.loaded \X {j.intent}
<1>1. /\ j \in Jobs /\ JobSound(j) /\ j.stage = "row"
      /\ j.loaded \subseteq Receipts /\ j.intent \in Intents
      /\ stripe[j.intent] = "succeeded"
  BY KnownJob DEF MarkTxn, JobSound
<1>2. /\ charged' = charged \cup now
      /\ cancelled' = Uncancelled(j)
      /\ job' = [job EXCEPT ![w].stage = "model"]
      /\ UNCHANGED <<receipt, amount, status, hasPaid, stripe, captured, crashes>>
  BY DEF MarkTxn, gateway
<1>3. now \subseteq Rows /\ cancelled' \subseteq Rows
  BY <1>1, <1>2 DEF Rows, Uncancelled, IInv, TypeOK
<1>4. \A x \in Items :
        /\ item'[x] = IF ReceiptOf[x] \in j.loaded /\ item[x].txn = j.intent
                         /\ item[x].state # "absent"
                      THEN [item[x] EXCEPT !.state = "closed"] ELSE item[x]
        /\ item[x] \in [state : {"absent", "open", "closed"},
                        txn   : Intents \cup {NoIntent}]
  BY DEF MarkTxn, IInv, TypeOK
<1>5. item' \in [Items -> [state : {"absent", "open", "closed"},
                           txn   : Intents \cup {NoIntent}]]
  <2>1. item' = [x \in Items |-> item'[x]]
    BY DEF MarkTxn
  <2> QED  BY <1>4, <2>1
<1>6. [j EXCEPT !.stage = "model"] \in Jobs
  BY <1>1 DEF Jobs, Stages
<1>7. TypeOK'
  BY <1>2, <1>3, <1>5, <1>6 DEF IInv, TypeOK
<1>8. Grows
  BY <1>2 DEF Grows, RowExists
<1>9. JobSound(job[w])'
  <2>1. job'[w] = [j EXCEPT !.stage = "model"]
    BY <1>2 DEF IInv, TypeOK
  <2>2. /\ job'[w].stage = "model" /\ job'[w].todo = j.todo /\ job'[w].intent = j.intent
        /\ job'[w].loaded = j.loaded /\ job'[w].rows = j.rows
    BY <1>1, <2>1 DEF Jobs
  <2>3. \A i \in j.todo : stripe'[i] = "succeeded"
    BY <1>1, <1>2 DEF JobSound
  <2>4. \A r \in j.loaded \cup j.rows : amount'[r, j.intent] > 0
    BY <1>1, <1>2 DEF JobSound, RowExists
  <2>5. \A r \in j.loaded : <<r, j.intent>> \in charged'
    BY <1>1, <1>2
  <2> HIDE DEF j
  <2> QED  BY <1>1, <1>2, <2>2, <2>3, <2>4, <2>5 DEF JobSound, RowExists
<1>10. HandlersSound'
  <2>1. \A v \in Workers : job'[v] = job[v] \/ JobSound(job[v])'
    BY <1>2, <1>9 DEF IInv, TypeOK
  <2> QED  BY <1>8, <2>1, HandlersStep DEF IInv
<1>11. ChargeBacked'
  BY <1>1, <1>2 DEF IInv, ChargeBacked
<1>12. ClosedItemHasCharge'
  <2> SUFFICES ASSUME NEW x \in Items, item'[x].state = "closed"
               PROVE  \E i \in Intents : <<ReceiptOf[x], i>> \in charged'
    BY DEF ClosedItemHasCharge
  <2>1. CASE ReceiptOf[x] \in j.loaded
    BY <2>1, <1>1, <1>2
  <2>2. CASE ReceiptOf[x] \notin j.loaded
    BY <2>2, <1>2, <1>4 DEF IInv, ClosedItemHasCharge
  <2> QED  BY <2>1, <2>2
<1>13. AdmittedHasCharge'
  BY <1>2 DEF IInv, AdmittedHasCharge
<1> QED  BY <1>7, <1>10, <1>11, <1>12, <1>13 DEF IInv

(* Settling the items of a receipt that has a row keeps their types, and   *)
(* closes none on another receipt.                                         *)
LEMMA SettledItems ==
  ASSUME TypeOK, NEW r \in Receipts, NEW i \in Intents, RowExists(r, i)
  PROVE  /\ SettleItems(r) \in [Items -> [state : {"absent", "open", "closed"},
                                          txn   : Intents \cup {NoIntent}]]
         /\ \A x \in Items : ReceiptOf[x] # r => SettleItems(r)[x] = item[x]
<1> DEFINE newest == Newest({n \in Intents : RowExists(r, n)})
           txn(x) == IF item[x].txn # NoIntent THEN item[x].txn ELSE newest
           settled == [x \in Items |-> IF x \notin OpenItems(r) THEN item[x]
                                       ELSE [state |-> "closed", txn |-> txn(x)]]
<1>1. newest \in Intents
  <2> DEFINE S == {n \in Intents : RowExists(r, n)}
  <2>1. S \in SUBSET Intents /\ S # {}
    OBVIOUS
  <2> HIDE DEF S
  <2>2. Newest(S) \in Intents
    BY <2>1, NewestIn
  <2> QED  BY <2>2 DEF S
<1> HIDE DEF newest
<1>2. \A x \in Items : item[x] \in [state : {"absent", "open", "closed"},
                                    txn   : Intents \cup {NoIntent}]
  BY DEF TypeOK
<1>3. \A x \in Items : txn(x) \in Intents \cup {NoIntent}
  BY <1>1, <1>2
<1> HIDE DEF txn
<1>4. settled \in [Items -> [state : {"absent", "open", "closed"},
                             txn   : Intents \cup {NoIntent}]]
  BY <1>2, <1>3
<1>5. \A x \in Items : ReceiptOf[x] # r => settled[x] = item[x]
  BY DEF OpenItems
<1>6. SettleItems(r) = IF CurrentReceiptAmount(r) # 0 THEN item ELSE settled
  BY DEF SettleItems, settled, txn, newest
<1> HIDE DEF settled
<1> QED  BY <1>4, <1>5, <1>6 DEF TypeOK

LEMMA MarkModelStep ==
  ASSUME IInv, NEW w \in Workers, MarkModel(w)
  PROVE  IInv'
<1> DEFINE j == job[w]
<1>1. /\ j \in Jobs /\ JobSound(j) /\ j.stage = "model"
      /\ j.todo \subseteq Intents /\ j.rows \subseteq Receipts
      /\ j.loaded \subseteq Receipts /\ j.intent \in Intents
      /\ stripe[j.intent] = "succeeded"
      /\ \A r \in j.loaded \cup j.rows : RowExists(r, j.intent)
      /\ \A r \in j.loaded : <<r, j.intent>> \in charged
      /\ \A i \in j.todo : stripe[i] = "succeeded"
  BY KnownJob DEF MarkModel, JobSound
<1>2. /\ status' = [a \in Attendees |-> IF a \in Admitted(j) /\ status[a] = "pending"
                                        THEN "new" ELSE status[a]]
      /\ hasPaid' = hasPaid \cup Admitted(j)
      /\ UNCHANGED <<receipt, amount, charged, cancelled, stripe, captured, crashes>>
  BY DEF MarkModel, gateway
<1>3. PICK r \in j.loaded : item' = SettleItems(r)
  BY DEF MarkModel
<1>4. Admitted(j) \subseteq {Owner[q] : q \in j.loaded} /\ Admitted(j) \subseteq Attendees
  BY <1>1, ConstantsAssumption DEF ConstantsAssumption, Admitted
<1>5. PICK k \in Jobs :
        /\ job' = [job EXCEPT ![w] = k]
        /\ k.todo = {} \/ k.todo = j.todo
        /\ k.stage # "model"
        /\ k.stage = "row" => k.intent = j.intent /\ k.loaded \cup k.rows = j.rows
  <2>1. CASE j.rows # {}
    <3>1. PICK q \in j.rows : job' = [job EXCEPT ![w] = Load(j, j.intent, j.rows, q)]
      BY <2>1 DEF MarkModel
    <3> DEFINE k == Load(j, j.intent, j.rows, q)
    <3> HIDE DEF j
    <3>2. /\ k \in Jobs
          /\ k.todo = j.todo /\ k.stage = "row" /\ k.intent = j.intent
          /\ k.loaded \cup k.rows = j.rows
      BY <1>1, LoadJob
    <3> HIDE DEF k
    <3> QED  BY <3>1, <3>2 DEF k
  <2>2. CASE j.rows = {} /\ j.todo = {}
    <3>1. job' = [job EXCEPT ![w] = Resume(j)]
      BY <2>2 DEF MarkModel
    <3> HIDE DEF j
    <3> QED  BY <3>1, <1>1, ResumeJob
  <2>3. CASE j.rows = {} /\ j.todo # {}
    <3> DEFINE k == [j EXCEPT !.stage = "mark", !.loaded = {}, !.seen = FALSE]
    <3>1. job' = [job EXCEPT ![w] = k]
      BY <2>3 DEF MarkModel
    <3> HIDE DEF j
    <3>2. k \in Jobs /\ k.todo = j.todo /\ k.stage = "mark"
      BY <1>1 DEF Jobs, Stages
    <3> QED  BY <3>1, <3>2
  <2> QED  BY <2>1, <2>2, <2>3
<1>6. TypeOK'
  <2>1. status' \in [Attendees -> {"cart", "pending", "new", "invalid"}]
    BY <1>2 DEF IInv, TypeOK
  <2>2. hasPaid' \subseteq Attendees
    BY <1>2, <1>4 DEF IInv, TypeOK
  <2>3. item' \in [Items -> [state : {"absent", "open", "closed"},
                             txn   : Intents \cup {NoIntent}]]
    BY <1>1, <1>3, SettledItems DEF IInv
  <2>4. job' \in [Workers -> Jobs]
    BY <1>5 DEF IInv, TypeOK
  <2> QED  BY <1>2, <2>1, <2>2, <2>3, <2>4 DEF IInv, TypeOK
<1>7. Grows
  BY <1>2 DEF Grows, RowExists
<1>8. HandlersSound'
  <2>1. job'[w] = k
    BY <1>5 DEF IInv, TypeOK
  <2>2. \A q \in j.rows : amount'[q, j.intent] > 0
    BY <1>1, <1>2 DEF RowExists
  <2>3. \A i \in k.todo : stripe'[i] = "succeeded"
    BY <1>1, <1>2, <1>5
  <2>4. k.stage = "row" => /\ k.intent \in Intents /\ stripe'[k.intent] = "succeeded"
                           /\ \A q \in k.loaded \cup k.rows : amount'[q, k.intent] > 0
    BY <1>1, <1>2, <1>5, <2>2
  <2>5. JobSound(job[w])'
    BY <1>5, <2>1, <2>3, <2>4 DEF JobSound, RowExists
  <2>6. \A v \in Workers : job'[v] = job[v] \/ JobSound(job[v])'
    BY <1>5, <2>5 DEF IInv, TypeOK
  <2> QED  BY <1>7, <2>6, HandlersStep DEF IInv
<1>9. ChargeBacked'
  BY <1>2 DEF IInv, ChargeBacked
<1>10. ClosedItemHasCharge'
  <2> SUFFICES ASSUME NEW x \in Items, item'[x].state = "closed"
               PROVE  \E i \in Intents : <<ReceiptOf[x], i>> \in charged'
    BY DEF ClosedItemHasCharge
  <2>1. CASE ReceiptOf[x] = r
    BY <2>1, <1>1, <1>2, <1>3
  <2>2. CASE ReceiptOf[x] # r
    <3>1. item'[x] = item[x]
      BY <2>2, <1>1, <1>3, SettledItems DEF IInv
    <3> QED  BY <3>1, <1>2 DEF IInv, ClosedItemHasCharge
  <2> QED  BY <2>1, <2>2
<1>11. AdmittedHasCharge'
  <2> SUFFICES ASSUME NEW a \in Attendees, status'[a] = "new" \/ a \in hasPaid'
               PROVE  \E row \in charged' : Owner[row[1]] = a
    BY DEF AdmittedHasCharge
  <2>1. CASE a \in Admitted(j)
    <3>1. PICK q \in j.loaded : a = Owner[q]
      BY <2>1, <1>4
    <3>2. <<q, j.intent>> \in charged' /\ <<q, j.intent>>[1] = q
      BY <1>1, <1>2, <3>1
    <3> QED  BY <3>1, <3>2
  <2>2. CASE a \notin Admitted(j)
    <3>1. status[a] = "new" \/ a \in hasPaid
      BY <2>2, <1>2
    <3> QED  BY <3>1, <1>2 DEF IInv, AdmittedHasCharge
  <2> QED  BY <2>1, <2>2
<1> QED  BY <1>6, <1>8, <1>9, <1>10, <1>11 DEF IInv

-----------------------------------------------------------------------------
(* Bringing amounts up to date, and recording new rows.                    *)

(* Amounts that may be changed at Stripe stay within bounds, and no row    *)
(* loses its amount.                                                       *)
LEMMA RepricedAmounts ==
  ASSUME TypeOK, NEW rs \in SUBSET Receipts, CanReprice(rs)
  PROVE  /\ Repriced(rs) \in [Intents -> 0 .. MaxCharge]
         /\ Amended(rs) \in [Rows -> 0 .. MaxCharge]
         /\ \A row \in Rows : amount[row] > 0 => Amended(rs)[row] > 0
<1>1. \A r \in OutOfDate(rs) : Owed(r) \in 0 .. MaxCharge /\ Owed(r) > 0
  BY ChargeableAmount DEF CanReprice
<1>2. Repriced(rs) \in [Intents -> 0 .. MaxCharge]
  <2> DEFINE by(i) == {r \in OutOfDate(rs) : i = Newest(PendingIntents(r))}
             new(i) == IF by(i) = {} THEN captured[i] ELSE Owed(CHOOSE r \in by(i) : TRUE)
  <2>1. ASSUME NEW i \in Intents  PROVE  new(i) \in 0 .. MaxCharge
    <3>1. CASE by(i) = {}
      BY <3>1 DEF TypeOK
    <3>2. CASE by(i) # {}
      <4>1. (CHOOSE r \in by(i) : TRUE) \in by(i)
        BY <3>2
      <4>2. (CHOOSE r \in by(i) : TRUE) \in OutOfDate(rs)
        BY <4>1
      <4> HIDE DEF by
      <4> QED  BY <1>1, <3>2, <4>2
    <3> QED  BY <3>1, <3>2
  <2>2. Repriced(rs) = [i \in Intents |-> new(i)]
    BY DEF Repriced
  <2> HIDE DEF new
  <2> QED  BY <2>1, <2>2
<1>3. \A row \in Rows : /\ Amended(rs)[row] \in 0 .. MaxCharge
                        /\ amount[row] > 0 => Amended(rs)[row] > 0
  <2> SUFFICES ASSUME NEW row \in Rows
               PROVE  /\ Amended(rs)[row] \in 0 .. MaxCharge
                      /\ amount[row] > 0 => Amended(rs)[row] > 0
    OBVIOUS
  <2>1. CASE row[1] \in OutOfDate(rs) /\ row[2] = Newest(PendingIntents(row[1]))
    <3>1. Amended(rs)[row] = Owed(row[1])
      BY <2>1 DEF Amended
    <3> QED  BY <1>1, <2>1, <3>1
  <2>2. CASE ~ (row[1] \in OutOfDate(rs) /\ row[2] = Newest(PendingIntents(row[1])))
    <3>1. Amended(rs)[row] = amount[row]
      BY <2>2 DEF Amended
    <3> QED  BY <3>1 DEF TypeOK
  <2> QED  BY <2>1, <2>2
<1>4. Amended(rs) \in [Rows -> 0 .. MaxCharge]
  BY <1>3 DEF Amended
<1> QED  BY <1>2, <1>3, <1>4

(* What is cancelled are rows.                                             *)
LEMMA CancelledRows ==
  ASSUME NEW rs \in SUBSET Receipts
  PROVE  Obsolete(rs) \in SUBSET Rows /\ Superseded(rs) \in SUBSET Rows
<1>1. Obsolete(rs) \in SUBSET Rows
  <2> DEFINE settled == {q \in rs : Owed(q) = 0}
  <2>1. \A r \in settled : {r} \X PendingIntents(r) \subseteq Rows
    BY DEF PendingIntents, Rows
  <2>2. Obsolete(rs) = UNION {{r} \X PendingIntents(r) : r \in settled}
    BY DEF Obsolete
  <2> HIDE DEF settled
  <2> QED  BY <2>1, <2>2
<1>2. \A r \in Receipts : PendingIntents(r) # {} => <<r, Newest(PendingIntents(r))>> \in Rows
  <2> SUFFICES ASSUME NEW r \in Receipts, PendingIntents(r) # {}
               PROVE  <<r, Newest(PendingIntents(r))>> \in Rows
    OBVIOUS
  <2>1. PendingIntents(r) \in SUBSET Intents
    BY DEF PendingIntents
  <2>2. Newest(PendingIntents(r)) \in Intents
    BY <2>1, NewestIn
  <2> QED  BY <2>2 DEF Rows
<1> QED  BY <1>1, <1>2 DEF Superseded

(* The rows a handler computed are written.                                *)
LEMMA WrittenAmounts ==
  ASSUME TypeOK, NEW j \in Jobs
  PROVE  /\ [row \in Rows |-> RowAmount(j, row)] \in [Rows -> 0 .. MaxCharge]
         /\ \A row \in Rows : amount[row] > 0 => RowAmount(j, row) > 0
<1>1. \A r \in Receipts : j.due[r] \in 0 .. MaxCharge
  BY DEF Jobs
<1>2. \A row \in Rows : row[1] \in Receipts /\ amount[row] \in 0 .. MaxCharge
  BY DEF Rows, TypeOK
<1> QED  BY <1>1, <1>2 DEF RowAmount

LEMMA ActiveOfCart ==
  ASSUME NEW cart
  PROVE  UNION {ActiveReceipts(a) : a \in cart} \in SUBSET Receipts
  BY DEF ActiveReceipts

LEMMA CommitPaymentStep ==
  ASSUME IInv, NEW w \in Workers, CommitPayment(w)
  PROVE  IInv'
<1> DEFINE j == job[w]
<1>1. /\ j \in Jobs /\ j.drop \subseteq Rows /\ j.intent \in Intents \cup {NoIntent}
  BY KnownJob DEF Jobs
<1>2. /\ amount' = [row \in Rows |-> RowAmount(j, row)]
      /\ cancelled' = cancelled \cup j.drop
      /\ status' = [a \in Attendees |->
                      IF a \in j.cart /\ status[a] = "cart" THEN "pending" ELSE status[a]]
      /\ job' = [job EXCEPT ![w] = Idle]
      /\ UNCHANGED <<receipt, charged, hasPaid, stripe, captured, crashes>>
  BY DEF CommitPayment, gateway
<1>3. \A x \in Items :
        /\ item'[x] = IF x \in j.attach /\ j.due[ReceiptOf[x]] > 0
                      THEN [item[x] EXCEPT !.txn = j.intent] ELSE item[x]
        /\ item[x] \in [state : {"absent", "open", "closed"},
                        txn   : Intents \cup {NoIntent}]
  BY DEF CommitPayment, Attached, IInv, TypeOK
<1>4. item' \in [Items -> [state : {"absent", "open", "closed"},
                           txn   : Intents \cup {NoIntent}]]
  <2>1. item' = [x \in Items |-> item'[x]]
    BY DEF CommitPayment
  <2> HIDE DEF j
  <2> QED  BY <1>1, <1>3, <2>1
<1>5. /\ amount' \in [Rows -> 0 .. MaxCharge]
      /\ \A row \in Rows : amount[row] > 0 => amount'[row] > 0
  BY <1>1, <1>2, WrittenAmounts DEF IInv
<1>6. TypeOK'
  BY <1>1, <1>2, <1>4, <1>5, IdleJob DEF IInv, TypeOK
<1>7. Grows
  BY <1>2, <1>5 DEF Grows, RowExists, Rows
<1>8. \A v \in Workers : job'[v] = job[v] \/ JobSound(job[v])'
  <2>1. Idle \in Jobs /\ Idle.stage = "idle" /\ Idle.todo = {}
    BY IdleJob DEF Idle
  <2>2. JobSound(job[w])'
    BY <1>2, <2>1, EasyJob DEF IInv
  <2> QED  BY <1>2, <2>2 DEF IInv, TypeOK
<1>9. \A a \in Attendees : status'[a] = "new" => status[a] = "new"
  BY <1>2
<1>10. \A x \in Items : item'[x].state = "closed" => item[x].state = "closed"
  BY <1>3
<1> QED  BY <1>2, <1>6, <1>7, <1>8, <1>9, <1>10, QuietStep

LEMMA CancelCommitStep ==
  ASSUME IInv, NEW w \in Workers, CancelCommit(w)
  PROVE  IInv'
<1> DEFINE j == job[w]
<1>1. j \in Jobs /\ j.drop \subseteq Rows
  BY KnownJob DEF Jobs
<1>2. /\ cancelled' = cancelled \cup j.drop
      /\ job' = [job EXCEPT ![w] = Idle]
      /\ UNCHANGED <<receipt, amount, charged, status, hasPaid, stripe, captured, crashes>>
  BY DEF CancelCommit, gateway
<1>3. \A x \in Items :
        /\ item'[x] \in {item[x], [state |-> "open", txn |-> NoIntent]}
        /\ item[x] \in [state : {"absent", "open", "closed"},
                        txn   : Intents \cup {NoIntent}]
  BY DEF CancelCommit, IInv, TypeOK
<1>4. item' \in [Items -> [state : {"absent", "open", "closed"},
                           txn   : Intents \cup {NoIntent}]]
  <2>1. item' = [x \in Items |-> item'[x]]
    BY DEF CancelCommit
  <2> QED  BY <1>3, <2>1
<1>5. TypeOK'
  BY <1>1, <1>2, <1>4, IdleJob DEF IInv, TypeOK
<1>6. Grows
  BY <1>2 DEF Grows, RowExists
<1>7. \A v \in Workers : job'[v] = job[v] \/ JobSound(job[v])'
  <2>1. Idle \in Jobs /\ Idle.stage = "idle" /\ Idle.todo = {}
    BY IdleJob DEF Idle
  <2>2. JobSound(job[w])'
    BY <1>2, <2>1, EasyJob DEF IInv
  <2> QED  BY <1>2, <2>2 DEF IInv, TypeOK
<1>8. \A x \in Items : item'[x].state = "closed" => item[x].state = "closed"
  BY <1>3
<1> QED  BY <1>2, <1>5, <1>6, <1>7, <1>8, QuietStep

LEMMA ConfirmAmendStep ==
  ASSUME IInv, NEW w \in Workers, ConfirmAmend(w)
  PROVE  IInv'
<1>1. job[w] \in Jobs
  BY KnownJob
<1>2. /\ amount' = [row \in Rows |-> RowAmount(job[w], row)]
      /\ job' = [job EXCEPT ![w] = Idle]
      /\ UNCHANGED <<receipt, item, charged, cancelled, status, hasPaid,
                     stripe, captured, crashes>>
  BY DEF ConfirmAmend, gateway
<1>3. /\ amount' \in [Rows -> 0 .. MaxCharge]
      /\ \A row \in Rows : amount[row] > 0 => amount'[row] > 0
  BY <1>1, <1>2, WrittenAmounts DEF IInv
<1>4. TypeOK'
  BY <1>2, <1>3, IdleJob DEF IInv, TypeOK
<1>5. Grows
  BY <1>2, <1>3 DEF Grows, RowExists, Rows
<1>6. \A v \in Workers : job'[v] = job[v] \/ JobSound(job[v])'
  <2>1. Idle \in Jobs /\ Idle.stage = "idle" /\ Idle.todo = {}
    BY IdleJob DEF Idle
  <2>2. JobSound(job[w])'
    BY <1>2, <2>1, EasyJob DEF IInv
  <2> QED  BY <1>2, <2>2 DEF IInv, TypeOK
<1> QED  BY <1>2, <1>4, <1>5, <1>6, QuietStep

LEMMA ConfirmViewStep ==
  ASSUME IInv, NEW w \in Workers, ConfirmView(w)
  PROVE  IInv'
<1> DEFINE rs == UNION {ActiveReceipts(a) : a \in job[w].cart}
<1>1. rs \in SUBSET Receipts
  BY ActiveOfCart
<1>2. /\ CanReprice(rs)
      /\ cancelled' = cancelled \cup Obsolete(rs)
      /\ captured' = Repriced(rs)
      /\ UNCHANGED <<receipt, item, amount, charged, status, hasPaid, stripe, crashes>>
  BY DEF ConfirmView
<1>3. PICK k \in Jobs : /\ job' = [job EXCEPT ![w] = k]
                        /\ k.stage \in {"idle", "amend"} /\ k.todo = {}
  <2>1. CASE OutOfDate(rs) = {}
    <3>1. job' = [job EXCEPT ![w] = Idle]
      BY <2>1 DEF ConfirmView
    <3> QED  BY <3>1, IdleJob DEF Idle
  <2>2. CASE OutOfDate(rs) # {}
    <3>1. PICK r \in OutOfDate(rs) :
            job' = [job EXCEPT ![w] =
              [Idle EXCEPT !.stage = "amend", !.intent = Newest(PendingIntents(r)),
                           !.due[r] = Owed(r)]]
      BY <2>2 DEF ConfirmView
    <3> DEFINE n == Newest(PendingIntents(r))
               k == [Idle EXCEPT !.stage = "amend", !.intent = n, !.due[r] = Owed(r)]
    <3>2. r \in Receipts /\ Owed(r) \in 0 .. MaxCharge
      BY <1>1, <1>2, ChargeableAmount DEF OutOfDate, CanReprice
    <3>3. n \in Intents
      <4>1. PendingIntents(r) \in SUBSET Intents /\ PendingIntents(r) # {}
        BY DEF OutOfDate, PendingIntents
      <4> QED  BY <4>1, NewestIn
    <3> HIDE DEF n
    <3>4. k \in Jobs /\ k.stage = "amend" /\ k.todo = {}
      <4>1. Idle \in Jobs /\ Idle.todo = {}
        BY IdleJob DEF Idle
      <4> QED  BY <3>2, <3>3, <4>1 DEF Jobs, Stages
    <3>5. job' = [job EXCEPT ![w] = k]
      BY <3>1 DEF n
    <3> HIDE DEF k
    <3> QED  BY <3>4, <3>5
  <2> QED  BY <2>1, <2>2
<1> HIDE DEF rs
<1>4. TypeOK'
  BY <1>1, <1>2, <1>3, RepricedAmounts, CancelledRows DEF IInv, TypeOK
<1>5. Grows
  BY <1>2 DEF Grows, RowExists
<1>6. \A v \in Workers : job'[v] = job[v] \/ JobSound(job[v])'
  <2>1. JobSound(job[w])'
    BY <1>3, EasyJob DEF IInv
  <2> QED  BY <1>3, <2>1 DEF IInv, TypeOK
<1> QED  BY <1>2, <1>4, <1>5, <1>6, QuietStep

LEMMA HandlerErrorStep ==
  ASSUME IInv, NEW w \in Workers, HandlerError(w)
  PROVE  IInv'
<1> DEFINE rs == UNION {ActiveReceipts(a) : a \in job[w].cart}
<1>1. rs \in SUBSET Receipts
  BY ActiveOfCart
<1>2. PICK done \in SUBSET rs :
        /\ CanReprice(done)
        /\ captured' = Repriced(done)
        /\ amount' = Amended(done)
        /\ \E early \in SUBSET Superseded(done) :
             cancelled' = cancelled \cup Obsolete(done) \cup early
  BY DEF HandlerError
<1>3. /\ job' = [job EXCEPT ![w] = Idle]
      /\ UNCHANGED <<receipt, item, charged, status, hasPaid, stripe, crashes>>
  BY DEF HandlerError
<1>4. done \in SUBSET Receipts
  BY <1>1, <1>2
<1>5. /\ captured' \in [Intents -> 0 .. MaxCharge]
      /\ amount' \in [Rows -> 0 .. MaxCharge]
      /\ \A row \in Rows : amount[row] > 0 => amount'[row] > 0
  BY <1>2, <1>4, RepricedAmounts DEF IInv
<1>6. cancelled' \subseteq Rows
  BY <1>2, <1>4, CancelledRows DEF IInv, TypeOK
<1>7. TypeOK'
  BY <1>3, <1>5, <1>6, IdleJob DEF IInv, TypeOK
<1>8. Grows
  BY <1>3, <1>5 DEF Grows, RowExists, Rows
<1>9. \A v \in Workers : job'[v] = job[v] \/ JobSound(job[v])'
  <2>1. Idle \in Jobs /\ Idle.stage = "idle" /\ Idle.todo = {}
    BY IdleJob DEF Idle
  <2>2. JobSound(job[w])'
    BY <1>3, <2>1, EasyJob DEF IInv
  <2> QED  BY <1>3, <2>2 DEF IInv, TypeOK
<1> QED  BY <1>3, <1>7, <1>8, <1>9, QuietStep

LEMMA PreregIntentStep ==
  ASSUME IInv, NEW w \in Workers, PreregIntent(w)
  PROVE  IInv'
<1> DEFINE cart == job[w].cart
           kept == UNION {ActiveReceipts(a) : a \in cart}
           drop == Superseded(kept)
           use(new) == (kept \ Replaced(kept, new)) \cup new
           attach(new) == (UNION {OpenItems(r) : r \in use(new)}) \cup Fresh(new)
           total(new) == SumFunctionOnSet(Due(use(new), new), use(new))
           next(i, new, early) ==
             [Idle EXCEPT !.stage = "commit", !.cart = cart, !.intent = i,
                          !.due = Due(use(new), new), !.attach = attach(new),
                          !.drop = drop \ early]
<1>1. kept \in SUBSET Receipts /\ CanReprice(kept)
  BY ActiveOfCart DEF PreregIntent
<1>2. drop \in SUBSET Rows /\ Obsolete(kept) \in SUBSET Rows
  BY <1>1, CancelledRows
<1>3. PICK new \in SUBSET Receipts :
        /\ Due(use(new), new) \in [Receipts -> 0 .. MaxCharge]
        /\ receipt' = [r \in Receipts |-> IF r \in new THEN "open"
                                          ELSE IF r \in Replaced(kept, new) THEN "closed"
                                          ELSE receipt[r]]
        /\ item' = [x \in Items |-> IF x \in Fresh(new)
                                    THEN [item[x] EXCEPT !.state = "open"] ELSE item[x]]
        /\ amount' = Amended(kept)
        /\ \E early \in SUBSET drop :
             /\ cancelled' = cancelled \cup Obsolete(kept) \cup early
             /\ \/ /\ Chargeable(total(new))
                   /\ \E i \in NextIntents :
                        /\ stripe' = [stripe EXCEPT ![i] = "open"]
                        /\ captured' = [Repriced(kept) EXCEPT ![i] = total(new)]
                        /\ job' = [job EXCEPT ![w] = next(i, new, early)]
                \/ /\ captured' = Repriced(kept)
                   /\ job' = [job EXCEPT ![w] = Idle]
                   /\ UNCHANGED stripe
  BY DEF PreregIntent
<1>4. UNCHANGED <<charged, status, hasPaid, crashes>>
  BY DEF PreregIntent
<1>5. PICK early \in SUBSET drop :
        /\ cancelled' = cancelled \cup Obsolete(kept) \cup early
        /\ \/ /\ Chargeable(total(new))
              /\ \E i \in NextIntents :
                   /\ stripe' = [stripe EXCEPT ![i] = "open"]
                   /\ captured' = [Repriced(kept) EXCEPT ![i] = total(new)]
                   /\ job' = [job EXCEPT ![w] = next(i, new, early)]
           \/ /\ captured' = Repriced(kept)
              /\ job' = [job EXCEPT ![w] = Idle]
              /\ UNCHANGED stripe
  BY <1>3
<1>6. cart \in SUBSET Attendees /\ attach(new) \in SUBSET Items
  <2>1. cart \in SUBSET Attendees
    BY KnownJob DEF Jobs
  <2>2. attach(new) \in SUBSET Items
    <3>1. \A r \in use(new) : OpenItems(r) \subseteq Items
      BY DEF OpenItems
    <3>2. Fresh(new) \subseteq Items
      BY DEF Fresh
    <3> HIDE DEF use
    <3> QED  BY <3>1, <3>2
  <2> QED  BY <2>1, <2>2
<1> DEFINE due == Due(use(new), new)
           bought == attach(new)
           sum == total(new)
<1>7. /\ Repriced(kept) \in [Intents -> 0 .. MaxCharge]
      /\ amount' \in [Rows -> 0 .. MaxCharge]
      /\ \A row \in Rows : amount[row] > 0 => amount'[row] > 0
  BY <1>1, <1>3, RepricedAmounts DEF IInv
<1> HIDE DEF cart, kept, drop
<1>8. PICK k \in Jobs :
        /\ job' = [job EXCEPT ![w] = k]
        /\ k.stage \in {"idle", "commit"} /\ k.todo = {}
        /\ stripe' \in [Intents -> {"none", "open", "succeeded"}]
        /\ captured' \in [Intents -> 0 .. MaxCharge]
        /\ \A i \in Intents : stripe[i] = "succeeded" => stripe'[i] = "succeeded"
  <2>1. CASE /\ captured' = Repriced(kept)
             /\ job' = [job EXCEPT ![w] = Idle]
             /\ UNCHANGED stripe
    BY <2>1, <1>7, IdleJob DEF Idle, IInv, TypeOK
  <2>2. CASE /\ Chargeable(sum)
             /\ \E i \in NextIntents :
                  /\ stripe' = [stripe EXCEPT ![i] = "open"]
                  /\ captured' = [Repriced(kept) EXCEPT ![i] = sum]
                  /\ job' = [job EXCEPT ![w] = next(i, new, early)]
    <3>1. PICK i \in NextIntents :
            /\ stripe' = [stripe EXCEPT ![i] = "open"]
            /\ captured' = [Repriced(kept) EXCEPT ![i] = sum]
            /\ job' = [job EXCEPT ![w] = next(i, new, early)]
      BY <2>2
    <3>2. i \in Intents /\ stripe[i] = "none"
      BY DEF NextIntents, Unused
    <3>3. sum \in 0 .. MaxCharge
      BY <2>2, ChargeableAmount
    <3> DEFINE k == next(i, new, early)
    <3>4. k \in Jobs /\ k.stage = "commit" /\ k.todo = {}
      <4>1. Idle \in Jobs /\ Idle.todo = {}
        BY IdleJob DEF Idle
      <4>2. due \in [Receipts -> 0 .. MaxCharge] /\ bought \in SUBSET Items
        BY <1>3, <1>6
      <4>3. k = [Idle EXCEPT !.stage = "commit", !.cart = cart, !.intent = i, !.due = due,
                             !.attach = bought, !.drop = drop \ early]
        OBVIOUS
      <4>4. drop \ early \in SUBSET Rows
        BY <1>2
      <4> HIDE DEF k, due, bought
      <4> QED  BY <1>6, <3>2, <4>1, <4>2, <4>3, <4>4 DEF Jobs, Stages
    <3> HIDE DEF k, sum
    <3>5. job' = [job EXCEPT ![w] = k]
      BY <3>1 DEF k
    <3>6. /\ stripe' \in [Intents -> {"none", "open", "succeeded"}]
          /\ captured' \in [Intents -> 0 .. MaxCharge]
          /\ \A n \in Intents : stripe[n] = "succeeded" => stripe'[n] = "succeeded"
      BY <1>7, <3>1, <3>2, <3>3 DEF IInv, TypeOK
    <3> QED  BY <3>4, <3>5, <3>6
  <2> QED  BY <1>5, <2>1, <2>2
<1>9. TypeOK'
  <2>1. receipt' \in [Receipts -> {"absent", "open", "closed"}]
    BY <1>3 DEF IInv, TypeOK
  <2>2. item' \in [Items -> [state : {"absent", "open", "closed"},
                             txn   : Intents \cup {NoIntent}]]
    <3>1. item' = [x \in Items |-> IF x \in Fresh(new)
                                   THEN [item[x] EXCEPT !.state = "open"] ELSE item[x]]
      BY <1>3
    <3>2. item \in [Items -> [state : {"absent", "open", "closed"},
                              txn   : Intents \cup {NoIntent}]]
      BY DEF IInv, TypeOK
    <3> QED  BY <3>1, <3>2, SMTT(30)
  <2>3. cancelled' \subseteq Rows
    BY <1>2, <1>5 DEF IInv, TypeOK
  <2> QED  BY <1>4, <1>7, <1>8, <2>1, <2>2, <2>3 DEF IInv, TypeOK
<1>10. Grows
  BY <1>4, <1>7, <1>8 DEF Grows, RowExists, Rows
<1>11. \A v \in Workers : job'[v] = job[v] \/ JobSound(job[v])'
  <2>1. JobSound(job[w])'
    BY <1>8, EasyJob DEF IInv
  <2> QED  BY <1>8, <2>1 DEF IInv, TypeOK
<1>12. \A x \in Items : item'[x].state = "closed" => item[x].state = "closed"
  BY <1>3 DEF IInv, TypeOK
<1> QED  BY <1>4, <1>9, <1>10, <1>11, <1>12, QuietStep

-----------------------------------------------------------------------------
(* The invariant, and what it implies.                                     *)
LEMMA ContinueStep ==
  ASSUME IInv, NEW w \in Workers, Continue(w)
  PROVE  IInv'
  BY MarkQueryStep, MarkTxnStep, MarkModelStep, PreregIntentStep, CommitPaymentStep,
     ConfirmViewStep, ConfirmAmendStep, HandlerErrorStep, CancelCommitStep DEF Continue

LEMMA StutterStep ==
  ASSUME IInv, UNCHANGED vars
  PROVE  IInv'
<1>1. /\ TypeOK'
      /\ Grows
  BY DEF IInv, TypeOK, Grows, RowExists, vars, db, gateway
<1> QED  BY <1>1, QuietStep DEF vars, db, gateway

(* Whatever the handlers do, in whatever order, IInv holds.                *)
THEOREM InductiveInvariant == Spec => []IInv
<1>1. Init => IInv
  BY InitIInv
<1>2. IInv /\ [Next]_vars => IInv'
  <2> SUFFICES ASSUME IInv, [Next]_vars  PROVE  IInv'
    OBVIOUS
  <2>1. CASE Environment
    BY <2>1, EnvironmentStep
  <2>2. ASSUME NEW w \in Workers, Start(w) \/ Continue(w) \/ Crash(w)  PROVE  IInv'
    BY <2>2, StartStep, ContinueStep, CrashStep
  <2>3. CASE UNCHANGED vars
    BY <2>3, StutterStep
  <2> QED  BY <2>1, <2>2, <2>3 DEF Next
<1> QED  BY <1>1, <1>2, PTL DEF Spec

(* Every variable keeps its type: no amount outside 0 .. MaxCharge.        *)
THEOREM TypeCorrect == Spec => []TypeOK
<1>1. IInv => TypeOK
  BY DEF IInv
<1> QED  BY <1>1, InductiveInvariant, PTL

(* What a handler remembers is still true when it uses it to mark a row or *)
(* to admit an attendee.                                                   *)
THEOREM HandlersCorrect == Spec => []HandlersSound
<1>1. IInv => HandlersSound
  BY DEF IInv
<1> QED  BY <1>1, InductiveInvariant, PTL

(* A row has a charge only when Stripe holds the money of its intent.      *)
THEOREM ChargesAreBacked == Spec => []ChargeBacked
<1>1. IInv => ChargeBacked
  BY DEF IInv
<1> QED  BY <1>1, InductiveInvariant, PTL

(* No item is closed on a receipt without a recorded payment.              *)
THEOREM ClosedItemsHaveCharges == Spec => []ClosedItemHasCharge
<1>1. IInv => ClosedItemHasCharge
  BY DEF IInv
<1> QED  BY <1>1, InductiveInvariant, PTL

(* Nobody is admitted, or shown as having paid, without a recorded payment.*)
THEOREM AdmittedHaveCharges == Spec => []AdmittedHasCharge
<1>1. IInv => AdmittedHasCharge
  BY DEF IInv
<1> QED  BY <1>1, InductiveInvariant, PTL

-----------------------------------------------------------------------------
(* Payments implements CardPayments: every step of it is a step of         *)
(* CardPayments or leaves the four variables of CardPayments alone.        *)

(* A handler that is to record rows has an intent of its own, which is     *)
(* open and has no row: nobody can pay it yet.                             *)
CommitSound(w) ==
  job[w].stage = "commit" =>
    /\ job[w].intent \in Intents /\ stripe[job[w].intent] = "open"
    /\ \A r \in Receipts : ~RowExists(r, job[w].intent)
    /\ \A v \in Workers :
         job[v].stage = "commit" /\ job[v].intent = job[w].intent => v = w

(* Only an existing row is given another amount.                           *)
AmendSound(w) ==
  job[w].stage = "amend" =>
    \A r \in Receipts :
      job[w].due[r] > 0 => job[w].intent \in Intents /\ RowExists(r, job[w].intent)

(* A handler that marks rows has one row at a time.                        *)
LoadSound(w) ==
  job[w].stage \in {"row", "model"} => \E r \in Receipts : job[w].loaded = {r}

(* A row is made for an intent that Stripe has created.                    *)
RowsHaveIntents ==
  \A r \in Receipts, i \in Intents : RowExists(r, i) => stripe[i] # "none"

IntentsSound ==
  RowsHaveIntents /\ \A w \in Workers : CommitSound(w) /\ AmendSound(w) /\ LoadSound(w)

(* The same rows exist after the step.                                     *)
SameRows == \A r \in Receipts, i \in Intents : amount'[r, i] > 0 <=> amount[r, i] > 0

(* An intent is created, or paid when it has a row.                        *)
StripeGoesOn ==
  \A i \in Intents :
    \/ stripe'[i] = stripe[i]
    \/ stripe[i] = "none" /\ stripe'[i] = "open"
    \/ stripe[i] = "open" /\ stripe'[i] = "succeeded" /\ \E r \in Receipts : RowExists(r, i)

(* What the new job of a handler must know of its intent or row.           *)
NewJobSound(k) ==
  /\ k.stage = "commit" =>
       k.intent \in Intents /\ stripe[k.intent] = "none" /\ stripe'[k.intent] = "open"
  /\ k.stage = "amend" =>
       \A r \in Receipts : k.due[r] > 0 => k.intent \in Intents /\ RowExists(r, k.intent)
  /\ k.stage \in {"row", "model"} => \E r \in Receipts : k.loaded = {r}

(* A step of one handler, or of none, that makes no row.                   *)
LEMMA IntentsStep ==
  ASSUME IntentsSound, SameRows, StripeGoesOn, NEW w,
         \A v \in Workers : v # w => job'[v] = job[v],
         w \in Workers => job'[w] = job[w] \/ NewJobSound(job'[w])
  PROVE  IntentsSound'
<1> USE DEF RowExists
<1>1. RowsHaveIntents'
  BY DEF IntentsSound, RowsHaveIntents, SameRows, StripeGoesOn
<1> SUFFICES ASSUME NEW v \in Workers
             PROVE  CommitSound(v)' /\ AmendSound(v)' /\ LoadSound(v)'
  BY <1>1 DEF IntentsSound
<1>2. CommitSound(v) /\ AmendSound(v) /\ LoadSound(v)
  BY DEF IntentsSound
<1>3. CommitSound(v)'
  <2> DEFINE i == job'[v].intent
  <2> SUFFICES ASSUME job'[v].stage = "commit"
               PROVE  /\ i \in Intents /\ stripe'[i] = "open"
                      /\ \A r \in Receipts : ~(amount'[r, i] > 0)
                      /\ \A u \in Workers :
                           job'[u].stage = "commit" /\ job'[u].intent = i => u = v
    BY DEF CommitSound
  <2>1. CASE job'[v] = job[v]
    <3>1. /\ i \in Intents /\ stripe[i] = "open" /\ \A r \in Receipts : ~RowExists(r, i)
          /\ \A u \in Workers : job[u].stage = "commit" /\ job[u].intent = i => u = v
      BY <2>1, <1>2 DEF CommitSound
    <3>2. stripe'[i] = "open" /\ \A r \in Receipts : ~(amount'[r, i] > 0)
      <4> HIDE DEF i
      <4> QED  BY <3>1 DEF StripeGoesOn, SameRows
    <3>3. ASSUME NEW u \in Workers, job'[u].stage = "commit", job'[u].intent = i  PROVE  u = v
      BY <3>1, <3>3 DEF NewJobSound
    <3> QED  BY <3>1, <3>2, <3>3
  <2>2. CASE job'[v] # job[v]
    <3>1. v = w /\ i \in Intents /\ stripe[i] = "none" /\ stripe'[i] = "open"
      BY <2>2 DEF NewJobSound
    <3>2. \A r \in Receipts : ~(amount'[r, i] > 0)
      <4> HIDE DEF i
      <4> QED  BY <3>1 DEF IntentsSound, RowsHaveIntents, SameRows
    <3>3. ASSUME NEW u \in Workers, u # v, job'[u].stage = "commit"  PROVE  job'[u].intent # i
      <4>1. job'[u] = job[u]
        BY <3>1, <3>3
      <4>2. stripe[job'[u].intent] = "open"
        BY <4>1, <3>3 DEF IntentsSound, CommitSound
      <4> QED  BY <4>2, <3>1
    <3> QED  BY <3>1, <3>2, <3>3
  <2> QED  BY <2>1, <2>2
<1>4. AmendSound(v)'
  <2> DEFINE i == job'[v].intent
  <2> SUFFICES ASSUME job'[v].stage = "amend", NEW r \in Receipts, job'[v].due[r] > 0
               PROVE  i \in Intents /\ amount'[r, i] > 0
    BY DEF AmendSound
  <2>1. i \in Intents /\ amount[r, i] > 0
    BY <1>2 DEF AmendSound, NewJobSound
  <2> HIDE DEF i
  <2> QED  BY <2>1 DEF SameRows
<1>5. LoadSound(v)'
  BY <1>2 DEF LoadSound, NewJobSound
<1> QED  BY <1>3, <1>4, <1>5

(* A step after which CardPayments looks the same.                         *)
LEMMA QuietPromise ==
  ASSUME SameRows, \A i \in Intents : stripe'[i] = "succeeded" <=> stripe[i] = "succeeded",
         charged' = charged, hasPaid' = hasPaid
  PROVE  UNCHANGED Promise!vars
<1>1. {row \in Rows : amount'[row] > 0} = {row \in Rows : amount[row] > 0}
  <2>1. ASSUME NEW row \in Rows  PROVE  amount'[row] > 0 <=> amount[row] > 0
    <3>1. PICK r \in Receipts, i \in Intents : row = <<r, i>>
      BY DEF Rows
    <3> QED  BY <3>1, Zenon DEF SameRows
  <2> QED  BY <2>1
<1> QED  BY <1>1 DEF Promise!vars

(* A step that moves one handler to a job which needs nothing of intents   *)
(* or rows, and touches neither.                                           *)
LEMMA QuietJob ==
  ASSUME TypeOK, IntentsSound, NEW w \in Workers, NEW k,
         job' = [job EXCEPT ![w] = k], k.stage \notin {"commit", "amend", "row", "model"},
         UNCHANGED <<amount, stripe, charged, hasPaid>>
  PROVE  IntentsSound' /\ UNCHANGED Promise!vars
<1>1. SameRows /\ StripeGoesOn
  BY DEF SameRows, StripeGoesOn
<1>2. job'[w] = k /\ \A v \in Workers : v # w => job'[v] = job[v]
  BY DEF TypeOK
<1>3. IntentsSound'
  BY <1>1, <1>2, IntentsStep DEF NewJobSound
<1> QED  BY <1>1, <1>3, QuietPromise

LEMMA InitPromise == Init => IntentsSound /\ Promise!Init
<1> SUFFICES ASSUME Init  PROVE  IntentsSound /\ Promise!Init
  OBVIOUS
<1>1. \A row \in Rows : ~(amount[row] > 0)
  BY DEF Init
<1>2. RowsHaveIntents
  <2>1. ASSUME NEW r \in Receipts, NEW i \in Intents  PROVE  ~(amount[<<r, i>>] > 0)
    BY <1>1 DEF Rows
  <2> QED  BY <2>1, Zenon DEF RowsHaveIntents, RowExists
<1>3. \A w \in Workers : CommitSound(w) /\ AmendSound(w) /\ LoadSound(w)
  BY DEF Init, Idle, CommitSound, AmendSound, LoadSound
<1>4. Promise!Init
  BY <1>1 DEF Init, Promise!Init
<1> QED  BY <1>2, <1>3, <1>4 DEF IntentsSound

(* A customer pays an intent that has rows.                                *)
LEMMA StripeSucceedsPromise ==
  ASSUME IInv, IntentsSound, NEW i \in Intents, StripeSucceeds(i)
  PROVE  IntentsSound' /\ Promise!Take(i)
<1>1. PICK r \in Receipts : RowExists(r, i)
  BY DEF StripeSucceeds
<1>2. /\ stripe[i] = "open" /\ stripe' = [stripe EXCEPT ![i] = "succeeded"]
      /\ UNCHANGED <<amount, charged, hasPaid, job>>
  BY DEF StripeSucceeds, db
<1>3. SameRows /\ StripeGoesOn
  BY <1>1, <1>2 DEF SameRows, StripeGoesOn, IInv, TypeOK
<1>4. IntentsSound'
  BY <1>2, <1>3, IntentsStep
<1>5. <<r, i>> \in {row \in Rows : amount[row] > 0}
  <2>1. <<r, i>> \in Rows
    BY DEF Rows
  <2>2. amount[<<r, i>>] > 0
    BY <1>1, Zenon DEF RowExists
  <2> QED  BY <2>1, <2>2
<1>6. {n \in Intents : stripe'[n] = "succeeded"}
        = {n \in Intents : stripe[n] = "succeeded"} \cup {i}
  BY <1>2 DEF IInv, TypeOK
<1> QED  BY <1>2, <1>4, <1>5, <1>6 DEF Promise!Take

LEMMA EnvironmentPromise ==
  ASSUME IInv, IntentsSound, Environment
  PROVE  IntentsSound' /\ (Promise!Next \/ UNCHANGED Promise!vars)
<1>1. ASSUME NEW i \in Intents, StripeSucceeds(i)
      PROVE  IntentsSound' /\ (Promise!Next \/ UNCHANGED Promise!vars)
  BY <1>1, StripeSucceedsPromise DEF Promise!Next
<1>2. ASSUME UNCHANGED <<amount, stripe, charged, hasPaid, job>>
      PROVE  IntentsSound' /\ (Promise!Next \/ UNCHANGED Promise!vars)
  <2>1. SameRows /\ StripeGoesOn
    BY <1>2 DEF SameRows, StripeGoesOn
  <2> QED  BY <1>2, <2>1, IntentsStep, QuietPromise
<1> QED  BY <1>1, <1>2 DEF Environment, AddItem, InvalidatePending, gateway

(* Handlers that start to mark rows, or read what they are to cancel.      *)
LEMMA StartPromise ==
  ASSUME IInv, IntentsSound, NEW w \in Workers, Start(w)
  PROVE  IntentsSound' /\ UNCHANGED Promise!vars
<1> DEFINE Goal == IntentsSound' /\ UNCHANGED Promise!vars
<1> USE DEF IInv
<1>1. ASSUME NEW todo, StartMarking(w, [Idle EXCEPT !.todo = todo])  PROVE  Goal
  <2> DEFINE k == [[Idle EXCEPT !.todo = todo] EXCEPT !.stage = "mark"]
  <2>1. k.stage = "mark"
    BY DEF Idle
  <2>2. job' = [job EXCEPT ![w] = k] /\ UNCHANGED <<amount, stripe, charged, hasPaid>>
    BY <1>1 DEF StartMarking, db, gateway
  <2> HIDE DEF k
  <2> QED  BY <2>1, <2>2, QuietJob
<1>2. ASSUME NEW why \in {"prereg", "confirm"}, NEW cart \in SUBSET Attendees, NEW rs,
             LET j == [Idle EXCEPT !.why = why, !.cart = cart, !.todo = FoundPaid(rs)] IN
               job' = [job EXCEPT ![w] = IF FoundPaid(rs) = {} THEN Resume(j)
                                         ELSE [j EXCEPT !.stage = "mark"]],
             UNCHANGED <<db, gateway, crashes>>
      PROVE  Goal
  <2> DEFINE found == FoundPaid(rs)
             j == [Idle EXCEPT !.why = why, !.cart = cart, !.todo = found]
             k == IF found = {} THEN Resume(j) ELSE [j EXCEPT !.stage = "mark"]
  <2>1. j \in Jobs
    <3>1. found \in SUBSET Intents
      BY FoundPaidSucceeded
    <3> HIDE DEF found
    <3> QED  BY <3>1, IdleJob DEF Jobs, Reasons
  <2>2. [j EXCEPT !.stage = "mark"].stage = "mark"
    <3> HIDE DEF j
    <3> QED  BY <2>1 DEF Jobs
  <2>3. Resume(j).stage \in {"idle", "begin", "view"}
    <3> HIDE DEF j
    <3> QED  BY <2>1, ResumeJob
  <2>4. job' = [job EXCEPT ![w] = k]
    BY <1>2
  <2> HIDE DEF found, j
  <2>5. k.stage \notin {"commit", "amend", "row", "model"}
    BY <2>2, <2>3
  <2> HIDE DEF k
  <2> QED  BY <1>2, <2>4, <2>5, QuietJob DEF db, gateway
<1>3. ASSUME NEW i \in Intents, StripeWebhook(w, i)  PROVE  Goal
  BY <1>1, <1>3 DEF StripeWebhook
<1>4. ASSUME CheckMissedStripePayments(w)  PROVE  Goal
  BY <1>1, <1>4 DEF CheckMissedStripePayments
<1>5. ASSUME NEW cart \in Carts, PreregPayment(w, cart)  PROVE  Goal
  <2>1. cart \in SUBSET Attendees
    BY ConstantsAssumption DEF ConstantsAssumption
  <2> QED  BY <1>2, <1>5, <2>1 DEF PreregPayment
<1>6. ASSUME NEW a \in Attendees, Confirm(w, a)  PROVE  Goal
  BY <1>2, <1>6 DEF Confirm
<1>7. ASSUME NEW i \in Intents, CancelPayment(w, i)  PROVE  Goal
  <2> DEFINE k == [Idle EXCEPT !.stage = "cancel", !.drop = MatchingRows(i) \X {i}]
  <2>1. job' = [job EXCEPT ![w] = k] /\ k.stage = "cancel"
    BY <1>7 DEF CancelPayment, Idle
  <2> HIDE DEF k
  <2> QED  BY <1>7, <2>1, QuietJob DEF CancelPayment, db, gateway
<1>8. ASSUME NEW r \in Receipts, NEW i \in Intents, CancelReceiptTxn(w, r, i)  PROVE  Goal
  <2> DEFINE k == IF stripe[i] = "succeeded"
                  THEN [Idle EXCEPT !.stage = "mark", !.todo = {i}]
                  ELSE [Idle EXCEPT !.stage = "cancel", !.why = "admin", !.drop = {<<r, i>>}]
  <2>1. job' = [job EXCEPT ![w] = k] /\ k.stage \in {"mark", "cancel"}
    BY <1>8 DEF CancelReceiptTxn, Idle
  <2> HIDE DEF k
  <2> QED  BY <1>8, <2>1, QuietJob DEF CancelReceiptTxn, db, gateway
<1>9. ASSUME NEW r \in Receipts, ProcessAttendeePayment(w, r)  PROVE  Goal
  <2>1. PICK i \in NextIntents :
          /\ stripe' = [stripe EXCEPT ![i] = "open"]
          /\ job' = [job EXCEPT ![w] =
               [Idle EXCEPT !.stage = "commit", !.intent = i,
                            !.due[r] = Owed(r), !.attach = OpenItems(r)]]
    BY <1>9 DEF ProcessAttendeePayment
  <2> DEFINE k == [Idle EXCEPT !.stage = "commit", !.intent = i,
                               !.due[r] = Owed(r), !.attach = OpenItems(r)]
  <2>2. i \in Intents /\ stripe[i] = "none"
    BY DEF NextIntents, Unused
  <2>3. job' = [job EXCEPT ![w] = k] /\ k.stage = "commit" /\ k.intent = i
    BY <2>1 DEF Idle
  <2> HIDE DEF k
  <2>4. job'[w] = k /\ \A v \in Workers : v # w => job'[v] = job[v]
    BY <2>3 DEF TypeOK
  <2>5. UNCHANGED <<amount, charged, hasPaid>>
    BY <1>9 DEF ProcessAttendeePayment, db
  <2>6. SameRows /\ StripeGoesOn /\ stripe'[i] = "open"
        /\ \A n \in Intents : stripe'[n] = "succeeded" <=> stripe[n] = "succeeded"
    BY <2>1, <2>2, <2>5 DEF SameRows, StripeGoesOn, TypeOK
  <2>7. NewJobSound(k)
    BY <2>2, <2>3, <2>6 DEF NewJobSound
  <2> QED  BY <2>4, <2>5, <2>6, <2>7, IntentsStep, QuietPromise
<1> QED  BY <1>3, <1>4, <1>5, <1>6, <1>7, <1>8, <1>9 DEF Start

-----------------------------------------------------------------------------
(* The rows of a handler's step, told one by one.                          *)
LEMMA RowByRow ==
  ASSUME \A row \in Rows : amount'[row] > 0 <=> amount[row] > 0
  PROVE  SameRows
<1>1. ASSUME NEW r \in Receipts, NEW i \in Intents
      PROVE  amount'[<<r, i>>] > 0 <=> amount[<<r, i>>] > 0
  BY DEF Rows
<1> QED  BY <1>1, Zenon DEF SameRows

(* Amounts are brought up to date on rows that exist.                      *)
LEMMA AmendedRows ==
  ASSUME TypeOK, NEW rs \in SUBSET Receipts, CanReprice(rs), amount' = Amended(rs)
  PROVE  SameRows
<1> SUFFICES ASSUME NEW row \in Rows, amount'[row] > 0, ~(amount[row] > 0)  PROVE  FALSE
  BY RepricedAmounts, RowByRow
<1> DEFINE r == row[1]
           S == PendingIntents(r)
<1>1. r \in OutOfDate(rs) /\ row[2] = Newest(S)
  BY DEF Amended
<1>2. S \in SUBSET Intents /\ S # {}
  BY <1>1 DEF OutOfDate, PendingIntents
<1>3. Newest(S) \in S
  <2> HIDE DEF S
  <2> QED  BY <1>2, NewestIn
<1>4. RowExists(r, row[2])
  BY <1>1, <1>3 DEF PendingIntents
<1>5. row = <<r, row[2]>>
  BY DEF Rows
<1>6. amount[<<r, row[2]>>] > 0
  <2> HIDE DEF r
  <2> QED  BY <1>4, Zenon DEF RowExists
<1> QED  BY <1>5, <1>6

(* A handler that marks goes on to a row, or has nothing left.             *)
LEMMA MarkQueryPromise ==
  ASSUME IInv, IntentsSound, NEW w \in Workers, MarkQuery(w)
  PROVE  IntentsSound' /\ UNCHANGED Promise!vars
<1> DEFINE rest(i) == [job[w] EXCEPT !.todo = @ \ {i}]
<1>1. UNCHANGED <<amount, stripe, charged, hasPaid>>
  BY DEF MarkQuery, db, gateway
<1>2. job[w] \in Jobs /\ job[w].stage = "mark"
  BY KnownJob DEF MarkQuery
<1>3. \A i : rest(i) \in Jobs /\ rest(i).stage = "mark"
  BY <1>2 DEF Jobs
<1>4. PICK i \in job[w].todo :
        \/ /\ MatchingRows(i) = {}
           /\ job' = [job EXCEPT ![w] = IF rest(i).todo = {} THEN Resume(rest(i)) ELSE rest(i)]
        \/ \E r \in MatchingRows(i) :
             job' = [job EXCEPT ![w] = Load(rest(i), i, MatchingRows(i), r)]
  BY DEF MarkQuery
<1> HIDE DEF rest
<1>5. CASE job' = [job EXCEPT ![w] = IF rest(i).todo = {} THEN Resume(rest(i)) ELSE rest(i)]
  <2> DEFINE k == IF rest(i).todo = {} THEN Resume(rest(i)) ELSE rest(i)
  <2>1. k.stage \in {"idle", "begin", "view", "mark"}
    BY <1>3, ResumeJob
  <2>2. job' = [job EXCEPT ![w] = k]
    BY <1>5
  <2> HIDE DEF k
  <2> QED  BY <1>1, <2>1, <2>2, QuietJob DEF IInv
<1>6. CASE \E r \in MatchingRows(i) :
             job' = [job EXCEPT ![w] = Load(rest(i), i, MatchingRows(i), r)]
  <2>1. PICK r \in MatchingRows(i) :
          job' = [job EXCEPT ![w] = Load(rest(i), i, MatchingRows(i), r)]
    BY <1>6
  <2> DEFINE k == Load(rest(i), i, MatchingRows(i), r)
  <2>2. k.stage = "row" /\ k.loaded = {r} /\ r \in Receipts
    BY <1>3 DEF Load, Jobs, MatchingRows
  <2>3. job' = [job EXCEPT ![w] = k]
    BY <2>1
  <2> HIDE DEF k
  <2>4. job'[w] = k /\ \A v \in Workers : v # w => job'[v] = job[v]
    BY <2>3 DEF IInv, TypeOK
  <2>5. NewJobSound(k) /\ SameRows /\ StripeGoesOn
    BY <1>1, <2>2 DEF NewJobSound, SameRows, StripeGoesOn
  <2> QED  BY <1>1, <2>4, <2>5, IntentsStep, QuietPromise
<1> QED  BY <1>4, <1>5, <1>6

(* The row that a handler marks is a row of an intent that was taken.      *)
LEMMA MarkTxnPromise ==
  ASSUME IInv, IntentsSound, NEW w \in Workers, MarkTxn(w)
  PROVE  /\ IntentsSound'
         /\ \E r \in Receipts, i \in Intents : Promise!Record(r, i)
<1> DEFINE j == job[w]
           i == j.intent
<1>1. /\ j \in Jobs /\ JobSound(j) /\ j.stage = "row"
      /\ i \in Intents /\ stripe[i] = "succeeded"
  BY KnownJob DEF MarkTxn, JobSound
<1>2. PICK r \in Receipts : j.loaded = {r}
  BY <1>1 DEF IntentsSound, LoadSound
<1>3. /\ charged' = charged \cup {<<r, i>>}
      /\ job' = [job EXCEPT ![w] = [j EXCEPT !.stage = "model"]]
      /\ UNCHANGED <<amount, hasPaid, stripe>>
  BY <1>2 DEF MarkTxn, gateway
<1>4. RowExists(r, i)
  BY <1>1, <1>2 DEF JobSound
<1>5. /\ [j EXCEPT !.stage = "model"].stage = "model"
      /\ [j EXCEPT !.stage = "model"].loaded = {r}
  <2> HIDE DEF j
  <2> QED  BY <1>1, <1>2 DEF Jobs
<1>6. job'[w] = [j EXCEPT !.stage = "model"] /\ \A v \in Workers : v # w => job'[v] = job[v]
  BY <1>3 DEF IInv, TypeOK
<1>7. NewJobSound(job'[w]) /\ SameRows /\ StripeGoesOn
  BY <1>3, <1>5, <1>6 DEF NewJobSound, SameRows, StripeGoesOn
<1>8. IntentsSound'
  BY <1>6, <1>7, IntentsStep
<1> HIDE DEF i, j
<1>9. <<r, i>> \in {row \in Rows : amount[row] > 0}
  <2>1. <<r, i>> \in Rows
    BY <1>1 DEF Rows
  <2>2. amount[<<r, i>>] > 0
    BY <1>4, Zenon DEF RowExists
  <2> QED  BY <2>1, <2>2
<1>10. Promise!Record(r, i)
  BY <1>1, <1>3, <1>9 DEF Promise!Record
<1> QED  BY <1>1, <1>8, <1>10

(* The attendee who is admitted is the owner of the row just recorded.     *)
LEMMA MarkModelPromise ==
  ASSUME IInv, IntentsSound, NEW w \in Workers, MarkModel(w)
  PROVE  /\ IntentsSound'
         /\ (\E a \in Attendees : Promise!Admit(a)) \/ UNCHANGED Promise!vars
<1> DEFINE j == job[w]
<1>1. /\ j \in Jobs /\ JobSound(j) /\ j.stage = "model" /\ j.intent \in Intents
      /\ j.rows \subseteq Receipts
  BY KnownJob DEF MarkModel, JobSound
<1>2. PICK r \in Receipts : j.loaded = {r}
  BY <1>1 DEF IntentsSound, LoadSound
<1>3. hasPaid' = hasPaid \cup Admitted(j) /\ UNCHANGED <<amount, charged, stripe>>
  BY DEF MarkModel, gateway
<1>4. SameRows /\ StripeGoesOn
  BY <1>3 DEF SameRows, StripeGoesOn
<1>5. PICK k \in Jobs : job' = [job EXCEPT ![w] = k] /\ NewJobSound(k)
  <2>1. CASE j.rows # {}
    <3>1. PICK q \in j.rows : job' = [job EXCEPT ![w] = Load(j, j.intent, j.rows, q)]
      BY <2>1 DEF MarkModel
    <3> DEFINE k == Load(j, j.intent, j.rows, q)
    <3> HIDE DEF j
    <3>2. k \in Jobs /\ k.stage = "row"
      <4>1. j \in Jobs /\ j.intent \in Intents /\ j.rows \in SUBSET Receipts /\ q \in j.rows
        BY <1>1, <3>1 DEF j
      <4> QED  BY <4>1, LoadJob
    <3>3. k.loaded = {q}
      BY <1>1 DEF Load, Jobs
    <3>4. job' = [job EXCEPT ![w] = k]
      BY <3>1 DEF j
    <3> HIDE DEF k
    <3> QED  BY <1>1, <3>2, <3>3, <3>4 DEF NewJobSound
  <2>2. CASE j.rows = {} /\ j.todo = {}
    <3>1. job' = [job EXCEPT ![w] = Resume(j)]
      BY <2>2 DEF MarkModel
    <3> HIDE DEF j
    <3> QED  BY <3>1, <1>1, ResumeJob DEF NewJobSound, j
  <2>3. CASE j.rows = {} /\ j.todo # {}
    <3> DEFINE k == [j EXCEPT !.stage = "mark", !.loaded = {}, !.seen = FALSE]
    <3>1. job' = [job EXCEPT ![w] = k]
      BY <2>3 DEF MarkModel
    <3> HIDE DEF j
    <3>2. k \in Jobs /\ k.stage = "mark"
      BY <1>1 DEF Jobs, Stages
    <3> HIDE DEF k
    <3> QED  BY <3>1, <3>2 DEF NewJobSound
  <2> QED  BY <2>1, <2>2, <2>3
<1>6. IntentsSound'
  <2>1. job'[w] = k /\ \A v \in Workers : v # w => job'[v] = job[v]
    BY <1>5 DEF IInv, TypeOK
  <2> QED  BY <1>4, <1>5, <2>1, IntentsStep
<1>7. <<r, j.intent>> \in charged /\ Owner[r] \in Attendees
  BY <1>1, <1>2, ConstantsAssumption DEF JobSound, ConstantsAssumption
<1>8. CASE Admitted(j) = {}
  BY <1>3, <1>4, <1>6, <1>8, QuietPromise
<1>9. CASE Admitted(j) # {}
  <2>1. Admitted(j) = {Owner[r]}
    BY <1>2, <1>9 DEF Admitted
  <2>2. \E row \in charged : Owner[row[1]] = Owner[r]
    <3>1. <<r, j.intent>>[1] = r
      OBVIOUS
    <3> QED  BY <1>7, <3>1
  <2>3. Promise!Admit(Owner[r])
    BY <1>3, <2>1, <2>2 DEF Promise!Admit
  <2> QED  BY <1>6, <1>7, <2>3
<1> QED  BY <1>8, <1>9

(* All the rows of an intent are made at once, while nobody can pay it.    *)
LEMMA CommitPaymentPromise ==
  ASSUME IInv, IntentsSound, NEW w \in Workers, CommitPayment(w)
  PROVE  /\ IntentsSound'
         /\ \E i \in Intents : \E rs \in SUBSET Receipts : Promise!Ask(i, rs)
<1> DEFINE due == job[w].due
<1>0. job[w].intent \in Intents
  BY DEF CommitPayment, IntentsSound, CommitSound
<1> PICK i \in Intents : i = job[w].intent
  BY <1>0
<1> PICK rs \in SUBSET Receipts : rs = {r \in Receipts : due[r] > 0}
  OBVIOUS
<1>1. /\ amount' = [row \in Rows |-> RowAmount(job[w], row)]
      /\ job' = [job EXCEPT ![w] = Idle]
      /\ UNCHANGED <<charged, hasPaid, stripe>>
  BY DEF CommitPayment, gateway
<1>2. /\ i \in Intents /\ stripe[i] = "open" /\ \A r \in Receipts : ~RowExists(r, i)
      /\ \A v \in Workers : job[v].stage = "commit" /\ job[v].intent = i => v = w
  BY DEF CommitPayment, IntentsSound, CommitSound
<1>3. \A row \in Rows : amount'[row] > 0 <=> amount[row] > 0 \/ (row[1] \in rs /\ row[2] = i)
  <2> SUFFICES ASSUME NEW row \in Rows
               PROVE  amount'[row] > 0 <=> amount[row] > 0 \/ (row[1] \in rs /\ row[2] = i)
    OBVIOUS
  <2>1. row[1] \in Receipts
    BY DEF Rows
  <2>2. amount'[row] = IF row[2] = i /\ due[row[1]] > 0 THEN due[row[1]] ELSE amount[row]
    BY <1>1 DEF RowAmount
  <2>3. row[1] \in rs <=> due[row[1]] > 0
    BY <2>1
  <2> HIDE DEF due
  <2>4. CASE row[1] \in rs /\ row[2] = i
    BY <2>2, <2>3, <2>4
  <2>5. CASE ~(row[1] \in rs /\ row[2] = i)
    BY <2>2, <2>3, <2>5
  <2> QED  BY <2>4, <2>5
<1> HIDE DEF due
<1>4. ASSUME NEW r \in Receipts, NEW n \in Intents
      PROVE  RowExists(r, n)' <=> RowExists(r, n) \/ (r \in rs /\ n = i)
  <2>1. <<r, n>> \in Rows /\ <<r, n>>[1] = r /\ <<r, n>>[2] = n
    BY DEF Rows
  <2>2. amount'[<<r, n>>] > 0 <=> amount[<<r, n>>] > 0 \/ (r \in rs /\ n = i)
    BY <1>3, <2>1
  <2> QED  BY <2>2, Zenon DEF RowExists
<1>5. job'[w].stage = "idle" /\ \A v \in Workers : v # w => job'[v] = job[v]
  BY <1>1, IdleJob DEF IInv, TypeOK
<1>6. IntentsSound'
  <2>1. RowsHaveIntents'
    BY <1>1, <1>2, <1>4 DEF IntentsSound, RowsHaveIntents
  <2> SUFFICES ASSUME NEW v \in Workers, v # w
               PROVE  CommitSound(v)' /\ AmendSound(v)' /\ LoadSound(v)'
    BY <1>5, <2>1 DEF IntentsSound, CommitSound, AmendSound, LoadSound
  <2>2. CommitSound(v) /\ AmendSound(v) /\ LoadSound(v) /\ job'[v] = job[v]
    BY <1>5 DEF IntentsSound
  <2>3. CommitSound(v)'
    <3> SUFFICES ASSUME job[v].stage = "commit"  PROVE  CommitSound(v)'
      BY <2>2 DEF CommitSound
    <3>1. /\ job[v].intent \in Intents /\ job[v].intent # i /\ stripe[job[v].intent] = "open"
          /\ \A r \in Receipts : ~RowExists(r, job[v].intent)
          /\ \A u \in Workers : job[u].stage = "commit" /\ job[u].intent = job[v].intent => u = v
      BY <1>2, <2>2 DEF CommitSound
    <3>2. \A u \in Workers : job'[u].stage = "commit" /\ job'[u].intent = job[v].intent => u = v
      BY <3>1, <1>5
    <3>3. PICK n \in Intents : n = job[v].intent
      BY <3>1
    <3>4. \A r \in Receipts : ~RowExists(r, n)'
      BY <1>4, <3>1, <3>3
    <3>5. /\ job'[v].intent = n /\ stripe'[n] = "open"
          /\ \A u \in Workers : job'[u].stage = "commit" /\ job'[u].intent = n => u = v
      BY <1>1, <2>2, <3>1, <3>2, <3>3
    <3> QED  BY <3>4, <3>5, Zenon DEF CommitSound, RowExists
  <2>4. AmendSound(v)'
    <3> SUFFICES ASSUME job'[v].stage = "amend", NEW r \in Receipts, job'[v].due[r] > 0
                 PROVE  job'[v].intent \in Intents /\ RowExists(r, job[v].intent)'
      BY <2>2, Zenon DEF AmendSound, RowExists
    <3>1. PICK n \in Intents : n = job[v].intent /\ RowExists(r, n)
      BY <2>2 DEF AmendSound
    <3>2. RowExists(r, n)'
      BY <3>1, <1>4
    <3> QED  BY <2>2, <3>1, <3>2, Zenon DEF RowExists
  <2>5. LoadSound(v)'
    BY <2>2 DEF LoadSound
  <2> QED  BY <2>3, <2>4, <2>5
<1>7. {row \in Rows : amount'[row] > 0} = {row \in Rows : amount[row] > 0} \cup (rs \X {i})
  <2>1. \A row \in Rows : row[1] \in rs /\ row[2] = i <=> row \in rs \X {i}
    BY DEF Rows
  <2>2. rs \X {i} \subseteq Rows
    BY DEF Rows
  <2> QED  BY <1>3, <2>1, <2>2
<1>8. \A r \in Receipts : <<r, i>> \notin {row \in Rows : amount[row] > 0}
  BY <1>2, Zenon DEF RowExists
<1>9. i \notin {n \in Intents : stripe[n] = "succeeded"}
  BY <1>2
<1>10. Promise!Ask(i, rs)
  BY <1>1, <1>7, <1>8, <1>9 DEF Promise!Ask
<1> QED  BY <1>6, <1>10

(* An existing row gets another amount.                                    *)
LEMMA ConfirmAmendPromise ==
  ASSUME IInv, IntentsSound, NEW w \in Workers, ConfirmAmend(w)
  PROVE  IntentsSound' /\ UNCHANGED Promise!vars
<1> DEFINE j == job[w]
<1>1. /\ amount' = [row \in Rows |-> RowAmount(j, row)]
      /\ job' = [job EXCEPT ![w] = Idle] /\ UNCHANGED <<charged, hasPaid, stripe>>
      /\ j.stage = "amend"
  BY DEF ConfirmAmend, gateway
<1>2. j \in Jobs
  BY KnownJob
<1>3. SameRows
  <2> SUFFICES ASSUME NEW row \in Rows, amount'[row] > 0, ~(amount[row] > 0)  PROVE  FALSE
    BY <1>1, <1>2, WrittenAmounts, RowByRow DEF IInv
  <2>1. row[2] = j.intent /\ j.due[row[1]] > 0 /\ row[1] \in Receipts
    BY <1>1 DEF RowAmount, Rows
  <2>2. RowExists(row[1], row[2])
    BY <1>1, <2>1 DEF IntentsSound, AmendSound
  <2>3. amount[<<row[1], row[2]>>] > 0
    BY <2>2, Zenon DEF RowExists
  <2>4. row = <<row[1], row[2]>>
    BY DEF Rows
  <2> QED  BY <2>3, <2>4
<1>4. StripeGoesOn
  BY <1>1 DEF StripeGoesOn
<1>5. job'[w].stage = "idle" /\ \A v \in Workers : v # w => job'[v] = job[v]
  BY <1>1, IdleJob DEF IInv, TypeOK
<1>6. NewJobSound(job'[w])
  BY <1>5 DEF NewJobSound
<1> QED  BY <1>1, <1>3, <1>4, <1>5, <1>6, IntentsStep, QuietPromise

(* The row whose amount Stripe was asked to change.                        *)
LEMMA ConfirmViewPromise ==
  ASSUME IInv, IntentsSound, NEW w \in Workers, ConfirmView(w)
  PROVE  IntentsSound' /\ UNCHANGED Promise!vars
<1> DEFINE rs == UNION {ActiveReceipts(a) : a \in job[w].cart}
<1>1. UNCHANGED <<amount, stripe, charged, hasPaid>>
  BY DEF ConfirmView
<1>2. SameRows /\ StripeGoesOn
  BY <1>1 DEF SameRows, StripeGoesOn
<1>3. PICK k : job' = [job EXCEPT ![w] = k] /\ NewJobSound(k)
  <2>1. CASE OutOfDate(rs) = {}
    BY <2>1, IdleJob DEF ConfirmView, NewJobSound
  <2>2. CASE OutOfDate(rs) # {}
    <3>1. PICK r \in OutOfDate(rs) :
            job' = [job EXCEPT ![w] =
              [Idle EXCEPT !.stage = "amend", !.intent = Newest(PendingIntents(r)),
                           !.due[r] = Owed(r)]]
      BY <2>2 DEF ConfirmView
    <3> DEFINE n == Newest(PendingIntents(r))
               k == [Idle EXCEPT !.stage = "amend", !.intent = n, !.due[r] = Owed(r)]
    <3>2. PendingIntents(r) \in SUBSET Intents /\ PendingIntents(r) # {}
      BY DEF OutOfDate, PendingIntents
    <3>3. n \in PendingIntents(r)
      BY <3>2, NewestIn
    <3>4. n \in Intents /\ RowExists(r, n)
      BY <3>3 DEF PendingIntents
    <3> HIDE DEF n
    <3>5. k.stage = "amend" /\ k.intent = n /\ \A q \in Receipts : k.due[q] > 0 => q = r
      <4>1. k.stage = "amend" /\ k.intent = n
        BY DEF Idle
      <4>2. k.due = [Idle.due EXCEPT ![r] = Owed(r)]
        BY DEF Idle
      <4>3. Idle.due = [q \in Receipts |-> 0]
        BY DEF Idle
      <4> HIDE DEF k, Idle
      <4> QED  BY <4>1, <4>2, <4>3
    <3>6. job' = [job EXCEPT ![w] = k]
      BY <3>1 DEF n
    <3> HIDE DEF k
    <3> QED  BY <3>4, <3>5, <3>6 DEF NewJobSound
  <2> QED  BY <2>1, <2>2
<1>4. job'[w] = k /\ \A v \in Workers : v # w => job'[v] = job[v]
  BY <1>3 DEF IInv, TypeOK
<1> QED  BY <1>1, <1>2, <1>3, <1>4, IntentsStep, QuietPromise

LEMMA HandlerErrorPromise ==
  ASSUME IInv, IntentsSound, NEW w \in Workers, HandlerError(w)
  PROVE  IntentsSound' /\ UNCHANGED Promise!vars
<1> DEFINE rs == UNION {ActiveReceipts(a) : a \in job[w].cart}
<1>1. PICK done \in SUBSET rs : CanReprice(done) /\ amount' = Amended(done)
  BY DEF HandlerError
<1>2. done \in SUBSET Receipts
  BY <1>1, ActiveOfCart
<1>3. /\ job' = [job EXCEPT ![w] = Idle] /\ UNCHANGED <<stripe, charged, hasPaid>>
  BY DEF HandlerError
<1>4. SameRows
  BY <1>1, <1>2, AmendedRows DEF IInv
<1>5. StripeGoesOn
  BY <1>3 DEF StripeGoesOn
<1>6. job'[w].stage = "idle" /\ \A v \in Workers : v # w => job'[v] = job[v]
  BY <1>3, IdleJob DEF IInv, TypeOK
<1>7. NewJobSound(job'[w])
  BY <1>6 DEF NewJobSound
<1> QED  BY <1>3, <1>4, <1>5, <1>6, <1>7, IntentsStep, QuietPromise

(* A cart gets an intent that nobody else has.                             *)
LEMMA PreregIntentPromise ==
  ASSUME IInv, IntentsSound, NEW w \in Workers, PreregIntent(w)
  PROVE  IntentsSound' /\ UNCHANGED Promise!vars
<1> DEFINE kept == UNION {ActiveReceipts(a) : a \in job[w].cart}
<1>1. kept \in SUBSET Receipts /\ CanReprice(kept) /\ amount' = Amended(kept)
  BY ActiveOfCart DEF PreregIntent
<1>2. UNCHANGED <<charged, hasPaid>>
  BY DEF PreregIntent
<1> HIDE DEF kept
<1>3. SameRows
  BY <1>1, AmendedRows DEF IInv
<1> DEFINE use(new) == (kept \ Replaced(kept, new)) \cup new
           attach(new) == (UNION {OpenItems(r) : r \in use(new)}) \cup Fresh(new)
           next(i, new, early) ==
             [Idle EXCEPT !.stage = "commit", !.cart = job[w].cart, !.intent = i,
                          !.due = Due(use(new), new), !.attach = attach(new),
                          !.drop = Superseded(kept) \ early]
<1>4. PICK new, early :
        \/ \E i \in NextIntents :
             /\ stripe' = [stripe EXCEPT ![i] = "open"]
             /\ job' = [job EXCEPT ![w] = next(i, new, early)]
        \/ /\ job' = [job EXCEPT ![w] = Idle]
           /\ UNCHANGED stripe
  <2> USE DEF kept
  <2> DEFINE total(new) == SumFunctionOnSet(Due(use(new), new), use(new))
  <2>1. PICK new \in SUBSET Receipts :
          /\ Due(use(new), new) \in [Receipts -> 0 .. MaxCharge]
          /\ \E early \in SUBSET Superseded(kept) :
               /\ cancelled' = cancelled \cup Obsolete(kept) \cup early
               /\ \/ /\ Chargeable(total(new))
                     /\ \E i \in NextIntents :
                          /\ stripe' = [stripe EXCEPT ![i] = "open"]
                          /\ captured' = [Repriced(kept) EXCEPT ![i] = total(new)]
                          /\ job' = [job EXCEPT ![w] = next(i, new, early)]
                  \/ /\ captured' = Repriced(kept)
                     /\ job' = [job EXCEPT ![w] = Idle]
                     /\ UNCHANGED stripe
    BY DEF PreregIntent
  <2> QED  BY <2>1
<1>5. CASE job' = [job EXCEPT ![w] = Idle] /\ UNCHANGED stripe
  <2>1. job'[w].stage = "idle" /\ \A v \in Workers : v # w => job'[v] = job[v]
    BY <1>5, IdleJob DEF IInv, TypeOK
  <2>2. NewJobSound(job'[w]) /\ StripeGoesOn
    BY <1>5, <2>1 DEF NewJobSound, StripeGoesOn
  <2> QED  BY <1>2, <1>3, <1>5, <2>1, <2>2, IntentsStep, QuietPromise
<1>6. CASE \E i \in NextIntents :
             /\ stripe' = [stripe EXCEPT ![i] = "open"]
             /\ job' = [job EXCEPT ![w] = next(i, new, early)]
  <2>1. PICK i \in NextIntents :
          /\ stripe' = [stripe EXCEPT ![i] = "open"]
          /\ job' = [job EXCEPT ![w] = next(i, new, early)]
    BY <1>6
  <2> DEFINE k == next(i, new, early)
  <2>2. i \in Intents /\ stripe[i] = "none"
    BY DEF NextIntents, Unused
  <2>3. job' = [job EXCEPT ![w] = k] /\ k.stage = "commit" /\ k.intent = i
    BY <2>1 DEF Idle
  <2> HIDE DEF k
  <2>4. job'[w] = k /\ \A v \in Workers : v # w => job'[v] = job[v]
    BY <2>3 DEF IInv, TypeOK
  <2>5. StripeGoesOn /\ stripe'[i] = "open"
        /\ \A n \in Intents : stripe'[n] = "succeeded" <=> stripe[n] = "succeeded"
    BY <2>1, <2>2 DEF StripeGoesOn, IInv, TypeOK
  <2>6. NewJobSound(k)
    BY <2>2, <2>3, <2>5 DEF NewJobSound
  <2> QED  BY <1>2, <1>3, <2>4, <2>5, <2>6, IntentsStep, QuietPromise
<1> QED  BY <1>4, <1>5, <1>6

(* A handler that ends, by itself or because it is killed.                 *)
LEMMA EndPromise ==
  ASSUME IInv, IntentsSound, NEW w \in Workers, CancelCommit(w) \/ Crash(w)
  PROVE  IntentsSound' /\ UNCHANGED Promise!vars
<1>1. job' = [job EXCEPT ![w] = Idle] /\ UNCHANGED <<amount, stripe, charged, hasPaid>>
  BY DEF CancelCommit, Crash, db, gateway
<1>2. Idle.stage \notin {"commit", "amend", "row", "model"}
  BY DEF Idle
<1> QED  BY <1>1, <1>2, QuietJob DEF IInv

(* Every step keeps what handlers know of intents, and is a step of        *)
(* CardPayments or none.                                                   *)
LEMMA PromiseStep ==
  ASSUME IInv, IntentsSound, [Next]_vars
  PROVE  IntentsSound' /\ [Promise!Next]_(Promise!vars)
<1>1. CASE Environment
  BY <1>1, EnvironmentPromise
<1>2. ASSUME NEW w \in Workers, Start(w) \/ Crash(w)
      PROVE  IntentsSound' /\ UNCHANGED Promise!vars
  BY <1>2, StartPromise, EndPromise
<1>3. ASSUME NEW w \in Workers, Continue(w)
      PROVE  IntentsSound' /\ [Promise!Next]_(Promise!vars)
  <2>1. CASE MarkQuery(w)
    BY <2>1, MarkQueryPromise
  <2>2. CASE MarkTxn(w)
    BY <2>2, MarkTxnPromise DEF Promise!Next
  <2>3. CASE MarkModel(w)
    BY <2>3, MarkModelPromise DEF Promise!Next
  <2>4. CASE PreregIntent(w)
    BY <2>4, PreregIntentPromise
  <2>5. CASE CommitPayment(w)
    BY <2>5, CommitPaymentPromise DEF Promise!Next
  <2>6. CASE ConfirmView(w)
    BY <2>6, ConfirmViewPromise
  <2>7. CASE ConfirmAmend(w)
    BY <2>7, ConfirmAmendPromise
  <2>8. CASE HandlerError(w)
    BY <2>8, HandlerErrorPromise
  <2>9. CASE CancelCommit(w)
    BY <2>9, EndPromise
  <2> QED  BY <1>3, <2>1, <2>2, <2>3, <2>4, <2>5, <2>6, <2>7, <2>8, <2>9 DEF Continue
<1>4. CASE UNCHANGED vars
  <2>1. UNCHANGED <<amount, stripe, charged, hasPaid, job>>
    BY <1>4 DEF vars, db, gateway
  <2>2. SameRows /\ StripeGoesOn
    BY <2>1 DEF SameRows, StripeGoesOn
  <2> QED  BY <2>1, <2>2, IntentsStep, QuietPromise
<1> QED  BY <1>1, <1>2, <1>3, <1>4 DEF Next

(* Whatever handlers, retries and crashes there are: a row is asked for    *)
(* once and before its intent can be paid, recorded only once it was paid, *)
(* and only the owner of a recorded row is admitted.                       *)
THEOREM PaymentsImplementCardPayments == Spec => ImplementsCardPayments
<1>1. Init => IntentsSound /\ Promise!Init
  BY InitPromise
<1>2. IInv /\ IntentsSound /\ [Next]_vars => IntentsSound' /\ [Promise!Next]_(Promise!vars)
  BY PromiseStep
<1> QED  BY <1>1, <1>2, InductiveInvariant, PTL DEF Spec, ImplementsCardPayments, Promise!Spec
-----------------------------------------------------------------------------
(* One handler at a time.                                                  *)

(* What a handler knows of cancellations while no other runs: the rows it  *)
(* is to cancel have no charge, and it remembers whether the row it marks  *)
(* was cancelled.                                                          *)
JobCurrent(j) ==
  /\ j.stage \in {"cancel", "commit"} => j.drop \cap charged = {}
  /\ j.stage = "row" => \A r \in j.loaded : <<r, j.intent>> \in cancelled => j.seen

(* What CompletedNotCancelled needs of the one handler.                    *)
SerialInv == CompletedNotCancelled /\ \A w \in Workers : JobCurrent(job[w])

(* One handler goes on to a job that is current.                           *)
LEMMA SerialStep ==
  ASSUME SerialInv, \A v, w \in Workers : v = w, NEW w \in Workers, NEW k,
         job' = [job EXCEPT ![w] = k], TypeOK,
         charged' \cap cancelled' = {}, JobCurrent(k)'
  PROVE  SerialInv'
<1>1. job'[w] = k
  BY DEF TypeOK
<1>2. \A v \in Workers : JobCurrent(job[v])'
  BY <1>1
<1> QED  BY <1>2 DEF SerialInv, CompletedNotCancelled

(* Pending rows have no charge.                                            *)
LEMMA PendingUncharged ==
  ASSUME NEW rs
  PROVE  Obsolete(rs) \cap charged = {} /\ Superseded(rs) \cap charged = {}
<1>1. \A r, i : i \in PendingIntents(r) => <<r, i>> \notin charged
  BY DEF PendingIntents
<1>2. Obsolete(rs) \cap charged = {}
  BY <1>1 DEF Obsolete
<1>3. ASSUME NEW r, PendingIntents(r) # {}  PROVE <<r, Newest(PendingIntents(r))>> \notin charged
  <2>1. PendingIntents(r) \in SUBSET Intents
    BY DEF PendingIntents
  <2>2. Newest(PendingIntents(r)) \in PendingIntents(r)
    BY <1>3, <2>1, NewestIn
  <2> QED  BY <1>1, <2>2
<1>4. Superseded(rs) \cap charged = {}
  BY <1>3 DEF Superseded
<1> QED  BY <1>2, <1>4

(* A handler that starts, by itself or not, is current.                    *)
LEMMA SerialStart ==
  ASSUME IInv, SerialInv, \A v, w \in Workers : v = w, NEW w \in Workers, Start(w)
  PROVE  SerialInv'
<1> DEFINE Ready(k) == /\ job' = [job EXCEPT ![w] = k]
                       /\ UNCHANGED <<charged, cancelled>>
                       /\ \/ k.stage \notin {"cancel", "commit", "row"}
                          \/ k.stage \in {"cancel", "commit"} /\ k.drop \cap charged = {}
<1> USE DEF IInv
<1>0. ASSUME NEW k, Ready(k)  PROVE SerialInv'
  <2>1. JobCurrent(k)'
    BY <1>0 DEF JobCurrent
  <2>2. charged' \cap cancelled' = {}
    BY <1>0 DEF SerialInv, CompletedNotCancelled
  <2> QED  BY <1>0, <2>1, <2>2, SerialStep
<1>1. ASSUME NEW todo, StartMarking(w, [Idle EXCEPT !.todo = todo])  PROVE  SerialInv'
  <2> DEFINE k == [[Idle EXCEPT !.todo = todo] EXCEPT !.stage = "mark"]
  <2>1. k.stage = "mark"
    BY DEF Idle
  <2>2. job' = [job EXCEPT ![w] = k] /\ UNCHANGED <<charged, cancelled>>
    BY <1>1 DEF StartMarking, db
  <2> HIDE DEF k
  <2> QED  BY <2>1, <2>2, <1>0
<1>2. ASSUME NEW why \in {"prereg", "confirm"}, NEW cart \in SUBSET Attendees, NEW rs,
             LET j == [Idle EXCEPT !.why = why, !.cart = cart, !.todo = FoundPaid(rs)] IN
               job' = [job EXCEPT ![w] = IF FoundPaid(rs) = {} THEN Resume(j)
                                         ELSE [j EXCEPT !.stage = "mark"]],
             UNCHANGED <<db, gateway, crashes>>
      PROVE  SerialInv'
  <2> DEFINE found == FoundPaid(rs)
             j == [Idle EXCEPT !.why = why, !.cart = cart, !.todo = found]
             k == IF found = {} THEN Resume(j) ELSE [j EXCEPT !.stage = "mark"]
  <2>1. j \in Jobs
    <3>1. found \in SUBSET Intents
      BY FoundPaidSucceeded
    <3> HIDE DEF found
    <3> QED  BY <3>1, IdleJob DEF Jobs, Reasons
  <2>2. [j EXCEPT !.stage = "mark"].stage = "mark"
    <3> HIDE DEF j
    <3> QED  BY <2>1 DEF Jobs
  <2>3. Resume(j).stage \in {"idle", "begin", "view"}
    <3> HIDE DEF j
    <3> QED  BY <2>1, ResumeJob
  <2>4. job' = [job EXCEPT ![w] = k]
    BY <1>2
  <2> HIDE DEF found, j
  <2>5. k.stage \notin {"cancel", "commit", "row"}
    BY <2>2, <2>3
  <2> HIDE DEF k
  <2> QED  BY <1>2, <2>4, <2>5, <1>0 DEF db
<1>3. ASSUME NEW i \in Intents, StripeWebhook(w, i)  PROVE  SerialInv'
  BY <1>1, <1>3 DEF StripeWebhook
<1>4. ASSUME CheckMissedStripePayments(w)  PROVE  SerialInv'
  BY <1>1, <1>4 DEF CheckMissedStripePayments
<1>5. ASSUME NEW cart \in Carts, PreregPayment(w, cart)  PROVE  SerialInv'
  <2>1. cart \in SUBSET Attendees
    BY ConstantsAssumption DEF ConstantsAssumption
  <2> QED  BY <1>2, <1>5, <2>1 DEF PreregPayment
<1>6. ASSUME NEW a \in Attendees, Confirm(w, a)  PROVE  SerialInv'
  BY <1>2, <1>6 DEF Confirm
<1>7. ASSUME NEW i \in Intents, CancelPayment(w, i)  PROVE  SerialInv'
  <2> DEFINE k == [Idle EXCEPT !.stage = "cancel", !.drop = MatchingRows(i) \X {i}]
  <2>1. job' = [job EXCEPT ![w] = k] /\ k.stage = "cancel" /\ k.drop = MatchingRows(i) \X {i}
    BY <1>7 DEF CancelPayment, Idle
  <2>2. k.drop \cap charged = {}
    BY <2>1 DEF MatchingRows
  <2> HIDE DEF k
  <2> QED  BY <1>7, <2>1, <2>2, <1>0 DEF CancelPayment, db
<1>8. ASSUME NEW r \in Receipts, NEW i \in Intents, CancelReceiptTxn(w, r, i)  PROVE  SerialInv'
  <2> DEFINE k == IF stripe[i] = "succeeded"
                  THEN [Idle EXCEPT !.stage = "mark", !.todo = {i}]
                  ELSE [Idle EXCEPT !.stage = "cancel", !.why = "admin", !.drop = {<<r, i>>}]
  <2>1. /\ job' = [job EXCEPT ![w] = k]
        /\ \/ k.stage = "mark"
           \/ k.stage = "cancel" /\ k.drop = {<<r, i>>}
    BY <1>8 DEF CancelReceiptTxn, Idle
  <2>2. <<r, i>> \notin charged
    BY <1>8 DEF CancelReceiptTxn, PendingIntents
  <2>3. k.stage = "cancel" => k.drop \cap charged = {}
    BY <2>1, <2>2
  <2> HIDE DEF k
  <2>4. \/ k.stage \notin {"cancel", "commit", "row"}
        \/ k.stage \in {"cancel", "commit"} /\ k.drop \cap charged = {}
    BY <2>1, <2>3
  <2>5. UNCHANGED <<charged, cancelled>>
    BY <1>8 DEF CancelReceiptTxn, db
  <2> QED  BY <2>1, <2>4, <2>5, <1>0
<1>9. ASSUME NEW r \in Receipts, ProcessAttendeePayment(w, r)  PROVE  SerialInv'
  <2>1. PICK i \in NextIntents : job' = [job EXCEPT ![w] =
               [Idle EXCEPT !.stage = "commit", !.intent = i,
                            !.due[r] = Owed(r), !.attach = OpenItems(r)]]
    BY <1>9 DEF ProcessAttendeePayment
  <2> DEFINE k == [Idle EXCEPT !.stage = "commit", !.intent = i,
                               !.due[r] = Owed(r), !.attach = OpenItems(r)]
  <2>2. job' = [job EXCEPT ![w] = k] /\ k.stage = "commit" /\ k.drop = {}
    BY <2>1 DEF Idle
  <2> HIDE DEF k
  <2> QED  BY <1>9, <2>2, <1>0 DEF ProcessAttendeePayment, db
<1> QED  BY <1>3, <1>4, <1>5, <1>6, <1>7, <1>8, <1>9 DEF Start

(* Marking: the row that was loaded is charged and is not cancelled.       *)
LEMMA SerialMark ==
  ASSUME IInv, SerialInv, \A v, w \in Workers : v = w, NEW w \in Workers,
         MarkQuery(w) \/ MarkTxn(w) \/ MarkModel(w)
  PROVE  SerialInv'
<1> DEFINE j == job[w]
<1>1. j \in Jobs /\ JobCurrent(j)
  BY KnownJob DEF SerialInv
<1>2. TypeOK /\ charged \cap cancelled = {}
  BY DEF IInv, SerialInv, CompletedNotCancelled
<1>3. ASSUME NEW i, NEW rows, NEW r, NEW old \in Jobs, UNCHANGED <<charged, cancelled>>,
             job' = [job EXCEPT ![w] = Load(old, i, rows, r)]
      PROVE  SerialInv'
  <2>1. PICK k : k = Load(old, i, rows, r)
    OBVIOUS
  <2>2. k.stage = "row" /\ k.loaded = {r} /\ k.intent = i /\ k.seen = (<<r, i>> \in cancelled)
    BY <2>1 DEF Load, Jobs
  <2>3. JobCurrent(k)'
    BY <2>2, <1>3 DEF JobCurrent
  <2> QED  BY <1>2, <1>3, <2>1, <2>3, SerialStep
<1>4. ASSUME NEW k, k.stage \notin {"cancel", "commit", "row"}, UNCHANGED <<charged, cancelled>>,
             job' = [job EXCEPT ![w] = k]
      PROVE  SerialInv'
  <2>1. JobCurrent(k)'
    BY <1>4 DEF JobCurrent
  <2> QED  BY <1>2, <1>4, <2>1, SerialStep
<1>5. CASE MarkQuery(w)
  <2>1. PICK i \in j.todo :
          LET rest == [j EXCEPT !.todo = @ \ {i}] IN
          IF MatchingRows(i) = {}
          THEN job' = [job EXCEPT ![w] = IF rest.todo = {} THEN Resume(rest) ELSE rest]
          ELSE \E r \in MatchingRows(i) :
                 job' = [job EXCEPT ![w] = Load(rest, i, MatchingRows(i), r)]
    BY <1>5 DEF MarkQuery
  <2> DEFINE rest == [j EXCEPT !.todo = @ \ {i}]
  <2>2. rest \in Jobs /\ rest.stage = "mark" /\ UNCHANGED <<charged, cancelled>>
    BY <1>1, <1>5 DEF MarkQuery, Jobs, db
  <2>3. \/ job' = [job EXCEPT ![w] = Resume(rest)]
        \/ job' = [job EXCEPT ![w] = rest]
        \/ \E r \in MatchingRows(i) : job' = [job EXCEPT ![w] = Load(rest, i, MatchingRows(i), r)]
    BY <2>1
  <2> HIDE DEF rest
  <2>4. Resume(rest).stage \notin {"cancel", "commit", "row"}
    BY <2>2, ResumeJob
  <2> QED  BY <2>2, <2>3, <2>4, <1>3, <1>4
<1>6. CASE MarkTxn(w)
  <2>0. PICK k : k = [j EXCEPT !.stage = "model"]
    OBVIOUS
  <2>1. /\ charged' = charged \cup (j.loaded \X {j.intent}) /\ cancelled' = Uncancelled(j)
        /\ job' = [job EXCEPT ![w] = k] /\ j.stage = "row" /\ k.stage = "model"
    BY <1>1, <1>2, <1>6, <2>0 DEF MarkTxn, Jobs, TypeOK
  <2>2. charged' \cap cancelled' = {}
    <3>1. \A r \in j.loaded : <<r, j.intent>> \in cancelled => j.seen
      BY <1>1, <2>1 DEF JobCurrent
    <3> HIDE DEF j
    <3> QED  BY <1>2, <2>1, <3>1 DEF Uncancelled
  <2>3. JobCurrent(k)'
    BY <2>1 DEF JobCurrent
  <2> QED  BY <1>2, <2>1, <2>2, <2>3, SerialStep
<1>7. CASE MarkModel(w)
  <2> DEFINE on == [j EXCEPT !.stage = "mark", !.loaded = {}, !.seen = FALSE]
  <2>1. /\ \/ \E r \in j.rows : job' = [job EXCEPT ![w] = Load(j, j.intent, j.rows, r)]
           \/ job' = [job EXCEPT ![w] = Resume(j)]
           \/ job' = [job EXCEPT ![w] = on]
        /\ UNCHANGED <<charged, cancelled>>
    BY <1>7 DEF MarkModel
  <2>2. Resume(j).stage \notin {"cancel", "commit", "row"} /\ on.stage = "mark"
    BY <1>1, ResumeJob DEF Jobs
  <2> HIDE DEF on
  <2> QED  BY <1>1, <2>1, <2>2, <1>3, <1>4
<1> QED  BY <1>5, <1>6, <1>7

(* Cancelling rows that have no charge.                                    *)
LEMMA SerialCancel ==
  ASSUME IInv, SerialInv, \A v, w \in Workers : v = w, NEW w \in Workers,
         NEW D, D \cap charged = {}, cancelled' = cancelled \cup D, charged' = charged,
         NEW k, job' = [job EXCEPT ![w] = k], k.stage \notin {"cancel", "row"},
         k.stage = "commit" => k.drop \cap charged = {}
  PROVE  SerialInv'
<1>1. JobCurrent(k)' /\ charged' \cap cancelled' = {}
  BY DEF JobCurrent, SerialInv, CompletedNotCancelled
<1> QED  BY <1>1, SerialStep DEF IInv

(* Checking out of the cart, which cancels what is out of date.            *)
LEMMA SerialPrereg ==
  ASSUME IInv, SerialInv, \A v, w \in Workers : v = w, NEW w \in Workers, PreregIntent(w)
  PROVE  SerialInv'
<1> DEFINE kept == UNION {ActiveReceipts(a) : a \in job[w].cart}
           drop == Superseded(kept)
           use(new) == (kept \ Replaced(kept, new)) \cup new
           attach(new) == (UNION {OpenItems(r) : r \in use(new)}) \cup Fresh(new)
           next(i, new, early) ==
             [Idle EXCEPT !.stage = "commit", !.cart = job[w].cart, !.intent = i,
                          !.due = Due(use(new), new), !.attach = attach(new),
                          !.drop = drop \ early]
           total(new) == SumFunctionOnSet(Due(use(new), new), use(new))
<1>1. PICK new \in SUBSET Receipts :
        \E early \in SUBSET drop :
          /\ cancelled' = cancelled \cup Obsolete(kept) \cup early
          /\ \/ /\ Chargeable(total(new))
                /\ \E i \in NextIntents :
                     /\ stripe' = [stripe EXCEPT ![i] = "open"]
                     /\ captured' = [Repriced(kept) EXCEPT ![i] = total(new)]
                     /\ job' = [job EXCEPT ![w] = next(i, new, early)]
             \/ /\ captured' = Repriced(kept)
                /\ job' = [job EXCEPT ![w] = Idle]
                /\ UNCHANGED stripe
  BY DEF PreregIntent
<1>2. PICK early \in SUBSET drop :
        /\ cancelled' = cancelled \cup Obsolete(kept) \cup early
        /\ \/ \E i \in NextIntents : job' = [job EXCEPT ![w] = next(i, new, early)]
           \/ job' = [job EXCEPT ![w] = Idle]
  BY <1>1
<1>3. charged' = charged /\ Idle.stage = "idle"
  BY IdleJob DEF PreregIntent
<1>4. \A i : next(i, new, early).stage = "commit" /\ next(i, new, early).drop = drop \ early
  BY DEF Idle
<1>5. drop \cap charged = {} /\ Obsolete(kept) \cap charged = {}
  BY PendingUncharged
<1> DEFINE D == Obsolete(kept) \cup early
<1>6. D \cap charged = {} /\ cancelled' = cancelled \cup D
  BY <1>2, <1>5
<1> HIDE DEF D, drop, kept, next
<1>7. CASE job' = [job EXCEPT ![w] = Idle]
  BY <1>3, <1>6, <1>7, SerialCancel
<1>8. ASSUME NEW i \in NextIntents, job' = [job EXCEPT ![w] = next(i, new, early)]  PROVE SerialInv'
  BY <1>3, <1>4, <1>5, <1>6, <1>8, SerialCancel
<1> QED  BY <1>2, <1>7, <1>8

(* The other steps of the handler, and the end of it.                      *)
LEMMA SerialEnd ==
  ASSUME IInv, SerialInv, \A v, w \in Workers : v = w, NEW w \in Workers,
         \/ CommitPayment(w) \/ ConfirmView(w) \/ ConfirmAmend(w) \/ HandlerError(w)
         \/ CancelCommit(w) \/ Crash(w)
  PROVE  SerialInv'
<1>1. Idle.stage = "idle" /\ JobCurrent(job[w])
  BY IdleJob DEF SerialInv
<1>2. CASE CommitPayment(w) \/ CancelCommit(w)
  <2>1. /\ cancelled' = cancelled \cup job[w].drop /\ charged' = charged
        /\ job' = [job EXCEPT ![w] = Idle] /\ job[w].stage \in {"commit", "cancel"}
    BY <1>2 DEF CommitPayment, CancelCommit
  <2>2. job[w].drop \cap charged = {}
    BY <1>1, <2>1 DEF JobCurrent
  <2> QED  BY <1>1, <2>1, <2>2, SerialCancel
<1>3. CASE ConfirmAmend(w) \/ Crash(w)
  <2>1. cancelled' = cancelled \cup {} /\ charged' = charged /\ job' = [job EXCEPT ![w] = Idle]
    BY <1>3 DEF ConfirmAmend, Crash, db
  <2> QED  BY <1>1, <2>1, SerialCancel
<1>4. CASE ConfirmView(w)
  <2> DEFINE rs == UNION {ActiveReceipts(a) : a \in job[w].cart}
             next(r) == [Idle EXCEPT !.stage = "amend", !.intent = Newest(PendingIntents(r)),
                                     !.due[r] = Owed(r)]
  <2>1. /\ cancelled' = cancelled \cup Obsolete(rs) /\ charged' = charged
        /\ \/ job' = [job EXCEPT ![w] = Idle]
           \/ \E r : job' = [job EXCEPT ![w] = next(r)]
    BY <1>4 DEF ConfirmView
  <2>2. \A r : next(r).stage = "amend"
    BY DEF Idle
  <2>3. Obsolete(rs) \cap charged = {}
    BY PendingUncharged
  <2> HIDE DEF rs, next
  <2> QED  BY <1>1, <2>1, <2>2, <2>3, SerialCancel
<1>5. CASE HandlerError(w)
  <2>0. PICK done : \E early \in SUBSET Superseded(done) :
          cancelled' = cancelled \cup Obsolete(done) \cup early
    BY <1>5 DEF HandlerError
  <2>1. PICK early \in SUBSET Superseded(done) :
          cancelled' = cancelled \cup Obsolete(done) \cup early
    BY <2>0
  <2>2. charged' = charged /\ job' = [job EXCEPT ![w] = Idle]
    BY <1>5 DEF HandlerError
  <2> DEFINE D == Obsolete(done) \cup early
  <2>3. D \cap charged = {} /\ cancelled' = cancelled \cup D
    BY <2>1, PendingUncharged
  <2> HIDE DEF D
  <2> QED  BY <1>1, <2>2, <2>3, SerialCancel
<1> QED  BY <1>2, <1>3, <1>4, <1>5

(* Where nobody works beside it.                                           *)
LEMMA SerialKept ==
  ASSUME IInv, SerialInv, \A v, w \in Workers : v = w, [Next]_vars
  PROVE  SerialInv'
<1>1. CASE UNCHANGED <<charged, cancelled, job>>
  BY <1>1 DEF SerialInv, CompletedNotCancelled, JobCurrent
<1>2. Environment \/ UNCHANGED vars => UNCHANGED <<charged, cancelled, job>>
  BY DEF Environment, StripeSucceeds, AddItem, InvalidatePending, vars, db
<1>3. ASSUME NEW w \in Workers, Start(w)  PROVE SerialInv'
  BY <1>3, SerialStart
<1>4. ASSUME NEW w \in Workers, Continue(w) \/ Crash(w)  PROVE SerialInv'
  BY <1>4, SerialMark, SerialPrereg, SerialEnd DEF Continue
<1> QED  BY <1>1, <1>2, <1>3, <1>4 DEF Next

(* One handler at a time never cancels a payment that was completed, nor   *)
(* leaves one cancelled that it completes, wherever it is killed.  (With   *)
(* two, the second may have read the row before.)                          *)
THEOREM OneHandlerCancels ==
  ASSUME \A v, w \in Workers : v = w
  PROVE  Spec => []CompletedNotCancelled
<1>1. Init => SerialInv
  BY IdleJob DEF Init, SerialInv, CompletedNotCancelled, JobCurrent
<1>2. IInv /\ SerialInv /\ [Next]_vars => SerialInv'
  BY SerialKept
<1>3. SerialInv => CompletedNotCancelled
  BY DEF SerialInv
<1> QED  BY <1>1, <1>2, <1>3, InductiveInvariant, PTL DEF Spec
-----------------------------------------------------------------------------
(* Nothing costs more once it is on a receipt.                             *)

(* An item is there once its receipt is, and a row is for all that its     *)
(* receipt costs.                                                          *)
PricesSound ==
  /\ \A x \in Items : item[x].state # "absent" => receipt[ReceiptOf[x]] # "absent"
  /\ \A r \in Receipts, i \in Intents : amount[<<r, i>>] \in {0, ItemTotal(r)}

(* What the rows of an intent add up to.                                   *)
RowTotal(i) == SumFunctionOnSet([r \in Receipts |-> amount[<<r, i>>]], Receipts)

(* An intent with rows is for their sum, and only such an intent was paid. *)
RowsAddUp ==
  \A i \in Intents :
    /\ (\E r \in Receipts : amount[<<r, i>>] > 0) => RowTotal(i) = captured[i]
    /\ stripe[i] = "succeeded" => \E r \in Receipts : amount[<<r, i>>] > 0

(* A handler that is to make rows makes such ones, and none changes any.   *)
BillSound(j) ==
  /\ j.stage # "amend"
  /\ j.stage = "commit" =>
       /\ \A r \in Receipts : j.due[r] \in {0, ItemTotal(r)}
       /\ SumFunctionOnSet(j.due, Receipts) = captured[j.intent]

(* The inductive invariant.                                                *)
BilledInv == PricesSound /\ RowsAddUp /\ \A w \in Workers : BillSound(job[w])

(* A row under its other name.                                             *)
LEMMA RowName ==
  ASSUME NEW r, NEW i
  PROVE  amount[r, i] = amount[<<r, i>>] /\ (RowExists(r, i) <=> amount[<<r, i>>] > 0)
BY Zenon DEF RowExists

(* What a receipt costs, which is nothing until it has items.              *)
LEMMA ItemTotals ==
  ASSUME NEW r \in Receipts
  PROVE  /\ ItemTotal(r) \in Nat
         /\ PricesSound /\ receipt[r] = "absent" => ItemTotal(r) = 0
<1> DEFINE S == {x \in Items : ReceiptOf[x] = r /\ item[x].state # "absent"}
<1>1. IsFiniteSet(S) /\ \A x \in S : Price[x] \in Nat
  BY FS_Subset, ConstantsAssumption DEF ConstantsAssumption
<1>2. ItemTotal(r) = SumFunctionOnSet(Price, S)
  BY DEF ItemTotal
<1>3. PricesSound /\ receipt[r] = "absent" => S = {}
  BY DEF PricesSound
<1> HIDE DEF S
<1> QED  BY <1>1, <1>2, <1>3, SumNat, SumEmpty

(* It stays as long as no item is added.                                   *)
LEMMA SameItemTotals ==
  ASSUME NEW r \in Receipts,
         \A x \in Items : ReceiptOf[x] = r => (item'[x].state = "absent" <=> item[x].state = "absent")
  PROVE  ItemTotal(r)' = ItemTotal(r)
<1>1. {x \in Items : ReceiptOf[x] = r /\ item'[x].state # "absent"}
        = {x \in Items : ReceiptOf[x] = r /\ item[x].state # "absent"}
  OBVIOUS
<1> QED  BY <1>1 DEF ItemTotal

(* A receipt owes all or nothing.                                          *)
LEMMA OwedIsTotal ==
  ASSUME IInv, PricesSound, NEW r \in Receipts
  PROVE  Owed(r) \in {0, ItemTotal(r)}
<1> DEFINE T == ItemTotal(r)
           f == [i \in Intents |-> amount[r, i]]
           P == {i \in Intents : <<r, i>> \in charged \ cancelled}
<1>1. T \in Nat
  BY ItemTotals
<1>2. IsFiniteSet(P)
  <2>1. IsFiniteSet(Intents)
    BY FS_Interval, ConstantsAssumption DEF ConstantsAssumption, Intents
  <2>2. P \in SUBSET Intents
    OBVIOUS
  <2> QED  BY <2>1, <2>2, FS_Subset
<1>3. \A i \in P : f[i] \in {0, T}
  <2> SUFFICES ASSUME NEW i \in P  PROVE f[i] \in {0, T}
    OBVIOUS
  <2>1. i \in Intents
    OBVIOUS
  <2>2. f[i] = amount[<<r, i>>]
    BY <2>1, RowName
  <2>3. amount[<<r, i>>] \in {0, T}
    BY <2>1 DEF PricesSound
  <2> QED  BY <2>2, <2>3
<1>4. PaymentTotal(r) = SumFunctionOnSet(f, P)
  BY DEF PaymentTotal
<1>5. Owed(r) = IF T - PaymentTotal(r) > 0 THEN T - PaymentTotal(r) ELSE 0
  BY DEF Owed, CurrentReceiptAmount
<1> HIDE DEF T, f, P
<1>6. CASE \A i \in P : f[i] = 0
  <2>1. PaymentTotal(r) = 0
    BY <1>2, <1>4, <1>6, SumZero
  <2> QED  BY <1>1, <1>5, <2>1 DEF T
<1>7. ASSUME NEW i \in P, f[i] # 0  PROVE Owed(r) = 0
  <2>1. IsFiniteSet(P \ {i}) /\ \A n \in P : f[n] \in Nat
    BY <1>1, <1>2, <1>3, FS_Subset
  <2>2. SumFunctionOnSet(f, P) = f[i] + SumFunctionOnSet(f, P \ {i})
    BY <1>2, <2>1, SumWithout
  <2>3. SumFunctionOnSet(f, P \ {i}) \in Nat
    BY <2>1, SumNat
  <2>4. PaymentTotal(r) >= T /\ PaymentTotal(r) \in Nat
    BY <1>1, <1>3, <1>4, <1>7, <2>2, <2>3
  <2> QED  BY <1>1, <1>5, <2>4
<1> QED  BY <1>6, <1>7

(* So no pending row is out of date, and no intent is repriced.            *)
LEMMA NothingOutOfDate ==
  ASSUME IInv, PricesSound, NEW rs \in SUBSET Receipts
  PROVE  OutOfDate(rs) = {} /\ Repriced(rs) = captured /\ Amended(rs) = amount /\ CanReprice(rs)
<1>1. OutOfDate(rs) = {}
  <2> SUFFICES ASSUME NEW r \in OutOfDate(rs)  PROVE FALSE
    OBVIOUS
  <2>1. /\ r \in Receipts /\ PendingIntents(r) # {} /\ Owed(r) > 0
        /\ amount[r, Newest(PendingIntents(r))] # Owed(r)
    BY DEF OutOfDate
  <2>2. PendingIntents(r) \in SUBSET Intents
    BY DEF PendingIntents
  <2>3. PICK i \in PendingIntents(r) : i = Newest(PendingIntents(r))
    BY <2>1, <2>2, NewestIn
  <2>4. RowExists(r, i) /\ i \in Intents
    BY DEF PendingIntents
  <2>5. amount[<<r, i>>] > 0 /\ amount[<<r, i>>] # Owed(r)
    BY <2>1, <2>3, <2>4, RowName
  <2>6. Owed(r) \in {0, ItemTotal(r)} /\ amount[<<r, i>>] \in {0, ItemTotal(r)}
    BY <2>1, <2>4, OwedIsTotal DEF PricesSound
  <2>7. ItemTotal(r) \in Nat
    BY <2>1, ItemTotals
  <2>8. PICK paid, owed, all : paid = amount[<<r, i>>] /\ owed = Owed(r) /\ all = ItemTotal(r)
    OBVIOUS
  <2>9. /\ paid > 0 /\ paid # owed /\ owed > 0
        /\ owed \in {0, all} /\ paid \in {0, all} /\ all \in Nat
    BY <2>1, <2>5, <2>6, <2>7, <2>8
  <2> QED  BY ONLY <2>9
<1>2. captured \in [Intents -> 0 .. MaxCharge] /\ amount \in [Rows -> 0 .. MaxCharge]
  BY DEF IInv, TypeOK
<1>3. Repriced(rs) = [i \in Intents |-> captured[i]]
  <2> DEFINE by(i) == {r \in OutOfDate(rs) : i = Newest(PendingIntents(r))}
  <2>1. Repriced(rs) =
          [i \in Intents |-> IF by(i) = {} THEN captured[i] ELSE Owed(CHOOSE r \in by(i) : TRUE)]
    BY DEF Repriced
  <2>2. \A i \in Intents : by(i) = {}
    BY <1>1
  <2> HIDE DEF by
  <2> QED  BY <2>1, <2>2
<1>4. Amended(rs) = [row \in Rows |-> amount[row]]
  BY <1>1 DEF Amended
<1>5. CanReprice(rs)
  BY <1>1 DEF CanReprice
<1> QED  BY <1>1, <1>2, <1>3, <1>4, <1>5

(* A step that adds no item, row or intent.                                *)
LEMMA QuietBill ==
  ASSUME BilledInv, UNCHANGED <<amount, captured>>,
         \A x \in Items : item'[x].state = "absent" <=> item[x].state = "absent",
         \A r \in Receipts : receipt'[r] = "absent" => receipt[r] = "absent",
         \A i \in Intents : stripe'[i] = "succeeded" =>
           stripe[i] = "succeeded" \/ \E r \in Receipts : RowExists(r, i),
         \A w \in Workers : job'[w] = job[w] \/ job'[w].stage \notin {"commit", "amend"}
  PROVE  BilledInv'
<1>1. \A r \in Receipts : ItemTotal(r)' = ItemTotal(r)
  BY SameItemTotals
<1>2. ReceiptOf \in [Items -> Receipts]
  BY ConstantsAssumption DEF ConstantsAssumption
<1>3. PricesSound'
  <2>1. \A x \in Items : item'[x].state # "absent" => receipt'[ReceiptOf[x]] # "absent"
    BY <1>2 DEF BilledInv, PricesSound
  <2>2. \A r \in Receipts, i \in Intents : amount'[<<r, i>>] \in {0, ItemTotal(r)'}
    BY <1>1 DEF BilledInv, PricesSound
  <2> QED  BY <2>1, <2>2 DEF PricesSound
<1>4. RowsAddUp'
  <2>1. \A i : RowTotal(i)' = RowTotal(i)
    BY DEF RowTotal
  <2>2. \A i \in Intents : stripe'[i] = "succeeded" => \E r \in Receipts : amount[<<r, i>>] > 0
    BY RowName DEF BilledInv, RowsAddUp
  <2> QED  BY <2>1, <2>2 DEF BilledInv, RowsAddUp
<1>5. ASSUME NEW w \in Workers  PROVE BillSound(job[w])'
  <2>1. CASE job'[w] = job[w]
    BY <1>1, <2>1 DEF BilledInv, BillSound
  <2>2. CASE job'[w].stage \notin {"commit", "amend"}
    BY <2>2 DEF BillSound
  <2> QED  BY <2>1, <2>2
<1> QED  BY <1>3, <1>4, <1>5 DEF BilledInv

(* A handler makes an intent, for what it is to record.                    *)
LEMMA IntentBill ==
  ASSUME IInv, IntentsSound, BilledInv, NEW w \in Workers, NEW k, NEW i \in NextIntents, NEW sum,
         job' = [job EXCEPT ![w] = k], stripe' = [stripe EXCEPT ![i] = "open"],
         captured' = [captured EXCEPT ![i] = sum], amount' = amount,
         PricesSound', \A r \in Receipts : ItemTotal(r)' = ItemTotal(r) \/ ItemTotal(r) = 0,
         k.stage = "commit", k.intent = i,
         \A r \in Receipts : k.due[r] \in {0, ItemTotal(r)'},
         SumFunctionOnSet(k.due, Receipts) = sum
  PROVE  BilledInv'
<1>1. i \in Intents /\ stripe[i] = "none"
  BY DEF NextIntents, Unused
<1>2. /\ job'[w] = k /\ \A v \in Workers : v # w => job'[v] = job[v]
      /\ stripe'[i] = "open" /\ \A n \in Intents : n # i => stripe'[n] = stripe[n]
      /\ captured'[i] = sum /\ \A n \in Intents : n # i => captured'[n] = captured[n]
  BY <1>1 DEF IInv, TypeOK
<1>3. \A r \in Receipts : ~(amount[<<r, i>>] > 0)
  BY <1>1, RowName DEF IntentsSound, RowsHaveIntents
<1>4. RowsAddUp'
  <2>1. \A n : RowTotal(n)' = RowTotal(n)
    BY DEF RowTotal
  <2>2. ASSUME NEW n \in Intents
        PROVE  /\ (\E r \in Receipts : amount[<<r, n>>] > 0) => RowTotal(n) = captured'[n]
               /\ stripe'[n] = "succeeded" => \E r \in Receipts : amount[<<r, n>>] > 0
    <3>1. CASE n = i
      BY <1>2, <1>3, <3>1
    <3>2. CASE n # i
      BY <1>2, <3>2 DEF BilledInv, RowsAddUp
    <3> QED  BY <3>1, <3>2
  <2> QED  BY <2>1, <2>2 DEF RowsAddUp
<1>5. BillSound(k)'
  BY <1>2 DEF BillSound
<1>6. ASSUME NEW v \in Workers, v # w  PROVE BillSound(job[v])'
  <2>1. BillSound(job[v]) /\ job'[v] = job[v] /\ job[v] \in Jobs
    BY <1>2, <1>6 DEF BilledInv, IInv, TypeOK
  <2> SUFFICES ASSUME job[v].stage = "commit"
               PROVE  /\ \A r \in Receipts : job[v].due[r] \in {0, ItemTotal(r)'}
                      /\ SumFunctionOnSet(job[v].due, Receipts) = captured'[job[v].intent]
    BY <2>1 DEF BillSound
  <2>2. job[v].intent \in Intents /\ stripe[job[v].intent] = "open"
    BY DEF IntentsSound, CommitSound
  <2>3. captured'[job[v].intent] = captured[job[v].intent]
    BY <1>1, <1>2, <2>2
  <2> QED  BY <2>1, <2>3 DEF BillSound
<1>7. \A v \in Workers : BillSound(job[v])'
  <2>1. BillSound(job[w])'
    BY <1>2, <1>5 DEF BillSound
  <2> QED  BY <1>6, <2>1
<1> QED  BY <1>4, <1>7 DEF BilledInv

(* process_attendee_payment bills what is owed.                            *)
LEMMA PayBill ==
  ASSUME IInv, IntentsSound, BilledInv, NEW w \in Workers, NEW r \in Receipts,
         ProcessAttendeePayment(w, r)
  PROVE  BilledInv'
<1>1. PICK i \in NextIntents :
        /\ stripe' = [stripe EXCEPT ![i] = "open"]
        /\ captured' = [captured EXCEPT ![i] = Owed(r)]
        /\ job' = [job EXCEPT ![w] =
             [Idle EXCEPT !.stage = "commit", !.intent = i,
                          !.due[r] = Owed(r), !.attach = OpenItems(r)]]
  BY DEF ProcessAttendeePayment
<1>2. UNCHANGED <<item, receipt, amount>>
  BY DEF ProcessAttendeePayment, db
<1>3. PICK k : k = [Idle EXCEPT !.stage = "commit", !.intent = i,
                                !.due[r] = Owed(r), !.attach = OpenItems(r)]
  OBVIOUS
<1>4. /\ k.stage = "commit" /\ k.intent = i /\ k.due[r] = Owed(r)
      /\ \A q \in Receipts \ {r} : k.due[q] = 0
  BY <1>3 DEF Idle
<1>5. Owed(r) \in {0, ItemTotal(r)} /\ ItemTotal(r) \in Nat
  BY OwedIsTotal, ItemTotals DEF BilledInv
<1>6. \A q \in Receipts : ItemTotal(q)' = ItemTotal(q)
  BY <1>2, SameItemTotals
<1>7. \A q \in Receipts : k.due[q] \in {0, ItemTotal(q)'}
  BY <1>4, <1>5, <1>6
<1>8. SumFunctionOnSet(k.due, Receipts) = Owed(r)
  <2>1. IsFiniteSet(Receipts) /\ IsFiniteSet(Receipts \ {r})
    BY FS_Subset, ConstantsAssumption DEF ConstantsAssumption
  <2>2. \A q \in Receipts : k.due[q] \in Int
    BY <1>4, <1>5
  <2>3. SumFunctionOnSet(k.due, Receipts) = k.due[r] + SumFunctionOnSet(k.due, Receipts \ {r})
    BY <2>1, <2>2, SumWithout
  <2>4. SumFunctionOnSet(k.due, Receipts \ {r}) = 0
    BY <1>4, <2>1, SumZero
  <2> QED  BY <1>4, <1>5, <2>3, <2>4
<1>9. PricesSound'
  BY <1>2, <1>6 DEF BilledInv, PricesSound
<1>10. job' = [job EXCEPT ![w] = k]
  BY <1>1, <1>3
<1> QED  BY <1>1, <1>2, <1>4, <1>6, <1>7, <1>8, <1>9, <1>10, IntentBill

(* prereg_payment bills the cart: what its old receipts owe, and all that  *)
(* is on the new ones.                                                     *)
LEMMA PreregBill ==
  ASSUME IInv, IntentsSound, BilledInv, NEW w \in Workers, PreregIntent(w)
  PROVE  BilledInv'
<1> DEFINE cart == job[w].cart
           kept == UNION {ActiveReceipts(a) : a \in cart}
           drop == Superseded(kept)
           use(new) == (kept \ Replaced(kept, new)) \cup new
           attach(new) == (UNION {OpenItems(r) : r \in use(new)}) \cup Fresh(new)
           total(new) == SumFunctionOnSet(Due(use(new), new), use(new))
           next(i, new, early) ==
             [Idle EXCEPT !.stage = "commit", !.cart = cart, !.intent = i,
                          !.due = Due(use(new), new), !.attach = attach(new),
                          !.drop = drop \ early]
<1>1. PICK new \in SUBSET {r \in Receipts : Owner[r] \in cart /\ receipt[r] = "absent"} :
        /\ Due(use(new), new) \in [Receipts -> 0 .. MaxCharge]
        /\ receipt' = [r \in Receipts |-> IF r \in new THEN "open"
                                          ELSE IF r \in Replaced(kept, new) THEN "closed"
                                          ELSE receipt[r]]
        /\ item' = [x \in Items |-> IF x \in Fresh(new)
                                    THEN [item[x] EXCEPT !.state = "open"] ELSE item[x]]
        /\ amount' = Amended(kept)
        /\ \E early \in SUBSET drop :
             /\ cancelled' = cancelled \cup Obsolete(kept) \cup early
             /\ \/ /\ Chargeable(total(new))
                   /\ \E i \in NextIntents :
                        /\ stripe' = [stripe EXCEPT ![i] = "open"]
                        /\ captured' = [Repriced(kept) EXCEPT ![i] = total(new)]
                        /\ job' = [job EXCEPT ![w] = next(i, new, early)]
                \/ /\ captured' = Repriced(kept)
                   /\ job' = [job EXCEPT ![w] = Idle]
                   /\ UNCHANGED stripe
  BY DEF PreregIntent
<1>2. kept \in SUBSET Receipts
  BY ActiveOfCart
<1>3. Repriced(kept) = captured /\ amount' = amount
  BY <1>1, <1>2, NothingOutOfDate DEF BilledInv
<1>4. PICK due : due = Due(use(new), new)
  OBVIOUS
<1>5. PICK early :
        \/ \E i \in NextIntents :
             /\ stripe' = [stripe EXCEPT ![i] = "open"]
             /\ captured' = [captured EXCEPT ![i] = SumFunctionOnSet(due, use(new))]
             /\ job' = [job EXCEPT ![w] = next(i, new, early)]
        \/ /\ captured' = captured
           /\ job' = [job EXCEPT ![w] = Idle]
           /\ UNCHANGED stripe
  BY <1>1, <1>3, <1>4
<1>6. PICK used : used = use(new)
  OBVIOUS
<1>7. /\ new \in SUBSET Receipts /\ \A r \in new : receipt[r] = "absent"
      /\ used \in SUBSET Receipts
  BY <1>1, <1>2, <1>6
<1>8. due \in [Receipts -> 0 .. MaxCharge]
      /\ \A r \in Receipts :
           due[r] = IF r \in new
                    THEN SumFunctionOnSet(Price, {x \in Fresh(new) : ReceiptOf[x] = r})
                    ELSE IF r \in used THEN Owed(r) ELSE 0
  BY <1>1, <1>4, <1>6 DEF Due
<1>9. \A i : /\ next(i, new, early).stage = "commit" /\ next(i, new, early).intent = i
             /\ next(i, new, early).due = due
  BY <1>4 DEF Idle
<1>10. \A x \in Items : item'[x].state = IF x \in Fresh(new) THEN "open" ELSE item[x].state
  <2>1. item' = [x \in Items |-> IF x \in Fresh(new)
                                 THEN [item[x] EXCEPT !.state = "open"] ELSE item[x]]
    BY <1>1
  <2>2. item \in [Items -> [state : {"absent", "open", "closed"},
                            txn   : Intents \cup {NoIntent}]]
    BY DEF IInv, TypeOK
  <2> QED  BY ONLY <2>1, <2>2
<1>11. receipt' = [r \in Receipts |-> IF r \in new THEN "open"
                                      ELSE IF r \in Replaced(kept, new) THEN "closed"
                                      ELSE receipt[r]]
  BY <1>1
<1> HIDE DEF kept, drop, use, total, next
<1>12. \A x \in Items : /\ ReceiptOf[x] \in Receipts
                        /\ x \in Fresh(new) => ReceiptOf[x] \in new
                        /\ item[x].state # "absent" => receipt[ReceiptOf[x]] # "absent"
  BY ConstantsAssumption DEF ConstantsAssumption, Fresh, BilledInv, PricesSound
<1>13. ASSUME NEW r \in Receipts
       PROVE  /\ ItemTotal(r)' = IF r \in new THEN due[r] ELSE ItemTotal(r)
              /\ r \in new => ItemTotal(r) = 0
  <2>1. CASE r \in new
    <3>1. {x \in Items : ReceiptOf[x] = r /\ item'[x].state # "absent"}
            = {x \in Fresh(new) : ReceiptOf[x] = r}
      <4>1. \A x \in Items : ReceiptOf[x] = r => item[x].state = "absent"
        BY <1>7, <1>12, <2>1
      <4> QED  BY <4>1, <1>10 DEF Fresh
    <3>2. ItemTotal(r)' = due[r]
      BY <1>8, <2>1, <3>1 DEF ItemTotal
    <3>3. ItemTotal(r) = 0
      BY <1>7, <2>1, ItemTotals DEF BilledInv
    <3> QED  BY <2>1, <3>2, <3>3
  <2>2. CASE r \notin new
    <3>1. ItemTotal(r)' = ItemTotal(r)
      BY <1>10, <1>12, <2>2, SameItemTotals
    <3> QED  BY <2>2, <3>1
  <2> QED  BY <2>1, <2>2
<1>14. PricesSound'
  <2>1. ASSUME NEW x \in Items, item'[x].state # "absent"  PROVE receipt'[ReceiptOf[x]] # "absent"
    BY <1>10, <1>11, <1>12, <2>1
  <2>2. ASSUME NEW r \in Receipts, NEW i \in Intents
        PROVE  amount'[<<r, i>>] \in {0, ItemTotal(r)'}
    BY <1>3, <1>13 DEF BilledInv, PricesSound
  <2> QED  BY <2>1, <2>2 DEF PricesSound
<1>15. \A r \in Receipts : due[r] \in {0, ItemTotal(r)'} /\ (r \notin used => due[r] = 0)
  <2> SUFFICES ASSUME NEW r \in Receipts
               PROVE  due[r] \in {0, ItemTotal(r)'} /\ (r \notin used => due[r] = 0)
    OBVIOUS
  <2>1. r \in new => r \in used
    BY <1>6 DEF use
  <2>2. Owed(r) \in {0, ItemTotal(r)}
    BY OwedIsTotal DEF BilledInv
  <2> QED  BY <1>8, <1>13, <2>1, <2>2
<1>16. SumFunctionOnSet(due, Receipts) = SumFunctionOnSet(due, used)
  <2>1. IsFiniteSet(Receipts)
    BY ConstantsAssumption DEF ConstantsAssumption
  <2>2. \A r \in Receipts : due[r] \in Nat
    BY <1>8
  <2> QED  BY <1>7, <1>15, <2>1, <2>2, SumOfPart
<1>17. ASSUME NEW i \in NextIntents, stripe' = [stripe EXCEPT ![i] = "open"],
              captured' = [captured EXCEPT ![i] = SumFunctionOnSet(due, use(new))],
              job' = [job EXCEPT ![w] = next(i, new, early)]
       PROVE  BilledInv'
  <2>1. PICK k : k = next(i, new, early)
    OBVIOUS
  <2>2. k.stage = "commit" /\ k.intent = i /\ k.due = due /\ job' = [job EXCEPT ![w] = k]
    BY <1>9, <1>17, <2>1
  <2>3. \A r \in Receipts : ItemTotal(r)' = ItemTotal(r) \/ ItemTotal(r) = 0
    BY <1>13
  <2>4. SumFunctionOnSet(k.due, Receipts) = SumFunctionOnSet(due, use(new))
    BY <1>6, <1>16, <2>2
  <2>5. \A r \in Receipts : k.due[r] \in {0, ItemTotal(r)'}
    BY <1>15, <2>2
  <2> QED  BY <1>3, <1>14, <1>17, <2>2, <2>3, <2>4, <2>5, IntentBill
<1>18. CASE captured' = captured /\ job' = [job EXCEPT ![w] = Idle] /\ UNCHANGED stripe
  <2>1. RowsAddUp'
    BY <1>3, <1>18 DEF BilledInv, RowsAddUp, RowTotal
  <2>2. job'[w] = Idle /\ \A v \in Workers : v # w => job'[v] = job[v]
    BY <1>18 DEF IInv, TypeOK
  <2>3. Idle.stage = "idle"
    BY IdleJob
  <2>4. ASSUME NEW v \in Workers  PROVE BillSound(job[v])'
    <3>1. CASE v = w
      BY <2>2, <2>3, <3>1 DEF BillSound
    <3>2. CASE v # w
      BY <1>13, <1>18, <2>2, <3>2 DEF BillSound, BilledInv
    <3> QED  BY <3>1, <3>2
  <2> QED  BY <1>14, <2>1, <2>4 DEF BilledInv
<1> QED  BY <1>5, <1>17, <1>18

(* A handler records what it billed.                                       *)
LEMMA CommitBill ==
  ASSUME IInv, IntentsSound, BilledInv, NEW w \in Workers, CommitPayment(w)
  PROVE  BilledInv'
<1> DEFINE j == job[w]
<1>1. /\ j \in Jobs /\ j.stage = "commit" /\ BillSound(j)
      /\ j.intent \in Intents /\ stripe[j.intent] = "open"
      /\ \A r \in Receipts : ~RowExists(r, j.intent)
      /\ \A v \in Workers : job[v].stage = "commit" /\ job[v].intent = j.intent => v = w
  BY KnownJob DEF CommitPayment, BilledInv, IntentsSound, CommitSound
<1>2. /\ amount' = [row \in Rows |-> RowAmount(j, row)]
      /\ item' = [x \in Items |-> IF x \in j.attach /\ j.due[ReceiptOf[x]] > 0
                                  THEN Attached(j, x) ELSE item[x]]
      /\ job' = [job EXCEPT ![w] = Idle]
      /\ UNCHANGED <<receipt, stripe, captured>>
  BY DEF CommitPayment, gateway
<1>3. PICK i \in Intents, due \in [Receipts -> 0 .. MaxCharge] : i = j.intent /\ due = j.due
  BY <1>1 DEF Jobs
<1>4. /\ \A r \in Receipts : amount[<<r, i>>] = 0 /\ due[r] \in {0, ItemTotal(r)}
      /\ SumFunctionOnSet(due, Receipts) = captured[i]
  <2>1. \A r \in Receipts : ~(amount[<<r, i>>] > 0)
    BY <1>1, <1>3, RowName
  <2>2. \A r \in Receipts : amount[<<r, i>>] \in 0 .. MaxCharge
    BY DEF Rows, IInv, TypeOK
  <2>3. \A r \in Receipts : amount[<<r, i>>] = 0
    BY <2>1, <2>2, ConstantsAssumption DEF ConstantsAssumption
  <2> QED  BY <1>1, <1>3, <2>3 DEF BillSound
<1>5. ASSUME NEW r \in Receipts, NEW n \in Intents
      PROVE  amount'[<<r, n>>] = IF n = i THEN due[r] ELSE amount[<<r, n>>]
  <2>1. <<r, n>> \in Rows /\ <<r, n>>[1] = r /\ <<r, n>>[2] = n
    BY DEF Rows
  <2>2. amount'[<<r, n>>] = IF n = i /\ due[r] > 0 THEN due[r] ELSE amount[<<r, n>>]
    BY <1>2, <1>3, <2>1 DEF RowAmount
  <2>3. due[r] \in Nat
    OBVIOUS
  <2> QED  BY <1>4, <2>2, <2>3
<1> HIDE DEF j
<1>6. \A r \in Receipts : ItemTotal(r)' = ItemTotal(r)
  <2>1. \A x \in Items : item'[x].state = item[x].state
    BY <1>2 DEF Attached, IInv, TypeOK
  <2> QED  BY <2>1, SameItemTotals
<1>7. PricesSound'
  <2>1. \A x \in Items : item'[x].state # "absent" => receipt'[ReceiptOf[x]] # "absent"
    BY <1>2 DEF Attached, IInv, TypeOK, BilledInv, PricesSound
  <2>2. \A r \in Receipts, n \in Intents : amount'[<<r, n>>] \in {0, ItemTotal(r)'}
    BY <1>4, <1>5, <1>6 DEF BilledInv, PricesSound
  <2> QED  BY <2>1, <2>2 DEF PricesSound
<1>8. RowsAddUp'
  <2>0. IsFiniteSet(Receipts)
    BY ConstantsAssumption DEF ConstantsAssumption
  <2>1. ASSUME NEW n \in Intents, n # i  PROVE RowTotal(n)' = RowTotal(n)
    <3>1. [r \in Receipts |-> amount'[<<r, n>>]] = [r \in Receipts |-> amount[<<r, n>>]]
      BY <1>5, <2>1
    <3> QED  BY <3>1 DEF RowTotal
  <2>2. RowTotal(i)' = captured[i]
    <3> DEFINE f == [r \in Receipts |-> amount'[<<r, i>>]]
    <3>1. \A r \in Receipts : f[r] = due[r]
      BY <1>5
    <3>2. RowTotal(i)' = SumFunctionOnSet(f, Receipts)
      BY DEF RowTotal
    <3> HIDE DEF f
    <3> QED  BY <1>4, <2>0, <3>1, <3>2, SumSame
  <2>3. ASSUME NEW n \in Intents
        PROVE  /\ (\E r \in Receipts : amount'[<<r, n>>] > 0) => RowTotal(n)' = captured[n]
               /\ stripe[n] = "succeeded" => \E r \in Receipts : amount'[<<r, n>>] > 0
    <3>1. CASE n = i
      <4>1. stripe[n] # "succeeded"
        BY <1>1, <1>3, <3>1
      <4> QED  BY <2>2, <3>1, <4>1
    <3>2. CASE n # i
      BY <1>5, <2>1, <3>2 DEF BilledInv, RowsAddUp
    <3> QED  BY <3>1, <3>2
  <2> QED  BY <1>2, <2>3 DEF RowsAddUp
<1>9. ASSUME NEW v \in Workers  PROVE BillSound(job[v])'
  <2>1. CASE v = w
    BY <1>2, <2>1, IdleJob DEF BillSound, IInv, TypeOK
  <2>2. CASE v # w
    <3>1. job'[v] = job[v]
      BY <1>2, <2>2 DEF IInv, TypeOK
    <3> QED  BY <1>2, <1>6, <3>1 DEF BillSound, BilledInv
  <2> QED  BY <2>1, <2>2
<1> QED  BY <1>7, <1>8, <1>9 DEF BilledInv

(* Every request or task that starts, but a payment, bills nothing.        *)
LEMMA StartBill ==
  ASSUME IInv, IntentsSound, BilledInv, NEW w \in Workers, Start(w)
  PROVE  BilledInv'
<1> USE DEF IInv
<1>0. ASSUME NEW k, job' = [job EXCEPT ![w] = k], k.stage \notin {"commit", "amend"},
             UNCHANGED <<db, gateway>>
      PROVE  BilledInv'
  <2>1. \A v \in Workers : job'[v] = job[v] \/ job'[v].stage \notin {"commit", "amend"}
    BY <1>0 DEF TypeOK
  <2>2. UNCHANGED <<item, receipt, amount, captured, stripe>>
    BY <1>0 DEF db, gateway
  <2> QED  BY <2>1, <2>2, QuietBill
<1>1. ASSUME NEW todo, StartMarking(w, [Idle EXCEPT !.todo = todo])  PROVE  BilledInv'
  <2> DEFINE k == [[Idle EXCEPT !.todo = todo] EXCEPT !.stage = "mark"]
  <2>1. k.stage = "mark"
    BY DEF Idle
  <2>2. job' = [job EXCEPT ![w] = k] /\ UNCHANGED <<db, gateway>>
    BY <1>1 DEF StartMarking
  <2> HIDE DEF k
  <2> QED  BY <2>1, <2>2, <1>0
<1>2. ASSUME NEW why \in {"prereg", "confirm"}, NEW cart \in SUBSET Attendees, NEW rs,
             LET j == [Idle EXCEPT !.why = why, !.cart = cart, !.todo = FoundPaid(rs)] IN
               job' = [job EXCEPT ![w] = IF FoundPaid(rs) = {} THEN Resume(j)
                                         ELSE [j EXCEPT !.stage = "mark"]],
             UNCHANGED <<db, gateway, crashes>>
      PROVE  BilledInv'
  <2> DEFINE found == FoundPaid(rs)
             j == [Idle EXCEPT !.why = why, !.cart = cart, !.todo = found]
             k == IF found = {} THEN Resume(j) ELSE [j EXCEPT !.stage = "mark"]
  <2>1. j \in Jobs
    <3>1. found \in SUBSET Intents
      BY FoundPaidSucceeded
    <3> HIDE DEF found
    <3> QED  BY <3>1, IdleJob DEF Jobs, Reasons
  <2>2. [j EXCEPT !.stage = "mark"].stage = "mark"
    <3> HIDE DEF j
    <3> QED  BY <2>1 DEF Jobs
  <2>3. Resume(j).stage \in {"idle", "begin", "view"}
    <3> HIDE DEF j
    <3> QED  BY <2>1, ResumeJob
  <2>4. job' = [job EXCEPT ![w] = k]
    BY <1>2
  <2> HIDE DEF found, j
  <2>5. k.stage \notin {"commit", "amend"}
    BY <2>2, <2>3
  <2> HIDE DEF k
  <2> QED  BY <1>2, <2>4, <2>5, <1>0
<1>3. ASSUME NEW i \in Intents, StripeWebhook(w, i)  PROVE  BilledInv'
  BY <1>1, <1>3 DEF StripeWebhook
<1>4. ASSUME CheckMissedStripePayments(w)  PROVE  BilledInv'
  BY <1>1, <1>4 DEF CheckMissedStripePayments
<1>5. ASSUME NEW cart \in Carts, PreregPayment(w, cart)  PROVE  BilledInv'
  <2>1. cart \in SUBSET Attendees
    BY ConstantsAssumption DEF ConstantsAssumption
  <2> QED  BY <1>2, <1>5, <2>1 DEF PreregPayment
<1>6. ASSUME NEW a \in Attendees, Confirm(w, a)  PROVE  BilledInv'
  BY <1>2, <1>6 DEF Confirm
<1>7. ASSUME NEW i \in Intents, CancelPayment(w, i)  PROVE  BilledInv'
  <2> DEFINE k == [Idle EXCEPT !.stage = "cancel", !.drop = MatchingRows(i) \X {i}]
  <2>1. job' = [job EXCEPT ![w] = k] /\ k.stage = "cancel"
    BY <1>7 DEF CancelPayment, Idle
  <2> HIDE DEF k
  <2> QED  BY <1>7, <2>1, <1>0 DEF CancelPayment
<1>8. ASSUME NEW r \in Receipts, NEW i \in Intents, CancelReceiptTxn(w, r, i)  PROVE  BilledInv'
  <2> DEFINE k == IF stripe[i] = "succeeded"
                  THEN [Idle EXCEPT !.stage = "mark", !.todo = {i}]
                  ELSE [Idle EXCEPT !.stage = "cancel", !.why = "admin", !.drop = {<<r, i>>}]
  <2>1. job' = [job EXCEPT ![w] = k] /\ k.stage \in {"mark", "cancel"}
    BY <1>8 DEF CancelReceiptTxn, Idle
  <2> HIDE DEF k
  <2> QED  BY <1>8, <2>1, <1>0 DEF CancelReceiptTxn
<1>9. ASSUME NEW r \in Receipts, ProcessAttendeePayment(w, r)  PROVE  BilledInv'
  BY <1>9, PayBill
<1> QED  BY <1>3, <1>4, <1>5, <1>6, <1>7, <1>8, <1>9 DEF Start

(* Marking makes no row and no item.                                       *)
LEMMA MarkBill ==
  ASSUME IInv, BilledInv, NEW w \in Workers, MarkQuery(w) \/ MarkTxn(w) \/ MarkModel(w)
  PROVE  BilledInv'
<1> DEFINE j == job[w]
<1>1. j \in Jobs /\ TypeOK
  BY KnownJob DEF IInv
<1>2. ASSUME NEW k, job' = [job EXCEPT ![w] = k], k.stage \notin {"commit", "amend"},
             \A x \in Items : item'[x].state = "absent" <=> item[x].state = "absent",
             UNCHANGED <<receipt, amount, captured, stripe>>
      PROVE  BilledInv'
  <2>1. \A v \in Workers : job'[v] = job[v] \/ job'[v].stage \notin {"commit", "amend"}
    BY <1>1, <1>2 DEF TypeOK
  <2> QED  BY <1>2, <2>1, QuietBill
<1>3. \A old \in Jobs : \A i, rows, r : Load(old, i, rows, r).stage = "row"
  BY DEF Load, Jobs
<1>4. CASE MarkQuery(w)
  <2>1. PICK i \in j.todo :
          LET rest == [j EXCEPT !.todo = @ \ {i}] IN
          IF MatchingRows(i) = {}
          THEN job' = [job EXCEPT ![w] = IF rest.todo = {} THEN Resume(rest) ELSE rest]
          ELSE \E r \in MatchingRows(i) :
                 job' = [job EXCEPT ![w] = Load(rest, i, MatchingRows(i), r)]
    BY <1>4 DEF MarkQuery
  <2> DEFINE rest == [j EXCEPT !.todo = @ \ {i}]
  <2>2. rest \in Jobs /\ rest.stage = "mark" /\ UNCHANGED <<item, receipt, amount, captured, stripe>>
    BY <1>1, <1>4 DEF MarkQuery, Jobs, db, gateway
  <2>3. \/ job' = [job EXCEPT ![w] = Resume(rest)]
        \/ job' = [job EXCEPT ![w] = rest]
        \/ \E r \in MatchingRows(i) : job' = [job EXCEPT ![w] = Load(rest, i, MatchingRows(i), r)]
    BY <2>1
  <2> HIDE DEF rest
  <2>4. Resume(rest).stage \notin {"commit", "amend"}
    BY <2>2, ResumeJob
  <2> QED  BY <1>2, <1>3, <2>2, <2>3, <2>4
<1>5. CASE MarkTxn(w)
  <2>1. PICK k : k = [j EXCEPT !.stage = "model"]
    OBVIOUS
  <2>2. job' = [job EXCEPT ![w] = k] /\ k.stage = "model"
    BY <1>1, <1>5, <2>1 DEF MarkTxn, Jobs, TypeOK
  <2>3. UNCHANGED <<receipt, amount, captured, stripe>>
    BY <1>5 DEF MarkTxn, gateway
  <2>4. \A x \in Items : item'[x].state = "absent" <=> item[x].state = "absent"
    <3>1. item' = [x \in Items |->
                     IF ReceiptOf[x] \in j.loaded /\ item[x].txn = j.intent
                        /\ item[x].state # "absent"
                     THEN [item[x] EXCEPT !.state = "closed"] ELSE item[x]]
      BY <1>5 DEF MarkTxn
    <3> HIDE DEF j
    <3> QED  BY <1>1, <3>1 DEF TypeOK
  <2> QED  BY <1>2, <2>2, <2>3, <2>4
<1>6. CASE MarkModel(w)
  <2> DEFINE on == [j EXCEPT !.stage = "mark", !.loaded = {}, !.seen = FALSE]
  <2>1. /\ \/ \E r \in j.rows : job' = [job EXCEPT ![w] = Load(j, j.intent, j.rows, r)]
           \/ job' = [job EXCEPT ![w] = Resume(j)]
           \/ job' = [job EXCEPT ![w] = on]
        /\ UNCHANGED <<receipt, amount, captured, stripe>>
        /\ \E r \in j.loaded : item' = SettleItems(r)
    BY <1>6 DEF MarkModel, gateway
  <2>2. Resume(j).stage \notin {"commit", "amend"} /\ on.stage = "mark"
    BY <1>1, ResumeJob DEF Jobs
  <2>3. \A x \in Items : item'[x].state = "absent" <=> item[x].state = "absent"
    <3>1. PICK r \in j.loaded : item' = SettleItems(r)
      BY <2>1
    <3>2. ASSUME NEW x \in Items
          PROVE  \/ item'[x].state = item[x].state
                 \/ item'[x].state = "closed" /\ item[x].state = "open"
      <4>1. CASE CurrentReceiptAmount(r) # 0
        BY <3>1, <4>1 DEF SettleItems
      <4>2. CASE CurrentReceiptAmount(r) = 0
        <5>1. CASE x \in OpenItems(r)
          <6>1. item'[x].state = "closed"
            BY <3>1, <4>2, <5>1 DEF SettleItems
          <6>2. item[x].state = "open"
            BY <5>1 DEF OpenItems
          <6> QED  BY <6>1, <6>2
        <5>2. CASE x \notin OpenItems(r)
          BY <3>1, <4>2, <5>2 DEF SettleItems
        <5> QED  BY <5>1, <5>2
      <4> QED  BY <4>1, <4>2
    <3> QED  BY <3>2
  <2> HIDE DEF on
  <2> QED  BY <1>1, <1>2, <1>3, <2>1, <2>2, <2>3
<1> QED  BY <1>4, <1>5, <1>6

(* Nor does what ends a handler.                                           *)
LEMMA EndBill ==
  ASSUME IInv, BilledInv, NEW w \in Workers,
         ConfirmView(w) \/ ConfirmAmend(w) \/ HandlerError(w) \/ CancelCommit(w) \/ Crash(w)
  PROVE  BilledInv'
<1> DEFINE rs == UNION {ActiveReceipts(a) : a \in job[w].cart}
<1>1. OutOfDate(rs) = {} /\ Repriced(rs) = captured /\ CanReprice(rs)
  BY ActiveOfCart, NothingOutOfDate DEF BilledInv
<1>2. ~HandlerError(w)
  BY <1>1 DEF HandlerError
<1>3. ~ConfirmAmend(w)
  BY DEF ConfirmAmend, BilledInv, BillSound
<1>4. /\ job' = [job EXCEPT ![w] = Idle] /\ UNCHANGED <<receipt, amount, stripe>>
      /\ captured' = captured
  <2>1. CASE ConfirmView(w)
    BY <1>1, <2>1 DEF ConfirmView
  <2>2. CASE CancelCommit(w) \/ Crash(w)
    BY <2>2 DEF CancelCommit, Crash, db, gateway
  <2> QED  BY <1>2, <1>3, <2>1, <2>2
<1>5. \A x \in Items : item'[x].state = "absent" <=> item[x].state = "absent"
  <2>1. CASE ConfirmView(w) \/ Crash(w)
    BY <2>1 DEF ConfirmView, Crash, db
  <2>2. CASE CancelCommit(w)
    BY <2>2 DEF CancelCommit
  <2> QED  BY <1>2, <1>3, <2>1, <2>2
<1>6. \A v \in Workers : job'[v] = job[v] \/ job'[v].stage \notin {"commit", "amend"}
  BY <1>4, IdleJob DEF IInv, TypeOK
<1> QED  BY <1>4, <1>5, <1>6, QuietBill

(* Nor do customers and time, if nothing is bought later.                  *)
LEMMA EnvironmentBill ==
  ASSUME IInv, BilledInv, Environment, "upgrade" \notin Requests
  PROVE  BilledInv'
<1>1. ASSUME NEW i \in Intents, StripeSucceeds(i)  PROVE BilledInv'
  <2>1. /\ UNCHANGED <<item, receipt, amount, captured, job>>
        /\ stripe' = [stripe EXCEPT ![i] = "succeeded"] /\ \E r \in Receipts : RowExists(r, i)
    BY <1>1 DEF StripeSucceeds, db
  <2>2. \A n \in Intents : stripe'[n] = "succeeded" => stripe[n] = "succeeded" \/ n = i
    BY <2>1 DEF IInv, TypeOK
  <2> QED  BY <2>1, <2>2, QuietBill
<1>2. ASSUME NEW a \in Attendees, InvalidatePending(a)  PROVE BilledInv'
  <2>1. UNCHANGED <<item, receipt, amount, captured, stripe, job>>
    BY <1>2 DEF InvalidatePending, gateway
  <2> QED  BY <2>1, QuietBill
<1> QED  BY <1>1, <1>2 DEF Environment

(* Every step of the system keeps it.                                      *)
LEMMA BillKept ==
  ASSUME IInv, IntentsSound, BilledInv, [Next]_vars, "upgrade" \notin Requests
  PROVE  BilledInv'
<1>1. CASE UNCHANGED vars
  <2>1. UNCHANGED <<item, receipt, amount, captured, stripe, job>>
    BY <1>1 DEF vars, db, gateway
  <2> QED  BY <2>1, QuietBill
<1>2. CASE Environment
  BY <1>2, EnvironmentBill
<1>3. ASSUME NEW w \in Workers, Start(w)  PROVE BilledInv'
  BY <1>3, StartBill
<1>4. ASSUME NEW w \in Workers, Continue(w) \/ Crash(w)  PROVE BilledInv'
  BY <1>4, MarkBill, PreregBill, CommitBill, EndBill DEF Continue
<1> QED  BY <1>1, <1>2, <1>3, <1>4 DEF Next

(* As long as nobody buys more for a receipt that is there, the rows of an *)
(* intent that succeeded add up to what Stripe took: for carts of any size *)
(* on old and new receipts, whatever is cancelled, marked twice, paid from *)
(* several tabs or killed.                                                 *)
THEOREM RecordedIsCaptured ==
  ASSUME "upgrade" \notin Requests
  PROVE  Spec => []RecordedMatchesCaptured
<1>1. Init => BilledInv
  <2> SUFFICES ASSUME Init  PROVE BilledInv
    OBVIOUS
  <2>1. \A r \in Receipts, i \in Intents : amount[<<r, i>>] = 0
    <3> SUFFICES ASSUME NEW r \in Receipts, NEW i \in Intents  PROVE amount[<<r, i>>] = 0
      OBVIOUS
    <3>1. <<r, i>> \in Rows
      BY DEF Rows
    <3>2. amount = [row \in Rows |-> 0]
      BY DEF Init
    <3> QED  BY <3>1, <3>2
  <2>2. PricesSound
    BY <2>1 DEF Init, PricesSound
  <2>3. RowsAddUp
    <3>1. \A i \in Intents : stripe[i] # "succeeded"
      BY DEF Init
    <3>2. ASSUME NEW r \in Receipts, NEW i \in Intents  PROVE ~ (amount[<<r, i>>] > 0)
      <4>1. amount[<<r, i>>] = 0
        BY <2>1
      <4> QED  BY <4>1
    <3> QED  BY <3>1, <3>2, Zenon DEF RowsAddUp
  <2>4. \A w \in Workers : BillSound(job[w])
    BY IdleJob DEF Init, BillSound
  <2> QED  BY <2>2, <2>3, <2>4 DEF BilledInv
<1>2. IInv /\ IntentsSound /\ BilledInv /\ [Next]_vars => BilledInv'
  BY BillKept
<1>3. BilledInv => RecordedMatchesCaptured
  <2> SUFFICES ASSUME BilledInv, NEW i \in Intents, stripe[i] = "succeeded"
               PROVE  SumFunctionOnSet([r \in Receipts |-> amount[r, i]], Receipts) = captured[i]
    BY DEF RecordedMatchesCaptured
  <2>1. [r \in Receipts |-> amount[r, i]] = [r \in Receipts |-> amount[<<r, i>>]]
    BY RowName
  <2> QED  BY <2>1 DEF BilledInv, RowsAddUp, RowTotal
<1>4. Init => IntentsSound
  BY InitPromise
<1>5. IInv /\ IntentsSound /\ [Next]_vars => IntentsSound'
  BY PromiseStep
<1> QED  BY <1>1, <1>2, <1>3, <1>4, <1>5, InductiveInvariant, PTL DEF Spec
===============================================================================
