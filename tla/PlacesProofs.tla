---------------------------- MODULE PlacesProofs ----------------------------
(***************************************************************************)
(* Proofs about the two parts that give out a limited number of places,    *)
(* which share nothing but that: the sign-ups for attractions, and the     *)
(* hotel lottery.                                                          *)
(*                                                                         *)
(* Attractions, for any number of attendees, events, rows and handlers:    *)
(* its variables keep their types, cancellations let in whoever waited     *)
(* longest, and what a handler read that no commit has overtaken is still  *)
(* true (FreshIsTrue), so it neither overbooks nor lets a place go to      *)
(* waste.                                                                  *)
(*                                                                         *)
(* The hotel lottery, for every number of entrants and of rooms, and any   *)
(* number of requests and lotteries.  Its inductive invariant LotteryInv   *)
(* adds to the properties which types of lodging go with being in a group  *)
(* and with an award, and that a lottery that is not stale will write what *)
(* it could solve for today.                                               *)
(***************************************************************************)
EXTENDS Attractions, HotelLottery, FiniteSetTheorems, WellFoundedInduction, TLAPS

(* A handler that does nothing.                                            *)
LEMMA IdleType == Idle \in Jobs
  BY DEF Idle, Jobs, Ops

(* Two jobs that differ only in when their data was read.                  *)
SameWork(k, j) ==
  /\ k.op = j.op /\ k.next = j.next /\ k.row = j.row
  /\ k.who = j.who /\ k.event = j.event

(* Handlers that read older data are handlers.                             *)
LEMMA OutdatedType ==
  ASSUME job \in [Workers -> Jobs], NEW w
  PROVE  /\ Outdated(job, w) \in [Workers -> Jobs]
         /\ \A v \in Workers : SameWork(Outdated(job, w)[v], job[v])
<1>1. \A v \in Workers : [job[v] EXCEPT !.fresh = FALSE] \in Jobs
  BY DEF Jobs
<1>2. \A v \in Workers : SameWork([job[v] EXCEPT !.fresh = FALSE], job[v])
  BY DEF Jobs, SameWork
<1>3. \A v \in Workers : SameWork(job[v], job[v])
  BY DEF SameWork
<1> QED
  BY <1>1, <1>2, <1>3 DEF Outdated

(* First returns members of its set, and at most one.                      *)
LEMMA FirstFacts ==
  ASSUME NEW S \in SUBSET Ids
  PROVE  /\ First(S) \subseteq S
         /\ \A s, t \in First(S) : s = t
         /\ \A s \in First(S), t \in S : s <= t
  BY DEF First, Ids

(* A handler that begins knows of nobody to let in, unless the staff let   *)
(* someone in.                                                             *)
Begins(w) ==
  /\ \E j \in Jobs : /\ job' = [job EXCEPT ![w] = j]
                     /\ j.op = "cancel" => j.next = {}
                     /\ j.row \cup j.next \subseteq Live
                     /\ j.who # Nobody => j.event \in Events
  /\ UNCHANGED <<rows, told, noticed, notified, inbox, lastText, crashed>>
  /\ queued' \subseteq Ids

LEMMA StartBegins ==
  ASSUME TypeOK, NEW w \in Workers, Start(w)
  PROVE  Begins(w)
<1>1. /\ Idle \in Jobs
      /\ Idle.row = {} /\ Idle.next = {} /\ Idle.who = Nobody
  BY IdleType DEF Idle
<1>2. ASSUME NEW a \in Attendees, NEW e \in Events, SignupForEvent(w, a, e)
      PROVE  Begins(w)
  <2> DEFINE j == [Idle EXCEPT !.op = "signup", !.who = a, !.event = e, !.wait = SoldOut(e)]
  <2>1. SoldOut(e) \in BOOLEAN
    BY DEF SoldOut
  <2>2. j \in Jobs /\ j.op # "cancel" /\ j.row = {} /\ j.next = {} /\ j.event = e
    BY <1>1, <2>1 DEF Jobs, Ops
  <2> QED
    BY <1>2, <2>2 DEF SignupForEvent, Begin, Begins, TypeOK, messages
<1>3. ASSUME NEW a \in Attendees, NEW e \in Events, SignUp(w, a, e)
      PROVE  Begins(w)
  <2> DEFINE j == [Idle EXCEPT !.op = "staff", !.who = a, !.event = e]
  <2>1. j \in Jobs /\ j.op # "cancel" /\ j.row = {} /\ j.next = {} /\ j.event = e
    BY <1>1 DEF Jobs, Ops
  <2> QED
    BY <1>3, <2>1 DEF SignUp, Begin, Begins, TypeOK, messages
<1>4. ASSUME NEW s \in Ids, CancelSignup(w, s)
      PROVE  Begins(w)
  <2> DEFINE j == [Idle EXCEPT !.op = IF state[s] = "waiting" THEN "cancel" ELSE "leave",
                               !.row = {s}]
  <2>1. j \in Jobs /\ j.next = {} /\ j.row = {s} /\ j.who = Nobody
    BY <1>1 DEF Jobs, Ops
  <2> QED
    BY <1>4, <2>1 DEF CancelSignup, Begin, Begins, TypeOK, messages
<1>5. ASSUME NEW s \in Ids, PullFromWaitlist(w, s)
      PROVE  Begins(w)
  <2> DEFINE j == [Idle EXCEPT !.op = "pull",
                               !.next = {s} \cap {t \in Ids : state[t] = "waiting"}]
  <2>1. j \in Jobs /\ j.op # "cancel" /\ j.row = {} /\ j.next \subseteq {s} /\ j.who = Nobody
    BY <1>1 DEF Jobs, Ops
  <2> QED
    BY <1>5, <2>1 DEF PullFromWaitlist, Begins, TypeOK
<1>6. ASSUME NEW s \in Ids, CheckinSignup(w, s) \/ UndoCheckinSignup(w, s)
      PROVE  Begins(w)
  <2> DEFINE j(op) == [Idle EXCEPT !.op = op, !.row = {s}]
  <2>1. \A op \in {"checkin", "undo"} :
          /\ j(op) \in Jobs /\ j(op).op # "cancel"
          /\ j(op).row = {s} /\ j(op).next = {} /\ j(op).who = Nobody
    BY <1>1 DEF Jobs, Ops
  <2>2. s \in Live /\ \E op \in {"checkin", "undo"} : Begin(w, j(op))
    BY <1>6 DEF CheckinSignup, UndoCheckinSignup
  <2> HIDE DEF j
  <2> QED
    BY <2>1, <2>2 DEF Begin, Begins, TypeOK, messages
<1> QED
  BY <1>2, <1>3, <1>4, <1>5, <1>6 DEF Start

(* Another handler that ends, and one that goes on to let in the next.     *)
LEMMA LetInType ==
  ASSUME TypeOK, NEW w \in Workers, AddNextWaitlist(w)
  PROVE  \E e \in Events \cup {NoEvent} :
           /\ job' = [job EXCEPT ![w].op = "cancel", ![w].next = First(Waiting(e))]
           /\ queued' = queued \cup First(Waiting(e))
           /\ First(Waiting(e)) \in SUBSET Ids
           /\ job' \in [Workers -> Jobs]
<1>1. PICK s \in job[w].row :
        /\ job' = [job EXCEPT ![w].op = "cancel", ![w].next = First(Waiting(event[s]))]
        /\ queued' = queued \cup First(Waiting(event[s]))
  BY DEF AddNextWaitlist
<1>2. s \in Ids
  BY DEF TypeOK, Jobs
<1>3. First(Waiting(event[s])) \in SUBSET Ids
  BY DEF First, Waiting
<1>4. [job[w] EXCEPT !.op = "cancel", !.next = First(Waiting(event[s]))] \in Jobs
  BY <1>3 DEF TypeOK, Jobs, Ops
<1> QED
  BY <1>1, <1>2, <1>3, <1>4 DEF TypeOK

-----------------------------------------------------------------------------
(* A row that was made has an attendee and an event, and so has a row that *)
(* is about to be: without that the record of a notice has no type.  The   *)
(* rows that handlers hold were made.                                      *)
Owned ==
  /\ \A s \in Ids : state[s] # "none" => who[s] \in Attendees /\ event[s] \in Events
  /\ \A w \in Workers : job[w].who # Nobody => job[w].event \in Events
  /\ \A w \in Workers : \A s \in job[w].row \cup job[w].next : state[s] # "none"

(* Each variable keeps its type in every step.                             *)
LEMMA StepType == TypeOK /\ Owned /\ [Next]_vars => TypeOK'
<1> SUFFICES ASSUME TypeOK, Owned, [Next]_vars PROVE TypeOK'
  OBVIOUS
<1>1. ASSUME NEW w \in Workers, Start(w) PROVE TypeOK'
  BY <1>1, StartBegins DEF Begins, TypeOK, rows
<1>2. ASSUME NEW w \in Workers, AddNextWaitlist(w) PROVE TypeOK'
  BY <1>2, LetInType DEF AddNextWaitlist, TypeOK, rows
<1>3. ASSUME NEW w \in Workers, Commit(w) PROVE TypeOK'
  <2>1. job[w] \in Jobs
    BY DEF TypeOK
  <2>2. /\ state' \in [Ids -> {"none", "in", "waiting", "gone"}]
        /\ who' \in [Ids -> Attendees \cup {Nobody}]
        /\ event' \in [Ids -> Events \cup {NoEvent}]
        /\ checkedIn' \subseteq Ids
    <3>1. \A s \in Ids : StateAfter(job[w], s) \in {"none", "in", "waiting", "gone"}
      BY <2>1 DEF StateAfter, TypeOK
    <3>2. job[w].who \in Attendees \cup {Nobody} /\ job[w].event \in Events \cup {NoEvent}
      BY <2>1 DEF Jobs
    <3>3. job[w].row \subseteq Ids
      BY <2>1 DEF Jobs
    <3>4. CASE Commits(job[w])
      <4>1. /\ state' = [s \in Ids |-> StateAfter(job[w], s)]
            /\ who' = [s \in Ids |-> IF s \in Added(job[w]) THEN job[w].who ELSE who[s]]
            /\ event' = [s \in Ids |-> IF s \in Added(job[w]) THEN job[w].event ELSE event[s]]
            /\ checkedIn' \subseteq checkedIn \cup job[w].row
        BY <1>3, <3>4 DEF Commit
      <4> QED
        BY <3>1, <3>2, <3>3, <4>1 DEF TypeOK
    <3>5. CASE ~ Commits(job[w])
      BY <1>3, <3>5 DEF Commit, TypeOK
    <3> QED
      BY <3>4, <3>5
  <2>3. job' \in [Workers -> Jobs]
    <3>1. Outdated(job, w) \in [Workers -> Jobs]
      BY OutdatedType DEF TypeOK
    <3>2. \/ job' = [Outdated(job, w) EXCEPT ![w] = Idle]
          \/ job' = [job EXCEPT ![w] = Idle]
      BY <1>3 DEF Commit
    <3> QED
      BY <3>1, <3>2, IdleType DEF TypeOK
  <2> QED
    BY <1>3, <2>2, <2>3 DEF Commit, TypeOK, messages
<1>4. ASSUME NEW w \in Workers, Crash(w) PROVE TypeOK'
  BY <1>4, IdleType DEF Crash, TypeOK, rows, messages
<1>5. ASSUME NEW s \in Ids, SendWaitlistNotification(s) PROVE TypeOK'
  <2>1. UNCHANGED <<rows, noticed, job, crashed>> /\ queued' \subseteq Ids /\ told' \subseteq Ids
    BY <1>5 DEF SendWaitlistNotification, TypeOK
  <2>2. event[s] \in Events \cup {NoEvent}
    BY DEF TypeOK
  <2>3. notified' \subseteq Attendees
    BY <1>5, AttractionConstants DEF SendWaitlistNotification, TypeOK
  <2>4. \/ inbox' = inbox /\ lastText' = lastText
        \/ /\ inbox' = [inbox EXCEPT ![who[s]] = event[s]]
           /\ lastText' = [lastText EXCEPT ![who[s]] = event[s]]
    BY <1>5 DEF SendWaitlistNotification
  <2>5. /\ inbox' \in [Attendees -> Events \cup {NoEvent}]
        /\ lastText' \in [Attendees -> Events \cup {NoEvent}]
    BY <2>2, <2>4 DEF TypeOK
  <2> QED
    BY <2>1, <2>3, <2>5 DEF TypeOK, rows
<1>6. ASSUME NEW s \in Ids, SendNotice(s) PROVE TypeOK'
  BY <1>6 DEF SendNotice, Owned, Live, TypeOK, rows
<1>7. ASSUME NEW a \in Attendees, CheckReply(a) PROVE TypeOK'
  <2>1. job' \in [Workers -> Jobs]
    BY <1>7, OutdatedType DEF CheckReply, TypeOK
  <2> QED
    BY <1>7, <2>1 DEF CheckReply, TypeOK
<1>8. ASSUME NEW e \in Events, NEW n \in 0 .. MaxSlots, ChangeSlots(e, n) PROVE TypeOK'
  <2>1. job' \in [Workers -> Jobs]
    BY <1>8, OutdatedType DEF ChangeSlots, TypeOK
  <2> QED
    BY <1>8, <2>1 DEF ChangeSlots, TypeOK, messages
<1>9. CASE UNCHANGED vars
  BY <1>9 DEF TypeOK, vars, rows, messages
<1> QED
  BY <1>1, <1>2, <1>3, <1>4, <1>5, <1>6, <1>7, <1>8, <1>9 DEF Next, Continue, Tasks

(* What a step does to the rows: one may be made, the first unused one.    *)
RowsMove ==
  /\ \A s \in Ids : \/ state[s] = "none" /\ state'[s] = "none"
                    \/ state[s] # "none" /\ state'[s] # "none"
                    \/ s \in First(Unused) /\ state'[s] # "none"
  /\ \A s \in Ids : state[s] # "none" => event'[s] = event[s] /\ who'[s] = who[s]
  /\ \A s \in Ids : state[s] = "none" /\ state'[s] # "none" =>
                      who'[s] \in Attendees /\ event'[s] \in Events
  /\ \A s \in Ids : state'[s] = "waiting" => state[s] = "waiting" \/ s \in First(Unused)

LEMMA StepRows == TypeOK /\ Owned /\ [Next]_vars => RowsMove
<1> SUFFICES ASSUME TypeOK, Owned, [Next]_vars PROVE RowsMove
  OBVIOUS
<1>1. ASSUME UNCHANGED <<state, who, event>> PROVE RowsMove
  BY <1>1 DEF RowsMove, TypeOK
<1>2. ASSUME NEW w \in Workers, Start(w) PROVE RowsMove
  BY <1>1, <1>2, StartBegins DEF Begins, rows
<1>3. ASSUME NEW w \in Workers, Commit(w), Commits(job[w]) PROVE RowsMove
  <2>1. /\ state' = [s \in Ids |-> StateAfter(job[w], s)]
        /\ who' = [s \in Ids |-> IF s \in Added(job[w]) THEN job[w].who ELSE who[s]]
        /\ event' = [s \in Ids |-> IF s \in Added(job[w]) THEN job[w].event ELSE event[s]]
    BY <1>3 DEF Commit
  <2>2. Added(job[w]) \subseteq First(Unused)
    BY DEF Added
  <2>3. \A s \in First(Unused) : state[s] = "none"
    BY DEF First, Unused
  <2>4. \A s \in Deleted(job[w]) \cup job[w].next : state[s] # "none"
    BY DEF Deleted, Owned
  <2> HIDE DEF Unused, First
  <2>5. ASSUME NEW s \in Ids PROVE
          /\ \/ state[s] = "none" /\ StateAfter(job[w], s) = "none"
             \/ state[s] # "none" /\ StateAfter(job[w], s) # "none"
             \/ s \in First(Unused) /\ StateAfter(job[w], s) # "none"
          /\ StateAfter(job[w], s) = "waiting" => state[s] = "waiting" \/ s \in First(Unused)
    BY <2>2, <2>4 DEF StateAfter
  <2>6. \A s \in Added(job[w]) : job[w].who \in Attendees /\ job[w].event \in Events
    BY DEF Added, Owned, TypeOK, Jobs
  <2>7. \A s \in Ids : state[s] = "none" /\ StateAfter(job[w], s) # "none" => s \in Added(job[w])
    BY <2>4 DEF StateAfter
  <2> QED
    BY <2>1, <2>2, <2>3, <2>5, <2>6, <2>7 DEF RowsMove, TypeOK
<1>4. ASSUME NEW a \in Attendees, CheckReply(a) PROVE RowsMove
  BY <1>4 DEF CheckReply, RowsMove, SignupOf, Live, TypeOK
<1> QED
  BY <1>1, <1>2, <1>3, <1>4 DEF Next, Continue, Tasks, Commit, AddNextWaitlist, Crash,
     SendWaitlistNotification, SendNotice, ChangeSlots, vars, rows


(* A handler that cancels lets in the first that waits for the event.  New *)
(* rows come after those there are, so none gets in between.               *)
UnusedLast == \A s, t \in Ids : state[s] = "none" /\ s <= t => state[t] = "none"

NextIsFirst ==
  \A w \in Workers : job[w].op = "cancel" =>
    \A s \in job[w].next, t \in Ids :
      state[t] = "waiting" /\ event[t] = event[s] => s <= t

IInv == TypeOK /\ Owned /\ UnusedLast /\ NextIsFirst

LEMMA InitIInv == Init => IInv
<1> SUFFICES ASSUME Init PROVE IInv
  OBVIOUS
<1>1. /\ Idle \in Jobs /\ Idle.op = "none" /\ Idle.who = Nobody
      /\ Idle.row = {} /\ Idle.next = {}
  BY IdleType DEF Idle
<1>2. /\ slots \in [Events -> 0 .. MaxSlots]
      /\ state \in [Ids -> {"none", "in", "waiting", "gone"}]
      /\ who \in [Ids -> Attendees \cup {Nobody}]
      /\ event \in [Ids -> Events \cup {NoEvent}]
      /\ job \in [Workers -> Jobs]
  BY <1>1, AttractionConstants DEF Init
<1>3. /\ inbox \in [Attendees -> Events \cup {NoEvent}]
      /\ lastText \in [Attendees -> Events \cup {NoEvent}]
  BY DEF Init
<1>4. TypeOK
  BY <1>2, <1>3 DEF Init, TypeOK
<1>5. \A s \in Ids : state[s] = "none"
  BY DEF Init
<1>6. \A w \in Workers : job[w] = Idle
  BY DEF Init
<1> QED
  BY <1>1, <1>4, <1>5, <1>6 DEF IInv, Owned, UnusedLast, NextIsFirst

(* What a step does to the jobs: each goes on, is over, begins, or is the  *)
(* one that looks for the next to let in.                                  *)
JobsMove ==
  \A v \in Workers :
    \/ SameWork(job'[v], job[v])
    \/ job'[v] = Idle
    \/ /\ job'[v].op = "cancel" => job'[v].next = {}
       /\ job'[v].row \cup job'[v].next \subseteq Live
       /\ job'[v].who # Nobody => job'[v].event \in Events
    \/ \E e \in Events \cup {NoEvent} :
         /\ job'[v].row = job[v].row /\ job'[v].who = job[v].who /\ job'[v].event = job[v].event
         /\ job'[v].next = First(Waiting(e))
         /\ UNCHANGED <<state, event>>

LEMMA StepJobs == TypeOK /\ [Next]_vars => JobsMove
<1> SUFFICES ASSUME TypeOK, [Next]_vars PROVE JobsMove
  OBVIOUS
<1>1. ASSUME UNCHANGED job PROVE JobsMove
  BY <1>1 DEF JobsMove, SameWork
<1>2. ASSUME NEW w \in Workers, Start(w) PROVE JobsMove
  <2>1. PICK j \in Jobs : /\ job' = [job EXCEPT ![w] = j]
                          /\ j.op = "cancel" => j.next = {}
                          /\ j.row \cup j.next \subseteq Live
                          /\ j.who # Nobody => j.event \in Events
    BY <1>2, StartBegins DEF Begins
  <2> QED
    BY <2>1 DEF JobsMove, SameWork, TypeOK
<1>3. ASSUME NEW w \in Workers, AddNextWaitlist(w) PROVE JobsMove
  <2>1. PICK e \in Events \cup {NoEvent} :
          /\ job' = [job EXCEPT ![w].op = "cancel", ![w].next = First(Waiting(e))]
    BY <1>3, LetInType
  <2>2. UNCHANGED <<state, event>>
    BY <1>3 DEF AddNextWaitlist, rows
  <2> HIDE DEF First, Waiting
  <2>3. job[w] \in Jobs /\ job \in [Workers -> Jobs]
    BY DEF TypeOK
  <2>4. /\ job'[w].row = job[w].row /\ job'[w].who = job[w].who /\ job'[w].event = job[w].event
        /\ job'[w].next = First(Waiting(e))
        /\ \A v \in Workers \ {w} : job'[v] = job[v]
    BY <2>1, <2>3 DEF Jobs
  <2> QED
    BY <2>2, <2>4 DEF JobsMove, SameWork
<1>4. ASSUME NEW w, \/ job' = [Outdated(job, w) EXCEPT ![w] = Idle]
                    \/ job' = [job EXCEPT ![w] = Idle]
                    \/ job' = Outdated(job, w)
      PROVE JobsMove
  <2>1. /\ Outdated(job, w) \in [Workers -> Jobs]
        /\ \A v \in Workers : SameWork(Outdated(job, w)[v], job[v])
    BY OutdatedType DEF TypeOK
  <2>2. \A v \in Workers : SameWork(job[v], job[v])
    BY DEF SameWork
  <2> HIDE DEF SameWork
  <2> QED
    BY <1>4, <2>1, <2>2 DEF JobsMove, TypeOK
<1> QED
  BY <1>1, <1>2, <1>3, <1>4 DEF Next, Continue, Tasks, Commit, Crash,
     SendWaitlistNotification, SendNotice, CheckReply, ChangeSlots, vars

LEMMA StepOwned == TypeOK /\ Owned /\ [Next]_vars => Owned'
<1> SUFFICES ASSUME TypeOK, Owned, [Next]_vars PROVE Owned'
  OBVIOUS
<1>1. RowsMove /\ JobsMove
  BY StepRows, StepJobs
<1>2. \A v \in Workers : job'[v].who # Nobody => job'[v].event \in Events
  BY <1>1 DEF JobsMove, SameWork, Idle, Owned
<1>3. ASSUME NEW v \in Workers, NEW s \in job'[v].row \cup job'[v].next
      PROVE  state'[s] # "none"
  <2>1. \A e : First(Waiting(e)) \subseteq Live
    BY DEF First, Waiting, Live
  <2>2. job[v].row \cup job[v].next \subseteq Ids
    BY DEF TypeOK, Jobs
  <2>3. Live \subseteq Ids /\ \A q \in Live : state[q] # "none"
    BY DEF Live
  <2>4. Idle.row = {} /\ Idle.next = {}
    BY DEF Idle
  <2>5. s \in Ids /\ state[s] # "none"
    BY <1>1, <1>3, <2>1, <2>2, <2>3, <2>4 DEF JobsMove, SameWork, Owned
  <2> QED
    BY <1>1, <2>5 DEF RowsMove
<1>4. \A s \in Ids : state'[s] # "none" => who'[s] \in Attendees /\ event'[s] \in Events
  BY <1>1 DEF RowsMove, Owned
<1> QED
  BY <1>2, <1>3, <1>4 DEF Owned

LEMMA StepFirst == IInv /\ [Next]_vars => UnusedLast' /\ NextIsFirst'
<1> SUFFICES ASSUME IInv, [Next]_vars PROVE UnusedLast' /\ NextIsFirst'
  OBVIOUS
<1>1. RowsMove /\ JobsMove
  BY StepRows, StepJobs DEF IInv
<1>2. UnusedLast'
  <2> SUFFICES ASSUME NEW s \in Ids, NEW t \in Ids, state'[s] = "none", s <= t
               PROVE  state'[t] = "none"
    BY DEF UnusedLast
  <2>1. state[s] = "none" /\ state[t] = "none"
    BY <1>1 DEF RowsMove, IInv, UnusedLast
  <2>2. t \in First(Unused) => t = s
    BY <2>1 DEF First, Unused, Ids
  <2> QED
    BY <1>1, <2>1, <2>2 DEF RowsMove
<1>3. NextIsFirst'
  <2> SUFFICES ASSUME NEW v \in Workers, job'[v].op = "cancel",
                      NEW s \in job'[v].next, NEW t \in Ids,
                      state'[t] = "waiting", event'[t] = event'[s]
               PROVE  s <= t
    BY DEF NextIsFirst
  <2>1. CASE SameWork(job'[v], job[v])
    <3>1. /\ job[v].op = "cancel" /\ s \in job[v].next /\ s \in Ids
          /\ state[s] # "none" /\ event'[s] = event[s]
      BY <1>1, <2>1 DEF SameWork, IInv, TypeOK, Jobs, Owned, RowsMove
    <3>2. CASE state[t] = "waiting"
      BY <1>1, <3>1, <3>2 DEF RowsMove, IInv, NextIsFirst
    <3>3. CASE t \in First(Unused)
      <4>1. state[t] = "none"
        BY <3>3 DEF First, Unused
      <4> QED
        BY <3>1, <4>1 DEF IInv, UnusedLast, Ids
    <3> QED
      BY <1>1, <3>2, <3>3 DEF RowsMove
  <2>2. ASSUME NEW e, job'[v].next = First(Waiting(e)), UNCHANGED <<state, event>>
        PROVE  s <= t
    BY <2>2 DEF First, Waiting
  <2> QED
    BY <1>1, <2>1, <2>2 DEF JobsMove, Idle
<1> QED
  BY <1>2, <1>3

(* The inductive invariant holds of every reachable state.                 *)
LEMMA Inductive == Spec => []IInv
<1>1. IInv /\ [Next]_vars => IInv'
  BY StepType, StepOwned, StepFirst DEF IInv
<1> QED
  BY <1>1, InitIInv, PTL DEF Spec

(* The variables keep their types, for any constants.                      *)
THEOREM AttractionTypeCorrect == Spec => []TypeOK
<1>1. IInv => TypeOK
  BY DEF IInv
<1> QED
  BY <1>1, Inductive, PTL

-----------------------------------------------------------------------------
(* Only a commit lets anyone in, and of those it was going to.             *)
LEMMA LetInByCommit ==
  ASSUME TypeOK, [Next]_vars, NEW s \in Ids, state[s] = "waiting", state'[s] = "in"
  PROVE  \E v \in Workers : /\ s \in job[v].next
                            /\ \A u \in Workers \ {v} : job'[u].op = job[u].op
<1>1. state' # state
  OBVIOUS
<1>2. ASSUME NEW w \in Workers, Start(w) PROVE FALSE
  BY <1>1, <1>2, StartBegins DEF Begins, rows
<1>3. ASSUME NEW a \in Attendees, CheckReply(a) PROVE FALSE
  BY <1>3 DEF CheckReply, TypeOK
<1>4. PICK v \in Workers : Commit(v)
  BY <1>1, <1>2, <1>3 DEF Next, Continue, Tasks, AddNextWaitlist, Crash,
     SendWaitlistNotification, SendNotice, ChangeSlots, vars, rows
<1>5. /\ state' = [q \in Ids |-> StateAfter(job[v], q)]
      /\ job' = [Outdated(job, v) EXCEPT ![v] = Idle]
  BY <1>1, <1>4 DEF Commit
<1>6. s \notin Added(job[v])
  BY DEF Added, First, Unused
<1>7. s \in job[v].next
  BY <1>5, <1>6 DEF StateAfter
<1>8. \A u \in Workers \ {v} : job'[u].op = job[u].op
  BY <1>5, OutdatedType DEF TypeOK, SameWork
<1> QED
  BY <1>7, <1>8

LEMMA StepInOrder ==
  IInv /\ [Next]_vars =>
    \A w \in Workers, s \in Ids :
      Ends(w, "cancel") /\ state[s] = "waiting" /\ state'[s] = "in" =>
        \A t \in Waiting(event[s]) : s <= t
<1> SUFFICES ASSUME IInv, [Next]_vars, NEW w \in Workers, NEW s \in Ids,
                    Ends(w, "cancel"), state[s] = "waiting", state'[s] = "in",
                    NEW t \in Waiting(event[s])
             PROVE  s <= t
  OBVIOUS
<1>1. PICK v \in Workers : /\ s \in job[v].next
                           /\ \A u \in Workers \ {v} : job'[u].op = job[u].op
  BY LetInByCommit DEF IInv
<1>2. v = w
  BY <1>1 DEF Ends
<1> QED
  BY <1>1, <1>2 DEF IInv, NextIsFirst, Ends, Waiting

(* Whoever is let in by a cancellation has waited longest, however many    *)
(* handlers run at once: add_next_waitlist takes the first by signup_time, *)
(* and rows made before the commit come later.                             *)
THEOREM CancellationsKeepOrder == Spec => LetInInOrder
<1>1. IInv /\ [Next]_vars =>
        [\A w \in Workers, s \in Ids :
           Ends(w, "cancel") /\ state[s] = "waiting" /\ state'[s] = "in" =>
             \A t \in Waiting(event[s]) : s <= t]_vars
  BY StepInOrder
<1> QED
  BY <1>1, Inductive, PTL DEF Spec, LetInInOrder

-----------------------------------------------------------------------------
(* What a handler read is true until something else is committed.          *)

(* A sign-up that is about to be made.                                     *)
SignupRead(j) ==
  /\ j.row = {} /\ j.next = {} /\ j.who \in Attendees /\ j.event \in Events
  /\ SignupOf(j.who, j.event) = {}
  /\ Allowed(j.who, j.event)
  /\ j.wait <=> SoldOut(j.event)

(* A row that is about to be deleted, and whom the handler lets in.        *)
CancelRead(j) ==
  /\ j.who = Nobody
  /\ \E s \in Live :
       /\ j.row = {s}
       /\ j.op = "leave" => state[s] = "in" /\ j.next = {}
       /\ j.op = "cancel" =>
            j.next = IF state[s] = "in" THEN First(Waiting(event[s])) ELSE {}

(* What it read of either kind.                                            *)
ReadTrue(j) ==
  /\ j.op = "signup" => SignupRead(j)
  /\ j.op \in {"leave", "cancel"} => CancelRead(j)

(* What no commit has overtaken still is as it was read.                   *)
FreshIsTrue == \A w \in Workers : job[w].fresh => ReadTrue(job[w])

(* It stays true while no row and no number of slots changes.              *)
LEMMA ReadStays ==
  ASSUME UNCHANGED <<slots, state, who, event>>, NEW j
  PROVE  ReadTrue(j)' <=> ReadTrue(j)
<1>1. /\ \A a, e : SignupOf(a, e)' = SignupOf(a, e)
      /\ \A e : SignedUp(e)' = SignedUp(e)
      /\ \A e : Waiting(e)' = Waiting(e)
      /\ Live' = Live
  BY DEF SignupOf, SignedUp, Waiting, Live
<1>2. \A a, e : Allowed(a, e)' <=> Allowed(a, e)
  BY <1>1 DEF Allowed
<1>3. \A e : SoldOut(e)' <=> SoldOut(e)
  BY <1>1 DEF SoldOut
<1>4. SignupRead(j)' <=> SignupRead(j)
  BY <1>1, <1>2, <1>3, Zenon DEF SignupRead
<1>5. CancelRead(j)' <=> CancelRead(j)
  BY <1>1, Zenon DEF CancelRead
<1> QED  BY <1>4, <1>5, Zenon DEF ReadTrue

(* A handler that begins has just read it.                                 *)
LEMMA StartReads ==
  ASSUME TypeOK, NEW w \in Workers, Start(w)
  PROVE  \E j : ReadTrue(j) /\ job' = [job EXCEPT ![w] = j]
<1>1. /\ Idle \in Jobs /\ Idle.op = "none"
      /\ Idle.row = {} /\ Idle.next = {} /\ Idle.who = Nobody
  BY IdleType DEF Idle
<1>2. ASSUME NEW a \in Attendees, NEW e \in Events, SignupForEvent(w, a, e)
      PROVE  \E j : ReadTrue(j) /\ job' = [job EXCEPT ![w] = j]
  <2>1. PICK j : j = [Idle EXCEPT !.op = "signup", !.who = a, !.event = e, !.wait = SoldOut(e)]
    OBVIOUS
  <2>2. /\ j.op = "signup" /\ j.row = {} /\ j.next = {}
        /\ j.who = a /\ j.event = e /\ j.wait = SoldOut(e)
    BY <1>1, <2>1 DEF Jobs
  <2>3. SignupOf(a, e) = {} /\ Allowed(a, e)
    BY <1>2 DEF SignupForEvent
  <2>4. SignupRead(j)
    BY <2>2, <2>3, Zenon DEF SignupRead
  <2>5. ReadTrue(j)
    BY <2>2, <2>4 DEF ReadTrue
  <2> QED  BY <1>2, <2>1, <2>5 DEF SignupForEvent, Begin
<1>3. ASSUME NEW s \in Ids, CancelSignup(w, s)
      PROVE  \E j : ReadTrue(j) /\ job' = [job EXCEPT ![w] = j]
  <2>1. PICK j : j = [Idle EXCEPT !.op = IF state[s] = "waiting" THEN "cancel" ELSE "leave",
                                  !.row = {s}]
    OBVIOUS
  <2>2. /\ j.op = IF state[s] = "waiting" THEN "cancel" ELSE "leave"
        /\ j.row = {s} /\ j.next = {} /\ j.who = Nobody
    BY <1>1, <2>1 DEF Jobs
  <2>3. s \in Live /\ state[s] \in {"in", "waiting"}
    BY <1>3 DEF CancelSignup, Live
  <2>4. ReadTrue(j)
    BY <2>2, <2>3 DEF ReadTrue, CancelRead
  <2> QED  BY <1>3, <2>1, <2>4 DEF CancelSignup, Begin
<1>4. ASSUME NEW j \in Jobs, j.op \in {"staff", "pull", "checkin", "undo"}
      PROVE  ReadTrue(j)
  BY <1>4 DEF ReadTrue
<1>5. ASSUME NEW a \in Attendees, NEW e \in Events, SignUp(w, a, e)
      PROVE  \E j : ReadTrue(j) /\ job' = [job EXCEPT ![w] = j]
  <2> DEFINE j == [Idle EXCEPT !.op = "staff", !.who = a, !.event = e]
  <2>1. j \in Jobs /\ j.op = "staff"
    BY <1>1 DEF Jobs, Ops
  <2> HIDE DEF j
  <2>2. ReadTrue(j)
    BY <1>4, <2>1
  <2> QED  BY <1>5, <2>2 DEF SignUp, Begin, j
<1>6. ASSUME NEW s \in Ids, PullFromWaitlist(w, s)
      PROVE  \E j : ReadTrue(j) /\ job' = [job EXCEPT ![w] = j]
  <2> DEFINE j == [Idle EXCEPT !.op = "pull", !.next = {s} \cap {t \in Ids : state[t] = "waiting"}]
  <2>1. j \in Jobs /\ j.op = "pull"
    BY <1>1 DEF Jobs, Ops
  <2> HIDE DEF j
  <2>2. ReadTrue(j)
    BY <1>4, <2>1
  <2> QED  BY <1>6, <2>2 DEF PullFromWaitlist, j
<1>7. ASSUME NEW s \in Ids, CheckinSignup(w, s) \/ UndoCheckinSignup(w, s)
      PROVE  \E j : ReadTrue(j) /\ job' = [job EXCEPT ![w] = j]
  <2> DEFINE j(op) == [Idle EXCEPT !.op = op, !.row = {s}]
  <2>1. \A op \in {"checkin", "undo"} : j(op) \in Jobs /\ j(op).op = op
    BY <1>1 DEF Jobs, Ops
  <2>2. \E op \in {"checkin", "undo"} : Begin(w, j(op))
    BY <1>7 DEF CheckinSignup, UndoCheckinSignup
  <2> HIDE DEF j
  <2>3. \A op \in {"checkin", "undo"} : ReadTrue(j(op))
    BY <1>4, <2>1
  <2> QED  BY <2>2, <2>3 DEF Begin
<1> QED  BY <1>2, <1>3, <1>5, <1>6, <1>7 DEF Start

(* A handler that looks for the next goes by the row it read.              *)
LEMMA LetInReads ==
  ASSUME TypeOK, FreshIsTrue, NEW w \in Workers, AddNextWaitlist(w), job[w].fresh,
         NEW k, k = job'[w]
  PROVE  ReadTrue(k)
<1>1. job[w].op = "leave" /\ CancelRead(job[w])
  BY DEF AddNextWaitlist, FreshIsTrue, ReadTrue
<1>2. PICK s \in Live : job[w].who = Nobody /\ job[w].row = {s} /\ state[s] = "in"
  BY <1>1 DEF CancelRead
<1>3. job' = [job EXCEPT ![w].op = "cancel", ![w].next = First(Waiting(event[s]))]
  BY <1>2 DEF AddNextWaitlist
<1>4. /\ k.op = "cancel" /\ k.next = First(Waiting(event[s]))
      /\ k.row = {s} /\ k.who = Nobody
  BY <1>2, <1>3 DEF TypeOK, Jobs
<1>5. k.op # "signup" /\ k.op # "leave"
  BY <1>4
<1>6. CancelRead(k)
  BY <1>2, <1>4, <1>5, Zenon DEF CancelRead
<1> QED  BY <1>5, <1>6, Zenon DEF ReadTrue

(* Whatever changes rows or slots outdates every other handler.            *)
LEMMA StepFresh == TypeOK /\ FreshIsTrue /\ [Next]_vars => FreshIsTrue'
<1> SUFFICES ASSUME TypeOK, FreshIsTrue, [Next]_vars,
                    NEW v \in Workers, NEW k, k = job'[v], k.fresh
             PROVE  ReadTrue(k)'
  BY DEF FreshIsTrue
<1>1. ASSUME k.op = "none"  PROVE ReadTrue(k)'
  BY <1>1 DEF ReadTrue
<1>2. ASSUME k = job[v], UNCHANGED <<slots, state, who, event>>
      PROVE  ReadTrue(k)'
  BY <1>2, ReadStays DEF FreshIsTrue
<1>3. ASSUME NEW w \in Workers, Start(w)  PROVE ReadTrue(k)'
  <2>1. UNCHANGED <<slots, state, who, event>>
    BY <1>3, StartBegins DEF Begins, rows
  <2>2. PICK j : ReadTrue(j) /\ job' = [job EXCEPT ![w] = j]
    BY <1>3, StartReads
  <2>3. CASE v = w
    <3>1. k = j
      BY <2>2, <2>3 DEF TypeOK
    <3> QED  BY <2>1, <2>2, <3>1, ReadStays
  <2>4. CASE v # w
    BY <1>2, <2>1, <2>2, <2>4 DEF TypeOK
  <2> QED  BY <2>3, <2>4
<1>4. ASSUME NEW w \in Workers, AddNextWaitlist(w)  PROVE ReadTrue(k)'
  <2>1. UNCHANGED <<slots, state, who, event>>
    BY <1>4 DEF AddNextWaitlist, rows
  <2>2. PICK S : job' = [job EXCEPT ![w].op = "cancel", ![w].next = S]
    BY <1>4, LetInType
  <2>3. CASE v = w
    <3>1. job[w].fresh
      BY <2>2, <2>3 DEF TypeOK, Jobs
    <3>2. ReadTrue(k)
      BY <1>4, <2>3, <3>1, LetInReads
    <3> QED  BY <2>1, <3>2, ReadStays
  <2>4. CASE v # w
    BY <1>2, <2>1, <2>2, <2>4 DEF TypeOK
  <2> QED  BY <2>3, <2>4
<1>5. ASSUME NEW w, v # w, job[v].op # "none"  PROVE ~ Outdated(job, w)[v].fresh
  BY <1>5 DEF Outdated, TypeOK, Jobs
<1>6. ASSUME NEW w, v = w \/ job[v].op = "none"  PROVE Outdated(job, w)[v] = job[v]
  BY <1>6 DEF Outdated
<1>7. ASSUME NEW w \in Workers, Commit(w)  PROVE ReadTrue(k)'
  <2>1. Idle.op = "none"
    BY DEF Idle
  <2>2. CASE Commits(job[w])
    <3>1. job' = [Outdated(job, w) EXCEPT ![w] = Idle]
      BY <1>7, <2>2 DEF Commit
    <3>2. Outdated(job, w) \in [Workers -> Jobs]
      BY OutdatedType DEF TypeOK
    <3>3. k.op = "none"
      BY <1>5, <1>6, <2>1, <3>1, <3>2
    <3> QED  BY <1>1, <3>3
  <2>3. CASE ~ Commits(job[w])
    <3>1. job' = [job EXCEPT ![w] = Idle] /\ UNCHANGED <<slots, state, who, event>>
      BY <1>7, <2>3 DEF Commit
    <3> QED  BY <1>1, <1>2, <2>1, <3>1 DEF TypeOK
  <2> QED  BY <2>2, <2>3
<1>8. ASSUME NEW w \in Workers, Crash(w)  PROVE ReadTrue(k)'
  <2>1. job' = [job EXCEPT ![w] = Idle] /\ UNCHANGED <<slots, state, who, event>>
    BY <1>8 DEF Crash, rows
  <2> QED  BY <1>1, <1>2, <2>1 DEF TypeOK, Idle
<1>9. ASSUME job' = Outdated(job, Nobody)  PROVE ReadTrue(k)'
  <2>1. v # Nobody
    BY AttractionConstants
  <2>2. k.op = "none"
    BY <1>5, <1>6, <1>9, <2>1
  <2> QED  BY <1>1, <2>2
<1> QED
  BY <1>2, <1>3, <1>4, <1>7, <1>8, <1>9 DEF Next, Continue, Tasks, ChangeSlots, CheckReply,
     SendWaitlistNotification, SendNotice, vars, rows

(* A handler that ends was refused, was killed, or commits.                *)
LEMMA EndsByCommit ==
  ASSUME TypeOK, [Next]_vars, NEW w \in Workers, NEW op, Ends(w, op), op # "none"
  PROVE  \/ UNCHANGED <<state, who, event>>
         \/ Commit(w) /\ Commits(job[w])
<1>1. job'[w].op # job[w].op
  BY DEF Ends
<1>2. ASSUME NEW u, job' = Outdated(job, u)  PROVE FALSE
  BY <1>1, <1>2, OutdatedType DEF TypeOK, SameWork
<1>3. ASSUME NEW v \in Workers, Commit(v), Commits(job[v])  PROVE v = w
  <2>1. job' = [Outdated(job, v) EXCEPT ![v] = Idle]
    BY <1>3 DEF Commit
  <2> QED  BY <1>1, <2>1, OutdatedType DEF TypeOK, SameWork
<1>4. ASSUME NEW v \in Workers, Start(v)  PROVE UNCHANGED <<state, who, event>>
  BY <1>4, StartBegins DEF Begins, rows
<1>5. ASSUME NEW v \in Workers, Commit(v), ~ Commits(job[v])
      PROVE  UNCHANGED <<state, who, event>>
  BY <1>5 DEF Commit
<1> QED
  BY <1>2, <1>3, <1>4, <1>5 DEF Next, Continue, Tasks, AddNextWaitlist, Crash, ChangeSlots,
     CheckReply, SendWaitlistNotification, SendNotice, vars, rows

(* A sign-up that commits makes one row, as it read.                       *)
LEMMA SignupMakes ==
  ASSUME IInv, FreshIsTrue, NEW w \in Workers, job[w].op = "signup", job[w].fresh,
         Commit(w), Commits(job[w])
  PROVE  \/ UNCHANGED <<state, who, event>>
         \/ \E s \in Ids :
              /\ state[s] = "none"
              /\ state' = [state EXCEPT ![s] = IF job[w].wait THEN "waiting" ELSE "in"]
              /\ who' = [who EXCEPT ![s] = job[w].who]
              /\ event' = [event EXCEPT ![s] = job[w].event]
<1> DEFINE j == job[w]
<1>1. SignupRead(j) /\ j.op = "signup"
  BY DEF FreshIsTrue, ReadTrue
<1>2. Deleted(j) = {} /\ j.next = {} /\ Added(j) = First(Unused)
  BY <1>1, AttractionConstants DEF Deleted, Added, SignupRead
<1>3. /\ state' = [s \in Ids |-> StateAfter(j, s)]
      /\ who' = [s \in Ids |-> IF s \in Added(j) THEN j.who ELSE who[s]]
      /\ event' = [s \in Ids |-> IF s \in Added(j) THEN j.event ELSE event[s]]
  BY DEF Commit
<1>4. \A s : StateAfter(j, s) = IF s \in Added(j) THEN IF j.wait THEN "waiting" ELSE "in"
                                ELSE state[s]
  BY <1>2 DEF StateAfter
<1>5. /\ state = [s \in Ids |-> state[s]] /\ who = [s \in Ids |-> who[s]]
      /\ event = [s \in Ids |-> event[s]]
  BY DEF IInv, TypeOK
<1>6. CASE Added(j) = {}
  BY <1>3, <1>4, <1>5, <1>6
<1>7. ASSUME NEW s \in Added(j)
      PROVE  /\ s \in Ids /\ state[s] = "none" /\ Added(j) = {s}
             /\ state' = [state EXCEPT ![s] = IF j.wait THEN "waiting" ELSE "in"]
             /\ who' = [who EXCEPT ![s] = j.who]
             /\ event' = [event EXCEPT ![s] = j.event]
  <2>1. Unused \subseteq Ids /\ \A t \in Unused : state[t] = "none"
    BY DEF Unused
  <2>2. s \in First(Unused)
    BY <1>2, <1>7
  <2>3. First(Unused) \subseteq Unused /\ \A t \in First(Unused) : s = t
    BY <2>1, <2>2, FirstFacts, Zenon
  <2>4. s \in Ids /\ state[s] = "none" /\ Added(j) = {s}
    BY <1>2, <2>1, <2>2, <2>3, Zenon
  <2> QED  BY <1>3, <1>4, <2>4 DEF IInv, TypeOK
<1> QED  BY <1>6, <1>7

(* A cancellation that commits deletes a row, and lets one in for it.      *)
LEMMA CancelMoves ==
  ASSUME IInv, FreshIsTrue, NEW w \in Workers, job[w].op = "cancel", job[w].fresh,
         Commit(w), Commits(job[w]), NEW e
  PROVE  \/ SignedUp(e)' = SignedUp(e)
         \/ /\ Waiting(e)' \subseteq Waiting(e)
            /\ \E s \in SignedUp(e) :
                 SignedUp(e)' = (SignedUp(e) \ {s}) \cup First(Waiting(e))
<1> DEFINE j == job[w]
<1>1. j.who = Nobody /\ j.op = "cancel"
  BY DEF FreshIsTrue, ReadTrue, CancelRead
<1>2. PICK s \in Live :
        j.row = {s} /\ j.next = IF state[s] = "in" THEN First(Waiting(event[s])) ELSE {}
  BY DEF FreshIsTrue, ReadTrue, CancelRead
<1>3. Deleted(j) = {s} /\ Added(j) = {}
  BY <1>1, <1>2 DEF Deleted, Added
<1>4. /\ state' = [t \in Ids |-> IF t = s THEN "gone" ELSE IF t \in j.next THEN "in" ELSE state[t]]
      /\ event' = event
  <2>1. \A t : StateAfter(j, t) = IF t = s THEN "gone" ELSE IF t \in j.next THEN "in" ELSE state[t]
    BY <1>3 DEF StateAfter
  <2>2. /\ state' = [t \in Ids |-> StateAfter(j, t)]
        /\ event' = [t \in Ids |-> IF t \in Added(j) THEN j.event ELSE event[t]]
    BY DEF Commit
  <2> QED  BY <1>3, <2>1, <2>2 DEF IInv, TypeOK
<1>5. s \in Ids /\ state[s] \in {"in", "waiting"}
  BY DEF Live
<1>6. j.next \subseteq {t \in Ids : state[t] = "waiting" /\ event[t] = event[s]}
  <2>1. First(Waiting(event[s])) \subseteq Waiting(event[s])
    BY FirstFacts DEF Waiting
  <2> QED  BY <1>2, <2>1 DEF Waiting
<1>7. CASE state[s] = "waiting" \/ event[s] # e
  <2>1. ASSUME NEW t \in Ids, event[t] = e  PROVE state'[t] = "in" <=> state[t] = "in"
    BY <1>2, <1>4, <1>5, <1>6, <1>7, <2>1
  <2> QED  BY <1>4, <2>1 DEF SignedUp
<1>8. CASE state[s] = "in" /\ event[s] = e
  <2>1. j.next = First(Waiting(e)) /\ s \in SignedUp(e)
    BY <1>2, <1>5, <1>8 DEF SignedUp
  <2>2. Waiting(e)' \subseteq Waiting(e)
    BY <1>4 DEF Waiting
  <2>3. SignedUp(e)' = (SignedUp(e) \ {s}) \cup j.next
    <3>1. s \notin j.next
      BY <1>6, <1>8
    <3> QED  BY <1>4, <1>6, <1>8, <3>1 DEF SignedUp
  <2> QED  BY <2>1, <2>2, <2>3
<1> QED  BY <1>5, <1>7, <1>8

(* Sets of rows are finite, and one that is not empty has a first row.     *)
LEMMA RowSets ==
  ASSUME NEW S \in SUBSET Ids
  PROVE  /\ IsFiniteSet(S) /\ Cardinality(S) \in Nat
         /\ S # {} => \E s : First(S) = {s} /\ s \in S
<1>1. IsFiniteSet(Ids) /\ Ids \subseteq Nat
  BY FS_Interval, AttractionConstants DEF Ids
<1>2. IsFiniteSet(S) /\ Cardinality(S) \in Nat
  BY <1>1, FS_Subset, FS_CardinalityType
<1>3. ASSUME S # {}  PROVE \E s : First(S) = {s} /\ s \in S
  <2>1. S \subseteq Nat
    BY <1>1
  <2>2. PICK s \in S : \A t \in S : ~ (<<t, s>> \in OpToRel(<, Nat))
    BY <1>3, <2>1, WFMin, NatLessThanWellFounded
  <2>3. ASSUME NEW t \in S  PROVE s <= t
    <3>1. ~ (t < s)
      BY <2>1, <2>2 DEF OpToRel
    <3> QED  BY <2>1, <3>1
  <2>4. s \in First(S)
    BY <2>3 DEF First
  <2>5. \A t \in First(S) : t = s
    BY <2>4, FirstFacts, Zenon
  <2> QED  BY <2>4, <2>5
<1> QED  BY <1>2, <1>3

-----------------------------------------------------------------------------
(* What a handler does that read fresh data.                               *)

(* A sign-up takes at most one place, and only if there was one.           *)
LEMMA SignupFits ==
  ASSUME IInv, FreshIsTrue, NEW w \in Workers, job[w].op = "signup", job[w].fresh,
         Commit(w), Commits(job[w]), NEW e \in Events
  PROVE  \/ Cardinality(SignedUp(e)') <= slots[e]
         \/ SignedUp(e)' = SignedUp(e)
<1> DEFINE j == job[w]
<1>1. SignupRead(j)
  BY DEF FreshIsTrue, ReadTrue
<1>2. CASE UNCHANGED <<state, who, event>>
  BY <1>2 DEF SignedUp
<1>3. ASSUME NEW s \in Ids, state[s] = "none",
             state' = [state EXCEPT ![s] = IF j.wait THEN "waiting" ELSE "in"],
             event' = [event EXCEPT ![s] = j.event]
      PROVE  \/ Cardinality(SignedUp(e)') <= slots[e]
             \/ SignedUp(e)' = SignedUp(e)
  <2>1. \A t \in Ids : /\ state'[t] = IF t = s THEN IF j.wait THEN "waiting" ELSE "in" ELSE state[t]
                       /\ event'[t] = IF t = s THEN j.event ELSE event[t]
    BY <1>3 DEF IInv, TypeOK
  <2>2. CASE j.wait \/ j.event # e
    <3>1. ASSUME NEW t \in Ids
          PROVE  state'[t] = "in" /\ event'[t] = e <=> state[t] = "in" /\ event[t] = e
      BY <1>3, <2>1, <2>2
    <3> QED  BY <3>1, Zenon DEF SignedUp
  <2>3. CASE ~ j.wait /\ j.event = e
    <3>1. SignedUp(e)' = SignedUp(e) \cup {s} /\ s \notin SignedUp(e)
      BY <1>3, <2>1, <2>3 DEF SignedUp
    <3>2. ~ (slots[e] <= Cardinality(SignedUp(e))) /\ slots[e] \in Nat
      BY <1>1, <2>3 DEF SignupRead, SoldOut, IInv, TypeOK
    <3>3. SignedUp(e) \in SUBSET Ids
      BY DEF SignedUp
    <3>4. Cardinality(SignedUp(e) \cup {s}) = Cardinality(SignedUp(e)) + 1
          /\ Cardinality(SignedUp(e)) \in Nat
      BY <3>1, <3>3, RowSets, FS_AddElement
    <3> QED  BY <3>1, <3>2, <3>4
  <2> QED  BY <2>2, <2>3
<1> QED  BY <1>2, <1>3, SignupMakes

(* A cancellation gives up a place or passes it on, if anyone waits for it.*)
LEMMA CancelPasses ==
  ASSUME IInv, FreshIsTrue, NEW w \in Workers, job[w].op = "cancel", job[w].fresh,
         Commit(w), Commits(job[w]), NEW e \in Events
  PROVE  /\ Cardinality(SignedUp(e)') <= Cardinality(SignedUp(e))
         /\ Cardinality(SignedUp(e)') < Cardinality(SignedUp(e)) => Waiting(e)' = {}
<1>1. SignedUp(e) \in SUBSET Ids /\ Waiting(e) \in SUBSET Ids
  BY DEF SignedUp, Waiting
<1>2. IsFiniteSet(SignedUp(e)) /\ Cardinality(SignedUp(e)) \in Nat
  BY <1>1, RowSets
<1>3. CASE SignedUp(e)' = SignedUp(e)
  BY <1>2, <1>3
<1>4. ASSUME NEW s \in SignedUp(e), Waiting(e)' \subseteq Waiting(e),
             SignedUp(e)' = (SignedUp(e) \ {s}) \cup First(Waiting(e))
      PROVE  /\ Cardinality(SignedUp(e)') <= Cardinality(SignedUp(e))
             /\ Cardinality(SignedUp(e)') < Cardinality(SignedUp(e)) => Waiting(e)' = {}
  <2>1. /\ IsFiniteSet(SignedUp(e) \ {s})
        /\ Cardinality(SignedUp(e) \ {s}) = Cardinality(SignedUp(e)) - 1
    BY <1>2, FS_RemoveElement
  <2>2. CASE Waiting(e) = {}
    <3>1. First(Waiting(e)) = {} /\ Waiting(e)' = {}
      BY <1>4, <2>2 DEF First
    <3> QED  BY <1>2, <1>4, <2>1, <3>1
  <2>3. CASE Waiting(e) # {}
    <3>1. PICK t : First(Waiting(e)) = {t} /\ t \in Waiting(e)
      BY <1>1, <2>3, RowSets
    <3>2. t \notin SignedUp(e) \ {s}
      BY <3>1 DEF Waiting, SignedUp
    <3>3. Cardinality((SignedUp(e) \ {s}) \cup {t}) = Cardinality(SignedUp(e) \ {s}) + 1
      BY <2>1, <3>2, FS_AddElement
    <3> QED  BY <1>2, <1>4, <2>1, <3>1, <3>3
  <2> QED  BY <2>2, <2>3
<1> QED  BY <1>3, <1>4, CancelMoves

(* Of the events that exclude each other an attendee gets the first.       *)
LEMMA SignupExcludes ==
  ASSUME IInv, FreshIsTrue, NEW w \in Workers, job[w].op = "signup", job[w].fresh,
         Commit(w), Commits(job[w]), NEW S \in Exclusive, NEW a \in Attendees
  PROVE  \/ \A d \in S : SignupOf(a, d)' = SignupOf(a, d)
         \/ \E e \in S : \A d \in S : SignupOf(a, d)' # {} <=> d = e
<1> DEFINE j == job[w]
<1>1. SignupRead(j)
  BY DEF FreshIsTrue, ReadTrue
<1>2. CASE UNCHANGED <<state, who, event>>
  BY <1>2 DEF SignupOf, Live
<1>3. ASSUME NEW s \in Ids, state[s] = "none",
             state' = [state EXCEPT ![s] = IF j.wait THEN "waiting" ELSE "in"],
             who' = [who EXCEPT ![s] = j.who],
             event' = [event EXCEPT ![s] = j.event]
      PROVE  \/ \A d \in S : SignupOf(a, d)' = SignupOf(a, d)
             \/ \E e \in S : \A d \in S : SignupOf(a, d)' # {} <=> d = e
  <2>1. \A t \in Ids : /\ t # s => UNCHANGED <<state[t], who[t], event[t]>>
                       /\ t = s => state'[t] \in {"in", "waiting"} /\ who'[t] = j.who /\ event'[t] = j.event
    BY <1>3 DEF IInv, TypeOK
  <2>2. s \notin Live /\ Live' = Live \cup {s}
    BY <1>3, <2>1 DEF Live
  <2>3. ASSUME NEW d  PROVE SignupOf(a, d)' = SignupOf(a, d) \cup {t \in {s} : a = j.who /\ d = j.event}
    BY <1>3, <2>1, <2>2 DEF SignupOf, Live
  <2>4. CASE a # j.who \/ j.event \notin S
    BY <2>3, <2>4
  <2>5. CASE a = j.who /\ j.event \in S
    <3>1. \A d \in S : SignupOf(a, d) = {}
      BY <1>1, <2>5 DEF SignupRead, Allowed
    <3>2. \A d \in S : SignupOf(a, d)' # {} <=> d = j.event
      BY <2>3, <2>5, <3>1
    <3> QED  BY <2>5, <3>2
  <2> QED  BY <2>4, <2>5
<1> QED  BY <1>2, <1>3, SignupMakes

(* The invariant, with what fresh handlers know.                           *)
LEMMA AlwaysFresh == Spec => [](IInv /\ FreshIsTrue)
<1>1. Init => FreshIsTrue
  BY DEF Init, FreshIsTrue, ReadTrue, Idle
<1>2. IInv /\ FreshIsTrue /\ [Next]_vars => FreshIsTrue'
  BY StepFresh DEF IInv
<1> QED  BY <1>1, <1>2, Inductive, PTL DEF Spec

(* Attendees do not overbook an event, however many handlers run: unless   *)
(* something was committed since it began, signup_for_event adds a place   *)
(* only if there is one, and cancel_signup lets in one for one.            *)
THEOREM NobodyOverbooks == Spec => NotOverbooked
<1>1. ASSUME IInv, FreshIsTrue, [Next]_vars, NEW w \in Workers, NEW e \in Events,
             Ends(w, "signup") \/ Ends(w, "cancel"), job[w].fresh
      PROVE  \/ Cardinality(SignedUp(e)') <= slots[e]
             \/ Cardinality(SignedUp(e)') <= Cardinality(SignedUp(e))
  <2>1. \/ UNCHANGED <<state, who, event>>
        \/ Commit(w) /\ Commits(job[w])
    BY <1>1, EndsByCommit DEF IInv
  <2>2. SignedUp(e) \in SUBSET Ids
    BY DEF SignedUp
  <2>3. Cardinality(SignedUp(e)) <= Cardinality(SignedUp(e))
    BY <2>2, RowSets
  <2>4. UNCHANGED <<state, who, event>> => SignedUp(e)' = SignedUp(e)
    BY DEF SignedUp
  <2>5. CASE job[w].op = "signup" /\ Commit(w) /\ Commits(job[w])
    BY <1>1, <2>3, <2>5, SignupFits
  <2>6. CASE job[w].op = "cancel" /\ Commit(w) /\ Commits(job[w])
    BY <1>1, <2>6, CancelPasses
  <2> QED  BY <1>1, <2>1, <2>3, <2>4, <2>5, <2>6 DEF Ends
<1>2. IInv /\ FreshIsTrue /\ [Next]_vars =>
        [\A w \in Workers, e \in Events :
           (Ends(w, "signup") \/ Ends(w, "cancel")) /\ job[w].fresh =>
             \/ Cardinality(SignedUp(e)') <= slots[e]
             \/ Cardinality(SignedUp(e)') <= Cardinality(SignedUp(e))]_vars
  BY <1>1
<1> QED  BY <1>2, AlwaysFresh, PTL DEF Spec, NotOverbooked

(* A place that is given up goes to whoever waits for the event, if        *)
(* nothing was committed since cancel_signup began.                        *)
THEOREM PlacesArePassedOn == Spec => PlacePassedOn
<1>1. ASSUME IInv, FreshIsTrue, [Next]_vars, NEW w \in Workers, NEW e \in Events,
             Ends(w, "cancel"), job[w].fresh,
             Cardinality(SignedUp(e)') < Cardinality(SignedUp(e))
      PROVE  Waiting(e)' = {}
  <2>1. \/ UNCHANGED <<state, who, event>>
        \/ Commit(w) /\ Commits(job[w])
    BY <1>1, EndsByCommit DEF IInv
  <2>2. SignedUp(e) \in SUBSET Ids
    BY DEF SignedUp
  <2>3. Cardinality(SignedUp(e)) \in Nat
    BY <2>2, RowSets
  <2>4. UNCHANGED <<state, who, event>> => SignedUp(e)' = SignedUp(e)
    BY DEF SignedUp
  <2>5. ~ UNCHANGED <<state, who, event>>
    BY <1>1, <2>3, <2>4
  <2> QED  BY <1>1, <2>1, <2>5, CancelPasses DEF Ends
<1>2. IInv /\ FreshIsTrue /\ [Next]_vars =>
        [\A w \in Workers, e \in Events :
           Ends(w, "cancel") /\ job[w].fresh
           /\ Cardinality(SignedUp(e)') < Cardinality(SignedUp(e)) =>
             Waiting(e)' = {}]_vars
  BY <1>1
<1> QED  BY <1>2, AlwaysFresh, PTL DEF Spec, PlacePassedOn

(* An attendee who signs up holds one of the events that exclude each      *)
(* other, if nothing was committed since signup_for_event began.           *)
THEOREM ExclusiveEventsExclude == Spec => OneOfExclusive
<1>1. ASSUME IInv, FreshIsTrue, [Next]_vars, NEW w \in Workers, NEW S \in Exclusive,
             NEW a \in Attendees, Ends(w, "signup"), job[w].fresh
      PROVE  LET held == {d \in S : SignupOf(a, d) # {}} IN
             held' = held \/ Cardinality(held') = 1
  <2>1. \/ UNCHANGED <<state, who, event>>
        \/ Commit(w) /\ Commits(job[w])
    BY <1>1, EndsByCommit DEF IInv
  <2>2. UNCHANGED <<state, who, event>> => \A d \in S : SignupOf(a, d)' = SignupOf(a, d)
    BY DEF SignupOf, Live
  <2>3. CASE \A d \in S : SignupOf(a, d)' = SignupOf(a, d)
    BY <2>3
  <2>4. ASSUME NEW e \in S, \A d \in S : SignupOf(a, d)' # {} <=> d = e
        PROVE  Cardinality({d \in S : SignupOf(a, d)' # {}}) = 1
    <3>1. {d \in S : SignupOf(a, d)' # {}} = {e}
      BY <2>4
    <3> QED  BY <3>1, FS_Singleton
  <2>5. CASE Commit(w) /\ Commits(job[w])
    BY <1>1, <2>3, <2>4, <2>5, SignupExcludes DEF Ends
  <2> QED  BY <2>1, <2>2, <2>3, <2>5
<1>2. IInv /\ FreshIsTrue /\ [Next]_vars =>
        [\A w \in Workers, S \in Exclusive, a \in Attendees :
           Ends(w, "signup") /\ job[w].fresh =>
             LET held == {d \in S : SignupOf(a, d) # {}} IN
             held' = held \/ Cardinality(held') = 1]_vars
  BY <1>1
<1> QED  BY <1>2, AlwaysFresh, PTL DEF Spec, OneOfExclusive

-----------------------------------------------------------------------------
(* The hotel lottery                                                       *)

(* The page of a search shows the group of somebody else.                  *)
FoundOther == \A a \in Entrants : found # <<a, a>>

(* What is to be written fits in the rooms that are left.                  *)
SolutionFits ==
  lottery.running /\ ~lottery.stale =>
    \E leaders \in SUBSET Candidates :
      /\ Cardinality(leaders) + Cardinality(Assigned) <= Inventory
      /\ lottery.winners = WithMembers(leaders)

(* An entry that was never made leads no group; it is a member's exactly   *)
(* if it has a leader; and it is for something once it is awarded, unless  *)
(* a lottery was overtaken.                                                *)
RowSound(a) ==
  /\ entry[a].status = "none" => ~entry[a].named
  /\ entry[a].type = "group" <=> entry[a].parent # NoLeader
  /\ ~overwrote /\ entry[a].status \in Awarding => entry[a].type # "none"

(* What of it a request has to keep.                                       *)
EntriesSound ==
  /\ entry \in [Entrants -> Entries] /\ astray \subseteq Entrants
  /\ \A a \in Entrants : RowSound(a)
  /\ MembersHaveLeader

LotteryInv ==
  /\ LotteryTypeOK
  /\ FoundOther
  /\ \A a \in Entrants : RowSound(a)
  /\ SolutionFits
  /\ MembersHaveLeader

-----------------------------------------------------------------------------
(* Steps that change entries                                               *)

(* No entry gets a room, unless a member takes it along.                   *)
NoMoreRooms == RoomHolders' \subseteq RoomHolders \/ TakesRoomAlong \/ overwrote

(* What a request may make of the entry of a, if it gives up some others.  *)
RowFits(a, row, more) ==
  /\ row.status = "none" => ~row.named
  /\ row.type = "group" <=> row.parent # NoLeader
  /\ ~overwrote /\ row.status \in Awarding => row.type # "none"
  /\ \* the members it leads keep it as their leader, or are given up
     Leads(a) => (row.named /\ row.parent = NoLeader) \/ Members(a) \subseteq more
  /\ \* its leader is the one it had, or leads a group, or it is given up
     \/ row.parent \in {NoLeader, entry[a].parent} \/ a \in more
     \/ row.parent # a /\ Leads(row.parent)
  /\ \* it gets no room, unless it takes along that of its group
     row.type = "own" /\ row.won /\ row.status \in Awarding =>
       \/ entry[a].type = "own" /\ entry[a].won /\ entry[a].status \in Awarding
       \/ overwrote
       \/ entry[a].type = "group" /\ entry[a].status = "processed" /\ row.status = "processed"

(* One entry is written.                                                   *)
LEMMA OneEntry ==
  ASSUME LotteryInv, UNCHANGED overwrote,
         NEW a \in Entrants, NEW row \in Entries, NEW more \in SUBSET Entrants,
         RowFits(a, row, more), entry' = [entry EXCEPT ![a] = row], Astray(more)
  PROVE  EntriesSound' /\ NoMoreRooms
<1> USE DEF RowFits
<1>1. entry' \in [Entrants -> Entries] /\ entry'[a] = row
      /\ \A b \in Entrants : b # a => entry'[b] = entry[b]
  BY DEF LotteryInv, LotteryTypeOK
<1>2. astray' = {b \in astray \cup more : entry'[b].parent # NoLeader}
      /\ astray \subseteq Entrants
  BY DEF Astray, LotteryInv, LotteryTypeOK
<1>3. \A b \in Entrants : RowSound(b)'
  BY <1>1 DEF RowSound, LotteryInv
<1>4. MembersHaveLeader'
  <2> SUFFICES ASSUME NEW b \in Entrants, b \notin astray', entry'[b].parent # NoLeader
               PROVE  entry'[entry'[b].parent].named
                      /\ entry'[entry'[b].parent].parent = NoLeader
    BY DEF MembersHaveLeader, Leads
  <2>1. b \notin astray /\ b \notin more
    BY <1>2
  <2>2. entry[b].parent # NoLeader => Leads(entry[b].parent)
    BY <2>1 DEF LotteryInv, MembersHaveLeader
  <2>3. PICK p \in Entrants : p = entry'[b].parent
    BY <1>1 DEF Entries
  <2>4. p # a => entry'[p] = entry[p]
    BY <1>1
  <2>5. CASE b = a
    BY <1>1, <2>1, <2>2, <2>3, <2>4, <2>5 DEF Leads
  <2>6. CASE b # a
    <3>1. entry[b].parent = p /\ Leads(p) /\ b \in Members(p)
      BY <1>1, <2>2, <2>3, <2>6 DEF Members
    <3> QED  BY <1>1, <2>1, <2>3, <2>4, <3>1 DEF Leads
  <2> QED  BY <2>5, <2>6
<1>5. NoMoreRooms
  BY <1>1 DEF NoMoreRooms, RoomHolders, TakesRoomAlong
<1> QED  BY <1>1, <1>2, <1>3, <1>4, <1>5 DEF EntriesSound

(* A blank entry, and how the code makes one of another.                   *)
LEMMA BlankRow ==
  ASSUME NEW s \in {"none", "partial", "complete", "withdrawn", "cancelled"} \cup Awarding
  PROVE  /\ Defaults(s) \in Entries /\ Defaults(s).status = s /\ Defaults(s).type = "none"
         /\ ~Defaults(s).named /\ ~Defaults(s).won /\ Defaults(s).parent = NoLeader
  BY DEF Defaults, Entries

(* Whoever leaves a group is on its own, and has no room unless it had     *)
(* one with the group.                                                     *)
LEMMA ResetRow ==
  ASSUME NEW row \in Entries
  PROVE  /\ ResetMember(row) \in Entries /\ ResetMember(row).parent = NoLeader
         /\ ResetMember(row).named = row.named /\ ResetMember(row).won = row.won
         /\ ResetMember(row).status \in {row.status, "withdrawn"}
         /\ ResetMember(row).type \in {"own", "none"}
         /\ \/ ResetMember(row).status = "withdrawn"
            \/ ResetMember(row).type = "own" /\ row.status # "awarded"
               /\ ResetMember(row).status = row.status
  BY DEF ResetMember, Entries, IsFinal, Awarding

(* What becomes of a member who leaves or is put out.                      *)
LEMMA ReleasedRow ==
  ASSUME entry \in [Entrants -> Entries], NEW g, NEW m \in Entrants
  PROVE  /\ Released(g, m) \in Entries /\ Released(g, m).parent = NoLeader
         /\ Released(g, m).named => entry[m].named
         /\ Released(g, m).type \in {"own", "none"}
         /\ \/ Released(g, m).status = "withdrawn"
            \/ Released(g, m).type = "own" /\ entry[m].status # "awarded"
               /\ Released(g, m).status = entry[m].status
               /\ Released(g, m).won = entry[m].won
<1>1. CASE entry[g].status = "processed" \/ IsFinal(entry[g])
  BY <1>1, BlankRow DEF Released, Cleared, Awarding
<1>2. CASE ~(entry[g].status = "processed" \/ IsFinal(entry[g]))
  <2>1. Released(g, m) = ResetMember(entry[m])
    BY <1>2 DEF Released
  <2> QED  BY <2>1, ResetRow
<1> QED  BY <1>1, <1>2

(* What LotteryInv says of one entry.                                      *)
LEMMA KnownEntry ==
  ASSUME LotteryInv, NEW a \in Entrants
  PROVE  /\ entry \in [Entrants -> Entries] /\ entry[a] \in Entries /\ RowSound(a)
         /\ NoLeader \notin Entrants
  BY LotteryAssumption DEF LotteryAssumption, LotteryInv, LotteryTypeOK

(* The requests that write one entry, one by one.                          *)
LEMMA AcceptTermsSound ==
  ASSUME LotteryInv, UNCHANGED overwrote, NEW a \in Entrants, AcceptTerms(a)
  PROVE  EntriesSound' /\ NoMoreRooms
<1> DEFINE row == IF Exists(a) THEN [entry[a] EXCEPT !.status = "partial"]
                  ELSE Defaults("partial")
<1>1. entry' = [entry EXCEPT ![a] = row] /\ Astray({})
  BY KnownEntry DEF AcceptTerms
<1>2. /\ row \in Entries /\ row.status = "partial" /\ row.named = entry[a].named
      /\ row.type = "group" <=> row.parent # NoLeader
      /\ row.parent \in {NoLeader, entry[a].parent}
      /\ entry[a].parent = NoLeader => row.parent = NoLeader
  BY KnownEntry, BlankRow DEF RowSound, Exists, Entries
<1> HIDE DEF row
<1>3. RowFits(a, row, {})
  BY KnownEntry, <1>1, <1>2 DEF RowFits, Leads, Awarding
<1> QED  BY <1>1, <1>2, <1>3, OneEntry

LEMMA ChooseLodgingSound ==
  ASSUME LotteryInv, UNCHANGED overwrote, NEW a \in Entrants, ChooseLodging(a)
  PROVE  EntriesSound' /\ NoMoreRooms
<1> DEFINE row == [entry[a] EXCEPT
                     !.type = "own",
                     !.status = IF entry[a].guaranteed /\ entry[a].status = "partial"
                                THEN "complete" ELSE entry[a].status]
<1>1. entry' = [entry EXCEPT ![a] = row] /\ Astray({}) /\ entry[a].parent = NoLeader
      /\ entry[a].status # "none"
  BY DEF ChooseLodging, Exists
<1>2. /\ row \in Entries /\ row.status # "none" /\ row.named = entry[a].named
      /\ row.type = "own" /\ row.parent = NoLeader /\ row.won = entry[a].won
      /\ row.status \in Awarding => entry[a].status = row.status
  BY <1>1, KnownEntry DEF Entries, Awarding
<1>3. entry[a].status \in Awarding => entry[a].type = "own" \/ overwrote
  BY <1>1, KnownEntry DEF RowSound, Entries
<1> HIDE DEF row
<1>4. RowFits(a, row, {})
  BY KnownEntry, <1>1, <1>2, <1>3 DEF RowFits, Leads
<1> QED  BY <1>1, <1>2, <1>4, OneEntry

LEMMA GuaranteeConfirmSound ==
  ASSUME LotteryInv, UNCHANGED overwrote, NEW a \in Entrants, GuaranteeConfirm(a)
  PROVE  EntriesSound' /\ NoMoreRooms
<1> DEFINE row == [entry[a] EXCEPT !.guaranteed = TRUE, !.status = "complete"]
<1>1. entry' = [entry EXCEPT ![a] = row] /\ Astray({}) /\ entry[a].type = "own"
  BY KnownEntry DEF GuaranteeConfirm
<1>2. /\ row \in Entries /\ row.status = "complete" /\ row.named = entry[a].named
      /\ row.type = "own" /\ row.parent = NoLeader /\ entry[a].parent = NoLeader
  BY <1>1, KnownEntry DEF Entries, RowSound
<1> HIDE DEF row
<1>3. RowFits(a, row, {})
  BY KnownEntry, <1>1, <1>2 DEF RowFits, Leads, Awarding
<1> QED  BY <1>1, <1>2, <1>3, OneEntry

LEMMA SwitchEntryTypeSound ==
  ASSUME LotteryInv, UNCHANGED overwrote, NEW a \in Entrants, SwitchEntryType(a)
  PROVE  EntriesSound' /\ NoMoreRooms
<1> DEFINE row == [entry[a] EXCEPT !.status = "partial", !.guaranteed = FALSE]
<1>1. entry' = [entry EXCEPT ![a] = row] /\ Astray({}) /\ entry[a].type = "own"
  BY KnownEntry DEF SwitchEntryType
<1>2. /\ row \in Entries /\ row.status = "partial" /\ row.named = entry[a].named
      /\ row.type = "own" /\ row.parent = NoLeader /\ entry[a].parent = NoLeader
  BY <1>1, KnownEntry DEF Entries, RowSound
<1> HIDE DEF row
<1>3. RowFits(a, row, {})
  BY KnownEntry, <1>1, <1>2 DEF RowFits, Leads, Awarding
<1> QED  BY <1>1, <1>2, <1>3, OneEntry

LEMMA SaveGroupSound ==
  ASSUME LotteryInv, UNCHANGED overwrote, NEW a \in Entrants, SaveGroup(a)
  PROVE  EntriesSound' /\ NoMoreRooms
<1> DEFINE row == [entry[a] EXCEPT !.named = TRUE]
<1>1. entry' = [entry EXCEPT ![a] = row] /\ Astray({}) /\ entry[a].status = "complete"
      /\ entry[a].parent = NoLeader
  BY KnownEntry DEF SaveGroup
<1>2. /\ row \in Entries /\ row.status = "complete" /\ row.named
      /\ row.type = entry[a].type /\ row.parent = NoLeader
  BY <1>1, KnownEntry DEF Entries
<1>3. entry[a].type # "group"
  BY <1>1, KnownEntry DEF RowSound
<1> HIDE DEF row
<1>4. RowFits(a, row, {})
  BY KnownEntry, <1>1, <1>2, <1>3 DEF RowFits, Leads, Awarding
<1> QED  BY <1>1, <1>2, <1>4, OneEntry

(* A member leaves its group, or is put out of it.                         *)
LEMMA LeaveGroupSound ==
  ASSUME LotteryInv, UNCHANGED overwrote, NEW m \in Entrants, NEW g,
         entry[m].parent # NoLeader, entry' = [entry EXCEPT ![m] = Released(g, m)],
         Astray({})
  PROVE  EntriesSound' /\ NoMoreRooms
<1>1. entry[m].type = "group" /\ ~Leads(m)
  BY KnownEntry DEF RowSound, Leads
<1>2. entry[m].status = "none" => ~entry[m].named
  BY KnownEntry DEF RowSound
<1> DEFINE row == Released(g, m)
<1>3. /\ row \in Entries /\ row.parent = NoLeader
      /\ row.named => entry[m].named
      /\ row.type \in {"own", "none"}
      /\ \/ row.status = "withdrawn"
         \/ row.type = "own" /\ entry[m].status # "awarded" /\ row.status = entry[m].status
  BY KnownEntry, ReleasedRow
<1> HIDE DEF row
<1>4. RowFits(m, row, {})
  BY KnownEntry, <1>1, <1>2, <1>3 DEF RowFits, Awarding
<1> USE DEF row
<1> QED  BY <1>3, <1>4, OneEntry

LEMMA ReenterLotterySound ==
  ASSUME LotteryInv, UNCHANGED overwrote, NEW a \in Entrants, ReenterLottery(a)
  PROVE  EntriesSound' /\ NoMoreRooms
<1> DEFINE row == [entry[a] EXCEPT !.type = "none", !.status = "withdrawn", !.parent = NoLeader]
<1>1. entry' = [entry EXCEPT ![a] = row] /\ Astray({})
  BY KnownEntry DEF ReenterLottery, ResetMember, IsFinal
<1>2. /\ row \in Entries /\ row.status = "withdrawn" /\ row.named = entry[a].named
      /\ row.type = "none" /\ row.parent = NoLeader
  BY KnownEntry DEF Entries
<1> HIDE DEF row
<1>3. RowFits(a, row, {})
  BY KnownEntry, <1>1, <1>2 DEF RowFits, Leads, Awarding
<1> QED  BY <1>1, <1>2, <1>3, OneEntry

(* Whoever joins a group, after a search or from the form of the terms.    *)
LEMMA JoinSound ==
  ASSUME LotteryInv, UNCHANGED overwrote, NEW a \in Entrants, NEW g \in Entrants,
         found = <<a, g>>, NEW old \in {entry[a], [entry[a] EXCEPT !.status = "partial"]},
         entry' = [entry EXCEPT ![a] = Joined(old, g)],
         Astray(Members(a) \cup IF Leads(g) THEN {} ELSE {a})
  PROVE  EntriesSound' /\ NoMoreRooms
<1> DEFINE row == Joined(old, g)
           more == Members(a) \cup IF Leads(g) THEN {} ELSE {a}
<1>1. old \in Entries
  BY KnownEntry DEF Entries
<1>2. row \in Entries /\ row.status = "complete" /\ row.type = "group" /\ row.parent = g
  BY <1>1, BlankRow DEF Joined, Entries
<1>3. g # a /\ g # NoLeader
  BY KnownEntry DEF LotteryInv, FoundOther
<1>4. more \in SUBSET Entrants /\ Members(a) \subseteq more /\ (Leads(g) \/ a \in more)
  BY DEF Members
<1> HIDE DEF row, more
<1>5. RowFits(a, row, more)
  BY <1>2, <1>3, <1>4 DEF RowFits, Awarding
<1> USE DEF row, more
<1> QED  BY <1>2, <1>4, <1>5, OneEntry

(* A member that leads a group itself is in one whose members have been    *)
(* given up.                                                               *)
LEMMA KnownLeader ==
  ASSUME LotteryInv, NEW b \in Entrants \ astray, entry[b].parent # NoLeader
  PROVE  /\ entry[b].parent \in Entrants /\ entry[entry[b].parent].named
         /\ entry[entry[b].parent].parent = NoLeader
  BY DEF LotteryInv, LotteryTypeOK, Entries, MembersHaveLeader, Leads

(* Those whom a leader lets go are on their own, and the others given up.  *)
LEMMA DisbandSound ==
  ASSUME LotteryInv, UNCHANGED overwrote, NEW a \in Entrants, NEW out \in SUBSET Members(a),
         entry[a].parent = NoLeader, entry' \in [Entrants -> Entries],
         \A b \in Entrants : b # a => entry'[b] = IF b \in out THEN ResetMember(entry[b])
                                                  ELSE entry[b],
         entry'[a] \in {[entry[a] EXCEPT !.named = FALSE], Defaults("withdrawn")},
         Astray(Members(a) \ out)
  PROVE  EntriesSound' /\ NoMoreRooms
<1>1. astray \subseteq Entrants
      /\ astray' = {b \in astray \cup (Members(a) \ out) : entry'[b].parent # NoLeader}
  BY DEF Astray, LotteryInv, LotteryTypeOK
<1>2. /\ entry'[a].parent = NoLeader /\ ~entry'[a].named
      /\ entry'[a].status # "withdrawn" =>
           entry'[a].type = entry[a].type /\ entry'[a].won = entry[a].won
      /\ entry'[a].type \in {entry[a].type, "none"} \ {"group"}
      /\ entry'[a].status \in {entry[a].status, "withdrawn"}
  BY KnownEntry DEF Defaults, Entries, RowSound
<1>3. ASSUME NEW b \in out
      PROVE  /\ b \in Entrants /\ b # a /\ entry[b].parent = a /\ entry[b].type = "group"
             /\ entry'[b].parent = NoLeader /\ entry'[b].named = entry[b].named
             /\ entry'[b].type \in {"own", "none"}
             /\ \/ entry'[b].status = "withdrawn"
                \/ entry'[b].type = "own" /\ entry[b].status # "awarded"
                   /\ entry'[b].status = entry[b].status
  <2>1. b \in Entrants /\ b # a /\ entry[b].parent = a
    BY KnownEntry DEF Members
  <2> QED  BY <2>1, KnownEntry, ResetRow DEF RowSound
<1>4. ASSUME NEW b \in Entrants  PROVE RowSound(b)'
  <2>1. CASE b = a
    BY <1>2, <2>1, KnownEntry DEF RowSound, Awarding
  <2>2. CASE b \in out
    BY <1>3, <2>2, KnownEntry DEF RowSound, Awarding
  <2>3. CASE b # a /\ b \notin out
    BY <2>3, KnownEntry DEF RowSound
  <2> QED  BY <2>1, <2>2, <2>3
<1>5. MembersHaveLeader'
  <2> SUFFICES ASSUME NEW b \in Entrants, b \notin astray', entry'[b].parent # NoLeader
               PROVE  entry'[entry'[b].parent].named
                      /\ entry'[entry'[b].parent].parent = NoLeader
    BY DEF MembersHaveLeader, Leads
  <2>1. b # a /\ b \notin out /\ entry'[b] = entry[b] /\ b \notin astray /\ b \notin Members(a)
    BY <1>1, <1>2, <1>3
  <2>2. PICK p \in Entrants : p = entry[b].parent /\ entry[p].named /\ entry[p].parent = NoLeader
    BY <2>1, KnownLeader
  <2>3. p # a /\ p \notin out
    BY <1>3, <2>1, <2>2, KnownEntry DEF Members
  <2> QED  BY <2>1, <2>2, <2>3
<1>6. NoMoreRooms
  <2> SUFFICES ASSUME ~TakesRoomAlong, NEW b \in RoomHolders'  PROVE b \in RoomHolders
    BY DEF NoMoreRooms
  <2>1. b \in Entrants /\ entry'[b].type = "own" /\ entry'[b].won /\ entry'[b].status \in Awarding
    BY DEF RoomHolders
  <2>2. b \notin out
    BY <1>3, <2>1 DEF TakesRoomAlong, Awarding
  <2>3. CASE b = a
    BY <1>2, <2>1, <2>3, KnownEntry DEF RoomHolders, Awarding, Entries
  <2> QED  BY <2>1, <2>2, <2>3 DEF RoomHolders
<1> QED  BY <1>1, <1>4, <1>5, <1>6 DEF EntriesSound, Members

(* The leader gives up the group, but keeps its entry.                     *)
LEMMA DeleteGroupSound ==
  ASSUME LotteryInv, UNCHANGED overwrote, NEW a \in Entrants, DeleteGroup(a)
  PROVE  EntriesSound' /\ NoMoreRooms
<1>1. PICK out \in SUBSET Members(a) : entry' = Disbanded(a, out) /\ Astray(Members(a) \ out)
  BY DEF DeleteGroup, LetGo
<1>2. entry[a].parent = NoLeader /\ a \notin out
  BY KnownEntry DEF DeleteGroup, Leads, Members
<1>3. \A b \in Entrants : entry'[b] = IF b \in out THEN ResetMember(entry[b])
                                      ELSE IF b = a THEN [entry[a] EXCEPT !.named = FALSE]
                                      ELSE entry[b]
  BY <1>1, <1>2 DEF Disbanded
<1>4. entry' \in [Entrants -> Entries]
  <2>1. [entry[a] EXCEPT !.named = FALSE] \in Entries
    BY KnownEntry DEF Entries
  <2>2. \A b \in Entrants : entry'[b] \in Entries
    BY <1>3, <2>1, ResetRow, KnownEntry
  <2> QED  BY <1>1, <2>2 DEF Disbanded
<1> QED  BY <1>1, <1>2, <1>3, <1>4, DisbandSound

(* The leader gives up the group and its entry.                            *)
LEMMA WithdrawEntrySound ==
  ASSUME LotteryInv, UNCHANGED overwrote, NEW a \in Entrants, WithdrawEntry(a)
  PROVE  EntriesSound' /\ NoMoreRooms
<1>1. PICK out \in SUBSET Members(a) :
        entry' = [Disbanded(a, out) EXCEPT ![a] = Defaults("withdrawn")]
        /\ Astray(Members(a) \ out)
  BY DEF WithdrawEntry, LetGo, Cleared
<1>2. entry[a].parent = NoLeader /\ a \notin out
  BY KnownEntry DEF WithdrawEntry, Members
<1>3. \A b \in Entrants : entry'[b] = IF b \in out THEN ResetMember(entry[b])
                                      ELSE IF b = a THEN Defaults("withdrawn") ELSE entry[b]
  BY <1>1, <1>2 DEF Disbanded
<1>4. entry' \in [Entrants -> Entries]
  <2>1. \A b \in Entrants : entry'[b] \in Entries
    BY <1>3, ResetRow, BlankRow, KnownEntry
  <2> QED  BY <1>1, <2>1 DEF Disbanded
<1> QED  BY <1>1, <1>2, <1>3, <1>4, DisbandSound

(* An award is declined, for the whole group.                              *)
LEMMA DeclineSound ==
  ASSUME LotteryInv, UNCHANGED overwrote, NEW a \in Entrants, Decline(a)
  PROVE  EntriesSound' /\ NoMoreRooms
<1> DEFINE gone == {a} \cup Members(a)
<1>1. /\ entry' \in [Entrants -> Entries]
      /\ \A b \in Entrants : entry'[b] = IF b \in gone THEN Defaults("cancelled") ELSE entry[b]
      /\ astray \subseteq Entrants
      /\ astray' = {b \in astray : entry'[b].parent # NoLeader}
  BY KnownEntry, BlankRow DEF Decline, Cleared, Astray, LotteryInv, LotteryTypeOK
<1>2. /\ Defaults("cancelled").status = "cancelled" /\ Defaults("cancelled").type = "none"
      /\ ~Defaults("cancelled").named /\ Defaults("cancelled").parent = NoLeader
  BY BlankRow
<1>3. ASSUME NEW b \in Entrants  PROVE RowSound(b)'
  BY <1>1, <1>2, KnownEntry DEF RowSound, Awarding
<1>4. MembersHaveLeader'
  <2> SUFFICES ASSUME NEW b \in Entrants, b \notin astray', entry'[b].parent # NoLeader
               PROVE  entry'[entry'[b].parent].named
                      /\ entry'[entry'[b].parent].parent = NoLeader
    BY DEF MembersHaveLeader, Leads
  <2>1. b \notin gone /\ entry'[b] = entry[b] /\ b \notin astray
    BY <1>1, <1>2
  <2>2. PICK p \in Entrants : p = entry[b].parent /\ entry[p].named /\ entry[p].parent = NoLeader
    BY <2>1, KnownLeader
  <2>3. p \notin gone
    BY <2>1, <2>2, KnownEntry DEF Members
  <2> QED  BY <1>1, <2>1, <2>2, <2>3
<1>5. NoMoreRooms
  BY <1>1, <1>2 DEF NoMoreRooms, RoomHolders, Awarding
<1> QED  BY <1>1, <1>3, <1>4, <1>5 DEF EntriesSound

(* A member takes over: it gets the entry of the leader, who gets a blank  *)
(* one and follows with the others.  The room goes with the entry.         *)
LEMMA TransferSound ==
  ASSUME LotteryInv, UNCHANGED overwrote, NEW l \in Entrants, NEW m \in Entrants,
         TransferLeadership(l, m)
  PROVE  /\ EntriesSound'
         /\ \/ RoomHolders' \subseteq RoomHolders
            \/ l \in RoomHolders /\ RoomHolders' \subseteq (RoomHolders \ {l}) \cup {m}
<1> DEFINE old == entry[l]
           lead == [old EXCEPT !.parent = NoLeader, !.hidden = entry[m].hidden]
           left == [Defaults(old.status) EXCEPT !.type = "group", !.hidden = old.hidden]
           followers == (Members(l) \ {m}) \cup {l}
           more == IF entry[l].named THEN {} ELSE {l}
<1>1. entry[l].parent = NoLeader /\ entry[m].parent = l /\ m # l /\ entry[m].type = "group"
      /\ old.type # "group" /\ l # NoLeader
  BY KnownEntry DEF TransferLeadership, ValidMembers, Members, RowSound
<1>2. lead \in Entries /\ lead.parent = NoLeader /\ lead.named = old.named
      /\ lead.type = old.type /\ lead.status = old.status /\ lead.won = old.won
  BY KnownEntry DEF Entries
<1>3. left \in Entries /\ left.type = "group" /\ left.status = old.status /\ ~left.named
  BY KnownEntry DEF Entries, Defaults
<1>4. /\ entry'[m] = lead /\ entry'[l] = [left EXCEPT !.parent = m]
      /\ \A b \in Entrants \ {m, l} :
           entry'[b] = IF entry[b].parent = l THEN [entry[b] EXCEPT !.parent = m] ELSE entry[b]
      /\ astray' = {b \in astray \cup more : entry'[b].parent # NoLeader}
      /\ astray \subseteq Entrants /\ DOMAIN entry' = Entrants
      /\ entry' = [b \in Entrants |-> entry'[b]]
  BY <1>1, KnownEntry
     DEF TransferLeadership, Followers, Members, Astray, LotteryInv, LotteryTypeOK
<1> HIDE DEF lead, left, more
<1>5. entry'[l] \in Entries /\ entry'[l].type = "group" /\ entry'[l].status = old.status
      /\ ~entry'[l].named /\ entry'[l].parent = m
  BY <1>3, <1>4, KnownEntry DEF Entries
<1>6. ASSUME NEW b \in Entrants \ {l, m}
      PROVE  /\ entry'[b] \in Entries /\ entry'[b].type = entry[b].type
             /\ entry'[b].status = entry[b].status /\ entry'[b].named = entry[b].named
             /\ entry'[b].won = entry[b].won
             /\ entry'[b].parent = IF entry[b].parent = l THEN m ELSE entry[b].parent
  BY <1>4, KnownEntry DEF Entries
<1>7. entry' \in [Entrants -> Entries]
  <2>1. \A b \in Entrants : entry'[b] \in Entries
    BY <1>2, <1>4, <1>5, <1>6
  <2> QED  BY <1>4, <2>1
<1>8. ASSUME NEW b \in Entrants  PROVE RowSound(b)'
  <2>1. CASE b = l
    BY <1>5, <2>1, KnownEntry DEF RowSound
  <2>2. CASE b = m
    BY <1>1, <1>2, <1>4, <2>2, KnownEntry DEF RowSound
  <2>3. CASE b # l /\ b # m
    BY <1>6, <2>3, KnownEntry DEF RowSound
  <2> QED  BY <2>1, <2>2, <2>3
<1>9. MembersHaveLeader'
  <2> SUFFICES ASSUME NEW b \in Entrants, b \notin astray', entry'[b].parent # NoLeader
               PROVE  entry'[entry'[b].parent].named
                      /\ entry'[entry'[b].parent].parent = NoLeader
    BY DEF MembersHaveLeader, Leads
  <2>1. b \notin astray /\ b \notin more /\ b # m
    BY <1>2, <1>4
  <2>2. CASE b = l
    BY <1>2, <1>4, <1>5, <2>1, <2>2 DEF more
  <2>3. CASE b # l
    <3>1. entry'[b].parent = IF entry[b].parent = l THEN m ELSE entry[b].parent
      BY <1>6, <2>1, <2>3
    <3>2. entry[b].parent # NoLeader
      BY <1>1, <3>1
    <3>3. PICK p \in Entrants :
            p = entry[b].parent /\ entry[p].named /\ entry[p].parent = NoLeader
      BY <2>1, <3>2, KnownLeader
    <3>4. CASE p = l
      <4>1. entry'[b].parent = m
        BY <3>1, <3>3, <3>4
      <4>2. entry'[m].named /\ entry'[m].parent = NoLeader
        BY <1>2, <1>4, <3>3, <3>4
      <4> QED  BY <4>1, <4>2
    <3>5. CASE p # l
      <4>1. p # m
        BY <1>1, <3>3
      <4>2. entry'[b].parent = p /\ entry'[p].named = entry[p].named
            /\ entry'[p].parent = entry[p].parent
        BY <1>1, <1>6, <3>1, <3>3, <3>5, <4>1
      <4> QED  BY <3>3, <4>2
    <3> QED  BY <3>4, <3>5
  <2> QED  BY <2>2, <2>3
<1>10. ASSUME NEW b \in RoomHolders'
       PROVE  b \in RoomHolders \ {l} \/ (b = m /\ l \in RoomHolders)
  <2>1. b \in Entrants /\ entry'[b].type = "own" /\ entry'[b].won /\ entry'[b].status \in Awarding
    BY DEF RoomHolders
  <2>2. b # l
    BY <1>5, <2>1
  <2>3. CASE b = m
    BY <1>2, <1>4, <2>1, <2>3 DEF RoomHolders
  <2>4. CASE b # m
    BY <1>6, <2>1, <2>2, <2>4 DEF RoomHolders
  <2> QED  BY <2>3, <2>4
<1>11. more \subseteq Entrants
  BY DEF more
<1> QED  BY <1>4, <1>7, <1>8, <1>9, <1>10, <1>11 DEF EntriesSound

(* Steps that leave everybody in their group.                              *)
LEMMA SameGroups ==
  ASSUME LotteryInv,
         \A a \in Entrants : entry'[a].parent = entry[a].parent /\ entry'[a].named = entry[a].named,
         \A a \in astray : entry'[a].parent # NoLeader => a \in astray'
  PROVE  MembersHaveLeader'
<1> SUFFICES ASSUME NEW b \in Entrants \ astray, entry'[b].parent # NoLeader
             PROVE  entry'[entry'[b].parent].named
                    /\ entry'[entry'[b].parent].parent = NoLeader
  BY DEF MembersHaveLeader, Leads
<1>1. PICK p \in Entrants : p = entry[b].parent /\ entry[p].named /\ entry[p].parent = NoLeader
  BY KnownLeader
<1> QED  BY <1>1

-----------------------------------------------------------------------------
(* Requests, and the lottery                                               *)

(* The page of a search is dropped, or shows somebody else.                *)
FoundKept ==
  \/ found' \in {found, NoPage}
  \/ \E a, g \in Entrants : a # g /\ found' = <<a, g>>

RoomsKept ==
  \/ Cardinality(RoomHolders') <= Cardinality(RoomHolders)
  \/ TakesRoomAlong
  \/ overwrote

(* The rooms can be counted.                                               *)
LEMMA RoomHoldersFinite ==
  /\ IsFiniteSet(RoomHolders) /\ Cardinality(RoomHolders) \in Nat
  /\ IsFiniteSet(RoomHolders') /\ Cardinality(RoomHolders') \in Nat
<1>1. RoomHolders \subseteq Entrants /\ RoomHolders' \subseteq Entrants
  BY DEF RoomHolders
<1> QED  BY <1>1, LotteryAssumption, FS_Subset, FS_CardinalityType DEF LotteryAssumption

LEMMA NoMoreRoomsKept ==
  ASSUME NoMoreRooms  PROVE RoomsKept
<1>1. CASE RoomHolders' \subseteq RoomHolders
  <2>1. Cardinality(RoomHolders') <= Cardinality(RoomHolders)
    BY <1>1, RoomHoldersFinite, FS_Subset
  <2> QED  BY <2>1 DEF RoomsKept
<1> QED  BY <1>1 DEF NoMoreRooms, RoomsKept

(* A room that changes hands stays one room.                               *)
LEMMA SwappedRoomKept ==
  ASSUME NEW l, NEW m, l \in RoomHolders, RoomHolders' \subseteq (RoomHolders \ {l}) \cup {m}
  PROVE  RoomsKept
<1> DEFINE others == RoomHolders \ {l}
<1>1. IsFiniteSet(others) /\ Cardinality(others) = Cardinality(RoomHolders) - 1
  BY RoomHoldersFinite, FS_RemoveElement
<1> HIDE DEF others
<1>2. IsFiniteSet(others \cup {m})
      /\ Cardinality(others \cup {m}) \in {Cardinality(others), Cardinality(others) + 1}
  BY <1>1, FS_AddElement
<1>3. Cardinality(RoomHolders') <= Cardinality(others \cup {m})
  BY <1>2, FS_Subset DEF others
<1>4. Cardinality(RoomHolders') <= Cardinality(RoomHolders)
  BY <1>1, <1>2, <1>3, RoomHoldersFinite
<1> QED  BY <1>4 DEF RoomsKept

(* Every request of an attendee.                                           *)
LEMMA RequestSound ==
  ASSUME LotteryInv, NEW a \in Entrants, Request(a)
  PROVE  EntriesSound' /\ RoomsKept /\ FoundKept
<1>1. UNCHANGED overwrote
  BY DEF Request
<1>2. CASE AcceptTerms(a) \/ ChooseLodging(a) \/ GuaranteeConfirm(a) \/ SaveGroup(a)
  <2>1. EntriesSound' /\ NoMoreRooms
    BY <1>1, <1>2, AcceptTermsSound, ChooseLodgingSound, GuaranteeConfirmSound, SaveGroupSound
  <2> QED  BY <1>2, <2>1, NoMoreRoomsKept
           DEF FoundKept, AcceptTerms, ChooseLodging, GuaranteeConfirm, SaveGroup
<1>3. CASE SwitchEntryType(a) \/ ReenterLottery(a) \/ DeleteGroup(a) \/ WithdrawEntry(a)
           \/ Decline(a)
  <2>1. EntriesSound' /\ NoMoreRooms
    BY <1>1, <1>3, SwitchEntryTypeSound, ReenterLotterySound, DeleteGroupSound,
       WithdrawEntrySound, DeclineSound
  <2> QED  BY <1>3, <2>1, NoMoreRoomsKept
           DEF FoundKept, SwitchEntryType, ReenterLottery, DeleteGroup, WithdrawEntry, Decline
<1>4. CASE LeaveGroup(a)
  <2>1. EntriesSound' /\ NoMoreRooms
    BY <1>1, <1>4, LeaveGroupSound DEF LeaveGroup
  <2> QED  BY <1>4, <2>1, NoMoreRoomsKept DEF FoundKept, LeaveGroup
<1>5. ASSUME NEW m \in Entrants, RemoveGroupMember(a, m)
      PROVE  EntriesSound' /\ RoomsKept /\ FoundKept
  <2>1. entry[m].parent # NoLeader
    BY <1>5, KnownEntry DEF RemoveGroupMember, ValidMembers, Members
  <2>2. EntriesSound' /\ NoMoreRooms
    BY <1>1, <1>5, <2>1, LeaveGroupSound DEF RemoveGroupMember
  <2> QED  BY <1>5, <2>2, NoMoreRoomsKept DEF FoundKept, RemoveGroupMember
<1>6. ASSUME NEW m \in Entrants, TransferLeadership(a, m)
      PROVE  EntriesSound' /\ RoomsKept /\ FoundKept
  <2>1. EntriesSound'
        /\ \/ RoomHolders' \subseteq RoomHolders
           \/ a \in RoomHolders /\ RoomHolders' \subseteq (RoomHolders \ {a}) \cup {m}
    BY <1>1, <1>6, TransferSound
  <2>2. RoomsKept
    BY <2>1, NoMoreRoomsKept, SwappedRoomKept DEF NoMoreRooms
  <2> QED  BY <1>6, <2>1, <2>2 DEF FoundKept, TransferLeadership
<1>7. ASSUME NEW g \in Entrants, RoomGroupSearch(a, g)
      PROVE  EntriesSound' /\ RoomsKept /\ FoundKept
  <2>1. EntriesSound'
    BY <1>1, <1>7 DEF RoomGroupSearch, EntriesSound, LotteryInv, LotteryTypeOK, RowSound,
                      MembersHaveLeader, Leads
  <2>2. NoMoreRooms
    BY <1>7 DEF RoomGroupSearch, NoMoreRooms, RoomHolders
  <2> QED  BY <1>7, <2>1, <2>2, NoMoreRoomsKept DEF FoundKept, RoomGroupSearch
<1>8. ASSUME NEW g \in Entrants, JoinGroup(a, g) \/ AcceptTermsAndJoin(a, g)
      PROVE  EntriesSound' /\ RoomsKept /\ FoundKept
  <2> DEFINE more == Members(a) \cup IF Leads(g) THEN {} ELSE {a}
  <2>1. PICK old \in {entry[a], [entry[a] EXCEPT !.status = "partial"]} :
          found = <<a, g>> /\ entry' = [entry EXCEPT ![a] = Joined(old, g)] /\ Astray(more)
          /\ found' = NoPage
    BY <1>8 DEF JoinGroup, AcceptTermsAndJoin
  <2>2. EntriesSound' /\ NoMoreRooms
    BY <1>1, <2>1, JoinSound
  <2> QED  BY <2>1, <2>2, NoMoreRoomsKept DEF FoundKept
<1> QED  BY <1>2, <1>3, <1>4, <1>5, <1>6, <1>7, <1>8 DEF Request

(* Results are taken back, awarded and shown for whoever has them.         *)
LEMMA AdminSound ==
  ASSUME LotteryInv, AdminRequest
  PROVE  EntriesSound' /\ RoomsKept /\ FoundKept
<1>1. UNCHANGED <<found, astray, overwrote>>
  BY DEF AdminRequest
<1>2. ASSUME NEW a \in Entrants
      PROVE  /\ entry'[a] \in Entries
             /\ entry'[a].parent = entry[a].parent /\ entry'[a].named = entry[a].named
             /\ entry'[a].type = entry[a].type
             /\ entry'[a].status = "none" => entry[a].status = "none"
             /\ entry'[a].status \in Awarding => entry[a].status \in Awarding
             /\ entry'[a].won /\ entry'[a].status \in Awarding => entry[a].won
  <2>1. CASE ResetLottery
    BY <2>1, KnownEntry DEF ResetLottery, Processed, Entries, Awarding
  <2>2. CASE AwardLottery
    BY <2>2, KnownEntry DEF AwardLottery, Processed, Entries, Awarding
  <2>3. CASE ShowAwards
    BY <2>3, KnownEntry DEF ShowAwards, Entries, Awarding
  <2> QED  BY <2>1, <2>2, <2>3 DEF AdminRequest
<1>3. entry' \in [Entrants -> Entries]
  BY <1>2 DEF AdminRequest, ResetLottery, AwardLottery, ShowAwards
<1>4. \A a \in Entrants : RowSound(a)'
  BY <1>1, <1>2, KnownEntry DEF RowSound
<1>5. MembersHaveLeader'
  BY <1>1, <1>2, SameGroups
<1>6. NoMoreRooms
  BY <1>2 DEF NoMoreRooms, RoomHolders
<1> QED  BY <1>1, <1>3, <1>4, <1>5, <1>6, NoMoreRoomsKept
         DEF EntriesSound, FoundKept, LotteryInv, LotteryTypeOK

(* A lottery that is being solved has its winners.                         *)
LEMMA RunningLottery ==
  ASSUME LotteryInv, lottery.running
  PROVE  lottery \in [running : {TRUE}, winners : SUBSET Entrants, stale : BOOLEAN]
<1>1. NoLottery.running = FALSE
  BY DEF NoLottery
<1>2. lottery # NoLottery
  BY <1>1
<1> QED  BY <1>2 DEF LotteryInv, LotteryTypeOK

(* A solution stays one while no entry changes.                            *)
LEMMA SameSolution ==
  ASSUME SolutionFits, entry' = entry, lottery'.running, ~lottery'.stale,
         lottery.running, ~lottery.stale, lottery'.winners = lottery.winners
  PROVE  SolutionFits'
<1>1. PICK leaders \in SUBSET Candidates :
        /\ Cardinality(leaders) + Cardinality(Assigned) <= Inventory
        /\ lottery.winners = WithMembers(leaders)
  BY DEF SolutionFits
<1>2. Candidates' = Candidates /\ Assigned' = Assigned
      /\ WithMembers(leaders)' = WithMembers(leaders)
  BY DEF Candidates, Batch, Assigned, WithMembers
<1> QED  BY <1>1, <1>2 DEF SolutionFits

(* What LotteryInv says depends on its variables only.                     *)
LEMMA SameLottery ==
  ASSUME LotteryInv, UNCHANGED <<entry, found, lottery, astray, overwrote, changes>>,
         formOpen' \in BOOLEAN
  PROVE  LotteryInv'
<1>1. LotteryTypeOK'
  BY DEF LotteryInv, LotteryTypeOK
<1>2. SolutionFits'
  <2>1. CASE lottery.running /\ ~lottery.stale
    BY <2>1, SameSolution DEF LotteryInv
  <2>2. CASE ~(lottery.running /\ ~lottery.stale)
    BY <2>2 DEF SolutionFits
  <2> QED  BY <2>1, <2>2
<1> QED  BY <1>1, <1>2 DEF LotteryInv, FoundOther, RowSound, MembersHaveLeader, Leads

(* What no request does is read what a lottery is to write.                *)
LEMMA RequestInv ==
  ASSUME LotteryInv, EntriesSound', FoundKept, Outdates, UNCHANGED <<formOpen, overwrote>>,
         changes' = changes \/ Changes
  PROVE  LotteryInv'
<1>1. found' \in (Entrants \X Entrants) \cup {NoPage} /\ FoundOther'
  <2>1. CASE found' = found
    BY <2>1 DEF LotteryInv, LotteryTypeOK, FoundOther
  <2>2. CASE found' = NoPage
    BY <2>2 DEF FoundOther, NoPage
  <2>3. CASE \E a, g \in Entrants : a # g /\ found' = <<a, g>>
    BY <2>3 DEF FoundOther
  <2> QED  BY <2>1, <2>2, <2>3 DEF FoundKept
<1>2. changes' \in 0 .. MaxChanges
  BY LotteryAssumption DEF LotteryAssumption, Changes, LotteryInv, LotteryTypeOK
<1>3. CASE ~lottery.running
  <2>1. lottery' = lottery /\ ~lottery'.running
    BY <1>3 DEF Outdates
  <2>2. LotteryTypeOK'
    BY <1>1, <1>2, <2>1 DEF LotteryInv, LotteryTypeOK, EntriesSound
  <2>3. SolutionFits'
    BY <2>1 DEF SolutionFits
  <2> QED  BY <1>1, <2>2, <2>3 DEF LotteryInv, EntriesSound
<1>4. CASE lottery.running
  <2>1. lottery \in [running : {TRUE}, winners : SUBSET Entrants, stale : BOOLEAN]
    BY <1>4, RunningLottery
  <2>2. lottery' = [lottery EXCEPT !.stale = @ \/ entry' # entry]
    BY <1>4 DEF Outdates
  <2>3. /\ lottery' \in [running : {TRUE}, winners : SUBSET Entrants, stale : BOOLEAN]
        /\ lottery'.running /\ lottery'.winners = lottery.winners
        /\ ~lottery'.stale => ~lottery.stale /\ entry' = entry
    BY <2>1, <2>2
  <2>4. LotteryTypeOK'
    BY <1>1, <1>2, <2>3 DEF LotteryInv, LotteryTypeOK, EntriesSound
  <2>5. SolutionFits'
    <3>1. CASE lottery'.stale
      BY <3>1 DEF SolutionFits
    <3>2. CASE ~lottery'.stale
      BY <1>4, <2>3, <3>2, SameSolution DEF LotteryInv
    <3> QED  BY <3>1, <3>2
  <2> QED  BY <1>1, <2>4, <2>5 DEF LotteryInv, EntriesSound
<1> QED  BY <1>3, <1>4

(* A solution is for the rooms that are left when it is computed.          *)
LEMMA SolveLotteryInv ==
  ASSUME LotteryInv, SolveLottery
  PROVE  LotteryInv'
<1>1. PICK leaders \in SUBSET Candidates :
        /\ Cardinality(leaders) + Cardinality(Assigned) <= Inventory
        /\ lottery' = [running |-> TRUE, winners |-> WithMembers(leaders), stale |-> FALSE]
  BY DEF SolveLottery
<1>2. UNCHANGED <<entry, found, formOpen, astray, overwrote>> /\ Changes
  BY DEF SolveLottery
<1>3. WithMembers(leaders) \subseteq Entrants
  BY DEF WithMembers, Candidates, Batch
<1>4. changes' \in 0 .. MaxChanges
  BY <1>2, LotteryAssumption DEF LotteryAssumption, Changes, LotteryInv, LotteryTypeOK
<1>5. LotteryTypeOK'
  BY <1>1, <1>2, <1>3, <1>4 DEF LotteryInv, LotteryTypeOK
<1>6. SolutionFits'
  <2>1. Candidates' = Candidates /\ Assigned' = Assigned
        /\ WithMembers(leaders)' = WithMembers(leaders)
    BY <1>2 DEF Candidates, Batch, Assigned, WithMembers
  <2> QED  BY <1>1, <2>1 DEF SolutionFits
<1> QED  BY <1>2, <1>5, <1>6
         DEF LotteryInv, FoundOther, RowSound, MembersHaveLeader, Leads

(* Only the leaders that a solution counts get a room by it.               *)
LEMMA CommitLotterySound ==
  ASSUME LotteryInv, CommitLottery
  PROVE  LotteryInv' /\ (Cardinality(RoomHolders') <= Inventory \/ overwrote')
<1>1. lottery \in [running : {TRUE}, winners : SUBSET Entrants, stale : BOOLEAN]
      /\ UNCHANGED <<found, formOpen, changes>> /\ lottery' = NoLottery
      /\ overwrote' = (overwrote \/ lottery.stale) /\ overwrote \in BOOLEAN
  BY RunningLottery DEF CommitLottery, LotteryInv, LotteryTypeOK
<1>2. ASSUME NEW a \in Entrants
      PROVE  /\ entry'[a] \in Entries
             /\ entry'[a].parent = entry[a].parent /\ entry'[a].named = entry[a].named
             /\ entry'[a].type = entry[a].type
             /\ a \in lottery.winners => entry'[a].status = "processed"
             /\ a \notin lottery.winners => entry'[a] = entry[a]
  BY KnownEntry DEF CommitLottery, Entries, Awarding
<1>3. entry' \in [Entrants -> Entries]
  BY <1>2 DEF CommitLottery
<1>4. astray \subseteq Entrants /\ astray' = {a \in astray : entry'[a].parent # NoLeader}
  BY DEF CommitLottery, Astray, LotteryInv, LotteryTypeOK
<1>5. MembersHaveLeader'
  BY <1>2, <1>4, SameGroups
<1>6. LotteryTypeOK'
  BY <1>1, <1>3, <1>4 DEF LotteryInv, LotteryTypeOK
<1>7. SolutionFits' /\ FoundOther'
  BY <1>1 DEF SolutionFits, NoLottery, LotteryInv, FoundOther
<1>8. CASE lottery.stale
  <2>1. \A a \in Entrants : RowSound(a)'
    BY <1>1, <1>2, <1>8, KnownEntry DEF RowSound
  <2> QED  BY <1>1, <1>5, <1>6, <1>7, <1>8, <2>1 DEF LotteryInv
<1>9. CASE ~lottery.stale
  <2>1. PICK leaders \in SUBSET Candidates :
          /\ Cardinality(leaders) + Cardinality(Assigned) <= Inventory
          /\ lottery.winners = WithMembers(leaders)
    BY <1>1, <1>9 DEF LotteryInv, SolutionFits
  <2>2. ASSUME NEW a \in lottery.winners
        PROVE  a \in leaders \/ entry[a].type = "group"
    BY <2>1, KnownEntry DEF WithMembers, Candidates, Batch, RowSound
  <2>3. \A a \in leaders : entry[a].type = "own"
    BY DEF Candidates
  <2>4. \A a \in Entrants : RowSound(a)'
    BY <1>1, <1>2, <1>9, <2>2, <2>3, KnownEntry DEF RowSound
  <2>5. RoomHolders' \subseteq leaders \cup Assigned
    BY <1>2, <2>2 DEF RoomHolders, Assigned
  <2>6. IsFiniteSet(leaders) /\ IsFiniteSet(Assigned)
    <3>1. leaders \subseteq Entrants /\ Assigned \subseteq Entrants
      BY DEF Candidates, Batch, Assigned
    <3> QED  BY <3>1, LotteryAssumption, FS_Subset DEF LotteryAssumption
  <2>7. Cardinality(leaders \cup Assigned) <= Cardinality(leaders) + Cardinality(Assigned)
        /\ IsFiniteSet(leaders \cup Assigned)
    <3> DEFINE both == leaders \cap Assigned
    <3>1. both \subseteq leaders
      OBVIOUS
    <3>2. Cardinality(both) \in Nat
      BY <2>6, <3>1, FS_Subset, FS_CardinalityType
    <3>3. Cardinality(leaders) \in Nat /\ Cardinality(Assigned) \in Nat
      BY <2>6, FS_CardinalityType
    <3>4. IsFiniteSet(leaders \cup Assigned)
          /\ Cardinality(leaders \cup Assigned)
               = Cardinality(leaders) + Cardinality(Assigned) - Cardinality(both)
      BY <2>6, FS_Union
    <3> HIDE DEF both
    <3> QED  BY <3>2, <3>3, <3>4
  <2>8. Cardinality(RoomHolders') <= Cardinality(leaders \cup Assigned)
    BY <2>5, <2>7, FS_Subset
  <2>9. Cardinality(RoomHolders') <= Inventory
    BY <2>1, <2>6, <2>7, <2>8, RoomHoldersFinite, FS_CardinalityType, LotteryAssumption
       DEF LotteryAssumption
  <2> QED  BY <1>5, <1>6, <1>7, <2>4, <2>9 DEF LotteryInv
<1> QED  BY <1>1, <1>8, <1>9

-----------------------------------------------------------------------------
(* The theorems                                                            *)

LEMMA LotteryInitInv == LotteryInit => LotteryInv
<1> SUFFICES ASSUME LotteryInit PROVE LotteryInv
  OBVIOUS
<1>1. \A a \in Entrants : entry[a] = Defaults("none")
  BY DEF LotteryInit
<1>2. LotteryTypeOK
  <2>1. entry \in [Entrants -> Entries]
    BY BlankRow DEF LotteryInit
  <2>2. changes \in 0 .. MaxChanges
    BY LotteryAssumption DEF LotteryInit, LotteryAssumption
  <2> QED  BY <2>1, <2>2 DEF LotteryInit, LotteryTypeOK
<1> QED  BY <1>1, <1>2, BlankRow
         DEF LotteryInit, LotteryInv, FoundOther, RowSound, SolutionFits, MembersHaveLeader,
             NoPage, NoLottery, Awarding

(* Every step keeps LotteryInv, and gives away no room that is not there.  *)
LEMMA LotteryStep ==
  ASSUME LotteryInv, [LotteryNext]_lotteryVars
  PROVE  LotteryInv' /\ (RoomsKept \/ Cardinality(RoomHolders') <= Inventory \/ overwrote')
<1>1. ASSUME NEW a \in Entrants, Request(a)
      PROVE  LotteryInv' /\ RoomsKept
  <2>1. changes' = changes \/ Changes
    BY <1>1 DEF Request
  <2> QED  BY <1>1, <2>1, RequestSound, RequestInv DEF Request
<1>2. CASE AdminRequest
  <2>1. changes' = changes \/ Changes
    BY <1>2 DEF AdminRequest
  <2> QED  BY <1>2, <2>1, AdminSound, RequestInv DEF AdminRequest
<1>3. CASE CloseForm
  <2>1. UNCHANGED <<entry, found, lottery, astray, overwrote, changes>> /\ formOpen' \in BOOLEAN
    BY <1>3 DEF CloseForm
  <2>2. LotteryInv'
    BY <2>1, SameLottery
  <2>3. NoMoreRooms
    BY <2>1 DEF NoMoreRooms, RoomHolders
  <2> QED  BY <2>2, <2>3, NoMoreRoomsKept
<1>4. CASE SolveLottery
  <2>1. NoMoreRooms
    BY <1>4 DEF SolveLottery, NoMoreRooms, RoomHolders
  <2> QED  BY <1>4, <2>1, SolveLotteryInv, NoMoreRoomsKept
<1>5. CASE CommitLottery
  BY <1>5, CommitLotterySound
<1>6. CASE UNCHANGED lotteryVars
  <2>1. LotteryInv'
    BY <1>6, SameLottery DEF lotteryVars, LotteryInv, LotteryTypeOK
  <2>2. NoMoreRooms
    BY <1>6 DEF lotteryVars, NoMoreRooms, RoomHolders
  <2> QED  BY <2>1, <2>2, NoMoreRoomsKept
<1> QED  BY <1>1, <1>2, <1>3, <1>4, <1>5, <1>6 DEF LotteryNext

LEMMA LotteryInvariant == LotterySpec => []LotteryInv
<1>1. LotteryInv /\ [LotteryNext]_lotteryVars => LotteryInv'
  BY LotteryStep
<1> QED  BY <1>1, LotteryInitInv, PTL DEF LotterySpec

(* Every row of the table of entries, and every lottery, is of the form    *)
(* that the code gives them.                                               *)
THEOREM LotteryTypeCorrect == LotterySpec => []LotteryTypeOK
<1>1. LotteryInv => LotteryTypeOK
  BY DEF LotteryInv
<1> QED  BY <1>1, LotteryInvariant, PTL

(* However joining, leaving, transfers of leadership, withdrawals and      *)
(* lotteries meet, nobody is in a group whose leader has none.             *)
THEOREM GroupsKeepTheirLeader == LotterySpec => []MembersHaveLeader
<1>1. LotteryInv => MembersHaveLeader
  BY DEF LotteryInv
<1> QED  BY <1>1, LotteryInvariant, PTL

(* No step gives away more rooms than there are, over any number of        *)
(* lotteries, awards, resets and transfers.                                *)
THEOREM LotteriesFitTheInventory == LotterySpec => RoomsFit
<1> DEFINE Fits == Cardinality(RoomHolders') > Cardinality(RoomHolders)
                     => \/ Cardinality(RoomHolders') <= Inventory
                        \/ TakesRoomAlong
                        \/ overwrote'
<1>1. LotteryInv /\ [LotteryNext]_lotteryVars => [Fits]_lotteryVars
  <2> SUFFICES ASSUME LotteryInv, [LotteryNext]_lotteryVars  PROVE Fits
    OBVIOUS
  <2>1. overwrote => overwrote' \/ RoomHolders' = RoomHolders
    BY DEF LotteryNext, Request, CloseForm, SolveLottery, CommitLottery, AdminRequest,
           lotteryVars
  <2> QED  BY <2>1, LotteryStep, RoomHoldersFinite DEF RoomsKept
<1> QED  BY <1>1, LotteryInvariant, PTL DEF LotterySpec, RoomsFit

=============================================================================
