------------------------------- MODULE Attractions -------------------------------
(***************************************************************************)
(* Sign-ups for the events of an attraction: places, waiting lists,        *)
(* check-in, and the messages that tell attendees of them.                 *)
(*                                                                         *)
(* A handler reads what it decides by, and writes when it commits.  No row *)
(* is locked; what stands in its way is that an attendee has one sign-up   *)
(* for an event (a unique constraint), and that a row it changes must      *)
(* still be there (a deleted row may be deleted again).                    *)
(*                                                                         *)
(* The rows are numbered in the order they are made, which is that of      *)
(* their signup_time.                                                      *)
(*                                                                         *)
(* Taken as given: sign-ups are open, attendees have paid and have not     *)
(* opted out, and they are told by text or by email.                       *)
(***************************************************************************)
EXTENDS Integers, FiniteSets

CONSTANTS
  Attendees,      \* the registrations
  Events,         \* the events of an attraction
  Exclusive,      \* the sets of events of which an attendee takes only one:
                  \* those of a feature or the whole attraction, if restricted
  Waitlisted,     \* the events with waitlist_available
  WaitlistSlots,  \* waitlist_slots[e]; 0 stands for any number
  FirstSlots,     \* slots[e] at first
  Texters,        \* the attendees who are told by text
  MaxSlots,       \* bound: the largest number of slots
  MaxSignups,     \* bound: sign-ups ever made
  Workers,        \* bound: handlers in flight at once
  Requests,       \* bound: the kinds of handler that are started
  Nobody,         \* the attendee of a row that is not made yet
  NoEvent         \* its event

ASSUME AttractionConstants ==
  /\ Exclusive \subseteq SUBSET Events
  /\ Waitlisted \subseteq Events
  /\ WaitlistSlots \in [Events -> Nat]
  /\ MaxSlots \in Nat /\ MaxSignups \in Nat
  /\ FirstSlots \in [Events -> 0 .. MaxSlots]
  /\ Texters \subseteq Attendees
  /\ Nobody \notin Attendees \cup Workers /\ NoEvent \notin Events
  /\ Requests \subseteq {"signup", "cancel", "staff", "pull", "checkin", "undo",
                         "slots", "notice", "reply", "crash"}

Ids == 1 .. MaxSignups

VARIABLES
  slots,      \* slots[e]
  state,      \* state[s]: none, in, waiting (on_waitlist), or gone (deleted)
  who,        \* who[s]: attendee_id
  event,      \* event[s]: attraction_event_id
  checkedIn,  \* the rows with a checkin_time
  queued,     \* the rows of waiting send_waitlist_notification tasks
  told,       \* the rows whose attendee was told that they are off the waitlist
  noticed,    \* the attendees and events a notice is recorded for
  notified,   \* the attendees with any recorded notification
  inbox,      \* inbox[a]: the event of the last unanswered text to attendee a
  lastText,   \* lastText[a]: the event of the last text recorded for a
  job,        \* job[w]: what handler w read, and is about to commit
  crashed     \* whether a handler was killed

rows == <<slots, state, who, event, checkedIn>>
messages == <<queued, told, noticed, notified, inbox, lastText>>
vars == <<rows, messages, job, crashed>>

Ops == {"none", "signup", "staff", "leave", "cancel", "pull", "checkin", "undo"}

Jobs == [ op    : Ops,
          who   : Attendees \cup {Nobody},  \* of the row to insert, if any
          event : Events \cup {NoEvent},    \* of that row
          wait  : BOOLEAN,                  \* whether it is on the waitlist
          row   : SUBSET Ids,               \* the row the request is about
          next  : SUBSET Ids,               \* the row to let in
          fresh : BOOLEAN ]        \* nothing was committed since it began

Idle == [ op |-> "none", who |-> Nobody, event |-> NoEvent, wait |-> FALSE,
          row |-> {}, next |-> {}, fresh |-> TRUE ]

TypeOK ==
  /\ slots \in [Events -> 0 .. MaxSlots]
  /\ state \in [Ids -> {"none", "in", "waiting", "gone"}]
  /\ who \in [Ids -> Attendees \cup {Nobody}]
  /\ event \in [Ids -> Events \cup {NoEvent}]
  /\ checkedIn \subseteq Ids
  /\ queued \subseteq Ids
  /\ told \subseteq Ids
  /\ noticed \subseteq Attendees \X Events
  /\ notified \subseteq Attendees
  /\ inbox \in [Attendees -> Events \cup {NoEvent}]
  /\ lastText \in [Attendees -> Events \cup {NoEvent}]
  /\ job \in [Workers -> Jobs]
  /\ crashed \in BOOLEAN

Init ==
  /\ slots = FirstSlots
  /\ state = [s \in Ids |-> "none"]
  /\ who = [s \in Ids |-> Nobody]
  /\ event = [s \in Ids |-> NoEvent]
  /\ checkedIn = {}
  /\ queued = {} /\ told = {}
  /\ noticed = {} /\ notified = {}
  /\ inbox = [a \in Attendees |-> NoEvent]
  /\ lastText = [a \in Attendees |-> NoEvent]
  /\ job = [w \in Workers |-> Idle]
  /\ crashed = FALSE

-----------------------------------------------------------------------------
(* The rows there are.                                                     *)
Live == {s \in Ids : state[s] \in {"in", "waiting"}}
Unused == {s \in Ids : state[s] = "none"}
First(S) == {s \in S : \A t \in S : s <= t}

SignupOf(a, e) == {s \in Live : who[s] = a /\ event[s] = e}
SignedUp(e) == {s \in Ids : state[s] = "in" /\ event[s] = e}
Waiting(e) == {s \in Ids : state[s] = "waiting" /\ event[s] = e}

(* Faulty: one sign-up too many.                                           *)
SoldOutLate(e) == slots[e] < Cardinality(SignedUp(e))

SoldOut(e) == slots[e] <= Cardinality(SignedUp(e))

WaitlistOpen(e) ==
  /\ e \in Waitlisted
  /\ WaitlistSlots[e] = 0 \/ WaitlistSlots[e] > Cardinality(Waiting(e))

(* Faulty: only the event itself is looked at.                             *)
AllowedHere(a, e) == SignupOf(a, e) = {}

(* Whether an attendee may take another of the events that exclude e.      *)
Allowed(a, e) ==
  \A S \in Exclusive : e \in S => \A d \in S : SignupOf(a, d) = {}

(* The new row of handler w is within the bound on rows.                   *)
RoomForRow == Cardinality(Unused) > Cardinality({v \in Workers : job[v].who # Nobody})

-----------------------------------------------------------------------------
(* Handlers: what they read.                                               *)

Begin(w, j) ==
  /\ job[w].op = "none"
  /\ job' = [job EXCEPT ![w] = j]
  /\ UNCHANGED <<rows, messages, crashed>>

(* signup_for_event.                                                       *)
SignupForEvent(w, a, e) ==
  /\ SignupOf(a, e) = {}
  /\ Allowed(a, e)
  /\ SoldOut(e) => WaitlistOpen(e)
  /\ RoomForRow
  /\ Begin(w, [Idle EXCEPT !.op = "signup", !.who = a, !.event = e,
                           !.wait = SoldOut(e)])

(* sign_up: the staff may go over the number of slots.                     *)
SignUp(w, a, e) ==
  /\ SignupOf(a, e) = {}
  /\ RoomForRow
  /\ Begin(w, [Idle EXCEPT !.op = "staff", !.who = a, !.event = e])

(* cancel_signup loads the row; one on the waitlist is just deleted ...    *)
CancelSignup(w, s) ==
  /\ s \in Live \ checkedIn
  /\ Begin(w, [Idle EXCEPT !.op = IF state[s] = "waiting" THEN "cancel" ELSE "leave",
                           !.row = {s}])

(* Faulty: the last one on the waitlist is let in.                         *)
AddLastWaitlist(w) ==
  LET last(e) == {s \in Waiting(e) : \A t \in Waiting(e) : t <= s} IN
  /\ job[w].op = "leave"
  /\ \E s \in job[w].row :
       /\ job' = [job EXCEPT ![w].op = "cancel", ![w].next = last(event[s])]
       /\ queued' = queued \cup last(event[s])
  /\ UNCHANGED <<rows, told, noticed, notified, inbox, lastText, crashed>>

(* Faulty: nobody is let in.                                               *)
AddNobody(w) ==
  /\ job[w].op = "leave"
  /\ job' = [job EXCEPT ![w].op = "cancel"]
  /\ UNCHANGED <<rows, messages, crashed>>

(* ... for another one add_next_waitlist lets in the first of the waitlist *)
(* and queues the message about it, before anything is committed.          *)
AddNextWaitlist(w) ==
  /\ job[w].op = "leave"
  /\ \E s \in job[w].row :
       /\ job' = [job EXCEPT ![w].op = "cancel", ![w].next = First(Waiting(event[s]))]
       /\ queued' = queued \cup First(Waiting(event[s]))
  /\ UNCHANGED <<rows, told, noticed, notified, inbox, lastText, crashed>>

(* pull_from_waitlist: the staff let anyone in, and may have it told.      *)
PullFromWaitlist(w, s) ==
  /\ job[w].op = "none"
  /\ s \in Live \ checkedIn
  /\ job' = [job EXCEPT ![w] = [Idle EXCEPT !.op = "pull",
                                  !.next = {s} \cap {t \in Ids : state[t] = "waiting"}]]
  /\ queued' \in {queued, queued \cup {s}}
  /\ UNCHANGED <<rows, told, noticed, notified, inbox, lastText, crashed>>

CheckinSignup(w, s) ==
  /\ s \in Live \ checkedIn /\ state[s] # "waiting"
  /\ Begin(w, [Idle EXCEPT !.op = "checkin", !.row = {s}])

UndoCheckinSignup(w, s) ==
  /\ s \in Live \cap checkedIn
  /\ Begin(w, [Idle EXCEPT !.op = "undo", !.row = {s}])

-----------------------------------------------------------------------------
(* Handlers: what they write.                                              *)

(* The rows the commit updates, and those it deletes.                      *)
Updated(j) == j.next \cup IF j.op \in {"checkin", "undo"} THEN j.row ELSE {}
Deleted(j) == IF j.op = "cancel" THEN j.row ELSE {}

(* Faulty: a row that is gone cannot be deleted again.                     *)
CommitsDeletes(j) ==
  /\ Updated(j) \cup Deleted(j) \subseteq Live
  /\ SignupOf(j.who, j.event) = {}

(* The commit is refused when a row to update was deleted, or the attendee *)
(* has a sign-up for the event after all.                                  *)
Commits(j) ==
  /\ Updated(j) \subseteq Live
  /\ SignupOf(j.who, j.event) = {}

(* Whatever was committed, the other handlers have read older data.        *)
Outdated(jobs, w) ==
  [v \in Workers |-> IF v = w \/ jobs[v].op = "none" THEN jobs[v]
                     ELSE [jobs[v] EXCEPT !.fresh = FALSE]]

Added(j) == IF j.who = Nobody THEN {} ELSE First(Unused)

StateAfter(j, s) ==
  IF s \in Deleted(j) THEN "gone"
  ELSE IF s \in Added(j) THEN IF j.wait THEN "waiting" ELSE "in"
  ELSE IF s \in j.next THEN "in" ELSE state[s]

Commit(w) ==
  LET j == job[w] IN
  /\ j.op \notin {"none", "leave"}
  /\ IF Commits(j)
     THEN /\ state' = [s \in Ids |-> StateAfter(j, s)]
          /\ who' = [s \in Ids |-> IF s \in Added(j) THEN j.who ELSE who[s]]
          /\ event' = [s \in Ids |-> IF s \in Added(j) THEN j.event ELSE event[s]]
          /\ checkedIn' = (checkedIn \ (Deleted(j) \cup IF j.op = "undo" THEN j.row ELSE {}))
                          \cup IF j.op = "checkin" THEN j.row ELSE {}
          /\ job' = [Outdated(job, w) EXCEPT ![w] = Idle]
     ELSE /\ job' = [job EXCEPT ![w] = Idle]
          /\ UNCHANGED <<state, who, event, checkedIn>>
  /\ UNCHANGED <<slots, messages, crashed>>

(* The server is killed before it commits; what it queued stays queued.    *)
Crash(w) ==
  /\ job[w].op # "none" /\ ~crashed
  /\ crashed' = TRUE
  /\ job' = [job EXCEPT ![w] = Idle]
  /\ UNCHANGED <<rows, messages>>

(* The event form sets another number of slots, and lets nobody in.        *)
ChangeSlots(e, n) ==
  /\ slots' = [slots EXCEPT ![e] = n]
  /\ job' = Outdated(job, Nobody)
  /\ UNCHANGED <<state, who, event, checkedIn, messages, crashed>>

-----------------------------------------------------------------------------
(* The scheduled tasks.                                                    *)

(* send_waitlist_notification.  A text is recorded; after an email the     *)
(* task fails, since the fields of the record were set for texts only.     *)
SendWaitlistNotification(s) ==
  /\ s \in queued
  /\ queued' = queued \ {s}
  /\ IF s \notin Live THEN UNCHANGED <<told, notified, inbox, lastText>>
     ELSE /\ told' = told \cup {s}
          /\ IF who[s] \in Texters
             THEN /\ notified' = notified \cup {who[s]}
                  /\ inbox' = [inbox EXCEPT ![who[s]] = event[s]]
                  /\ lastText' = [lastText EXCEPT ![who[s]] = event[s]]
             ELSE UNCHANGED <<notified, inbox, lastText>>
  /\ UNCHANGED <<rows, noticed, job, crashed>>

(* attractions_send_notifications, for a row without a recorded notice.    *)
(* The first one to an attendee is always sent by email, after the text if *)
(* they are to have one, and is recorded as an email.                      *)
SendNotice(s) ==
  LET a == who[s] IN
  /\ s \in Live \ checkedIn
  /\ <<a, event[s]>> \notin noticed
  /\ noticed' = noticed \cup {<<a, event[s]>>}
  /\ notified' = notified \cup {a}
  /\ inbox' = IF a \in Texters THEN [inbox EXCEPT ![a] = event[s]] ELSE inbox
  /\ lastText' = IF a \in Texters /\ a \in notified
                 THEN [lastText EXCEPT ![a] = event[s]] ELSE lastText
  /\ UNCHANGED <<rows, queued, told, job, crashed>>

(* attractions_check_notification_replies: an attendee replied N.  The row *)
(* for the last recorded text is deleted, and nobody is let in instead.    *)
CheckReply(a) ==
  LET out == SignupOf(a, lastText[a]) IN
  /\ inbox[a] # NoEvent
  /\ inbox' = [inbox EXCEPT ![a] = NoEvent]
  /\ state' = [s \in Ids |-> IF s \in out THEN "gone" ELSE state[s]]
  /\ checkedIn' = checkedIn \ out
  /\ job' = Outdated(job, Nobody)
  /\ UNCHANGED <<slots, who, event, queued, told, noticed, notified, lastText, crashed>>

-----------------------------------------------------------------------------
Start(w) ==
  \/ "signup" \in Requests /\ \E a \in Attendees, e \in Events : SignupForEvent(w, a, e)
  \/ "staff" \in Requests /\ \E a \in Attendees, e \in Events : SignUp(w, a, e)
  \/ "cancel" \in Requests /\ \E s \in Ids : CancelSignup(w, s)
  \/ "pull" \in Requests /\ \E s \in Ids : PullFromWaitlist(w, s)
  \/ "checkin" \in Requests /\ \E s \in Ids : CheckinSignup(w, s)
  \/ "undo" \in Requests /\ \E s \in Ids : UndoCheckinSignup(w, s)

Continue(w) == AddNextWaitlist(w) \/ Commit(w)

Tasks ==
  \/ "notice" \in Requests /\ \E s \in Ids : SendWaitlistNotification(s) \/ SendNotice(s)
  \/ "reply" \in Requests /\ \E a \in Attendees : CheckReply(a)

Next ==
  \/ \E w \in Workers : Start(w) \/ Continue(w) \/ ("crash" \in Requests /\ Crash(w))
  \/ Tasks
  \/ "slots" \in Requests /\ \E e \in Events, n \in 0 .. MaxSlots : ChangeSlots(e, n)

Spec == Init /\ [][Next]_vars

(* A handler that started goes on until it ends.                           *)
FairSpec == Spec /\ \A w \in Workers : WF_vars(Continue(w))

-----------------------------------------------------------------------------
(* The step in which handler w, begun by request op, ends.                 *)
Ends(w, op) == job[w].op = op /\ job'[w].op = "none"

(* Attendees do not overbook an event: if nothing was committed since the  *)
(* handler began, a sign-up or a cancellation takes the places beyond the  *)
(* slots neither by the row it adds nor by the one it lets in.             *)
NotOverbooked ==
  [][\A w \in Workers, e \in Events :
       (Ends(w, "signup") \/ Ends(w, "cancel")) /\ job[w].fresh =>
         \/ Cardinality(SignedUp(e)') <= slots[e]
         \/ Cardinality(SignedUp(e)') <= Cardinality(SignedUp(e))]_vars

(* Of exclusive events an attendee holds one, unless the staff signed them *)
(* up for more or something was committed since the handler began.         *)
OneOfExclusive ==
  [][\A w \in Workers, S \in Exclusive, a \in Attendees :
       Ends(w, "signup") /\ job[w].fresh =>
         LET held == {d \in S : SignupOf(a, d) # {}} IN
         held' = held \/ Cardinality(held') = 1]_vars

(* A place that is given up goes to someone who waits, if anyone does and  *)
(* nothing was committed since the handler began.                          *)
PlacePassedOn ==
  [][\A w \in Workers, e \in Events :
       Ends(w, "cancel") /\ job[w].fresh
       /\ Cardinality(SignedUp(e)') < Cardinality(SignedUp(e)) =>
         Waiting(e)' = {}]_vars

(* Whoever is let in by a cancellation has waited longest, also when other *)
(* handlers let in, added or deleted rows in the meantime.                 *)
LetInInOrder ==
  [][\A w \in Workers, s \in Ids :
       Ends(w, "cancel") /\ state[s] = "waiting" /\ state'[s] = "in" =>
         \A t \in Waiting(event[s]) : s <= t]_vars

(* Who was told that they are off the waitlist comes off it, unless the    *)
(* handler that queued the message was killed before it could commit.      *)
ToldIsLetIn == \A s \in Ids : s \in told ~> state[s] # "waiting" \/ crashed

=================================================================================
