-------------------------------- MODULE Badges --------------------------------
(***************************************************************************)
(* Badge numbers.  A scheduled task makes one BadgeInfo row per number of  *)
(* the configured ranges; saving, checking in and replacing badges moves   *)
(* the rows between registrations.                                         *)
(*                                                                         *)
(* A handler reads what it needs when it starts and writes when it         *)
(* commits: no row is locked, and the session does not flush before a      *)
(* query, so a handler's own changes are invisible to its queries until    *)
(* then.  A change is the set of writes a handler has collected; the rows  *)
(* it did not touch, and their other columns, are left as others made them.*)
(*                                                                         *)
(* Taken as given: badges are numbered, the deadline for printed badges    *)
(* has not passed, and registrations are valid, paid for and named.        *)
(***************************************************************************)
EXTENDS Integers, FiniteSets

CONSTANTS
  Attendees,    \* the registrations
  BadgeTypes,   \* the badge types
  Preassigned,  \* those whose badges get a number before check-in
  MaxNumber,    \* bound: the largest badge number
  Configs,      \* bound: the badge ranges that are configured over time
  FirstConfig,  \* the ranges configured at first
  Groups,       \* bound: the sets of badges created in one commit
  Workers,      \* bound: handlers in flight at once
  Requests,     \* bound: the kinds of handler that are started
  Nobody,       \* the attendee_id of a row that is not assigned
  Unsaved       \* the type of a registration that does not exist yet

Numbers == 1 .. MaxNumber
Ranges == [BadgeTypes -> {r \in SUBSET Numbers : \E lo, hi \in Numbers : lo <= hi /\ r = lo .. hi}]

ASSUME BadgeConstants ==
  /\ MaxNumber \in Nat \ {0}
  /\ BadgeTypes # {} /\ Preassigned \subseteq BadgeTypes
  /\ Nobody \notin Attendees /\ Unsaved \notin BadgeTypes
  /\ Configs \subseteq Ranges
  /\ FirstConfig \in Ranges
  /\ Groups \subseteq SUBSET Attendees
  /\ Requests \subseteq {"add", "save", "checkin", "undo", "undo_new", "lost",
                         "activate", "undo_pickup", "create", "config"}

VARIABLES
  ranges,     \* c.BADGE_RANGES of the running servers
  rows,       \* the idents of the BadgeInfo rows
  holder,     \* holder[n]: attendee_id of row n
  active,     \* the rows with `active`
  pickedUp,   \* the rows with a picked_up date
  lost,       \* the rows with a reported_lost date
  checkedIn,  \* the attendees with a checked_in date
  type,       \* type[a]: badge_type, or Unsaved
  job         \* job[w]: the changes handler w is about to commit

badges == <<holder, active, pickedUp, lost>>
people == <<checkedIn, type>>
vars == <<ranges, rows, badges, people, job>>

-----------------------------------------------------------------------------
(* The changes a handler has made in its session, on behalf of `who`.      *)
Ops == {"none", "add", "save", "omit", "number", "arrive", "checkin", "undo",
        "undo_new", "lost", "activate", "undo_pickup"}

Changes == [ op     : Ops,
             who    : SUBSET Attendees,
             take   : [Numbers -> Attendees \cup {Nobody}],  \* assigned to
             free   : SUBSET Numbers,                        \* attendee_id cleared
             on     : SUBSET Numbers,
             off    : SUBSET Numbers,
             pick   : SUBSET Numbers,
             unpick : SUBSET Numbers,
             lose   : SUBSET Numbers,
             arrive : SUBSET Attendees,
             leave  : SUBSET Attendees,
             type   : BadgeTypes \cup {Unsaved} ]

Nothing == [ op |-> "none", who |-> {}, take |-> [n \in Numbers |-> Nobody],
             free |-> {}, on |-> {}, off |-> {}, pick |-> {}, unpick |-> {},
             lose |-> {}, arrive |-> {}, leave |-> {}, type |-> Unsaved ]

Change(op, a) == [Nothing EXCEPT !.op = op, !.who = {a}]

TypeOK ==
  /\ ranges \in Ranges
  /\ rows \subseteq 0 .. MaxNumber
  /\ holder \in [Numbers -> Attendees \cup {Nobody}]
  /\ active \subseteq Numbers
  /\ pickedUp \subseteq Numbers
  /\ lost \subseteq Numbers
  /\ checkedIn \subseteq Attendees
  /\ type \in [Attendees -> BadgeTypes \cup {Unsaved}]
  /\ job \in [Workers -> Changes]

Init ==
  /\ ranges = FirstConfig
  /\ rows = {}
  /\ holder = [n \in Numbers |-> Nobody]
  /\ active = {}
  /\ pickedUp = {}
  /\ lost = {}
  /\ checkedIn = {}
  /\ type = [a \in Attendees |-> Unsaved]
  /\ job = [w \in Workers |-> Nothing]

-----------------------------------------------------------------------------
(* Rows as a query sees them: what was committed.                          *)
ActiveOf(a) == {n \in active : holder[n] = a}

(* active_badge loads one of them.                                         *)
Loaded(a) == IF ActiveOf(a) = {} THEN {{}} ELSE {{n} : n \in ActiveOf(a)}

Lowest(S) == {n \in S : \A m \in S : n <= m}

(* Faulty: rows that are held are not skipped.                             *)
NextNumberAny(t) == Lowest(rows \cap ranges[t])

(* get_next_badge_num: the lowest unassigned row of the type's range.      *)
NextNumber(t) ==
  Lowest({n \in Numbers : n \in rows \cap ranges[t] /\ holder[n] = Nobody})

(* BadgeInfo.unassign, for rows loaded with the changes of c.  A badge     *)
(* that was picked up keeps its attendee.                                  *)
Unassign(c, S) ==
  [c EXCEPT !.free = @ \cup (S \ ((pickedUp \cup c.pick) \ c.unpick)),
            !.off = @ \cup S, !.on = @ \ S]

(* BadgeInfo.assign: nothing happens when the row was given to another     *)
(* attendee in this session.                                               *)
Assign(c, a, n) ==
  IF c.take[n] \notin {a, Nobody} THEN c
  ELSE [c EXCEPT !.take[n] = a, !.on = @ \cup {n}, !.off = @ \ {n}]

Arrived(c, a) == a \in (checkedIn \cup c.arrive) \ c.leave

(* Faulty: the number of the old type is given back, and none is taken.    *)
UpdateBadgeOnlyDrops(c, a, cur, t) ==
  LET kept == {n \in cur : n \notin c.free} IN
  IF Arrived(c, a) \/ kept \cap ranges[t] # {} THEN c ELSE Unassign(c, kept)

(* update_badge: keep the number if it is in the range of the type, or     *)
(* take another one.  `cur` is the active badge in memory.                 *)
UpdateBadge(c, a, cur, t) ==
  LET kept == {n \in cur : n \notin c.free}
      out  == Unassign(c, kept)
      next == NextNumber(t) IN
  IF Arrived(c, a) \/ kept \cap ranges[t] # {} THEN c
  ELSE IF t \in Preassigned /\ Cardinality(ActiveOf(a)) < 2 /\ next # {}
       THEN Assign(out, a, CHOOSE n \in next : TRUE)
       ELSE out

(* Setting badge_num to None.                                              *)
ClearNumber(c, a, cur, t) ==
  IF cur = {} THEN c ELSE UpdateBadge(Unassign(c, cur), a, cur, t)

(* Setting badge_num to n, when row n is unassigned.  The row that was     *)
(* active leaves the relationship, and with it loses its attendee.         *)
SetNumber(c, a, cur, n) ==
  LET out == Unassign(c, cur)
      new == Assign([out EXCEPT !.free = @ \cup cur], a, n) IN
  IF n \in cur \/ n \notin rows \/ holder[n] # Nobody THEN c
  ELSE IF Arrived(c, a) THEN [new EXCEPT !.pick = @ \cup {n}] ELSE new

(* badge_adjustments, when an attendee is flushed.                         *)
BadgeAdjustments(c, a, cur, t) ==
  IF t # type[a] \/ (t \in Preassigned /\ cur = {}) THEN UpdateBadge(c, a, cur, t) ELSE c

-----------------------------------------------------------------------------
(* Handlers: what they have changed when they commit.                      *)

Begin(w, c) ==
  /\ job[w].op = "none"
  /\ job' = [job EXCEPT ![w] = c]
  /\ UNCHANGED <<ranges, rows, badges, people>>

(* New registrations, a single one or the badges of a group.  Contractors  *)
(* need a number even while their badge has no name.  Within one flush     *)
(* every one of them is offered the same row, and Assign refuses it to all *)
(* but the first.                                                          *)
AddBadges(w, S, t) ==
  LET c == [Nothing EXCEPT !.op = "add", !.who = S, !.type = t] IN
  /\ \A a \in S : type[a] = Unsaved
  /\ \E first \in S : Begin(w, BadgeAdjustments(c, first, {}, t))

(* save_attendee: the type may change, and the number is left alone,       *)
(* omitted, or set to one of the type's range.                             *)
SaveSame(w, a, t) ==
  \E cur \in Loaded(a) :
    LET c == [Change("save", a) EXCEPT !.type = t] IN
    Begin(w, BadgeAdjustments(c, a, cur, t))

SaveOmit(w, a, t) ==
  \E cur \in Loaded(a) :
    LET c == [Change("omit", a) EXCEPT !.type = t] IN
    Begin(w, BadgeAdjustments(ClearNumber(c, a, cur, t), a, cur, t))

SaveNumber(w, a, t, n) ==
  \E cur \in Loaded(a) :
    LET c == [Change("save", a) EXCEPT !.type = t]
        d == SetNumber(c, a, cur, n) IN
    /\ n \in ranges[t]
    /\ Begin(w, BadgeAdjustments(d, a, IF d = c THEN cur ELSE {n}, t))

SaveAttendee(w, a) ==
  /\ type[a] # Unsaved
  /\ \E t \in BadgeTypes : \/ SaveSame(w, a, t) \/ SaveOmit(w, a, t)
                            \/ \E n \in Numbers : SaveNumber(w, a, t, n)

(* The check-in form commits the number first ...                          *)
CheckInForm(w, a) ==
  /\ type[a] # Unsaved
  /\ \E cur \in Loaded(a), n \in ranges[type[a]] :
       LET c == Change("number", a)
           d == SetNumber(c, a, cur, n) IN
       Begin(w, BadgeAdjustments(d, a, IF d = c THEN cur ELSE {n}, type[a]))

(* ... and then reads the active badge anew.  Whether the attendee was     *)
(* checked in already is not looked at.                                    *)
CheckIn(w) ==
  /\ job[w].op = "arrive"
  /\ \E a \in job[w].who : \E cur \in Loaded(a) :
       LET c == [Change("checkin", a) EXCEPT !.arrive = {a}]
           next == NextNumber(type[a]) IN
       job' = [job EXCEPT ![w] =
         IF cur # {} THEN [c EXCEPT !.pick = cur]
         ELSE IF next = {} THEN c
         ELSE [Assign(c, a, CHOOSE n \in next : TRUE) EXCEPT !.pick = next]]
  /\ UNCHANGED <<ranges, rows, badges, people>>

(* undo_checkin: back to the number that the attendee had before, if any.  *)
UndoCheckin(w, a, pre) ==
  /\ type[a] # Unsaved
  /\ \E cur \in Loaded(a) :
       LET c == [Change("undo", a) EXCEPT !.leave = {a}, !.unpick = cur]
           t == type[a] IN
       /\ cur # {}
       /\ Begin(w, IF pre = {} THEN ClearNumber(c, a, cur, t)
                   ELSE SetNumber(c, a, cur, CHOOSE n \in pre : TRUE))

(* undo_new_checkin: the number goes while the attendee is still in.       *)
UndoNewCheckin(w, a) ==
  /\ type[a] # Unsaved /\ a \in checkedIn
  /\ \E cur \in Loaded(a) :
       LET c == ClearNumber(Change("undo_new", a), a, cur, type[a]) IN
       Begin(w, BadgeAdjustments([c EXCEPT !.leave = {a}], a, cur, type[a]))

LostBadge(w, a) ==
  \E cur \in Loaded(a) :
    /\ cur # {}
    /\ Begin(w, [Change("lost", a) EXCEPT !.lose = cur, !.off = cur])

(* Faulty: the badge that was current stays so.                            *)
ActivateAlso(w, n) ==
  LET a == holder[n] IN
  /\ a # Nobody /\ n \notin active
  /\ Begin(w, [Change("activate", a) EXCEPT !.on = {n}, !.pick = {m \in {n} : a \in checkedIn}])

(* The badges of an attendee that are not active may be made so again ...  *)
ActivateBadge(w, n) ==
  LET a == holder[n] IN
  /\ a # Nobody /\ n \notin active
  /\ \E cur \in Loaded(a) :
       Begin(w, [Change("activate", a) EXCEPT
                   !.off = cur, !.on = {n}, !.pick = {m \in {n} : a \in checkedIn}])

(* ... or given back.                                                      *)
UndoBadgePickup(w, n) ==
  LET a == holder[n] IN
  /\ a # Nobody /\ n \notin active /\ n \in pickedUp
  /\ Begin(w, [Change("undo_pickup", a) EXCEPT !.unpick = {n}, !.free = {n}])

(* The commit writes what the handler changed, over whatever is there.     *)
Commit(w) ==
  LET c == job[w] IN
  /\ c.op \notin {"none", "arrive"}
  /\ holder' = [n \in Numbers |-> IF c.take[n] # Nobody THEN c.take[n]
                                   ELSE IF n \in c.free THEN Nobody ELSE holder[n]]
  /\ active' = (active \ c.off) \cup c.on
  /\ pickedUp' = (pickedUp \ c.unpick) \cup c.pick
  /\ lost' = lost \cup c.lose
  /\ checkedIn' = (checkedIn \ c.leave) \cup c.arrive
  /\ type' = [a \in Attendees |-> IF a \in c.who /\ c.type # Unsaved
                                   THEN c.type ELSE type[a]]
  /\ job' = [job EXCEPT ![w] = IF c.op = "number"
                               THEN [Nothing EXCEPT !.op = "arrive", !.who = c.who]
                               ELSE Nothing]
  /\ UNCHANGED <<ranges, rows>>

-----------------------------------------------------------------------------
(* create_badge_nums, every day: the numbers from the first to the last of *)
(* all ranges, whatever gaps there are between them.                       *)
Span == UNION {ranges[t] : t \in BadgeTypes}
Whole == {n \in Numbers : \E lo, hi \in Span : lo <= n /\ n <= hi}
Highest(S) == {n \in S : \A m \in S : m <= n}

(* Faulty: ranges that grew at the top are not noticed.                    *)
MissingBelow ==
  {n \in Whole : rows = {} \/ (~ Lowest(Whole) \subseteq rows /\ \A m \in rows : n < m)}

(* It makes the numbers below those there are if the first one is missing, *)
(* and the numbers above them if the last one is.                          *)
Missing ==
  {n \in Whole : \/ rows = {}
                 \/ ~ Lowest(Whole) \subseteq rows /\ \A m \in rows : n < m
                 \/ ~ Highest(Whole) \subseteq rows /\ \A m \in rows : m < n}

(* An insert without values adds a row with the default ident, 0.          *)
CreateBadgeNums ==
  /\ rows' = rows \cup (IF rows # {} /\ Missing = {} THEN {0} ELSE Missing)
  /\ UNCHANGED <<ranges, badges, people, job>>

(* The servers are restarted with other ranges.                            *)
ChangeConfig ==
  /\ \A w \in Workers : job[w].op = "none"
  /\ ranges' \in Configs
  /\ UNCHANGED <<rows, badges, people, job>>

-----------------------------------------------------------------------------
Start(w) ==
  \/ "add" \in Requests /\ \E S \in Groups, t \in BadgeTypes : AddBadges(w, S, t)
  \/ "save" \in Requests /\ \E a \in Attendees : SaveAttendee(w, a)
  \/ "checkin" \in Requests /\ \E a \in Attendees : CheckInForm(w, a)
  \/ "undo" \in Requests /\ \E a \in checkedIn : \E pre \in SUBSET ranges[type[a]] :
                                 Cardinality(pre) < 2 /\ UndoCheckin(w, a, pre)
  \/ "undo_new" \in Requests /\ \E a \in Attendees : UndoNewCheckin(w, a)
  \/ "lost" \in Requests /\ \E a \in Attendees : LostBadge(w, a)
  \/ "activate" \in Requests /\ \E n \in Numbers : ActivateBadge(w, n)
  \/ "undo_pickup" \in Requests /\ \E n \in Numbers : UndoBadgePickup(w, n)

Next ==
  \/ \E w \in Workers : Start(w) \/ CheckIn(w) \/ Commit(w)
  \/ "create" \in Requests /\ CreateBadgeNums
  \/ "config" \in Requests /\ ChangeConfig

Spec == Init /\ [][Next]_vars

(* The task runs every day.                                                *)
FairSpec == Spec /\ WF_vars(CreateBadgeNums)

-----------------------------------------------------------------------------
(* A number never passes from one attendee to another without having been  *)
(* given back in between.                                                  *)
NoTakeover ==
  [][\A n \in Numbers : holder[n] # Nobody => holder'[n] \in {holder[n], Nobody}]_vars

(* What a handler is about to take is still free when it commits.  It      *)
(* holds as long as handlers do not overlap.                               *)
TakesFree(c) == \A n \in Numbers : c.take[n] # Nobody => holder[n] = Nobody
TakesAreFree == \A w \in Workers : TakesFree(job[w])

(* active_badge is one badge: nobody has two at once, however often their  *)
(* type is changed, and badges are lost, replaced and made current again.  *)
OneActiveNumber == \A a \in Attendees : Cardinality(ActiveOf(a)) <= 1

(* A registration that is saved with a type whose badges are numbered      *)
(* before check-in keeps its number or takes one, of that type if the type *)
(* is new, as long as there is one.                                        *)
SavedHasNumber ==
  [][\A w \in Workers :
       LET c == job'[w] IN
       job[w].op = "none" /\ c.op \in {"add", "save"} /\ c.type \in Preassigned =>
         \A a \in c.who \ checkedIn :
           \/ \E n \in Numbers : /\ c.take[n] = a \/ n \in ActiveOf(a) \ c.off
                                 /\ type[a] = c.type \/ n \in ranges[c.type]
           \/ NextNumber(c.type) = {}]_vars

(* Once the daily task has run, every number of the configured ranges can  *)
(* be given out, also after the ranges were changed.                       *)
RangesCovered == []<>(Span \subseteq rows)

===============================================================================
