----------------------------- MODULE BadgesProofs -----------------------------
(***************************************************************************)
(* Badges, for any number of registrations, handlers and numbers: type     *)
(* correctness, where the lemmas say that each helper turns a set of       *)
(* changes into a set of changes, for numbers that exist; and, for one     *)
(* handler at a time, that numbers are not taken over, that nobody is left *)
(* with two active badges, and that whoever is saved with a type that is   *)
(* numbered before check-in has a number or takes one.                     *)
(***************************************************************************)
EXTENDS Badges, FiniteSetTheorems, TLAPS

(* NextNumber only returns numbers that badges can have.                   *)
LEMMA NextNumberType == \A t : NextNumber(t) \subseteq Numbers
  BY DEF NextNumber, Lowest

(* The badges that active_badge may load are badges of the attendee.       *)
LEMMA LoadedType ==
  ASSUME NEW a, TypeOK PROVE \A cur \in Loaded(a) : cur \subseteq Numbers
  BY DEF Loaded, ActiveOf, TypeOK

(* A handler that has changed nothing yet.                                 *)
LEMMA NothingType == Nothing \in Changes
  BY BadgeConstants DEF Nothing, Changes, Ops

(* So is one that only names its registration.                             *)
LEMMA ChangeType ==
  ASSUME NEW op \in Ops, NEW a \in Attendees PROVE Change(op, a) \in Changes
  BY NothingType DEF Change, Changes

(* Giving badges back.                                                     *)
LEMMA UnassignType ==
  ASSUME NEW c \in Changes, NEW S \in SUBSET Numbers PROVE Unassign(c, S) \in Changes
  BY DEF Unassign, Changes

(* Taking a badge.                                                         *)
LEMMA AssignType ==
  ASSUME NEW c \in Changes, NEW a \in Attendees, NEW n \in Numbers
  PROVE  Assign(c, a, n) \in Changes
  BY DEF Assign, Changes

-----------------------------------------------------------------------------
(* Changes that only take numbers that are free.                           *)
Fit(c) == c \in Changes /\ TakesFree(c)

(* A handler that has changed nothing takes nothing.                       *)
LEMMA NewChangesFit ==
  /\ Fit(Nothing)
  /\ \A op \in Ops, a \in Attendees : Fit(Change(op, a))
<1>1. Fit(Nothing)
  BY NothingType DEF Fit, TakesFree, Nothing
<1>2. ASSUME NEW op \in Ops, NEW a \in Attendees PROVE Fit(Change(op, a))
  <2>1. Change(op, a).take = Nothing.take
    BY NothingType DEF Change, Changes
  <2> QED
    BY <2>1, <1>1, ChangeType DEF Fit, TakesFree
<1> QED
  BY <1>1, <1>2

(* Giving badges back takes none.                                          *)
LEMMA UnassignFit ==
  ASSUME NEW c, Fit(c), NEW S \in SUBSET Numbers PROVE Fit(Unassign(c, S))
<1>1. Unassign(c, S).take = c.take
  BY DEF Fit, Unassign, Changes
<1> QED
  BY <1>1, UnassignType DEF Fit, TakesFree

(* Taking a free badge.                                                    *)
LEMMA AssignFit ==
  ASSUME NEW c, Fit(c), NEW a \in Attendees, NEW n \in Numbers, holder[n] = Nobody
  PROVE  Fit(Assign(c, a, n))
<1>1. Assign(c, a, n) \in Changes
  BY AssignType DEF Fit
<1>2. Assign(c, a, n).take \in {c.take, [c.take EXCEPT ![n] = a]}
  BY DEF Fit, Assign, Changes
<1>3. c.take \in [Numbers -> Attendees \cup {Nobody}]
  BY DEF Fit, Changes
<1> QED
  BY <1>1, <1>2, <1>3 DEF Fit, TakesFree

(* What is offered is free.                                                *)
LEMMA NextNumberFree == \A t, n : n \in NextNumber(t) => n \in Numbers /\ holder[n] = Nobody
  BY DEF NextNumber, Lowest

(* The number that update_badge takes is free,                             *)
LEMMA UpdateBadgeFit ==
  ASSUME NEW c, Fit(c), NEW a \in Attendees, NEW cur \in SUBSET Numbers, NEW t
  PROVE  Fit(UpdateBadge(c, a, cur, t))
<1> DEFINE kept == {n \in cur : n \notin c.free}
           out  == Unassign(c, kept)
<1>1. Fit(out)
  BY UnassignFit
<1>2. NextNumber(t) # {} => Fit(Assign(out, a, CHOOSE n \in NextNumber(t) : TRUE))
  <2> HIDE DEF out
  <2>1. ASSUME NextNumber(t) # {} PROVE (CHOOSE n \in NextNumber(t) : TRUE) \in NextNumber(t)
    BY <2>1
  <2> QED
    BY <2>1, <1>1, AssignFit, NextNumberFree
<1> HIDE DEF out
<1> QED
  BY <1>1, <1>2 DEF UpdateBadge, out

(* and so is the one taken after the number was set to None,               *)
LEMMA ClearNumberFit ==
  ASSUME NEW c, Fit(c), NEW a \in Attendees, NEW cur \in SUBSET Numbers, NEW t
  PROVE  Fit(ClearNumber(c, a, cur, t))
  BY UnassignFit, UpdateBadgeFit DEF ClearNumber

(* the one that is set,                                                    *)
LEMMA SetNumberFit ==
  ASSUME NEW c, Fit(c), NEW a \in Attendees, NEW cur \in SUBSET Numbers,
         NEW n \in Numbers
  PROVE  Fit(SetNumber(c, a, cur, n))
<1> DEFINE out  == Unassign(c, cur)
           out2 == [out EXCEPT !.free = @ \cup cur]
           new  == Assign(out2, a, n)
<1>1. Fit(out)
  BY UnassignFit
<1>2. Fit(out2)
  <2> HIDE DEF out
  <2>1. out2 \in Changes /\ out2.take = out.take
    BY <1>1 DEF Fit, Changes
  <2> QED
    BY <2>1, <1>1 DEF Fit, TakesFree
<1>3. holder[n] = Nobody => Fit(new)
  <2> HIDE DEF out2
  <2> QED
    BY <1>2, AssignFit
<1>4. holder[n] = Nobody => Fit([new EXCEPT !.pick = @ \cup {n}])
  <2> HIDE DEF new
  <2>1. Fit(new) => /\ [new EXCEPT !.pick = @ \cup {n}] \in Changes
                    /\ [new EXCEPT !.pick = @ \cup {n}].take = new.take
    BY DEF Fit, Changes
  <2> QED
    BY <2>1, <1>3 DEF Fit, TakesFree
<1>5. holder[n] # Nobody => SetNumber(c, a, cur, n) = c
  BY DEF SetNumber
<1>6. SetNumber(c, a, cur, n) \in {c, new, [new EXCEPT !.pick = @ \cup {n}]}
  <2> HIDE DEF new
  <2> QED
    BY DEF SetNumber, new
<1> HIDE DEF new
<1> QED
  BY <1>3, <1>4, <1>5, <1>6

(* and the one taken when an attendee is flushed.                          *)
LEMMA BadgeAdjustmentsFit ==
  ASSUME NEW c, Fit(c), NEW a \in Attendees, NEW cur \in SUBSET Numbers, NEW t
  PROVE  Fit(BadgeAdjustments(c, a, cur, t))
  BY UpdateBadgeFit DEF BadgeAdjustments

(* Changes that differ in other fields take the same numbers.              *)
LEMMA SameTakesFit ==
  ASSUME NEW c, Fit(c), NEW d \in Changes, d.take = c.take PROVE Fit(d)
  BY DEF Fit, TakesFree

-----------------------------------------------------------------------------
(* Starting a handler with changes keeps the types.                        *)
LEMMA BeginType ==
  ASSUME TypeOK, NEW w \in Workers, NEW c \in Changes, Begin(w, c) PROVE TypeOK'
  BY DEF TypeOK, Begin, badges, people

(* One handler's changes are replaced.                                     *)
LEMMA ReplacedType ==
  ASSUME TypeOK, NEW w \in Workers, NEW c \in Changes, job' = [job EXCEPT ![w] = c],
         UNCHANGED <<ranges, rows, badges, people>>
  PROVE  TypeOK'
  BY DEF TypeOK, badges, people

(* The type of a registration that is saved is a badge type.               *)
LEMMA SavedType ==
  ASSUME TypeOK, NEW a \in Attendees, type[a] # Unsaved PROVE type[a] \in BadgeTypes
  BY DEF TypeOK

(* Only attendees hold numbers.                                            *)
LEMMA HolderType ==
  ASSUME TypeOK, NEW n \in Numbers, holder[n] # Nobody PROVE holder[n] \in Attendees
  BY DEF TypeOK

(* The ranges are numbers.                                                 *)
LEMMA RangeType ==
  ASSUME TypeOK, NEW t \in BadgeTypes PROVE ranges[t] \subseteq Numbers
  BY DEF TypeOK, Ranges

(* The names of the handlers.                                              *)
LEMMA OpsType ==
  {"add", "save", "omit", "number", "checkin", "undo", "undo_new", "lost", "activate",
   "undo_pickup"} \subseteq Ops
  BY DEF Ops

(* Every handler starts with changes that only take free numbers.          *)
Begins(w) == \E c : Fit(c) /\ Begin(w, c)

(* Every handler starts with changes that take free numbers.               *)
LEMMA StartFits ==
  ASSUME TypeOK, NEW w \in Workers, Start(w) PROVE Begins(w)
<1>1. ASSUME NEW S \in Groups, NEW t \in BadgeTypes, AddBadges(w, S, t) PROVE Begins(w)
  <2> DEFINE c == [Nothing EXCEPT !.op = "add", !.who = S, !.type = t]
  <2>1. S \subseteq Attendees
    BY BadgeConstants
  <2>2. c \in Changes /\ c.take = Nothing.take
    BY <2>1, NothingType, OpsType DEF Changes
  <2>3. Fit(c)
    BY <2>2, NewChangesFit, SameTakesFit
  <2> HIDE DEF c
  <2>4. PICK first \in S : Begin(w, BadgeAdjustments(c, first, {}, t))
    BY <1>1 DEF AddBadges, c
  <2> QED
    BY <2>1, <2>3, <2>4, BadgeAdjustmentsFit DEF Begins
<1>2. ASSUME NEW a \in Attendees, SaveAttendee(w, a) PROVE Begins(w)
  <2> DEFINE c(op, t) == [Change(op, a) EXCEPT !.type = t]
  <2>1. \A op \in Ops, t \in BadgeTypes : Fit(c(op, t))
    <3>1. TAKE op \in Ops, t \in BadgeTypes
    <3>2. Fit(Change(op, a))
      BY NewChangesFit
    <3>3. c(op, t) \in Changes /\ c(op, t).take = Change(op, a).take
      BY <3>2 DEF Fit, Changes
    <3> QED
      BY <3>2, <3>3, SameTakesFit
  <2> HIDE DEF c
  <2>2. PICK t \in BadgeTypes : \/ SaveSame(w, a, t) \/ SaveOmit(w, a, t)
                                \/ \E n \in Numbers : SaveNumber(w, a, t, n)
    BY <1>2 DEF SaveAttendee
  <2>3. CASE SaveSame(w, a, t)
    <3>1. PICK cur \in Loaded(a) : Begin(w, BadgeAdjustments(c("save", t), a, cur, t))
      BY <2>3 DEF SaveSame, c
    <3>2. Fit(c("save", t)) /\ cur \in SUBSET Numbers
      BY <2>1, OpsType, LoadedType
    <3> QED
      BY <3>1, <3>2, BadgeAdjustmentsFit DEF Begins
  <2>4. CASE SaveOmit(w, a, t)
    <3>1. PICK cur \in Loaded(a) :
            Begin(w, BadgeAdjustments(ClearNumber(c("omit", t), a, cur, t), a, cur, t))
      BY <2>4 DEF SaveOmit, c
    <3>2. Fit(c("omit", t)) /\ cur \in SUBSET Numbers
      BY <2>1, OpsType, LoadedType
    <3>3. Fit(ClearNumber(c("omit", t), a, cur, t))
      BY <3>2, ClearNumberFit
    <3> QED
      BY <3>1, <3>2, <3>3, BadgeAdjustmentsFit DEF Begins
  <2>5. ASSUME NEW n \in Numbers, SaveNumber(w, a, t, n) PROVE Begins(w)
    <3> DEFINE d(cur) == SetNumber(c("save", t), a, cur, n)
    <3>1. PICK cur \in Loaded(a) :
            Begin(w, BadgeAdjustments(d(cur), a,
                       IF d(cur) = c("save", t) THEN cur ELSE {n}, t))
      BY <2>5 DEF SaveNumber, c
    <3>2. cur \in SUBSET Numbers /\ Fit(c("save", t))
      BY LoadedType, <2>1, OpsType
    <3>3. Fit(d(cur))
      BY <3>2, SetNumberFit
    <3> HIDE DEF d
    <3>4. (IF d(cur) = c("save", t) THEN cur ELSE {n}) \in SUBSET Numbers
      BY <3>2
    <3> QED
      BY <3>1, <3>3, <3>4, BadgeAdjustmentsFit DEF Begins
  <2> QED
    BY <2>2, <2>3, <2>4, <2>5
<1>3. ASSUME NEW a \in Attendees, CheckInForm(w, a) PROVE Begins(w)
  <2> DEFINE t == type[a]
             c == Change("number", a)
             d(cur, n) == SetNumber(c, a, cur, n)
  <2>1. t \in BadgeTypes /\ Fit(c)
    BY <1>3, SavedType, NewChangesFit, OpsType DEF CheckInForm
  <2>2. PICK cur \in Loaded(a), n \in ranges[t] :
          Begin(w, BadgeAdjustments(d(cur, n), a, IF d(cur, n) = c THEN cur ELSE {n}, t))
    BY <1>3 DEF CheckInForm
  <2> HIDE DEF t, c
  <2>3. cur \in SUBSET Numbers /\ n \in Numbers
    BY <2>1, LoadedType, RangeType
  <2>4. Fit(d(cur, n))
    BY <2>1, <2>3, SetNumberFit
  <2> HIDE DEF d
  <2>5. (IF d(cur, n) = c THEN cur ELSE {n}) \in SUBSET Numbers
    BY <2>3
  <2> QED
    BY <2>2, <2>4, <2>5, BadgeAdjustmentsFit DEF Begins
<1>4. ASSUME NEW a \in Attendees, NEW pre \in SUBSET ranges[type[a]],
             a \in checkedIn, UndoCheckin(w, a, pre)
      PROVE Begins(w)
  <2> DEFINE t == type[a]
             c(cur) == [Change("undo", a) EXCEPT !.leave = {a}, !.unpick = cur]
  <2>1. t \in BadgeTypes
    BY <1>4, SavedType DEF UndoCheckin
  <2>2. \A cur \in SUBSET Numbers : Fit(c(cur))
    <3>1. TAKE cur \in SUBSET Numbers
    <3>2. Fit(Change("undo", a))
      BY NewChangesFit, OpsType
    <3>3. c(cur) \in Changes /\ c(cur).take = Change("undo", a).take
      BY <3>2 DEF Fit, Changes
    <3> QED
      BY <3>2, <3>3, SameTakesFit
  <2>3. PICK cur \in Loaded(a) :
          Begin(w, IF pre = {} THEN ClearNumber(c(cur), a, cur, t)
                   ELSE SetNumber(c(cur), a, cur, CHOOSE n \in pre : TRUE))
    BY <1>4 DEF UndoCheckin
  <2>4. pre \subseteq Numbers
    BY <1>4, <2>1, RangeType
  <2> HIDE DEF t, c
  <2>5. cur \in SUBSET Numbers /\ Fit(c(cur))
    BY <2>2, LoadedType
  <2>6. pre # {} => Fit(SetNumber(c(cur), a, cur, CHOOSE n \in pre : TRUE))
    <3>1. ASSUME pre # {} PROVE (CHOOSE n \in pre : TRUE) \in Numbers
      BY <3>1, <2>4
    <3> QED
      BY <3>1, <2>5, SetNumberFit
  <2>7. Fit(ClearNumber(c(cur), a, cur, t))
    BY <2>5, ClearNumberFit
  <2> QED
    BY <2>3, <2>6, <2>7 DEF Begins
<1>5. ASSUME NEW a \in Attendees, UndoNewCheckin(w, a) PROVE Begins(w)
  <2> DEFINE c(cur) == ClearNumber(Change("undo_new", a), a, cur, type[a])
             d(cur) == [c(cur) EXCEPT !.leave = {a}]
  <2>1. PICK cur \in Loaded(a) : Begin(w, BadgeAdjustments(d(cur), a, cur, type[a]))
    BY <1>5 DEF UndoNewCheckin
  <2>2. cur \in SUBSET Numbers
    BY LoadedType
  <2>3. Fit(c(cur))
    BY <2>2, NewChangesFit, OpsType, ClearNumberFit
  <2> HIDE DEF c
  <2>4. d(cur) \in Changes /\ d(cur).take = c(cur).take
    BY <2>3 DEF Fit, Changes
  <2>5. Fit(d(cur))
    BY <2>3, <2>4, SameTakesFit
  <2> HIDE DEF d
  <2> QED
    BY <2>1, <2>2, <2>5, BadgeAdjustmentsFit DEF Begins
<1>6. ASSUME NEW a \in Attendees, LostBadge(w, a) PROVE Begins(w)
  <2>1. PICK cur \in Loaded(a) :
          Begin(w, [Change("lost", a) EXCEPT !.lose = cur, !.off = cur])
    BY <1>6 DEF LostBadge
  <2>2. Fit(Change("lost", a)) /\ cur \subseteq Numbers
    BY <2>1, LoadedType, NewChangesFit, OpsType
  <2> DEFINE d == [Change("lost", a) EXCEPT !.lose = cur, !.off = cur]
  <2>3. d \in Changes /\ d.take = Change("lost", a).take
    BY <2>2 DEF Fit, Changes
  <2>4. Fit(d)
    BY <2>2, <2>3, SameTakesFit
  <2> QED
    BY <2>1, <2>4 DEF Begins
<1>7. ASSUME NEW n \in Numbers, ActivateBadge(w, n) PROVE Begins(w)
  <2> DEFINE a == holder[n]
             c(cur) == [Change("activate", a) EXCEPT
                          !.off = cur, !.on = {n}, !.pick = {m \in {n} : a \in checkedIn}]
  <2>1. PICK cur \in Loaded(a) : Begin(w, c(cur))
    BY <1>7 DEF ActivateBadge
  <2>2. a \in Attendees
    BY <1>7, HolderType DEF ActivateBadge
  <2>3. Fit(Change("activate", a)) /\ cur \subseteq Numbers
    BY <2>2, LoadedType, NewChangesFit, OpsType
  <2>4. c(cur) \in Changes /\ c(cur).take = Change("activate", a).take
    <3> HIDE DEF a
    <3> QED
      BY <2>3 DEF Fit, Changes
  <2>5. Fit(c(cur))
    BY <2>3, <2>4, SameTakesFit
  <2> HIDE DEF c
  <2> QED
    BY <2>1, <2>5 DEF Begins
<1>8. ASSUME NEW n \in Numbers, UndoBadgePickup(w, n) PROVE Begins(w)
  <2> DEFINE old == Change("undo_pickup", holder[n])
             c == [old EXCEPT !.unpick = {n}, !.free = {n}]
  <2>1. Fit(old)
    BY <1>8, HolderType, NewChangesFit, OpsType DEF UndoBadgePickup
  <2>2. c \in Changes /\ c.take = old.take
    <3> HIDE DEF old
    <3> QED
      BY <2>1 DEF Fit, Changes
  <2>3. Fit(c)
    BY <2>1, <2>2, SameTakesFit
  <2>4. Begin(w, c)
    BY <1>8 DEF UndoBadgePickup
  <2> HIDE DEF c
  <2> QED
    BY <2>3, <2>4 DEF Begins
<1> QED
  BY <1>1, <1>2, <1>3, <1>4, <1>5, <1>6, <1>7, <1>8 DEF Start, TypeOK

-----------------------------------------------------------------------------
(* The commit of a handler writes changes of the right types.              *)
LEMMA CommitTyped ==
  ASSUME TypeOK, NEW w \in Workers, Commit(w) PROVE TypeOK'
<1> DEFINE c == job[w]
<1>1. c \in Changes
  BY DEF TypeOK
<1>2. c.take \in [Numbers -> Attendees \cup {Nobody}] /\ c.type \in BadgeTypes \cup {Unsaved}
  BY <1>1 DEF Changes
<1>3. /\ c.on \subseteq Numbers /\ c.pick \subseteq Numbers /\ c.lose \subseteq Numbers
      /\ c.arrive \subseteq Attendees /\ c.who \subseteq Attendees
  BY <1>1 DEF Changes
<1>4. holder' \in [Numbers -> Attendees \cup {Nobody}]
  BY <1>2 DEF TypeOK, Commit
<1>5. type' \in [Attendees -> BadgeTypes \cup {Unsaved}]
  BY <1>2 DEF TypeOK, Commit
<1>6. /\ active' \subseteq Numbers /\ pickedUp' \subseteq Numbers /\ lost' \subseteq Numbers
      /\ checkedIn' \subseteq Attendees
  BY <1>3 DEF TypeOK, Commit
<1>7. [Nothing EXCEPT !.op = "arrive", !.who = c.who] \in Changes
  BY <1>3, NothingType DEF Changes, Ops
<1>8. job' \in [Workers -> Changes]
  <2> DEFINE arrived == [Nothing EXCEPT !.op = "arrive", !.who = c.who]
  <2>1. job' = [job EXCEPT ![w] = IF c.op = "number" THEN arrived ELSE Nothing]
    BY DEF Commit
  <2> HIDE DEF arrived
  <2> QED
    BY <2>1, <1>7, NothingType DEF TypeOK, arrived
<1>9. UNCHANGED <<ranges, rows>>
  BY DEF Commit
<1> QED
  BY <1>4, <1>5, <1>6, <1>8, <1>9 DEF TypeOK

(* The second step of the check-in form takes a free number, too.          *)
LEMMA CheckInFits ==
  ASSUME TypeOK, NEW w \in Workers, CheckIn(w)
  PROVE  \E d : Fit(d) /\ job' = [job EXCEPT ![w] = d]
<1>1. job[w].who \subseteq Attendees
  BY DEF TypeOK, Changes
<1>2. PICK a \in job[w].who : \E cur \in Loaded(a) :
        LET c == [Change("checkin", a) EXCEPT !.arrive = {a}]
            next == NextNumber(type[a]) IN
        job' = [job EXCEPT ![w] =
          IF cur # {} THEN [c EXCEPT !.pick = cur]
          ELSE IF next = {} THEN c
          ELSE [Assign(c, a, CHOOSE n \in next : TRUE) EXCEPT !.pick = next]]
  BY DEF CheckIn
<1> DEFINE old  == Change("checkin", a)
           c    == [old EXCEPT !.arrive = {a}]
           next == NextNumber(type[a])
           new  == Assign(c, a, CHOOSE n \in next : TRUE)
<1>3. Fit(old)
  BY <1>1, NewChangesFit, OpsType
<1>4. Fit(c)
  <2> HIDE DEF old
  <2>1. c \in Changes /\ c.take = old.take
    BY <1>1, <1>3 DEF Fit, Changes
  <2> QED
    BY <1>3, <2>1, SameTakesFit
<1>5. \A cur \in Loaded(a) : Fit([c EXCEPT !.pick = cur])
  <2>1. TAKE cur \in Loaded(a)
  <2>2. cur \subseteq Numbers
    BY LoadedType
  <2> HIDE DEF c
  <2>3. [c EXCEPT !.pick = cur] \in Changes /\ [c EXCEPT !.pick = cur].take = c.take
    BY <2>2, <1>4 DEF Fit, Changes
  <2> QED
    BY <1>4, <2>3, SameTakesFit
<1>6. next # {} => Fit([new EXCEPT !.pick = next])
  <2> HIDE DEF c
  <2> SUFFICES ASSUME next # {} PROVE Fit([new EXCEPT !.pick = next])
    OBVIOUS
  <2>1. (CHOOSE n \in next : TRUE) \in next
    OBVIOUS
  <2>2. Fit(new)
    BY <2>1, <1>1, <1>4, AssignFit, NextNumberFree
  <2>3. next \subseteq Numbers
    BY NextNumberType
  <2> HIDE DEF new, next
  <2>4. [new EXCEPT !.pick = next] \in Changes /\ [new EXCEPT !.pick = next].take = new.take
    BY <2>2, <2>3 DEF Fit, Changes
  <2> QED
    BY <2>2, <2>4, SameTakesFit
<1> HIDE DEF c, next
<1> QED
  BY <1>2, <1>4, <1>5, <1>6 DEF c, next, old, new

(* The task that makes the rows stays within the numbers there may be.     *)
LEMMA CreateTyped ==
  ASSUME TypeOK, CreateBadgeNums PROVE TypeOK'
<1>1. Missing \subseteq Numbers
  BY DEF Missing, Whole
<1>2. rows' \subseteq 0 .. MaxNumber
  BY <1>1, BadgeConstants DEF CreateBadgeNums, TypeOK, Numbers
<1> QED
  BY <1>2 DEF TypeOK, CreateBadgeNums, badges, people

(* The ranges are changed.                                                 *)
LEMMA ConfigTyped ==
  ASSUME TypeOK, ChangeConfig PROVE TypeOK'
  BY BadgeConstants DEF TypeOK, ChangeConfig, badges, people

(* Every variable of Badges keeps its type, however handlers interleave:   *)
(* only attendees hold numbers, and only numbers that exist are held.      *)
THEOREM BadgeTypeCorrect == Spec => []TypeOK
<1>1. Init => TypeOK
  BY BadgeConstants, NothingType DEF Init, TypeOK
<1>2. TypeOK /\ [Next]_vars => TypeOK'
  <2> SUFFICES ASSUME TypeOK, [Next]_vars PROVE TypeOK'
    OBVIOUS
  <2>1. ASSUME NEW w \in Workers, Start(w) \/ CheckIn(w) \/ Commit(w) PROVE TypeOK'
    BY <2>1, StartFits, CheckInFits, CommitTyped, BeginType, ReplacedType DEF Begins, Fit, CheckIn
  <2>2. CASE CreateBadgeNums
    BY <2>2, CreateTyped
  <2>3. CASE ChangeConfig
    BY <2>3, ConfigTyped
  <2>4. CASE UNCHANGED vars
    BY <2>4 DEF TypeOK, vars, badges, people
  <2> QED
    BY <2>1, <2>2, <2>3, <2>4 DEF Next
<1> QED
  BY <1>1, <1>2, PTL DEF Spec

-----------------------------------------------------------------------------
(* The base case and the step of the invariant behind NoTakeover.          *)
LEMMA InitFree == Init => TakesAreFree
  BY NewChangesFit DEF Init, TakesAreFree, Fit

(* With one handler at a time nothing else takes a number before it commits. *)
LEMMA StepFree ==
  ASSUME \A v, w \in Workers : v = w, TypeOK, TakesAreFree, [Next]_vars
  PROVE  TakesAreFree'
<1>1. ASSUME NEW w \in Workers, NEW c, Fit(c), job' = [job EXCEPT ![w] = c], UNCHANGED holder
      PROVE  TakesAreFree'
  <2>1. \A v \in Workers : job'[v] = c
    BY <1>1 DEF TypeOK
  <2> QED
    BY <1>1, <2>1 DEF TakesAreFree, Fit, TakesFree
<1>2. ASSUME NEW w \in Workers, Commit(w) PROVE TakesAreFree'
  <2> DEFINE arrived == [Nothing EXCEPT !.op = "arrive", !.who = job[w].who]
  <2>1. arrived.take = Nothing.take
    BY NothingType DEF Changes
  <2>2. \A v \in Workers : job'[v] \in {Nothing, arrived}
    <3>1. job' = [job EXCEPT ![w] = IF job[w].op = "number" THEN arrived ELSE Nothing]
      BY <1>2 DEF Commit
    <3> HIDE DEF arrived
    <3> QED
      BY <3>1 DEF TypeOK
  <2>3. \A n \in Numbers : Nothing.take[n] = Nobody
    BY DEF Nothing
  <2> HIDE DEF arrived
  <2>4. \A v \in Workers, n \in Numbers : job'[v].take[n] = Nobody
    BY <2>1, <2>2, <2>3
  <2> QED
    BY <2>4 DEF TakesAreFree, TakesFree
<1>3. ASSUME UNCHANGED <<holder, job>> PROVE TakesAreFree'
  BY <1>3 DEF TakesAreFree, TakesFree
<1>4. ASSUME NEW w \in Workers, Start(w) PROVE TakesAreFree'
  BY <1>1, <1>4, StartFits DEF Begins, Begin, badges
<1>5. ASSUME NEW w \in Workers, CheckIn(w) PROVE TakesAreFree'
  BY <1>1, <1>5, CheckInFits DEF CheckIn, badges
<1> QED
  BY <1>2, <1>3, <1>4, <1>5 DEF Next, CreateBadgeNums, ChangeConfig, vars, badges

(* Taking only free numbers, a step leaves numbers with their attendees.   *)
LEMMA StepKeeps ==
  ASSUME TypeOK, TakesAreFree, [Next]_vars
  PROVE  \A n \in Numbers : holder[n] # Nobody => holder'[n] \in {holder[n], Nobody}
<1>1. ASSUME NEW w \in Workers, Commit(w), NEW n \in Numbers, holder[n] # Nobody
      PROVE  holder'[n] \in {holder[n], Nobody}
  <2>1. job[w].take[n] = Nobody
    BY <1>1 DEF TakesAreFree, TakesFree
  <2> QED
    BY <1>1, <2>1 DEF Commit
<1>2. ASSUME NEW w \in Workers, Start(w) PROVE UNCHANGED holder
  BY <1>2, StartFits DEF Begins, Begin, badges
<1> QED
  BY <1>1, <1>2 DEF Next, CheckIn, CreateBadgeNums, ChangeConfig, vars, badges

(* With one handler at a time a number only goes from one attendee to      *)
(* another after it was given back: what get_next_badge_num and the        *)
(* setter of badge_num find free is free until their commit.  Two handlers *)
(* may both find it free before one of them commits.                       *)
THEOREM OneHandlerTakesNothingOver ==
  ASSUME \A v, w \in Workers : v = w
  PROVE  Spec => NoTakeover
<1>1. Init => TakesAreFree
  BY InitFree
<1>2. TypeOK /\ TakesAreFree /\ [Next]_vars => TakesAreFree'
  BY StepFree
<1>3. TypeOK /\ TakesAreFree /\ [Next]_vars =>
        [\A n \in Numbers : holder[n] # Nobody => holder'[n] \in {holder[n], Nobody}]_vars
  BY StepKeeps
<1>4. Spec => []TypeOK
  BY BadgeTypeCorrect
<1> QED
  BY <1>1, <1>2, <1>3, <1>4, PTL DEF Spec, NoTakeover

-----------------------------------------------------------------------------
(* With one handler at a time, what it has collected in its session leaves *)
(* one active badge to each: it makes at most one badge active, which its  *)
(* attendee takes or holds, and then ends the one that was; it takes what  *)
(* nobody holds; and what it gives back is no longer active.               *)
OneBadge(c, a) ==
  /\ Fit(c)
  /\ \A n \in Numbers : c.take[n] \in {a, Nobody}
  /\ \A m, n \in c.on : m = n
  /\ \A n \in c.on : c.take[n] = a \/ (holder[n] = a /\ n \notin c.free)
  /\ c.on # {} => ActiveOf(a) \subseteq c.off
  /\ c.free \cap active \subseteq c.off
  /\ type[a] # Unsaved \/ (a \in c.who /\ c.type # Unsaved)
  /\ c.op \in {"number", "arrive"} => \A b \in c.who : type[b] # Unsaved

ChangeSound(c) ==
  \/ c.op = "none"
  \/ c.op = "arrive" /\ \A b \in c.who : type[b] # Unsaved
  \/ \E a \in Attendees : OneBadge(c, a)

(* The active badges have holders, who are saved and have no other one.    *)
HoldersSound ==
  /\ \A m, n \in active : holder[m] = holder[n] => m = n
  /\ \A n \in active : holder[n] # Nobody
  /\ \A n \in Numbers : holder[n] # Nobody => type[holder[n]] # Unsaved

BadgesSound == HoldersSound /\ \A w \in Workers : ChangeSound(job[w])

(* The number that a registration of type t is offered.                    *)
Offered(t) == CHOOSE n \in NextNumber(t) : TRUE

(* Changes that differ in other fields are as sound.                       *)
LEMMA SameBadge ==
  ASSUME NEW c, NEW a \in Attendees, OneBadge(c, a), NEW d \in Changes,
         d.take = c.take, d.on = c.on, d.off = c.off, d.free = c.free, d.who = c.who,
         d.op = c.op, d.type = c.type
  PROVE  OneBadge(d, a)
BY SameTakesFit DEF OneBadge

(* A handler that has changed nothing, for a saved registration.           *)
LEMMA ChangeOne ==
  ASSUME NEW op \in Ops, NEW a \in Attendees, type[a] # Unsaved
  PROVE  OneBadge(Change(op, a), a) /\ Change(op, a).on = {}
<1> DEFINE c == Change(op, a)
<1>1. /\ c.take = [n \in Numbers |-> Nobody] /\ c.on = {} /\ c.off = {} /\ c.free = {}
      /\ c.who = {a} /\ c.type = Unsaved
  BY NothingType DEF Change, Changes, Nothing
<1>2. Fit(c)
  BY NewChangesFit
<1> HIDE DEF c
<1>3. OneBadge(c, a)
  BY <1>1, <1>2 DEF OneBadge
<1> QED  BY <1>1, <1>3 DEF c

(* Giving badges back.                                                     *)
LEMMA UnassignOne ==
  ASSUME NEW c, NEW a \in Attendees, OneBadge(c, a), NEW S \in SUBSET Numbers
  PROVE  LET d == Unassign(c, S) IN
         OneBadge(d, a) /\ d.on = c.on \ S /\ S \subseteq d.off /\ c.off \subseteq d.off
<1> DEFINE d == Unassign(c, S)
<1>1. c \in Changes /\ Fit(d)
  BY UnassignFit DEF OneBadge, Fit
<1>2. /\ d.take = c.take /\ d.on = c.on \ S /\ d.off = c.off \cup S /\ d.who = c.who
      /\ d.op = c.op /\ d.type = c.type /\ d.free \subseteq c.free \cup S
  BY <1>1 DEF Unassign, Changes
<1> HIDE DEF d
<1>3. OneBadge(d, a)
  BY <1>1, <1>2 DEF OneBadge
<1> QED  BY <1>2, <1>3 DEF d

(* Taking a badge that nobody holds, when the others are ended.            *)
LEMMA AssignOne ==
  ASSUME HoldersSound, NEW c, NEW a \in Attendees, OneBadge(c, a), NEW n \in Numbers,
         holder[n] = Nobody, c.on \subseteq {n}, ActiveOf(a) \subseteq c.off
  PROVE  OneBadge(Assign(c, a, n), a) /\ Assign(c, a, n).on = {n}
<1> DEFINE d == Assign(c, a, n)
<1>1. c \in Changes /\ Fit(d) /\ c.take \in [Numbers -> Attendees \cup {Nobody}]
  BY AssignFit DEF OneBadge, Fit, Changes
<1>2. c.take[n] \in {a, Nobody}
  BY DEF OneBadge
<1>3. /\ d.take = [c.take EXCEPT ![n] = a] /\ d.on = c.on \cup {n} /\ d.off = c.off \ {n}
      /\ d.who = c.who /\ d.op = c.op /\ d.type = c.type /\ d.free = c.free
  BY <1>1, <1>2 DEF Assign, Changes
<1>4. n \notin active /\ a # Nobody
  BY BadgeConstants DEF HoldersSound
<1> HIDE DEF d
<1>5. \A m \in Numbers : d.take[m] \in {a, Nobody}
  BY <1>1, <1>3 DEF OneBadge
<1>6. d.on = {n} /\ d.take[n] = a
  BY <1>1, <1>3
<1>7. ActiveOf(a) \subseteq d.off
  BY <1>3, <1>4 DEF ActiveOf
<1>8. OneBadge(d, a)
  BY <1>1, <1>3, <1>4, <1>5, <1>6, <1>7 DEF OneBadge
<1> QED  BY <1>6, <1>8 DEF d

(* active_badge loads all there is.                                        *)
LEMMA LoadedAll ==
  ASSUME HoldersSound, TypeOK, NEW a \in Attendees, NEW cur \in Loaded(a)
  PROVE  cur = ActiveOf(a) /\ cur \in SUBSET Numbers
<1>1. \A m, n \in ActiveOf(a) : m = n
  BY DEF ActiveOf, HoldersSound
<1> QED  BY <1>1, LoadedType DEF Loaded

(* Another number for the type, or none.                                   *)
LEMMA UpdateOne ==
  ASSUME HoldersSound, TypeOK, NEW c, NEW a \in Attendees, OneBadge(c, a), NEW cur \in Loaded(a),
         NEW t, c.on \subseteq {Offered(t)}
  PROVE  LET d == UpdateBadge(c, a, cur, t) IN OneBadge(d, a) /\ d.on \subseteq {Offered(t)}
<1> DEFINE kept == {n \in cur : n \notin c.free}
           out  == Unassign(c, kept)
           new  == Assign(out, a, Offered(t))
<1>1. cur = ActiveOf(a) /\ kept \in SUBSET Numbers
  BY LoadedAll
<1>2. OneBadge(out, a) /\ out.on \subseteq c.on /\ kept \subseteq out.off /\ c.off \subseteq out.off
  BY <1>1, UnassignOne
<1>3. ActiveOf(a) \subseteq out.off
  BY <1>1, <1>2 DEF ActiveOf, OneBadge
<1>4. UpdateBadge(c, a, cur, t) \in {c, out} \/
        (NextNumber(t) # {} /\ UpdateBadge(c, a, cur, t) = new)
  BY DEF UpdateBadge, Offered
<1> HIDE DEF kept, out
<1>5. ASSUME NextNumber(t) # {}
      PROVE  OneBadge(new, a) /\ new.on \subseteq {Offered(t)}
  <2>1. Offered(t) \in NextNumber(t)
    BY <1>5 DEF Offered
  <2>2. Offered(t) \in Numbers /\ holder[Offered(t)] = Nobody
    BY <2>1, NextNumberFree
  <2> QED  BY <1>2, <1>3, <2>2, AssignOne
<1> HIDE DEF new
<1> QED  BY <1>2, <1>4, <1>5

(* The number is set to none.                                              *)
LEMMA ClearOne ==
  ASSUME HoldersSound, TypeOK, NEW c, NEW a \in Attendees, OneBadge(c, a), NEW cur \in Loaded(a),
         NEW t, c.on \subseteq {Offered(t)}
  PROVE  LET d == ClearNumber(c, a, cur, t) IN OneBadge(d, a) /\ d.on \subseteq {Offered(t)}
<1> DEFINE out == Unassign(c, cur)
<1>1. OneBadge(out, a) /\ out.on \subseteq {Offered(t)}
  BY LoadedAll, UnassignOne
<1> HIDE DEF out
<1>2. /\ OneBadge(UpdateBadge(out, a, cur, t), a)
      /\ UpdateBadge(out, a, cur, t).on \subseteq {Offered(t)}
  BY <1>1, UpdateOne
<1> QED  BY <1>2 DEF ClearNumber, out

(* The number is set to one that nobody holds.                             *)
LEMMA SetOne ==
  ASSUME HoldersSound, TypeOK, NEW c, NEW a \in Attendees, OneBadge(c, a), c.on = {},
         NEW cur \in Loaded(a), NEW n \in Numbers
  PROVE  OneBadge(SetNumber(c, a, cur, n), a)
<1> DEFINE out  == Unassign(c, cur)
           out2 == [out EXCEPT !.free = @ \cup cur]
           new  == Assign(out2, a, n)
           pick == [new EXCEPT !.pick = @ \cup {n}]
<1>1. cur = ActiveOf(a) /\ cur \in SUBSET Numbers
  BY LoadedAll
<1>2. OneBadge(out, a) /\ out.on = {} /\ cur \subseteq out.off
  BY <1>1, UnassignOne
<1> HIDE DEF out
<1>3. out \in Changes
  BY <1>2 DEF OneBadge, Fit
<1>4. /\ out2 \in Changes /\ out2.free = out.free \cup cur /\ out2.take = out.take
      /\ out2.on = out.on /\ out2.off = out.off /\ out2.who = out.who /\ out2.op = out.op
      /\ out2.type = out.type
  BY <1>1, <1>3 DEF Changes
<1> HIDE DEF out2
<1>5. OneBadge(out2, a)
  <2>1. Fit(out2)
    BY <1>2, <1>4, SameTakesFit DEF OneBadge
  <2> QED  BY <1>2, <1>4, <2>1 DEF OneBadge
<1>6. ASSUME holder[n] = Nobody  PROVE OneBadge(new, a)
  BY <1>1, <1>2, <1>4, <1>5, <1>6, AssignOne
<1> HIDE DEF new
<1>7. ASSUME OneBadge(new, a)  PROVE OneBadge(pick, a)
  <2>1. new \in Changes
    BY <1>7 DEF OneBadge, Fit
  <2>2. /\ pick \in Changes /\ pick.take = new.take /\ pick.on = new.on /\ pick.off = new.off
        /\ pick.free = new.free /\ pick.who = new.who /\ pick.op = new.op /\ pick.type = new.type
    BY <2>1 DEF Changes
  <2> HIDE DEF pick
  <2> QED  BY <1>7, <2>2, SameBadge
<1> HIDE DEF pick
<1>8. SetNumber(c, a, cur, n) = c \/ (holder[n] = Nobody /\ SetNumber(c, a, cur, n) \in {new, pick})
  BY DEF SetNumber, out, out2, new, pick
<1> QED  BY <1>6, <1>7, <1>8

(* The checks of a flush.                                                  *)
LEMMA AdjustOne ==
  ASSUME HoldersSound, TypeOK, NEW c, NEW a \in Attendees, OneBadge(c, a), NEW cur \in Loaded(a),
         NEW t, c.on \subseteq {Offered(t)}
  PROVE  OneBadge(BadgeAdjustments(c, a, cur, t), a)
BY UpdateOne DEF BadgeAdjustments

(* A number of the range of the type, just set, is kept.                   *)
LEMMA AdjustKeeps ==
  ASSUME HoldersSound, TypeOK, NEW c, NEW a \in Attendees, OneBadge(c, a), c.on = {}, c.free = {},
         NEW cur \in Loaded(a), NEW n \in Numbers, NEW t, n \in ranges[t],
         NEW d, d = SetNumber(c, a, cur, n)
  PROVE  OneBadge(BadgeAdjustments(d, a, IF d = c THEN cur ELSE {n}, t), a)
<1>1. CASE d = c
  BY <1>1, AdjustOne
<1>2. CASE d # c
  <2>1. OneBadge(d, a)
    BY SetOne
  <2>2. n \notin d.free
    <3> DEFINE out  == Unassign(c, cur)
               out2 == [out EXCEPT !.free = @ \cup cur]
               new  == Assign(out2, a, n)
    <3>1. cur \in SUBSET Numbers /\ n \notin cur
      BY <1>2, LoadedAll DEF SetNumber
    <3>2. c \in Changes
      BY DEF OneBadge, Fit
    <3>3. out \in Changes /\ out.free \subseteq cur
      BY <3>1, <3>2, UnassignType DEF Unassign, Changes
    <3> HIDE DEF out
    <3>4. out2 \in Changes /\ out2.free \subseteq cur
      BY <3>1, <3>3 DEF Changes
    <3> HIDE DEF out2
    <3>5. new \in Changes /\ new.free \subseteq cur
      <4>1. new \in Changes
        BY <3>4, AssignType
      <4>2. new.free = out2.free
        <5>1. CASE out2.take[n] \notin {a, Nobody}
          BY <5>1 DEF Assign
        <5>2. CASE out2.take[n] \in {a, Nobody}
          BY <3>4, <5>2 DEF Assign, Changes
        <5> QED  BY <5>1, <5>2
      <4> QED  BY <3>4, <4>1, <4>2
    <3> HIDE DEF new
    <3>6. d \in {new, [new EXCEPT !.pick = @ \cup {n}]}
      BY <1>2 DEF SetNumber, out, out2, new
    <3>7. [new EXCEPT !.pick = @ \cup {n}].free = new.free
      BY <3>5 DEF Changes
    <3> QED  BY <3>1, <3>5, <3>6, <3>7
  <2>3. UpdateBadge(d, a, {n}, t) = d
    <3>1. {m \in {n} : m \notin d.free} \cap ranges[t] # {}
      BY <2>2
    <3> QED  BY <3>1 DEF UpdateBadge
  <2>4. BadgeAdjustments(d, a, {n}, t) = d
    BY <2>3 DEF BadgeAdjustments
  <2> QED  BY <1>2, <2>1, <2>4
<1> QED  BY <1>1, <1>2

-----------------------------------------------------------------------------
(* Every handler starts so ...                                             *)
BeginsSound(w) == \E c : (\E a \in Attendees : OneBadge(c, a)) /\ Begin(w, c)

(* New registrations have no badge yet.                                    *)
LEMMA AddOne ==
  ASSUME HoldersSound, TypeOK, NEW w \in Workers, NEW S \in Groups, NEW t \in BadgeTypes,
         AddBadges(w, S, t)
  PROVE  BeginsSound(w)
<1> DEFINE c == [Nothing EXCEPT !.op = "add", !.who = S, !.type = t]
<1>1. S \subseteq Attendees /\ t # Unsaved
  BY BadgeConstants
<1>2. /\ c \in Changes /\ c.take = Nothing.take /\ c.on = {} /\ c.free = {} /\ c.off = {}
      /\ c.who = S /\ c.type = t /\ c.op = "add"
  BY <1>1, NothingType, OpsType DEF Changes, Nothing
<1>3. Fit(c)
  BY <1>2, NewChangesFit, SameTakesFit
<1> HIDE DEF c
<1>4. PICK a \in S : Begin(w, BadgeAdjustments(c, a, {}, t))
  BY DEF AddBadges, c
<1>5. a \in Attendees /\ type[a] = Unsaved
  BY <1>1, <1>4 DEF AddBadges
<1>6. OneBadge(c, a)
  BY <1>1, <1>2, <1>3, <1>4 DEF OneBadge, Nothing
<1>7. {} \in Loaded(a)
  <2>1. ActiveOf(a) = {}
    BY <1>5, BadgeConstants DEF ActiveOf, HoldersSound, TypeOK
  <2> QED  BY <2>1 DEF Loaded
<1>8. OneBadge(BadgeAdjustments(c, a, {}, t), a)
  BY <1>2, <1>5, <1>6, <1>7, AdjustOne
<1> QED  BY <1>4, <1>5, <1>8 DEF BeginsSound

(* A registration is saved.                                                *)
LEMMA SaveOne ==
  ASSUME HoldersSound, TypeOK, NEW w \in Workers, NEW a \in Attendees, SaveAttendee(w, a)
  PROVE  BeginsSound(w)
<1> DEFINE c(op, t) == [Change(op, a) EXCEPT !.type = t]
<1>1. ASSUME NEW op \in {"save", "omit"}, NEW t \in BadgeTypes
      PROVE  OneBadge(c(op, t), a) /\ c(op, t).on = {} /\ c(op, t).free = {}
  <2> DEFINE d == Change(op, a)
  <2>1. OneBadge(d, a) /\ d.on = {} /\ op \in Ops
    BY ChangeOne, OpsType DEF SaveAttendee
  <2>2. d \in Changes /\ d.free = {} /\ d.op = op
    BY <2>1, NothingType DEF OneBadge, Fit, Change, Nothing, Changes
  <2>3. /\ c(op, t) \in Changes /\ c(op, t).take = d.take /\ c(op, t).on = d.on
        /\ c(op, t).off = d.off /\ c(op, t).free = d.free /\ c(op, t).who = d.who
        /\ c(op, t).op = d.op
    <3> HIDE DEF d
    <3> QED  BY <2>2 DEF Changes, d
  <2>4. Fit(c(op, t))
    BY <2>1, <2>3, SameTakesFit DEF OneBadge
  <2> HIDE DEF c, d
  <2>5. type[a] # Unsaved
    BY DEF SaveAttendee
  <2> QED  BY <2>1, <2>2, <2>3, <2>4, <2>5 DEF OneBadge
<1> HIDE DEF c
<1>2. PICK t \in BadgeTypes : \/ SaveSame(w, a, t) \/ SaveOmit(w, a, t)
                              \/ \E n \in Numbers : SaveNumber(w, a, t, n)
  BY DEF SaveAttendee
<1>3. CASE SaveSame(w, a, t)
  <2>1. PICK cur \in Loaded(a) : Begin(w, BadgeAdjustments(c("save", t), a, cur, t))
    BY <1>3 DEF SaveSame, c
  <2> QED  BY <1>1, <2>1, AdjustOne DEF BeginsSound
<1>4. CASE SaveOmit(w, a, t)
  <2>1. PICK cur \in Loaded(a) :
          Begin(w, BadgeAdjustments(ClearNumber(c("omit", t), a, cur, t), a, cur, t))
    BY <1>4 DEF SaveOmit, c
  <2>2. /\ OneBadge(ClearNumber(c("omit", t), a, cur, t), a)
        /\ ClearNumber(c("omit", t), a, cur, t).on \subseteq {Offered(t)}
    BY <1>1, ClearOne
  <2> QED  BY <2>1, <2>2, AdjustOne DEF BeginsSound
<1>5. ASSUME NEW n \in Numbers, SaveNumber(w, a, t, n)  PROVE BeginsSound(w)
  <2>1. PICK cur \in Loaded(a) :
          LET d == SetNumber(c("save", t), a, cur, n) IN
          n \in ranges[t] /\ Begin(w, BadgeAdjustments(d, a,
                                       IF d = c("save", t) THEN cur ELSE {n}, t))
    BY <1>5 DEF SaveNumber, c
  <2> QED  BY <1>1, <2>1, AdjustKeeps DEF BeginsSound
<1> QED  BY <1>2, <1>3, <1>4, <1>5

(* The check-in form.                                                      *)
LEMMA FormOne ==
  ASSUME HoldersSound, TypeOK, NEW w \in Workers, NEW a \in Attendees, CheckInForm(w, a)
  PROVE  BeginsSound(w)
<1> DEFINE t == type[a]
           c == Change("number", a)
<1>1. t \in BadgeTypes /\ OneBadge(c, a) /\ c.on = {} /\ c.free = {}
  BY SavedType, ChangeOne, OpsType, NothingType DEF CheckInForm, Change, Nothing, Changes
<1>2. PICK cur \in Loaded(a), n \in ranges[t] :
        LET d == SetNumber(c, a, cur, n) IN
        Begin(w, BadgeAdjustments(d, a, IF d = c THEN cur ELSE {n}, t))
  BY DEF CheckInForm
<1> HIDE DEF t, c
<1>3. n \in Numbers
  BY <1>1, RangeType
<1> QED  BY <1>1, <1>2, <1>3, AdjustKeeps DEF BeginsSound

(* A check-in is undone.                                                   *)
LEMMA UndoOne ==
  ASSUME HoldersSound, TypeOK, NEW w \in Workers, NEW a \in Attendees,
         NEW pre \in SUBSET ranges[type[a]], UndoCheckin(w, a, pre)
  PROVE  BeginsSound(w)
<1> DEFINE t == type[a]
           old == Change("undo", a)
           c(cur) == [old EXCEPT !.leave = {a}, !.unpick = cur]
<1>1. t \in BadgeTypes /\ OneBadge(old, a) /\ old.on = {}
  BY SavedType, ChangeOne, OpsType DEF UndoCheckin
<1>2. PICK cur \in Loaded(a) :
        Begin(w, IF pre = {} THEN ClearNumber(c(cur), a, cur, t)
                 ELSE SetNumber(c(cur), a, cur, CHOOSE n \in pre : TRUE))
  BY DEF UndoCheckin
<1>3. pre \subseteq Numbers /\ cur \in SUBSET Numbers
  BY <1>1, RangeType, LoadedType
<1> HIDE DEF t, old
<1>4. OneBadge(c(cur), a) /\ c(cur).on = {}
  <2>1. old \in Changes
    BY <1>1 DEF OneBadge, Fit
  <2>2. /\ c(cur) \in Changes /\ c(cur).take = old.take /\ c(cur).on = old.on
        /\ c(cur).off = old.off /\ c(cur).free = old.free /\ c(cur).who = old.who
        /\ c(cur).op = old.op /\ c(cur).type = old.type
    BY <1>3, <2>1 DEF Changes
  <2> HIDE DEF c
  <2> QED  BY <1>1, <2>2, SameBadge
<1> HIDE DEF c
<1>5. OneBadge(ClearNumber(c(cur), a, cur, t), a)
  BY <1>4, ClearOne
<1>6. ASSUME pre # {}  PROVE OneBadge(SetNumber(c(cur), a, cur, CHOOSE n \in pre : TRUE), a)
  <2>1. (CHOOSE n \in pre : TRUE) \in Numbers
    BY <1>3, <1>6
  <2> QED  BY <1>4, <2>1, SetOne
<1> QED  BY <1>2, <1>5, <1>6 DEF BeginsSound

(* A check-in is undone while the attendee is still in.                    *)
LEMMA UndoNewOne ==
  ASSUME HoldersSound, TypeOK, NEW w \in Workers, NEW a \in Attendees, UndoNewCheckin(w, a)
  PROVE  BeginsSound(w)
<1> DEFINE t == type[a]
           old == Change("undo_new", a)
           c(cur) == ClearNumber(old, a, cur, t)
           d(cur) == [c(cur) EXCEPT !.leave = {a}]
<1>1. OneBadge(old, a) /\ old.on = {}
  BY ChangeOne, OpsType DEF UndoNewCheckin
<1>2. PICK cur \in Loaded(a) : Begin(w, BadgeAdjustments(d(cur), a, cur, t))
  BY DEF UndoNewCheckin
<1> HIDE DEF old
<1>3. OneBadge(c(cur), a) /\ c(cur).on \subseteq {Offered(t)}
  BY <1>1, ClearOne
<1> HIDE DEF c
<1>4. OneBadge(d(cur), a) /\ d(cur).on \subseteq {Offered(t)}
  <2>1. c(cur) \in Changes
    BY <1>3 DEF OneBadge, Fit
  <2>2. /\ d(cur) \in Changes /\ d(cur).take = c(cur).take /\ d(cur).on = c(cur).on
        /\ d(cur).off = c(cur).off /\ d(cur).free = c(cur).free /\ d(cur).who = c(cur).who
        /\ d(cur).op = c(cur).op /\ d(cur).type = c(cur).type
    BY <2>1 DEF Changes
  <2> HIDE DEF d
  <2> QED  BY <1>3, <2>2, SameBadge
<1> HIDE DEF d, t
<1> QED  BY <1>2, <1>4, AdjustOne DEF BeginsSound

(* A badge is lost, another one made current, or an old one given back.    *)
LEMMA BadgeOne ==
  ASSUME HoldersSound, TypeOK, NEW w \in Workers,
         \/ \E a \in Attendees : LostBadge(w, a)
         \/ \E n \in Numbers : ActivateBadge(w, n) \/ UndoBadgePickup(w, n)
  PROVE  BeginsSound(w)
<1>1. ASSUME NEW op \in {"lost", "activate", "undo_pickup"}, NEW n \in Numbers, holder[n] # Nobody,
             NEW S \in SUBSET Numbers, NEW c, c \in Changes, Begin(w, c),
             c.take = Change(op, holder[n]).take, c.who = {holder[n]}, c.op = op, c.type = Unsaved,
             \/ c.on = {} /\ c.free = {}
             \/ c.on = {} /\ c.free = {n} /\ n \notin active
             \/ c.on = {n} /\ c.free = {} /\ ActiveOf(holder[n]) \subseteq c.off
      PROVE  BeginsSound(w)
  <2> DEFINE a == holder[n]
  <2>1. a \in Attendees /\ type[a] # Unsaved
    BY <1>1, HolderType DEF HoldersSound
  <2> HIDE DEF a
  <2>2. OneBadge(Change(op, a), a)
    BY <2>1, ChangeOne, OpsType
  <2>3. Fit(c)
    BY <1>1, <2>2, SameTakesFit DEF OneBadge, a
  <2>4. \A m \in Numbers : c.take[m] \in {a, Nobody}
    BY <1>1, <2>2 DEF OneBadge, a
  <2>5. OneBadge(c, a)
    BY <1>1, <2>1, <2>3, <2>4 DEF OneBadge, a
  <2> QED  BY <1>1, <2>1, <2>5 DEF BeginsSound
<1>2. ASSUME NEW a \in Attendees, LostBadge(w, a)  PROVE BeginsSound(w)
  <2> DEFINE old == Change("lost", a)
             c(cur) == [old EXCEPT !.lose = cur, !.off = cur]
  <2>1. PICK cur \in Loaded(a) : cur # {} /\ Begin(w, c(cur))
    BY <1>2 DEF LostBadge
  <2>2. cur = ActiveOf(a) /\ cur \in SUBSET Numbers
    BY LoadedAll
  <2>3. PICK n \in Numbers : n \in cur /\ holder[n] = a
    BY <2>1, <2>2 DEF ActiveOf
  <2>4. /\ old \in Changes /\ old.on = {} /\ old.free = {} /\ old.who = {a} /\ old.op = "lost"
        /\ old.type = Unsaved
    BY NothingType, ChangeType, OpsType DEF Change, Changes, Nothing
  <2>5. a # Nobody
    BY BadgeConstants
  <2> HIDE DEF old
  <2>6. /\ c(cur) \in Changes /\ c(cur).take = old.take /\ c(cur).on = old.on
        /\ c(cur).free = old.free /\ c(cur).who = old.who /\ c(cur).op = old.op
        /\ c(cur).type = old.type
    BY <2>2, <2>4 DEF Changes
  <2> HIDE DEF c
  <2> QED  BY <1>1, <2>1, <2>3, <2>4, <2>5, <2>6 DEF old
<1>3. ASSUME NEW n \in Numbers, ActivateBadge(w, n)  PROVE BeginsSound(w)
  <2> DEFINE a == holder[n]
             old == Change("activate", a)
             c(cur) == [old EXCEPT !.off = cur, !.on = {n}, !.pick = {m \in {n} : a \in checkedIn}]
  <2>1. a # Nobody /\ \E cur \in Loaded(a) : Begin(w, c(cur))
    BY <1>3 DEF ActivateBadge
  <2>2. PICK cur \in Loaded(a) : Begin(w, c(cur))
    BY <2>1
  <2>3. a \in Attendees
    BY <2>1, HolderType
  <2>4. cur = ActiveOf(a) /\ cur \in SUBSET Numbers
    BY <2>3, LoadedAll
  <2>5. /\ old \in Changes /\ old.on = {} /\ old.free = {} /\ old.who = {a}
        /\ old.op = "activate" /\ old.type = Unsaved
    <3> HIDE DEF a
    <3> QED  BY <2>3, NothingType, ChangeType, OpsType DEF Change, Changes, Nothing
  <2> HIDE DEF old
  <2>6. /\ c(cur) \in Changes /\ c(cur).take = old.take /\ c(cur).on = {n} /\ c(cur).off = cur
        /\ c(cur).free = old.free /\ c(cur).who = old.who /\ c(cur).op = old.op
        /\ c(cur).type = old.type
    <3> HIDE DEF a
    <3> QED  BY <2>4, <2>5 DEF Changes
  <2> HIDE DEF c
  <2> QED  BY <1>1, <2>1, <2>2, <2>4, <2>5, <2>6 DEF old
<1>4. ASSUME NEW n \in Numbers, UndoBadgePickup(w, n)  PROVE BeginsSound(w)
  <2> DEFINE a == holder[n]
             old == Change("undo_pickup", a)
             c == [old EXCEPT !.unpick = {n}, !.free = {n}]
  <2>1. a # Nobody /\ n \notin active /\ Begin(w, c)
    BY <1>4 DEF UndoBadgePickup
  <2>2. a \in Attendees
    BY <2>1, HolderType
  <2>3. /\ old \in Changes /\ old.on = {} /\ old.free = {} /\ old.who = {a}
        /\ old.op = "undo_pickup" /\ old.type = Unsaved
    <3> HIDE DEF a
    <3> QED  BY <2>2, NothingType, ChangeType, OpsType DEF Change, Changes, Nothing
  <2> HIDE DEF old
  <2>4. /\ c \in Changes /\ c.take = old.take /\ c.on = old.on /\ c.free = {n}
        /\ c.who = old.who /\ c.op = old.op /\ c.type = old.type
    BY <2>3 DEF Changes
  <2> HIDE DEF c
  <2> QED  BY <1>1, <2>1, <2>3, <2>4 DEF old
<1> QED  BY <1>2, <1>3, <1>4

(* The second step of the check-in form, for a saved registration.         *)
LEMMA CheckInOne ==
  ASSUME HoldersSound, TypeOK, NEW w \in Workers, ChangeSound(job[w]), CheckIn(w)
  PROVE  \E d : (\E a \in Attendees : OneBadge(d, a)) /\ job' = [job EXCEPT ![w] = d]
<1>1. job[w].who \subseteq Attendees
  BY DEF TypeOK, Changes
<1>2. PICK a \in job[w].who : \E cur \in Loaded(a) :
        LET c == [Change("checkin", a) EXCEPT !.arrive = {a}]
            next == NextNumber(type[a]) IN
        job' = [job EXCEPT ![w] =
          IF cur # {} THEN [c EXCEPT !.pick = cur]
          ELSE IF next = {} THEN c
          ELSE [Assign(c, a, CHOOSE n \in next : TRUE) EXCEPT !.pick = next]]
  BY DEF CheckIn
<1> DEFINE old  == Change("checkin", a)
           c    == [old EXCEPT !.arrive = {a}]
           next == NextNumber(type[a])
           new  == Assign(c, a, CHOOSE n \in next : TRUE)
<1>3. a \in Attendees /\ type[a] # Unsaved
  BY <1>1, <1>2 DEF CheckIn, ChangeSound, OneBadge
<1>4. OneBadge(old, a) /\ old.on = {}
  BY <1>3, ChangeOne, OpsType
<1>5. OneBadge(c, a) /\ c.on = {}
  <2> HIDE DEF old
  <2>1. /\ c \in Changes /\ c.take = old.take /\ c.on = old.on /\ c.off = old.off
        /\ c.free = old.free /\ c.who = old.who /\ c.op = old.op /\ c.type = old.type
    BY <1>3, <1>4 DEF OneBadge, Fit, Changes
  <2> QED  BY <1>3, <1>4, <2>1, SameBadge
<1> HIDE DEF c
<1>6. ASSUME NEW e, OneBadge(e, a), NEW S \in SUBSET Numbers
      PROVE  OneBadge([e EXCEPT !.pick = S], a)
  <2> DEFINE d == [e EXCEPT !.pick = S]
  <2>1. /\ d \in Changes /\ d.take = e.take /\ d.on = e.on /\ d.off = e.off
        /\ d.free = e.free /\ d.who = e.who /\ d.op = e.op /\ d.type = e.type
    BY <1>6 DEF OneBadge, Fit, Changes
  <2> HIDE DEF d
  <2> QED  BY <1>3, <1>6, <2>1, SameBadge DEF d
<1>7. PICK cur \in Loaded(a) :
        job' = [job EXCEPT ![w] =
          IF cur # {} THEN [c EXCEPT !.pick = cur]
          ELSE IF next = {} THEN c
          ELSE [new EXCEPT !.pick = next]]
  BY <1>2 DEF c
<1>8. cur = ActiveOf(a) /\ cur \in SUBSET Numbers
  BY <1>3, LoadedAll
<1>9. cur # {} => OneBadge([c EXCEPT !.pick = cur], a)
  BY <1>5, <1>6, <1>8
<1>10. next \in SUBSET Numbers
  BY NextNumberType
<1>11. cur = {} /\ next # {} => OneBadge([new EXCEPT !.pick = next], a)
  <2> SUFFICES ASSUME cur = {}, next # {}  PROVE OneBadge([new EXCEPT !.pick = next], a)
    OBVIOUS
  <2>1. PICK n : n = (CHOOSE m \in next : TRUE)
    OBVIOUS
  <2>2. n \in Numbers /\ holder[n] = Nobody
    BY <2>1, NextNumberFree
  <2>3. OneBadge(Assign(c, a, n), a)
    BY <1>3, <1>5, <1>8, <2>2, AssignOne
  <2>4. OneBadge(new, a)
    BY <2>1, <2>3
  <2> HIDE DEF new
  <2> QED  BY <1>6, <1>10, <2>4
<1> QED  BY <1>3, <1>5, <1>7, <1>9, <1>11

(* What was collected is written.                                          *)
LEMMA CommitOne ==
  ASSUME HoldersSound, TypeOK, NEW w \in Workers, ChangeSound(job[w]), Commit(w)
  PROVE  HoldersSound' /\ ChangeSound(job[w])'
<1> DEFINE c == job[w]
<1>1. PICK a \in Attendees : OneBadge(c, a)
  BY DEF Commit, ChangeSound
<1>2. c \in Changes /\ a # Nobody /\ job \in [Workers -> Changes]
  BY <1>1, BadgeConstants DEF OneBadge, Fit, TypeOK
<1>3. \A n \in Numbers : /\ c.take[n] \in {a, Nobody}
                         /\ c.take[n] = a => holder[n] = Nobody /\ holder'[n] = a
                         /\ c.take[n] = Nobody /\ n \in c.free => holder'[n] = Nobody
                         /\ c.take[n] = Nobody /\ n \notin c.free => holder'[n] = holder[n]
  BY <1>1, <1>2 DEF OneBadge, Fit, TakesFree, Commit
<1>4. active' = (active \ c.off) \cup c.on /\ active \subseteq Numbers /\ c.on \subseteq Numbers
  BY <1>2 DEF Commit, TypeOK, Changes
<1>5. \A n \in c.on : holder'[n] = a
  BY <1>1, <1>3, <1>4 DEF OneBadge
<1>6. \A n \in active \ c.off : holder'[n] = holder[n]
  BY <1>1, <1>3, <1>4 DEF OneBadge, HoldersSound
<1>7. c.on # {} => \A n \in active \ c.off : holder[n] # a
  BY <1>1, <1>4 DEF OneBadge, ActiveOf
<1>8. \A b \in Attendees : type[b] # Unsaved => type'[b] # Unsaved
  BY DEF Commit
<1>9. type'[a] # Unsaved
  BY <1>1 DEF Commit, OneBadge
<1>10. \A n \in Numbers : holder'[n] # Nobody => holder'[n] = a \/ holder'[n] = holder[n]
  BY <1>3
<1>11. HoldersSound'
  <2>1. \A m, n \in c.on : m = n
    BY <1>1 DEF OneBadge
  <2>2. \A m, n \in active' : holder'[m] = holder'[n] => m = n
    BY <1>4, <1>5, <1>6, <1>7, <2>1 DEF HoldersSound
  <2>3. \A n \in active' : holder'[n] # Nobody
    BY <1>2, <1>4, <1>5, <1>6 DEF HoldersSound
  <2>4. \A n \in Numbers : holder'[n] # Nobody => type'[holder'[n]] # Unsaved
    BY <1>8, <1>9, <1>10, HolderType DEF HoldersSound
  <2> QED  BY <2>2, <2>3, <2>4 DEF HoldersSound
<1>12. ChangeSound(job[w])'
  <2>1. CASE c.op # "number"
    <3>1. job'[w] = Nothing
      BY <1>2, <2>1 DEF Commit
    <3> QED  BY <3>1 DEF ChangeSound, Nothing
  <2>2. CASE c.op = "number"
    <3>1. job'[w] = [Nothing EXCEPT !.op = "arrive", !.who = c.who]
      BY <1>2, <2>2 DEF Commit
    <3>2. job'[w].op = "arrive" /\ job'[w].who = c.who
      BY <3>1 DEF Nothing
    <3>3. \A b \in c.who : type'[b] # Unsaved
      BY <1>1, <1>2, <1>8, <2>2 DEF OneBadge, Changes
    <3> QED  BY <3>2, <3>3 DEF ChangeSound
  <2> QED  BY <2>1, <2>2
<1> QED  BY <1>11, <1>12

(* So every handler starts with changes that leave one badge.              *)
LEMMA StartOne ==
  ASSUME HoldersSound, TypeOK, NEW w \in Workers, Start(w)  PROVE BeginsSound(w)
<1>1. checkedIn \subseteq Attendees
  BY DEF TypeOK
<1> QED
  BY <1>1, AddOne, SaveOne, FormOne, UndoOne, UndoNewOne, BadgeOne DEF Start

(* What was sound stays so when no badge changes hands.                    *)
LEMMA KeptOne ==
  ASSUME TypeOK, HoldersSound, NEW w \in Workers, NEW c, NEW a \in Attendees, OneBadge(c, a),
         job' = [job EXCEPT ![w] = c], UNCHANGED <<badges, people>>
  PROVE  HoldersSound' /\ ChangeSound(job[w])'
<1>1. holder' = holder /\ active' = active /\ type' = type
  BY DEF badges, people
<1>2. HoldersSound'
  BY <1>1 DEF HoldersSound
<1>3. OneBadge(c, a)'
  BY <1>1 DEF OneBadge, Fit, TakesFree, ActiveOf
<1>4. job'[w] = c
  BY DEF TypeOK
<1> QED  BY <1>2, <1>3, <1>4 DEF ChangeSound

(* One handler at a time keeps it.                                         *)
LEMMA StepOne ==
  ASSUME \A v, w \in Workers : v = w, TypeOK, BadgesSound, [Next]_vars
  PROVE  BadgesSound'
<1>1. HoldersSound
  BY DEF BadgesSound
<1>2. ASSUME NEW w \in Workers, HoldersSound', ChangeSound(job[w])'
      PROVE  BadgesSound'
  BY <1>2 DEF BadgesSound
<1>3. ASSUME NEW w \in Workers, Start(w)  PROVE BadgesSound'
  <2>1. BeginsSound(w)
    BY <1>1, <1>3, StartOne
  <2>2. PICK c : (\E a \in Attendees : OneBadge(c, a)) /\ Begin(w, c)
    BY <2>1 DEF BeginsSound
  <2>3. PICK a \in Attendees : OneBadge(c, a)
    BY <2>2
  <2>4. job' = [job EXCEPT ![w] = c] /\ UNCHANGED <<badges, people>>
    BY <2>2 DEF Begin
  <2> QED  BY <1>1, <1>2, <2>3, <2>4, KeptOne
<1>4. ASSUME NEW w \in Workers, CheckIn(w)  PROVE BadgesSound'
  <2>1. PICK c : (\E a \in Attendees : OneBadge(c, a)) /\ job' = [job EXCEPT ![w] = c]
    BY <1>1, <1>4, CheckInOne DEF BadgesSound
  <2>2. PICK a \in Attendees : OneBadge(c, a)
    BY <2>1
  <2>3. UNCHANGED <<badges, people>>
    BY <1>4 DEF CheckIn
  <2> QED  BY <1>1, <1>2, <2>1, <2>2, <2>3, KeptOne
<1>5. ASSUME NEW w \in Workers, Commit(w)  PROVE BadgesSound'
  BY <1>1, <1>2, <1>5, CommitOne DEF BadgesSound
<1>6. ASSUME holder' = holder, active' = active, type' = type, job' = job  PROVE BadgesSound'
  <2>1. HoldersSound'
    BY <1>1, <1>6 DEF HoldersSound
  <2>2. ASSUME NEW c, ChangeSound(c)  PROVE ChangeSound(c)'
    BY <1>6, <2>2 DEF ChangeSound, OneBadge, Fit, TakesFree, ActiveOf
  <2>3. ASSUME NEW w \in Workers  PROVE ChangeSound(job[w])'
    <3>1. PICK c : c = job[w]
      OBVIOUS
    <3>2. ChangeSound(c)'
      BY <2>2, <3>1 DEF BadgesSound
    <3>3. job'[w] = c
      BY <1>6, <3>1
    <3> QED  BY <1>6, <3>2, <3>3 DEF ChangeSound, OneBadge, Fit, TakesFree, ActiveOf
  <2> QED  BY <2>1, <2>3 DEF BadgesSound
<1> QED
  BY <1>3, <1>4, <1>5, <1>6 DEF Next, CreateBadgeNums, ChangeConfig, vars, badges, people

(* At first nobody holds anything.                                         *)
LEMMA InitOne == Init => BadgesSound
BY BadgeConstants DEF Init, BadgesSound, HoldersSound, ChangeSound, Nothing

(* Holders with one active badge each have one active number.              *)
LEMMA OneNumber ==
  ASSUME HoldersSound  PROVE OneActiveNumber
<1> SUFFICES ASSUME NEW a \in Attendees  PROVE Cardinality(ActiveOf(a)) <= 1
  BY DEF OneActiveNumber
<1>1. \A m, n \in ActiveOf(a) : m = n
  BY DEF ActiveOf, HoldersSound
<1>2. CASE ActiveOf(a) = {}
  BY <1>2, FS_EmptySet
<1>3. CASE ActiveOf(a) # {}
  <2>1. PICK n : ActiveOf(a) = {n}
    BY <1>1, <1>3
  <2> QED  BY <2>1, FS_Singleton
<1> QED  BY <1>2, <1>3

(* With one handler at a time nobody has two active badges, whatever is    *)
(* saved, checked in, undone, lost, replaced and made current again: a     *)
(* handler that makes a badge active has ended the one it loaded, and the  *)
(* one that it loaded was the only one.                                    *)
THEOREM OneHandlerLeavesOneBadge ==
  ASSUME \A v, w \in Workers : v = w
  PROVE  Spec => []OneActiveNumber
<1>1. TypeOK /\ BadgesSound /\ [Next]_vars => BadgesSound'
  BY StepOne
<1>2. BadgesSound => OneActiveNumber
  BY OneNumber DEF BadgesSound
<1> QED
  BY InitOne, <1>1, <1>2, BadgeTypeCorrect, PTL DEF Spec

-----------------------------------------------------------------------------
(* The number of a registration that is saved.                             *)

(* Changes made in the same request.                                       *)
SameRequest(d, c) ==
  d \in Changes /\ d.op = c.op /\ d.who = c.who /\ d.type = c.type

(* Giving badges back and taking one are changes of the request.           *)
LEMMA UnassignSame ==
  ASSUME NEW c \in Changes, NEW S \in SUBSET Numbers
  PROVE  SameRequest(Unassign(c, S), c)
<1>1. Unassign(c, S) \in Changes
  BY UnassignType
<1> QED  BY <1>1 DEF SameRequest, Unassign, Changes

(* Taking one is, too.                                                     *)
LEMMA AssignSame ==
  ASSUME NEW c \in Changes, NEW a \in Attendees, NEW n \in Numbers
  PROVE  /\ SameRequest(Assign(c, a, n), c)
         /\ Assign(c, a, n).free = c.free
         /\ c.take[n] \in {a, Nobody} => Assign(c, a, n).take[n] = a
<1>1. Assign(c, a, n) \in Changes
  BY AssignType
<1>2. CASE c.take[n] \notin {a, Nobody}
  BY <1>1, <1>2 DEF Assign, SameRequest
<1>3. CASE c.take[n] \in {a, Nobody}
  BY <1>1, <1>3 DEF Assign, SameRequest, Changes
<1> QED  BY <1>2, <1>3

(* So are update_badge,                                                    *)
LEMMA UpdateSame ==
  ASSUME NEW c \in Changes, NEW a \in Attendees, NEW cur \in SUBSET Numbers, NEW t
  PROVE  SameRequest(UpdateBadge(c, a, cur, t), c)
<1> DEFINE kept == {n \in cur : n \notin c.free}
           out  == Unassign(c, kept)
           new  == Assign(out, a, Offered(t))
<1>1. out \in Changes /\ SameRequest(out, c)
  BY UnassignSame, UnassignType
<1>2. UpdateBadge(c, a, cur, t) \in {c, out} \/
        (NextNumber(t) # {} /\ UpdateBadge(c, a, cur, t) = new)
  BY Zenon DEF UpdateBadge, Offered
<1> HIDE DEF kept, out
<1>3. ASSUME NextNumber(t) # {}  PROVE SameRequest(new, c)
  <2>1. Offered(t) \in NextNumber(t)
    BY <1>3 DEF Offered
  <2>2. Offered(t) \in Numbers
    BY <2>1, NextNumberFree
  <2> QED  BY <1>1, <2>2, AssignSame DEF SameRequest
<1>4. SameRequest(c, c)
  BY DEF SameRequest
<1> HIDE DEF new
<1> QED  BY <1>1, <1>2, <1>3, <1>4

(* setting the number to none, and the checks of a flush,                  *)
LEMMA FlushSame ==
  ASSUME NEW c \in Changes, NEW a \in Attendees, NEW cur \in SUBSET Numbers, NEW t
  PROVE  /\ SameRequest(ClearNumber(c, a, cur, t), c)
         /\ SameRequest(BadgeAdjustments(c, a, cur, t), c)
<1>1. Unassign(c, cur) \in Changes /\ SameRequest(Unassign(c, cur), c)
  BY UnassignSame, UnassignType
<1>2. SameRequest(UpdateBadge(Unassign(c, cur), a, cur, t), c)
  BY <1>1, UpdateSame DEF SameRequest
<1>3. SameRequest(c, c) /\ SameRequest(UpdateBadge(c, a, cur, t), c)
  BY UpdateSame DEF SameRequest
<1> QED  BY <1>2, <1>3 DEF ClearNumber, BadgeAdjustments

(* and setting it to one.  A new number is taken, and not given back.      *)
LEMMA SetSame ==
  ASSUME NEW c \in Changes, NEW a \in Attendees, NEW cur \in SUBSET Numbers,
         NEW n \in Numbers
  PROVE  LET d == SetNumber(c, a, cur, n) IN
         /\ SameRequest(d, c)
         /\ d # c /\ c.free = {} /\ c.take[n] = Nobody => d.take[n] = a /\ n \notin d.free
<1> DEFINE out  == Unassign(c, cur)
           out2 == [out EXCEPT !.free = @ \cup cur]
           new  == Assign(out2, a, n)
           pick == [new EXCEPT !.pick = @ \cup {n}]
<1>1. /\ out \in Changes /\ SameRequest(out, c)
      /\ out.free \subseteq c.free \cup cur /\ out.take = c.take
  <2>1. out \in Changes /\ SameRequest(out, c)
    BY UnassignSame, UnassignType
  <2> QED  BY <2>1 DEF Unassign, Changes
<1> HIDE DEF out
<1>2. /\ out2 \in Changes /\ SameRequest(out2, c)
      /\ out2.free \subseteq c.free \cup cur /\ out2.take = c.take
  BY <1>1 DEF SameRequest, Changes
<1> HIDE DEF out2
<1>3. /\ new \in Changes /\ SameRequest(new, c) /\ new.free \subseteq c.free \cup cur
      /\ c.take[n] = Nobody => new.take[n] = a
  BY <1>2, AssignSame DEF SameRequest
<1> HIDE DEF new
<1>4. /\ SameRequest(pick, c) /\ pick.free = new.free /\ pick.take = new.take
  BY <1>3 DEF SameRequest, Changes
<1> HIDE DEF pick
<1>5. SetNumber(c, a, cur, n) = c \/ (n \notin cur /\ SetNumber(c, a, cur, n) \in {new, pick})
  BY DEF SetNumber, out, out2, new, pick
<1>6. SameRequest(c, c)
  BY DEF SameRequest
<1> QED  BY <1>3, <1>4, <1>5, <1>6

(* A badge number that an attendee has or gets.                            *)
Numbered(c, a) ==
  \/ \E n \in Numbers : /\ c.take[n] = a \/ n \in ActiveOf(a) \ c.off
                        /\ type[a] = c.type \/ n \in ranges[c.type]
  \/ NextNumber(c.type) = {}

(* The checks of a flush see to it that there is one.                      *)
LEMMA AdjustNumbers ==
  ASSUME TypeOK, HoldersSound, NEW a \in Attendees, a \notin checkedIn,
         NEW c \in Changes, c.free = {}, c.off = {}, c.arrive = {},
         \A n \in Numbers : c.take[n] = Nobody,
         c.type \in Preassigned, NEW cur \in Loaded(a)
  PROVE  Numbered(BadgeAdjustments(c, a, cur, c.type), a)
<1> DEFINE t    == c.type
           kept == {n \in cur : n \notin c.free}
           out  == Unassign(c, kept)
           new  == Assign(out, a, Offered(t))
           d    == BadgeAdjustments(c, a, cur, t)
<1>1. cur = ActiveOf(a) /\ cur \in SUBSET Numbers /\ kept = cur
  BY LoadedAll
<1>2. Cardinality(ActiveOf(a)) < 2 /\ ~ Arrived(c, a)
  <2>1. ActiveOf(a) \subseteq Numbers
    BY <1>1
  <2>2. Cardinality(ActiveOf(a)) \in Nat
    <3>1. IsFiniteSet(Numbers)
      BY FS_Interval, BadgeConstants DEF Numbers
    <3> QED  BY <2>1, <3>1, FS_Subset, FS_CardinalityType
  <2>3. Cardinality(ActiveOf(a)) <= 1
    BY OneNumber DEF OneActiveNumber
  <2> QED  BY <2>2, <2>3 DEF Arrived
<1>3. ASSUME NEW n \in cur, type[a] = t \/ n \in ranges[t]  PROVE Numbered(c, a)
  BY <1>1, <1>3, Zenon DEF Numbered
<1>4. ASSUME NextNumber(t) # {}  PROVE Numbered(new, a)
  <2>1. Offered(t) \in NextNumber(t)
    BY <1>4 DEF Offered
  <2>2. Offered(t) \in Numbers /\ Offered(t) \in ranges[t]
    BY <2>1 DEF NextNumber, Lowest
  <2>3. out \in Changes /\ SameRequest(out, c) /\ out.take = c.take
    <3>1. out \in Changes /\ SameRequest(out, c)
      BY <1>1, UnassignSame, UnassignType
    <3> QED  BY <3>1 DEF Unassign, Changes
  <2> HIDE DEF out
  <2>4. new.take[Offered(t)] = a /\ new.type = t
    BY <2>2, <2>3, AssignSame DEF SameRequest
  <2> HIDE DEF new
  <2> QED  BY <2>2, <2>4, Zenon DEF Numbered
<1>5. CASE NextNumber(t) = {}
  <2>1. d.type = t
    BY <1>1, FlushSame DEF SameRequest
  <2> QED  BY <1>5, <2>1 DEF Numbered
<1>6. CASE NextNumber(t) # {}
  <2>1. CASE t # type[a] \/ cur = {}
    <3>1. d = UpdateBadge(c, a, cur, t)
      BY <2>1 DEF BadgeAdjustments
    <3>2. CASE kept \cap ranges[t] # {}
      <4>1. d = c
        BY <3>1, <3>2 DEF UpdateBadge
      <4>2. PICK n \in cur : n \in ranges[t]
        BY <3>2
      <4> QED  BY <1>3, <4>1, <4>2
    <3>3. CASE kept \cap ranges[t] = {}
      <4>1. d = new
        BY <1>2, <1>6, <3>1, <3>3 DEF UpdateBadge, Offered
      <4> QED  BY <1>4, <1>6, <4>1
    <3> QED  BY <3>2, <3>3
  <2>2. CASE t = type[a] /\ cur # {}
    <3>1. d = c
      BY <2>2 DEF BadgeAdjustments
    <3>2. PICK n \in cur : TRUE
      BY <2>2
    <3> QED  BY <1>3, <2>2, <3>1, <3>2
  <2> QED  BY <2>1, <2>2
<1> QED  BY <1>5, <1>6

(* Nor does a number that was just set need another.                       *)
LEMMA SetNumbers ==
  ASSUME TypeOK, HoldersSound, NEW a \in Attendees, a \notin checkedIn,
         NEW c \in Changes, c.free = {}, c.off = {}, c.arrive = {},
         \A m \in Numbers : c.take[m] = Nobody,
         c.type \in Preassigned, NEW cur \in Loaded(a),
         NEW n \in Numbers, n \in ranges[c.type], NEW d, d = SetNumber(c, a, cur, n)
  PROVE  Numbered(BadgeAdjustments(d, a, IF d = c THEN cur ELSE {n}, c.type), a)
<1>1. CASE d = c
  BY <1>1, AdjustNumbers
<1>2. CASE d # c
  <2>1. cur \in SUBSET Numbers
    BY LoadedAll
  <2>2. SameRequest(d, c) /\ d.take[n] = a /\ n \notin d.free
    BY <1>2, <2>1, SetSame
  <2>3. UpdateBadge(d, a, {n}, c.type) = d
    <3>1. {m \in {n} : m \notin d.free} \cap ranges[c.type] # {}
      BY <2>2
    <3> QED  BY <3>1 DEF UpdateBadge
  <2>4. BadgeAdjustments(d, a, {n}, c.type) = d
    BY <2>3 DEF BadgeAdjustments
  <2>5. Numbered(d, a)
    BY <2>2, Zenon DEF Numbered, SameRequest
  <2> QED  BY <1>2, <2>4, <2>5
<1> QED  BY <1>1, <1>2

(* A request that names its registration, and the type it is saved with.   *)
LEMMA FormChange ==
  ASSUME NEW op \in Ops, NEW a \in Attendees, NEW t \in BadgeTypes
  PROVE  LET c == [Change(op, a) EXCEPT !.type = t] IN
         /\ c \in Changes /\ c.op = op /\ c.who = {a} /\ c.type = t
         /\ c.free = {} /\ c.off = {} /\ c.arrive = {}
         /\ \A n \in Numbers : c.take[n] = Nobody
<1>1. /\ Change(op, a) \in Changes /\ Change(op, a).op = op /\ Change(op, a).who = {a}
      /\ Change(op, a).free = {} /\ Change(op, a).off = {} /\ Change(op, a).arrive = {}
      /\ Change(op, a).take = [n \in Numbers |-> Nobody]
  BY NothingType, ChangeType DEF Change, Changes, Nothing
<1> QED  BY <1>1 DEF Changes

(* Every save says what the property asks of it.                           *)
SavedNumbered(c) ==
  c.op \in {"add", "save"} /\ c.type \in Preassigned =>
    \A a \in c.who \ checkedIn : Numbered(c, a)

(* Adding one registration.                                                *)
LEMMA AddNumbers ==
  ASSUME TypeOK, HoldersSound, NEW w \in Workers, NEW S \in Groups, NEW t \in BadgeTypes,
         \E a : S = {a}, AddBadges(w, S, t)
  PROVE  \E c : Begin(w, c) /\ SavedNumbered(c)
<1> DEFINE c == [Nothing EXCEPT !.op = "add", !.who = S, !.type = t]
<1>1. S \subseteq Attendees /\ t # Unsaved
  BY BadgeConstants
<1>2. /\ c \in Changes /\ c.free = {} /\ c.off = {} /\ c.arrive = {} /\ c.who = S /\ c.type = t
      /\ \A n \in Numbers : c.take[n] = Nobody
  BY <1>1, NothingType, OpsType DEF Changes, Nothing
<1> HIDE DEF c
<1>3. PICK a \in S : Begin(w, BadgeAdjustments(c, a, {}, t))
  BY DEF AddBadges, c
<1>4. a \in Attendees /\ type[a] = Unsaved /\ S = {a}
  BY <1>1, <1>3 DEF AddBadges
<1>5. {} \in Loaded(a)
  <2>1. ActiveOf(a) = {}
    BY <1>4, BadgeConstants DEF ActiveOf, HoldersSound, TypeOK
  <2> QED  BY <2>1 DEF Loaded
<1> DEFINE d == BadgeAdjustments(c, a, {}, t)
<1>6. d.type = t /\ d.who = {a}
  BY <1>2, <1>4, FlushSame DEF SameRequest
<1>7. a \notin checkedIn /\ t \in Preassigned => Numbered(d, a)
  BY <1>2, <1>4, <1>5, AdjustNumbers
<1> HIDE DEF d
<1>8. SavedNumbered(d)
  BY <1>6, <1>7, Zenon DEF SavedNumbered
<1> QED  BY <1>3, <1>8 DEF d

(* Saving one.                                                             *)
LEMMA SaveNumbers ==
  ASSUME TypeOK, HoldersSound, NEW w \in Workers, NEW a \in Attendees, SaveAttendee(w, a)
  PROVE  \E c : Begin(w, c) /\ SavedNumbered(c)
<1> DEFINE c(op, t) == [Change(op, a) EXCEPT !.type = t]
<1>1. PICK t \in BadgeTypes : \/ SaveSame(w, a, t) \/ SaveOmit(w, a, t)
                              \/ \E n \in Numbers : SaveNumber(w, a, t, n)
  BY DEF SaveAttendee
<1>2. ASSUME NEW op \in {"save", "omit"}
      PROVE  /\ c(op, t) \in Changes /\ c(op, t).op = op /\ c(op, t).who = {a}
             /\ c(op, t).type = t /\ c(op, t).free = {} /\ c(op, t).off = {}
             /\ c(op, t).arrive = {} /\ \A n \in Numbers : c(op, t).take[n] = Nobody
  <2>1. op \in Ops
    BY OpsType
  <2> QED  BY <2>1, FormChange
<1> HIDE DEF c
<1>3. ASSUME NEW d, d.type = t, d.who = {a}, a \notin checkedIn /\ t \in Preassigned => Numbered(d, a)
      PROVE  SavedNumbered(d)
  BY <1>3, Zenon DEF SavedNumbered
<1>4. CASE SaveSame(w, a, t)
  <2>1. PICK cur \in Loaded(a) : Begin(w, BadgeAdjustments(c("save", t), a, cur, t))
    BY <1>4 DEF SaveSame, c
  <2>2. PICK d : d = BadgeAdjustments(c("save", t), a, cur, t)
    OBVIOUS
  <2>3. d.type = t /\ d.who = {a}
    BY <1>2, <2>2, LoadedAll, FlushSame DEF SameRequest
  <2>4. a \notin checkedIn /\ t \in Preassigned => Numbered(d, a)
    BY <1>2, <2>2, AdjustNumbers
  <2> QED  BY <1>3, <2>1, <2>2, <2>3, <2>4
<1>5. CASE SaveOmit(w, a, t)
  <2>1. PICK cur \in Loaded(a) :
          Begin(w, BadgeAdjustments(ClearNumber(c("omit", t), a, cur, t), a, cur, t))
    BY <1>5 DEF SaveOmit, c
  <2>2. PICK b : b = ClearNumber(c("omit", t), a, cur, t)
    OBVIOUS
  <2>3. b \in Changes /\ b.op = "omit"
    BY <1>2, <2>2, LoadedAll, FlushSame DEF SameRequest
  <2>4. BadgeAdjustments(b, a, cur, t).op = "omit"
    BY <2>3, LoadedAll, FlushSame DEF SameRequest
  <2>5. SavedNumbered(BadgeAdjustments(b, a, cur, t))
    BY <2>4 DEF SavedNumbered
  <2> QED  BY <2>1, <2>2, <2>5
<1>6. ASSUME NEW n \in Numbers, SaveNumber(w, a, t, n)
      PROVE  \E d : Begin(w, d) /\ SavedNumbered(d)
  <2>1. PICK cur \in Loaded(a) :
          /\ n \in ranges[t]
          /\ Begin(w, BadgeAdjustments(SetNumber(c("save", t), a, cur, n), a,
                IF SetNumber(c("save", t), a, cur, n) = c("save", t) THEN cur ELSE {n}, t))
    BY <1>6 DEF SaveNumber, c
  <2>2. PICK b : b = SetNumber(c("save", t), a, cur, n)
    OBVIOUS
  <2>3. PICK d : d = BadgeAdjustments(b, a, IF b = c("save", t) THEN cur ELSE {n}, t)
    OBVIOUS
  <2>4. SameRequest(b, c("save", t))
    BY <1>2, <2>2, LoadedAll, SetSame
  <2>5. d.type = t /\ d.who = {a}
    <3>1. b \in Changes /\ (IF b = c("save", t) THEN cur ELSE {n}) \in SUBSET Numbers
      BY <2>4, LoadedAll DEF SameRequest
    <3>2. SameRequest(d, b)
      BY <2>3, <3>1, FlushSame
    <3> QED  BY <1>2, <2>4, <3>2 DEF SameRequest
  <2>6. a \notin checkedIn /\ t \in Preassigned => Numbered(d, a)
    BY <1>2, <2>1, <2>2, <2>3, SetNumbers
  <2> QED  BY <1>3, <2>1, <2>2, <2>3, <2>5, <2>6
<1> QED  BY <1>1, <1>4, <1>5, <1>6

(* Changes of badges leave the op alone.                                   *)
LEMMA EditedOp ==
  ASSUME NEW c \in Changes, NEW S, NEW T, NEW U
  PROVE  /\ [c EXCEPT !.lose = S, !.off = T].op = c.op
         /\ [c EXCEPT !.off = S, !.on = T, !.pick = U].op = c.op
         /\ [c EXCEPT !.unpick = S, !.free = T].op = c.op
BY DEF Changes

(* The other requests are no saves: they end with changes of their own op, *)
(* as the helpers keep it.                                                 *)
LEMMA OtherNumbers ==
  ASSUME TypeOK, HoldersSound, NEW w \in Workers, Start(w),
         \A a \in Attendees : ~ SaveAttendee(w, a),
         \A S \in Groups, t \in BadgeTypes : ~ AddBadges(w, S, t)
  PROVE  \E c : Begin(w, c) /\ SavedNumbered(c)
<1> DEFINE Others == {"number", "undo", "undo_new", "lost", "activate", "undo_pickup"}
<1>1. ASSUME NEW c, Begin(w, c), c.op \in Others
      PROVE  \E d : Begin(w, d) /\ SavedNumbered(d)
  BY <1>1 DEF SavedNumbered
<1> HIDE DEF Others
<1>2. ASSUME NEW op \in Others, NEW a \in Attendees
      PROVE  Change(op, a) \in Changes /\ Change(op, a).op = op
  <2>1. op \in Ops
    BY <1>2 DEF Others, Ops
  <2> QED  BY <2>1, NothingType, ChangeType DEF Change, Changes
<1>3. \A a : \A cur \in Loaded(a) : cur \in SUBSET Numbers
  BY LoadedType
<1>4. {"number", "undo", "undo_new", "lost", "activate", "undo_pickup"} = Others
  BY DEF Others
<1>5. ASSUME NEW a \in Attendees, CheckInForm(w, a)
      PROVE  \E c : Begin(w, c) /\ c.op \in Others
  <2>1. PICK cur \in Loaded(a), n \in ranges[type[a]] :
          Begin(w, BadgeAdjustments(SetNumber(Change("number", a), a, cur, n), a,
             IF SetNumber(Change("number", a), a, cur, n) = Change("number", a)
             THEN cur ELSE {n}, type[a]))
    BY <1>5 DEF CheckInForm
  <2>2. PICK b : b = SetNumber(Change("number", a), a, cur, n)
    OBVIOUS
  <2>3. n \in Numbers /\ cur \in SUBSET Numbers
    BY <1>3, <1>5, SavedType, RangeType DEF CheckInForm
  <2>4. b \in Changes /\ b.op = "number"
    BY <1>2, <1>4, <2>2, <2>3, SetSame DEF SameRequest
  <2>5. PICK k \in SUBSET Numbers : Begin(w, BadgeAdjustments(b, a, k, type[a]))
    BY <2>1, <2>2, <2>3
  <2>6. BadgeAdjustments(b, a, k, type[a]).op = "number"
    BY <2>4, FlushSame DEF SameRequest
  <2> QED  BY <1>4, <2>5, <2>6
<1>6. ASSUME NEW a \in Attendees, NEW pre \in SUBSET ranges[type[a]], UndoCheckin(w, a, pre)
      PROVE  \E c : Begin(w, c) /\ c.op \in Others
  <2> DEFINE c(cur) == [Change("undo", a) EXCEPT !.leave = {a}, !.unpick = cur]
             n == CHOOSE m \in pre : TRUE
  <2>1. PICK cur \in Loaded(a) :
          Begin(w, IF pre = {} THEN ClearNumber(c(cur), a, cur, type[a])
                   ELSE SetNumber(c(cur), a, cur, n))
    BY <1>6 DEF UndoCheckin
  <2>2. c(cur) \in Changes /\ c(cur).op = "undo" /\ cur \in SUBSET Numbers
    <3>1. Change("undo", a) \in Changes /\ Change("undo", a).op = "undo"
      BY <1>2, <1>4
    <3>2. cur \in SUBSET Numbers
      BY <1>3
    <3> QED  BY <3>1, <3>2 DEF Changes
  <2>3. pre # {} => n \in Numbers
    <3>1. ranges[type[a]] \subseteq Numbers
      BY <1>6, SavedType, RangeType DEF UndoCheckin
    <3> QED  BY <3>1
  <2> HIDE DEF c, n
  <2>4. ClearNumber(c(cur), a, cur, type[a]).op = "undo"
    BY <2>2, FlushSame DEF SameRequest
  <2>5. pre # {} => SetNumber(c(cur), a, cur, n).op = "undo"
    BY <2>2, <2>3, SetSame DEF SameRequest
  <2> QED  BY <1>4, <2>1, <2>4, <2>5
<1>7. ASSUME NEW a \in Attendees, UndoNewCheckin(w, a)
      PROVE  \E c : Begin(w, c) /\ c.op \in Others
  <2>1. PICK cur \in Loaded(a) :
          Begin(w, BadgeAdjustments(
                     [ClearNumber(Change("undo_new", a), a, cur, type[a]) EXCEPT !.leave = {a}],
                     a, cur, type[a]))
    BY <1>7 DEF UndoNewCheckin
  <2>2. PICK b : b = ClearNumber(Change("undo_new", a), a, cur, type[a])
    OBVIOUS
  <2>3. b \in Changes /\ b.op = "undo_new" /\ cur \in SUBSET Numbers
    BY <1>2, <1>3, <1>4, <2>2, FlushSame DEF SameRequest
  <2>4. PICK d : d = [b EXCEPT !.leave = {a}]
    OBVIOUS
  <2>5. d \in Changes /\ d.op = "undo_new"
    BY <2>3, <2>4 DEF Changes
  <2>6. BadgeAdjustments(d, a, cur, type[a]).op = "undo_new"
    BY <2>3, <2>5, FlushSame DEF SameRequest
  <2>7. Begin(w, BadgeAdjustments(d, a, cur, type[a]))
    BY <2>1, <2>2, <2>4
  <2> QED  BY <1>4, <2>6, <2>7
<1>8. ASSUME NEW a \in Attendees, LostBadge(w, a)
      PROVE  \E c : Begin(w, c) /\ c.op \in Others
  <2>1. PICK cur \in Loaded(a) : Begin(w, [Change("lost", a) EXCEPT !.lose = cur, !.off = cur])
    BY <1>8 DEF LostBadge
  <2>2. PICK d : d = [Change("lost", a) EXCEPT !.lose = cur, !.off = cur]
    OBVIOUS
  <2>3. Change("lost", a) \in Changes /\ Change("lost", a).op = "lost"
    BY <1>2, <1>4
  <2>4. d.op = "lost"
    BY <2>2, <2>3, EditedOp
  <2>5. Begin(w, d)
    BY <2>1, <2>2, Zenon
  <2> QED  BY <1>4, <2>4, <2>5
<1>9. ASSUME NEW n \in Numbers, ActivateBadge(w, n) \/ UndoBadgePickup(w, n)
      PROVE  \E c : Begin(w, c) /\ c.op \in Others
  <2>1. PICK a \in Attendees : a = holder[n]
    BY <1>9, HolderType DEF ActivateBadge, UndoBadgePickup
  <2>2. CASE ActivateBadge(w, n)
    <3>1. PICK cur \in Loaded(a) :
            Begin(w, [Change("activate", a) EXCEPT
                        !.off = cur, !.on = {n}, !.pick = {m \in {n} : a \in checkedIn}])
      BY <2>1, <2>2 DEF ActivateBadge
    <3>2. PICK d : d = [Change("activate", a) EXCEPT
                          !.off = cur, !.on = {n}, !.pick = {m \in {n} : a \in checkedIn}]
      OBVIOUS
    <3>3. Change("activate", a) \in Changes /\ Change("activate", a).op = "activate"
      BY <1>2, <1>4
    <3>4. d.op = "activate"
      BY <3>2, <3>3, EditedOp
    <3>5. Begin(w, d)
      BY <3>1, <3>2, Zenon
    <3> QED  BY <1>4, <3>4, <3>5
  <2>3. CASE UndoBadgePickup(w, n)
    <3>1. Begin(w, [Change("undo_pickup", a) EXCEPT !.unpick = {n}, !.free = {n}])
      BY <2>1, <2>3 DEF UndoBadgePickup
    <3>2. PICK d : d = [Change("undo_pickup", a) EXCEPT !.unpick = {n}, !.free = {n}]
      OBVIOUS
    <3>3. Change("undo_pickup", a) \in Changes /\ Change("undo_pickup", a).op = "undo_pickup"
      BY <1>2, <1>4
    <3>4. d.op = "undo_pickup"
      BY <3>2, <3>3, EditedOp
    <3>5. Begin(w, d)
      BY <3>1, <3>2, Zenon
    <3> QED  BY <1>4, <3>4, <3>5
  <2> QED  BY <1>9, <2>2, <2>3
<1>10. checkedIn \subseteq Attendees
  BY DEF TypeOK
<1>11. \E c : Begin(w, c) /\ c.op \in Others
  BY <1>5, <1>6, <1>7, <1>8, <1>9, <1>10 DEF Start
<1> QED  BY <1>1, <1>11

(* With one handler at a time, whoever is saved with a type whose badges   *)
(* are numbered before check-in keeps a number or takes one, as long as    *)
(* the range of the type has any: update_badge gives up a number of        *)
(* another range only together with the search for a new one.  Of several  *)
(* registrations that are added in one flush that is true of one alone.    *)
THEOREM SavedAreNumbered ==
  ASSUME \A v, w \in Workers : v = w,
         \A S \in Groups : \E a : S = {a}
  PROVE  Spec => SavedHasNumber
<1>1. ASSUME TypeOK, HoldersSound, [Next]_vars, NEW w \in Workers, job[w].op = "none"
      PROVE  SavedNumbered(job'[w])
  <2>1. ASSUME job'[w] = job[w]  PROVE SavedNumbered(job'[w])
    BY <1>1, <2>1 DEF SavedNumbered
  <2>2. ASSUME NEW v \in Workers, Start(v)  PROVE SavedNumbered(job'[w])
    <3>1. PICK c : Begin(v, c) /\ SavedNumbered(c)
      <4>1. ASSUME NEW a \in Attendees, SaveAttendee(v, a)
            PROVE  \E c : Begin(v, c) /\ SavedNumbered(c)
        BY <1>1, <4>1, SaveNumbers
      <4>2. ASSUME NEW S \in Groups, NEW t \in BadgeTypes, AddBadges(v, S, t)
            PROVE  \E c : Begin(v, c) /\ SavedNumbered(c)
        BY <1>1, <4>2, AddNumbers
      <4> QED  BY <1>1, <2>2, <4>1, <4>2, OtherNumbers
    <3>2. job'[v] = c
      BY <1>1, <3>1 DEF Begin, TypeOK
    <3>3. v = w
      OBVIOUS
    <3> QED  BY <3>1, <3>2, <3>3
  <2>3. ASSUME NEW v \in Workers, CheckIn(v) \/ Commit(v)  PROVE FALSE
    <3>1. v = w
      OBVIOUS
    <3> QED  BY <1>1, <2>3, <3>1 DEF CheckIn, Commit
  <2> QED
    BY <1>1, <2>1, <2>2, <2>3 DEF Next, CreateBadgeNums, ChangeConfig, vars
<1>2. TypeOK /\ BadgesSound /\ [Next]_vars =>
        [\A w \in Workers :
           LET c == job'[w] IN
           job[w].op = "none" /\ c.op \in {"add", "save"} /\ c.type \in Preassigned =>
             \A a \in c.who \ checkedIn :
               \/ \E n \in Numbers : /\ c.take[n] = a \/ n \in ActiveOf(a) \ c.off
                                     /\ type[a] = c.type \/ n \in ranges[c.type]
               \/ NextNumber(c.type) = {}]_vars
  BY <1>1 DEF BadgesSound, SavedNumbered, Numbered
<1>3. TypeOK /\ BadgesSound /\ [Next]_vars => BadgesSound'
  BY StepOne
<1> QED
  BY InitOne, <1>2, <1>3, BadgeTypeCorrect, PTL DEF Spec, SavedHasNumber

===============================================================================
