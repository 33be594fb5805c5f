-------------------------------- MODULE Groups --------------------------------
(***************************************************************************)
(* The badges of a dealer group: members claim, drop and bring badges,     *)
(* the leader buys more, admins decide on the application and resize the   *)
(* group, and a declined group is turned into individual badges, by an     *)
(* admin, by its leader or by a task that runs every twelve hours.         *)
(*                                                                         *)
(* A handler reads the group and its members, computes new rows, and       *)
(* writes the columns it changed when it commits: rows it read meanwhile   *)
(* changed by others keep those changes, except in the columns it sets.    *)
(* Before a row is written its status is made to follow the group as the   *)
(* handler knows it (the presave adjustments).                             *)
(***************************************************************************)
EXTENDS Integers, FiniteSets, Functions

CONSTANTS
  People,       \* those who claim a badge with the link of the group
  Nobody,       \* the holder of a badge that is not assigned
  MaxBadges,    \* bound: rows ever created
  MaxSize,      \* dealer_max_badges: the badges a leader may have
  StartSize,    \* the badges the group applied with
  Handlers,     \* bound: handlers in flight at once
  Serves,       \* Serves[w]: the kinds of request that handler w is for
  Decisions,    \* bound: the statuses an admin's form sets
  MaxKills      \* bound: handlers killed between two of their commits

GroupStatuses == {"unapproved", "waitlisted", "approved", "declined", "cancelled"}

ASSUME GroupAssumption ==
  /\ Nobody \notin People /\ "same" \notin People \cup {Nobody}
  /\ MaxBadges \in Nat /\ MaxSize \in Nat /\ MaxKills \in Nat
  /\ StartSize \in 1 .. MaxBadges
  /\ IsFiniteSet(Handlers) /\ Decisions \subseteq GroupStatuses
  /\ Serves \in [Handlers -> SUBSET {"claim", "unset", "add", "find", "form", "decline",
                                     "cancel", "waitlist", "purchase", "task"}]

Badges == 1 .. MaxBadges
NoBadge == 0

VARIABLES
  badge,      \* badge[b]: the attendee row b
  group,      \* [status, convert, paidFee]
  form,       \* form[p]: the badge of the claim form that p has open
  handler,    \* handler[w]: what handler w is to write
  kills

groupVars == <<badge, group, form, handler, kills>>

(* A row: not created, in the group, apart from it, or deleted.  `state`   *)
(* is the badge_status, where new and completed are both "ok".             *)
Row == [ place  : {"none", "group", "apart", "gone"},
         holder : People \cup {Nobody},
         paid   : {"group", "self", "has"},
         state  : {"ok", "unapproved", "invalid"} ]

NoRow == [place |-> "none", holder |-> Nobody, paid |-> "group", state |-> "ok"]

Gone == [NoRow EXCEPT !.place = "gone"]

GroupType == [ status : GroupStatuses, convert : BOOLEAN, paidFee : BOOLEAN ]

NoGroup == [status |-> "unapproved", convert |-> FALSE, paidFee |-> FALSE]

(* What a handler is to write to a row: in each column a value, or "same". *)
Columns == {"place", "holder", "paid", "state"}
Unwritten == [f \in Columns |-> "same"]
Change == [ place  : {"same", "group", "apart", "gone"},
            holder : People \cup {Nobody, "same"},
            paid   : {"same", "group", "self", "has"},
            state  : {"same", "ok", "unapproved", "invalid"} ]

(* A handler at rest, one that is to write the columns in `write` and      *)
(* `more` new rows, or one that converts the rows in `left`.  It is fresh  *)
(* while nobody else writes.                                               *)
AtRest == [ stage |-> "idle", write |-> [b \in Badges |-> Unwritten], more |-> 0, new |-> NoRow,
            to |-> "same", bill |-> 0, left |-> {}, fresh |-> TRUE ]

HandlerType ==
  [ stage : {"idle", "write", "convert"},
    write : [Badges -> Change],
    more : 0 .. MaxBadges, new : Row, to : GroupStatuses \cup {"same"},
    bill : -MaxBadges .. MaxBadges, left : SUBSET Badges, fresh : BOOLEAN ]

Members(rows) == {b \in Badges : rows[b].place = "group"}
Unassigned(rows) == {b \in Members(rows) : rows[b].holder = Nobody}
Floating(rows) == {b \in Unassigned(rows) : rows[b].paid = "group"}
Purchased(rows) == {b \in Members(rows) : rows[b].paid = "group"}

GroupTypeOK ==
  /\ badge \in [Badges -> Row]
  /\ group \in GroupType
  /\ form \in [People -> Badges \cup {NoBadge}]
  /\ handler \in [Handlers -> HandlerType]
  /\ kills \in 0 .. MaxKills

-----------------------------------------------------------------------------
(* The presave adjustments.                                                *)

(* A group's badge loses its status with the group's, gets it back when    *)
(* the group has it again, and keeps it when it is no group's badge.       *)
Adjusted(row, status) ==
  LET paidByGroup == row.place = "group" /\ row.paid = "group"
      lowered == IF ~paidByGroup \/ row.state # "ok" \/ status = "approved" THEN row.state
                 ELSE IF status \in {"declined", "cancelled"} THEN "invalid" ELSE "unapproved"
      valid == IF lowered = "invalid"
                  /\ (~paidByGroup \/ status \notin {"declined", "cancelled"})
               THEN "ok" ELSE lowered
  IN  [row EXCEPT !.state = IF valid = "unapproved" /\ (~paidByGroup \/ status = "approved")
                            THEN "ok" ELSE valid]

(* Faulty: members are not saved with their group.                         *)
PresavedAlone(rows, changed, status) ==
  [b \in Badges |-> IF b \in changed THEN Adjusted(rows[b], status) ELSE rows[b]]

(* Every row a handler changed is adjusted, and every member with it when  *)
(* the group's fee is paid or its status changes.                          *)
Presaved(rows, changed, status) ==
  LET all == group.paidFee \/ status # group.status IN
  [b \in Badges |-> IF b \in changed \/ (all /\ b \in Members(rows))
                    THEN Adjusted(rows[b], status) ELSE rows[b]]

-----------------------------------------------------------------------------
GroupInit ==
  /\ badge = [b \in Badges |-> IF b <= StartSize
                               THEN [NoRow EXCEPT !.place = "group", !.state = "unapproved"]
                               ELSE NoRow]
  /\ group = NoGroup
  /\ form = [p \in People |-> NoBadge]
  /\ handler = [w \in Handlers |-> AtRest]
  /\ kills = 0

(* The columns in which rows differ from those in the database.            *)
Changes(rows) ==
  [b \in Badges |-> [f \in Columns |-> IF rows[b][f] = badge[b][f] THEN "same" ELSE rows[b][f]]]

(* The handlers once w has written and goes on as j: the others know less. *)
Wrote(w, j) ==
  [v \in Handlers |-> IF v = w THEN j
                      ELSE IF handler[v].stage = "idle" THEN handler[v]
                      ELSE [handler[v] EXCEPT !.fresh = FALSE]]

(* The same when somebody else wrote.                                      *)
Overtaken == [v \in Handlers |-> IF handler[v].stage = "idle" THEN handler[v]
                                 ELSE [handler[v] EXCEPT !.fresh = FALSE]]

(* The end of a handler's reading: it is to write `rows`, `more` new group *)
(* badges, a status for the group and what the receipt is billed.          *)
ToWrite(w, rows, more, to, bill) ==
  LET status == IF to = "same" THEN group.status ELSE to
      reserved == SumFunctionOnSet([v \in Handlers |-> handler[v].more], Handlers)
      saved == Presaved(rows, {b \in Badges : rows[b] # badge[b]}, status) IN
  /\ more + reserved <= Cardinality({b \in Badges : badge[b].place = "none"})
  /\ handler' = [handler EXCEPT ![w] =
       [ AtRest EXCEPT !.stage = "write", !.write = Changes(saved), !.more = more,
                       !.new = Adjusted([NoRow EXCEPT !.place = "group"], status),
                       !.to = to, !.bill = bill ]]

Starts(w) == handler[w].stage = "idle"

(* session.attendee turns everybody but admins away from a badge that is   *)
(* not valid.                                                              *)
Shown(b) == badge[b].state # "invalid"

(* register_group_member: the form is for an unassigned badge.             *)
OpenClaim(p) ==
  /\ form[p] = NoBadge
  /\ \A b \in Badges : badge[b].holder # p
  /\ \E b \in Unassigned(badge) : form' = [form EXCEPT ![p] = b]
  /\ UNCHANGED <<badge, group, handler, kills>>

(* The form comes back.  When someone else has the badge by now, the       *)
(* handler gives the row the id of another one, and its commit fails.      *)
SubmitClaim(w, p) ==
  LET b == form[p] IN
  /\ Starts(w)
  /\ b # NoBadge
  /\ form' = [form EXCEPT ![p] = NoBadge]
  /\ IF badge[b].place = "group" /\ badge[b].holder = Nobody /\ Shown(b)
     THEN ToWrite(w, [badge EXCEPT ![b].holder = p], 0, "same", 0)
     ELSE UNCHANGED handler
  /\ UNCHANGED <<badge, group, kills>>

(* Faulty: the member who is dropped keeps the badge.                      *)
DroppedKept(b) == badge

(* The rows once a badge that the group paid for was taken from a member.  *)
Dropped(b) == [badge EXCEPT ![b] = Gone]

(* unset_group_member: one badge more, then the member's is deleted; a     *)
(* badge the group did not pay for leaves it.                              *)
UnsetMember(w, b) ==
  /\ Starts(w)
  /\ b \in Members(badge) \ Unassigned(badge) /\ Shown(b)
  /\ IF badge[b].paid = "group"
     THEN ToWrite(w, Dropped(b), 1, "same", 0)
     ELSE ToWrite(w, [badge EXCEPT ![b].place = "apart"], 0, "same", 0)
  /\ UNCHANGED <<badge, group, form, kills>>

(* add_group_members: only an approved group, up to its limit.             *)
AddMembers(w, n) ==
  /\ Starts(w)
  /\ group.status = "approved"
  /\ n <= MaxSize - Cardinality(Members(badge))
  /\ ToWrite(w, badge, n, "same", n)
  /\ UNCHANGED <<badge, group, form, kills>>

(* find_group_member: a valid badge that is in no group.                   *)
FindMember(w, b) ==
  /\ Starts(w)
  /\ badge[b].place = "apart" /\ badge[b].state # "invalid"
  /\ ToWrite(w, [badge EXCEPT ![b].place = "group"], 0, "same", 0)
  /\ UNCHANGED <<badge, group, form, kills>>

(* Faulty: badges that have a holder are removed like the others.          *)
RemovableAny(rows) == Purchased(rows)

(* assign_badges takes away only badges that nobody was given.             *)
Removable(rows) == Floating(rows)

(* The admin's form: the status of the application and the number of       *)
(* badges, which cannot go below those that were assigned.                 *)
AdminForm(w, to, size) ==
  LET diff == size - Cardinality(Members(badge)) IN
  /\ Starts(w)
  /\ \E out \in SUBSET Removable(badge) :
       /\ Cardinality(out) = IF diff < 0 THEN -diff ELSE 0
       /\ ToWrite(w, [b \in Badges |-> IF b \in out THEN Gone ELSE badge[b]],
                  IF diff > 0 THEN diff ELSE 0, to, diff)
  /\ UNCHANGED <<badge, group, form, kills>>

(* convert_declined, or the admin's form: leave it to the task.            *)
MarkForConversion ==
  /\ group.status = "declined" /\ ~group.convert
  /\ group' = [group EXCEPT !.convert = TRUE]
  /\ handler' = Overtaken
  /\ UNCHANGED <<badge, form, kills>>

(* What convert_dealer_badge makes of a badge: no longer the group's, to   *)
(* be paid by its holder.                                                  *)
OwnBadge(row) ==
  IF row.paid = "has" THEN row ELSE [row EXCEPT !.paid = "self", !.state = "ok"]

(* purchase_dealer_badge: a member does not wait for the group.            *)
PurchaseBadge(w, b) ==
  /\ Starts(w)
  /\ b \in Members(badge) \ Unassigned(badge) /\ Shown(b)
  /\ badge[b].paid = "group"
  /\ ToWrite(w, [badge EXCEPT ![b] = OwnBadge(@)], 0, "same", 0)
  /\ UNCHANGED <<badge, group, form, kills>>

-----------------------------------------------------------------------------
(* The commit of a handler.                                                *)

(* Somebody knows of row b; the number of a deleted one that nobody knows  *)
(* of is used again.                                                       *)
Remembered(w, b) ==
  \/ \E p \in People : form[p] = b
  \/ \E v \in Handlers \ {w} : b \in handler[v].left \/ handler[v].write[b] # Unwritten

(* The columns that the handler changed, over the rows as they are now.    *)
Merged(rows, write) ==
  [b \in Badges |-> [f \in Columns |-> IF write[b][f] = "same" THEN rows[b][f]
                                       ELSE write[b][f]]]

Written(w, j) ==
  LET free == {b \in Badges : badge[b].place = "none"}
      merged == Merged(badge, j.write) IN
  [b \in Badges |->
     IF b \in free
     THEN IF Cardinality({c \in free : c < b}) < j.more THEN j.new ELSE NoRow
     ELSE IF merged[b].place = "gone" THEN IF Remembered(w, b) THEN Gone ELSE NoRow
     ELSE merged[b]]

(* A row it is to change was deleted: the commit fails.                    *)
LostRow(j) ==
  \E b \in Badges : /\ j.write[b] # Unwritten
                    /\ j.write[b].place # "gone" /\ badge[b] = Gone

WriteRows(w) ==
  LET j == handler[w] IN
  /\ j.stage = "write"
  /\ IF LostRow(j)
     THEN /\ handler' = [handler EXCEPT ![w] = AtRest]
          /\ UNCHANGED <<badge, group>>
     ELSE /\ handler' = Wrote(w, AtRest)
          /\ badge' = Written(w, j)
          /\ group' = [group EXCEPT !.status = IF j.to = "same" THEN @ ELSE j.to]
  /\ UNCHANGED <<form, kills>>

-----------------------------------------------------------------------------
(* decline_and_convert_dealer_group: a group that paid only changes status;*)
(* of the others the badges are converted, each in a commit of its own,    *)
(* the first of which also writes the status.                              *)
StartConversion(w, to) ==
  /\ Starts(w)
  /\ IF group.paidFee THEN ToWrite(w, badge, 0, to, 0)
     ELSE handler' = [handler EXCEPT ![w] =
            [AtRest EXCEPT !.stage = "convert", !.to = to, !.left = Members(badge)]]
  /\ UNCHANGED <<badge, group, form, kills>>

(* convert_declined_groups: groups with a badge still paid by the group.   *)
ConvertDeclinedGroups(w) ==
  /\ group.status = "declined" /\ group.convert
  /\ Purchased(badge) # {}
  /\ StartConversion(w, "declined")

(* Faulty: badges nobody has claimed are left as they are.                 *)
ConvertedIfNamed(row) == IF row.holder = Nobody THEN row ELSE OwnBadge(row)

(* A badge of nobody's is set to not paid and invalid; the presave         *)
(* adjustment then makes it valid, as it is not paid by the group.         *)
Converted(row) == OwnBadge(row)

ConvertBadge(w) ==
  LET j == handler[w]
      status == IF j.to = "same" THEN group.status ELSE j.to
      next(b) == [j EXCEPT !.to = "same", !.left = @ \ {b}] IN
  /\ j.stage = "convert"
  /\ \/ \E b \in j.left :
          /\ badge[b] # Gone
          /\ badge' = Presaved([badge EXCEPT ![b] = Converted(@)], {b}, status)
          /\ group' = [group EXCEPT !.status = status]
          /\ handler' = Wrote(w, next(b))
     \/ \* a member was deleted meanwhile: the handler fails
        /\ \E b \in j.left : badge[b] = Gone
        /\ handler' = [handler EXCEPT ![w] = AtRest]
        /\ UNCHANGED <<badge, group>>
     \/ /\ j.left = {}
        /\ group' = [group EXCEPT !.status = status]
        /\ handler' = Wrote(w, AtRest)
        /\ UNCHANGED badge
  /\ UNCHANGED <<form, kills>>

-----------------------------------------------------------------------------
(* Payments, recorded by mark_paid_from_ids; only an approved group is let *)
(* pay its fee.                                                            *)
PayFee ==
  /\ group.status = "approved" /\ ~group.paidFee
  /\ group' = [group EXCEPT !.paidFee = TRUE]
  /\ handler' = Overtaken
  /\ UNCHANGED <<badge, form, kills>>

PayBadge(b) ==
  /\ badge[b].place \in {"group", "apart"}
  /\ badge[b].holder # Nobody /\ badge[b].paid = "self"
  /\ badge' = [badge EXCEPT ![b].paid = "has"]
  /\ handler' = Overtaken
  /\ UNCHANGED <<group, form, kills>>

(* The process is killed between two commits.                              *)
KillHandler(w) ==
  /\ handler[w].stage = "convert"
  /\ kills < MaxKills
  /\ kills' = kills + 1
  /\ handler' = [handler EXCEPT ![w] = AtRest]
  /\ UNCHANGED <<badge, group, form>>

StartHandler(w) ==
  \/ "claim" \in Serves[w] /\ \E p \in People : SubmitClaim(w, p)
  \/ "unset" \in Serves[w] /\ \E b \in Badges : UnsetMember(w, b)
  \/ "add" \in Serves[w] /\ \E n \in 1 .. MaxSize : AddMembers(w, n)
  \/ "find" \in Serves[w] /\ \E b \in Badges : FindMember(w, b)
  \/ "form" \in Serves[w] /\ \E to \in Decisions, n \in 1 .. MaxSize :
                              AdminForm(w, to, n)
  \/ "decline" \in Serves[w] /\ StartConversion(w, "declined")
  \/ "cancel" \in Serves[w] /\ group.status \in {"unapproved", "waitlisted"}
                                /\ StartConversion(w, "cancelled")
  \/ "waitlist" \in Serves[w] /\ group.status = "waitlisted"
                                  /\ StartConversion(w, "waitlisted")
  \/ "task" \in Serves[w] /\ ConvertDeclinedGroups(w)
  \/ "purchase" \in Serves[w] /\ \E b \in Badges : PurchaseBadge(w, b)

GroupNext ==
  \/ \E p \in People : OpenClaim(p)
  \/ MarkForConversion \/ PayFee
  \/ \E b \in Badges : PayBadge(b)
  \/ \E w \in Handlers : \/ StartHandler(w) \/ WriteRows(w)
                         \/ ConvertBadge(w) \/ KillHandler(w)

(* A handler that started goes on, and the task is run again and again.    *)
GroupFairness ==
  /\ \A w \in Handlers : WF_groupVars(WriteRows(w)) /\ WF_groupVars(ConvertBadge(w))
  /\ \A w \in Handlers : "task" \in Serves[w] => SF_groupVars(ConvertDeclinedGroups(w))

GroupSpec == GroupInit /\ [][GroupNext]_groupVars /\ GroupFairness

-----------------------------------------------------------------------------
(* A commit of what is still true when it is written.                      *)
FreshWrite(w) == WriteRows(w) /\ handler[w].fresh

Steps(w) == FreshWrite(w) \/ ConvertBadge(w)

(* No handler gives badges away: when none wrote since it read, the badges *)
(* the group pays for do not grow faster than what it is billed, however   *)
(* often badges were dropped, converted, resized or brought along.         *)
BilledForBadges ==
  [][\A w \in Handlers : Steps(w) =>
       Cardinality(Purchased(badge)') <= Cardinality(Purchased(badge)) + handler[w].bill]_groupVars

(* No such commit leaves a declined or cancelled group with a valid badge  *)
(* of its own that was not one before.                                     *)
DeclinedHaveNoBadge ==
  [][\A w \in Handlers : Steps(w) /\ group'.status \in {"declined", "cancelled"} =>
       \A b \in Purchased(badge)' :
         badge'[b].state = "ok" => group.status = group'.status /\ badge[b].state = "ok"
                                   /\ badge[b].place = "group"]_groupVars

(* No such commit takes a badge from its holder, unless the leader drops   *)
(* that member.                                                            *)
HolderKeepsBadge ==
  [][\A w \in Handlers, b \in Badges :
       Steps(w) /\ badge[b].holder # Nobody =>
         \/ badge'[b].holder = badge[b].holder
         \/ badge'[b] \in {Gone, NoRow} /\ handler[w].more = 1]_groupVars

(* A group that was left to the task is converted to its last badge, even  *)
(* if handlers are killed or fail on the way, unless it pays or is decided *)
(* on again, or its badges are deleted for ever while they are converted.  *)
DeletesBadge ==
  \E b \in Badges : badge[b] \notin {NoRow, Gone} /\ badge'[b] \in {NoRow, Gone}

DeclinedAreConverted ==
  <>[][~DeletesBadge]_groupVars =>
    (group.status = "declined" /\ group.convert ~>
       group.status # "declined" \/ group.paidFee \/ Purchased(badge) = {})
===============================================================================
