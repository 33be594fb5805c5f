------------------------------ MODULE HotelLottery ------------------------------
(***************************************************************************)
(* The hotel lottery for attendees.  An entry is for lodging of its own or *)
(* belongs to the group of another entry, whose fate it shares.  An admin  *)
(* runs the lottery, which reads the entries, solves for minutes, and      *)
(* writes the winners back; then awards or resets the result, and shows    *)
(* it.  No request locks a row.  Rooms and suites are not told apart, and  *)
(* the staff lottery, the first-round waiting list and the admin form are  *)
(* left out.                                                               *)
(***************************************************************************)
EXTENDS Integers, FiniteSets

CONSTANTS
  Entrants,     \* the attendees
  NoLeader,
  Inventory,    \* how many rooms there are
  MaxChanges    \* bound: lotteries, and requests that take back what was done

ASSUME LotteryAssumption ==
  /\ IsFiniteSet(Entrants) /\ NoLeader \notin Entrants
  /\ Inventory \in Nat /\ MaxChanges \in Nat

VARIABLES
  entry,        \* entry[a]: the LotteryApplication of a
  found,        \* the page with the group that somebody's search found, or none
  formOpen,     \* HOTEL_LOTTERY_OPEN
  lottery,      \* a lottery being solved, or none
  astray,       \* history: members of a group that its leader has given up
  overwrote,    \* history: a lottery was written although entries had changed
  changes

lotteryVars == <<entry, found, formOpen, lottery, astray, overwrote, changes>>

Awarding == {"processed", "awarded"}                  \* c.HOTEL_LOTTERY_AWARD_STATUSES

(* `type` is "own" for a room or suite entry, `guaranteed` stands for      *)
(* guarantee_policy_accepted, `named` for a room_group_name, `won` for the *)
(* assigned room, and `hidden` for final_status_hidden.                    *)
Entries == [ status : {"none", "partial", "complete", "withdrawn", "cancelled"} \cup Awarding,
             type : {"none", "own", "group"}, guaranteed : BOOLEAN,
             parent : Entrants \cup {NoLeader}, named : BOOLEAN,
             won : BOOLEAN, hidden : BOOLEAN ]

NoPage == <<>>
NoLottery == [running |-> FALSE]

LotteryTypeOK ==
  /\ entry \in [Entrants -> Entries]
  /\ found \in (Entrants \X Entrants) \cup {NoPage}
  /\ formOpen \in BOOLEAN
  /\ lottery \in {NoLottery} \cup [running : {TRUE}, winners : SUBSET Entrants, stale : BOOLEAN]
  /\ astray \subseteq Entrants /\ overwrote \in BOOLEAN /\ changes \in 0 .. MaxChanges

(* LotteryApplication() with a status.                                     *)
Defaults(status) ==
  [status |-> status, type |-> "none", guaranteed |-> FALSE,
   parent |-> NoLeader, named |-> FALSE, won |-> FALSE, hidden |-> TRUE]

LotteryInit ==
  /\ entry = [a \in Entrants |-> Defaults("none")]
  /\ found = NoPage
  /\ formOpen = TRUE
  /\ lottery = NoLottery
  /\ astray = {} /\ overwrote = FALSE /\ changes = 0

-----------------------------------------------------------------------------
(* What the handlers ask of an entry                                       *)

Exists(a) == entry[a].status # "none"

IsFinal(row) == row.status \in {"awarded", "cancelled"}

Shown(a) == IsFinal(entry[a]) /\ ~entry[a].hidden

Locked(a) == ~formOpen \/ Shown(a)

CanReenter(a) == entry[a].status \in {"partial", "withdrawn", "cancelled"}

Members(a) == {b \in Entrants : entry[b].parent = a}

ValidMembers(a) == {b \in Members(a) : entry[b].status \in {"complete"} \cup Awarding}

Leads(a) == entry[a].named /\ entry[a].parent = NoLeader

CanBeJoined(g) == Cardinality(ValidMembers(g)) # 3 /\ ~Locked(g)

-----------------------------------------------------------------------------
(* How rows change                                                         *)

(* _reset_group_member: the entry is on its own again, or starts over.     *)
ResetMember(row) ==
  IF row.guaranteed /\ ~IsFinal(row)
  THEN [row EXCEPT !.type = "own", !.parent = NoLeader]
  ELSE [row EXCEPT !.type = "none", !.status = "withdrawn", !.parent = NoLeader]

(* _clear_application                                                      *)
Cleared(status) == Defaults(status)

(* What becomes of a member who leaves or is put out.                      *)
Released(leader, m) ==
  IF entry[leader].status = "processed" \/ IsFinal(entry[leader])
  THEN Cleared("withdrawn")
  ELSE ResetMember(entry[m])

(* The members that _disband_room_group lets go: taking one out shortens   *)
(* the list that its loop walks, which so passes over every second one.    *)
LetGo(leader) ==
  {s \in SUBSET Members(leader) : Cardinality(s) = (Cardinality(Members(leader)) + 1) \div 2}

Disbanded(leader, out) ==
  [a \in Entrants |-> CASE a \in out  -> ResetMember(entry[a])
                        [] a = leader -> [entry[a] EXCEPT !.named = FALSE]
                        [] OTHER      -> entry[a]]

(* _join_room_group: an entry that is complete is kept for later.          *)
Joined(row, group) ==
  [(IF row.type # "group" /\ row.status # "complete" THEN Defaults("complete") ELSE row)
     EXCEPT !.status = "complete", !.type = "group", !.parent = group]

(* History: those who are in a group without a leader from now on.         *)
Astray(more) == astray' = {a \in astray \cup more : entry'[a].parent # NoLeader}

-----------------------------------------------------------------------------
(* Requests of attendees.  A page is sent as it was shown, but perhaps     *)
(* after the deadline; only the page of a search may be older.             *)

(* terms: a new entry, or one that may be entered again.                   *)
AcceptTerms(a) ==
  /\ ~Exists(a) \/ CanReenter(a)
  /\ entry' = [entry EXCEPT ![a] = IF Exists(a) THEN [@ EXCEPT !.status = "partial"]
                                   ELSE Defaults("partial")]
  /\ Astray({})
  /\ UNCHANGED found

(* The form of the terms can join the group that was found at once, and    *)
(* does not ask whether the attendee leads one.                            *)
AcceptTermsAndJoin(a, g) ==
  /\ found = <<a, g>> /\ CanReenter(a) /\ CanBeJoined(g)
  /\ entry' = [entry EXCEPT ![a] = Joined([@ EXCEPT !.status = "partial"], g)]
  /\ found' = NoPage
  /\ Astray(Members(a) \cup IF Leads(g) THEN {} ELSE {a})

(* room_lottery and suite_lottery                                          *)
ChooseLodging(a) ==
  /\ Exists(a) /\ entry[a].parent = NoLeader /\ ~Locked(a)
  /\ entry' = [entry EXCEPT ![a] =
                 [@ EXCEPT !.type = "own",
                           !.status = IF entry[a].guaranteed /\ entry[a].status = "partial"
                                      THEN "complete" ELSE entry[a].status]]
  /\ Astray({})
  /\ UNCHANGED found

(* guarantee_confirm, which follows the form of an entry.                  *)
GuaranteeConfirm(a) ==
  /\ entry[a].type = "own" /\ ~entry[a].guaranteed /\ ~Locked(a)
  /\ entry' = [entry EXCEPT ![a] = [@ EXCEPT !.guaranteed = TRUE, !.status = "complete"]]
  /\ Astray({})
  /\ UNCHANGED found

SwitchEntryType(a) ==
  /\ entry[a].type = "own" /\ ~Locked(a)
  /\ entry' = [entry EXCEPT ![a] = [@ EXCEPT !.status = "partial", !.guaranteed = FALSE]]
  /\ Astray({})
  /\ UNCHANGED found

(* save_group; the page offers it to complete entries on their own.        *)
SaveGroup(a) ==
  /\ entry[a].status = "complete" /\ entry[a].parent = NoLeader /\ ~Locked(a)
  /\ entry' = [entry EXCEPT ![a].named = TRUE]
  /\ Astray({})
  /\ UNCHANGED found

RoomGroupSearch(a, g) ==
  /\ Exists(a) /\ a # g
  /\ entry[g].named /\ ~Locked(g)
  /\ found' = <<a, g>>
  /\ UNCHANGED <<entry, astray>>

(* Whether the group is still one is not looked at again.                  *)
JoinGroup(a, g) ==
  /\ found = <<a, g>> /\ ~Locked(a)
  /\ ValidMembers(a) = {} /\ ~entry[a].named /\ entry[a].parent = NoLeader
  /\ CanBeJoined(g)
  /\ entry' = [entry EXCEPT ![a] = Joined(@, g)]
  /\ found' = NoPage
  /\ Astray(Members(a) \cup IF Leads(g) THEN {} ELSE {a})

LeaveGroup(a) ==
  /\ ~Locked(a) \/ Shown(a)
  /\ entry[a].parent # NoLeader
  /\ entry' = [entry EXCEPT ![a] = Released(entry[a].parent, a)]
  /\ Astray({})
  /\ UNCHANGED found

RemoveGroupMember(leader, m) ==
  /\ Leads(leader) /\ m \in ValidMembers(leader) /\ ~Locked(leader)
  /\ entry' = [entry EXCEPT ![m] = Released(leader, m)]
  /\ Astray({})
  /\ UNCHANGED found

(* Faulty: only the two who change places are told of the new leader.      *)
SwappedPair(leader, m) == {leader}

(* Who follows the new leader.                                             *)
Followers(leader, m) == (Members(leader) \ {m}) \cup {leader}

TransferLeadership(leader, m) ==
  /\ entry[leader].parent = NoLeader /\ m \in ValidMembers(leader)
  /\ ~Locked(leader) \/ Shown(leader)
  /\ LET old == entry[leader]
         swapped == [entry EXCEPT
                       ![m] = [old EXCEPT !.parent = NoLeader, !.hidden = entry[m].hidden],
                       ![leader] = [Defaults(old.status) EXCEPT
                                      !.type = "group", !.hidden = old.hidden]]
     IN  entry' = [a \in Entrants |-> IF a \in Followers(leader, m)
                                      THEN [swapped[a] EXCEPT !.parent = m] ELSE swapped[a]]
  /\ Astray(IF entry[leader].named THEN {} ELSE {leader})
  /\ UNCHANGED found

DeleteGroup(leader) ==
  /\ Leads(leader) /\ ~Locked(leader)
  /\ \E out \in LetGo(leader) :
       /\ entry' = Disbanded(leader, out)
       /\ Astray(Members(leader) \ out)
  /\ UNCHANGED found

(* Faulty: the group of an entry that is withdrawn is forgotten.           *)
WithdrawAlone(a) ==
  /\ Exists(a) /\ entry[a].parent = NoLeader
  /\ entry' = [entry EXCEPT ![a] = Cleared("withdrawn")]
  /\ Astray({})
  /\ UNCHANGED found

(* withdraw_entry, without a look at the deadline.                         *)
WithdrawEntry(a) ==
  /\ Exists(a) /\ entry[a].parent = NoLeader
  /\ \E out \in IF entry[a].named THEN LetGo(a) ELSE {{}} :
       /\ entry' = [Disbanded(a, out) EXCEPT ![a] = Cleared("withdrawn")]
       /\ Astray(Members(a) \ out)
  /\ UNCHANGED found

Decline(a) ==
  /\ entry[a].status = "awarded" /\ entry[a].parent = NoLeader
  /\ entry' = [b \in Entrants |-> IF b = a \/ b \in Members(a) THEN Cleared("cancelled")
                                  ELSE entry[b]]
  /\ Astray({})
  /\ UNCHANGED found

(* reenter_lottery; the page offers it for cancelled entries.              *)
ReenterLottery(a) ==
  /\ entry[a].status = "cancelled" /\ formOpen
  /\ entry' = [entry EXCEPT ![a] = ResetMember(@)]
  /\ Astray({})
  /\ UNCHANGED found

(* A lottery that is being solved does not see what changes.               *)
Outdates == lottery' = IF lottery.running THEN [lottery EXCEPT !.stale = @ \/ entry' # entry]
                       ELSE lottery

Changes == changes < MaxChanges /\ changes' = changes + 1

Request(a) ==
  /\ \/ /\ \/ AcceptTerms(a) \/ ChooseLodging(a) \/ GuaranteeConfirm(a) \/ SaveGroup(a)
           \/ \E g \in Entrants : \/ RoomGroupSearch(a, g) \/ JoinGroup(a, g)
                                  \/ AcceptTermsAndJoin(a, g)
        /\ UNCHANGED changes
     \/ /\ \/ SwitchEntryType(a) \/ LeaveGroup(a) \/ DeleteGroup(a)
           \/ WithdrawEntry(a) \/ Decline(a) \/ ReenterLottery(a)
           \/ \E m \in Entrants : RemoveGroupMember(a, m) \/ TransferLeadership(a, m)
        /\ Changes
  /\ Outdates
  /\ UNCHANGED <<formOpen, overwrote>>

(* The deadline passes.                                                    *)
CloseForm ==
  /\ formOpen /\ formOpen' = FALSE
  /\ UNCHANGED <<entry, found, lottery, astray, overwrote, changes>>

-----------------------------------------------------------------------------
(* What admins do                                                          *)

Batch == {a \in Entrants : entry[a].status = "complete"}

Candidates == {a \in Batch : entry[a].type = "own"}

WithMembers(leaders) == leaders \cup {b \in Batch : entry[b].parent \in leaders}

(* Faulty: what a lottery has given before is not subtracted.              *)
NothingAssigned == {}

(* The rooms given by earlier lotteries.                                   *)
Assigned == {a \in Entrants : /\ entry[a].status \in Awarding
                              /\ entry[a].type = "own" /\ entry[a].won}

(* run_lottery up to the solution, which is none if less than none is left.*)
SolveLottery ==
  /\ ~lottery.running
  /\ \E leaders \in SUBSET Candidates :
       /\ Cardinality(leaders) + Cardinality(Assigned) <= Inventory
       /\ lottery' = [running |-> TRUE, winners |-> WithMembers(leaders), stale |-> FALSE]
  /\ Changes
  /\ UNCHANGED <<entry, found, formOpen, astray, overwrote>>

CommitLottery ==
  /\ lottery.running
  /\ entry' = [a \in Entrants |-> IF a \in lottery.winners
                                  THEN [entry[a] EXCEPT !.status = "processed", !.won = TRUE]
                                  ELSE entry[a]]
  /\ lottery' = NoLottery
  /\ overwrote' = (overwrote \/ lottery.stale)
  /\ Astray({})
  /\ UNCHANGED <<found, formOpen, changes>>

Processed == {a \in Entrants : entry[a].status = "processed" /\ entry[a].won}

ResetLottery ==
  entry' = [a \in Entrants |-> IF a \in Processed
                               THEN [entry[a] EXCEPT !.status = "complete", !.won = FALSE]
                               ELSE entry[a]]

AwardLottery ==
  entry' = [a \in Entrants |-> IF a \in Processed
                               THEN [entry[a] EXCEPT !.status = "awarded"] ELSE entry[a]]

ShowAwards ==
  entry' = [a \in Entrants |-> IF entry[a].status = "awarded"
                               THEN [entry[a] EXCEPT !.hidden = FALSE] ELSE entry[a]]

AdminRequest ==
  /\ \/ ResetLottery /\ Changes
     \/ (AwardLottery \/ ShowAwards) /\ UNCHANGED changes
  /\ Outdates
  /\ UNCHANGED <<found, formOpen, astray, overwrote>>

-----------------------------------------------------------------------------
LotteryNext ==
  \/ \E a \in Entrants : Request(a)
  \/ CloseForm
  \/ SolveLottery \/ CommitLottery
  \/ AdminRequest

LotterySpec == LotteryInit /\ [][LotteryNext]_lotteryVars

-----------------------------------------------------------------------------
(* Properties                                                              *)

(* Whoever is in a group is in that of an entry that leads one, whatever   *)
(* is saved, transferred, withdrawn, declined or awarded.  Left out are    *)
(* those whom _disband_room_group passes over, who joined a group that was *)
(* disbanded since they searched for it, and whose leader joined another   *)
(* group from the form of the terms.                                       *)
MembersHaveLeader ==
  \A a \in Entrants \ astray :
    entry[a].parent # NoLeader => Leads(entry[a].parent)

(* The entries with a room on the page of the inventory.                   *)
RoomHolders ==
  {a \in Entrants : entry[a].type = "own" /\ entry[a].won /\ entry[a].status \in Awarding}

(* A member of a group that won goes on alone, and takes the room along.   *)
TakesRoomAlong ==
  \E a \in Entrants : /\ entry[a].type = "group" /\ entry[a].status = "processed"
                      /\ entry'[a].type = "own" /\ entry'[a].status = "processed"

(* No request, award, reset or lottery gives away more rooms than there    *)
(* are, over any number of lotteries (run_lottery subtracts what it gave). *)
(* Left out are a member put out of a group after the lottery, who keeps   *)
(* the room that the group has (_reset_group_member), and what follows a   *)
(* lottery whose entries changed while it was solved.                      *)
RoomsFit ==
  [][ Cardinality(RoomHolders') > Cardinality(RoomHolders)
        => \/ Cardinality(RoomHolders') <= Inventory
           \/ TakesRoomAlong
           \/ overwrote' ]_lotteryVars
=================================================================================
