------------------------------ MODULE MCSignups ------------------------------
(***************************************************************************)
(* One run for two modules that share no state: sign-ups for attractions,  *)
(* and the hotel lottery.  Each initial state opens one of the two, and    *)
(* only that one works.                                                    *)
(***************************************************************************)
EXTENDS Attractions, HotelLottery, TLC

CONSTANTS a1, a2, a3, e1, e2, w1, w2

VARIABLE open

(* Attractions: an event with a waiting list, and another of its feature.  *)
OneEach == [e \in Events |-> 1]
NoLimit == [e \in Events |-> 0]

(* The attendees are the same people in both.                              *)
Symmetry == Permutations(Attendees) \cup Permutations(Workers)

-----------------------------------------------------------------------------
SignupsInit == open \in {"attractions", "lottery"} /\ Init /\ LotteryInit

SignupsNext ==
  /\ UNCHANGED open
  /\ \/ open = "attractions" /\ Next /\ UNCHANGED lotteryVars
     \/ open = "lottery" /\ LotteryNext /\ UNCHANGED vars

SignupsSpec == SignupsInit /\ [][SignupsNext]_<<open, vars, lotteryVars>>
===============================================================================
