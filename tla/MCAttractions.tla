---------------------------- MODULE MCAttractions ----------------------------
(* Small instances of Attractions: an event with a waiting list, and one   *)
(* of the same feature without.                                            *)
EXTENDS Attractions, TLC

CONSTANTS a1, a2, a3, e1, e2, w1, w2

OneEach == [e \in Events |-> 1]
Symmetry == Permutations(Attendees) \cup Permutations(Workers)

NoLimit == [e \in Events |-> 0]
OneWaits == [e \in Events |-> 1]

=============================================================================
