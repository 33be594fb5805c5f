------------------------------- MODULE MCBadges -------------------------------
(* Small instances of Badges: staff or contractors, numbered in advance,   *)
(* and attendees, numbered at check-in.                                    *)
EXTENDS Badges, TLC

CONSTANTS a1, a2, w1, w2

(* Ranges that overlap, shorter ones, and ranges side by side.             *)
Apart == ("staff" :> 1 .. 1) @@ ("attendee" :> 2 .. 3)
Short == ("staff" :> 1 .. 1) @@ ("attendee" :> 1 .. 1)
Overlap == ("staff" :> 1 .. 2) @@ ("attendee" :> 2 .. 2)

OnlyOverlap == {Overlap}
NoConfigs == {}

Singles == {{a1}, {a2}}
===============================================================================
