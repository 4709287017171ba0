---------------------------- MODULE MCMinidriver ----------------------------
(* Cards for the run of Minidriver: one over contacts whose counters stand    *)
(* at the floor, and a contactless one whose PIN 2 is blocked.                *)
EXTENDS Minidriver, TLC

CONSTANTS k1, k2

Start(pin1, pin2, puk, keeps) ==
  [profile |-> [numbering |-> "citizen", scheme |-> "preset", flagged |-> PinSlots,
                silent |-> {}, keeps |-> keeps],
   fresh |-> {}, verified |-> {},
   tries |-> [pin1 |-> pin1, pin2 |-> pin2, puk |-> puk]]

MCInitially ==
  [c \in Cards |-> IF c = k1 THEN {Start(3, 3, 3, {"pin2"})} ELSE {Start(5, 0, 5, PinSlots)}]

Symmetric == Permutations(Contexts)

=============================================================================
