--------------------------- MODULE MCCardManager ---------------------------
(* Cards for the runs of CardManager: k1 starts in every profile a FINEID     *)
(* card comes in, activated, delivered or between, with its counters at the   *)
(* floor; k2 is an activated citizen card with full counters to swap it with. *)
EXTENDS CardManager, TLC

CONSTANTS k1, k2

Profile(numbering, scheme, flagged, silent, keeps) ==
  [numbering |-> numbering, scheme |-> scheme, flagged |-> flagged, silent |-> silent,
   keeps |-> keeps]

MCProfiles ==
  {Profile("citizen", "preset", PinSlots, {}, {}),
   Profile("citizen", "code_is_puk", {"pin1"}, {"pin2"}, FlooredCredentials),
   Profile("citizen", "code_is_puk", {}, {}, {}),
   Profile("organizational", "code_is_puk", {}, {}, {}),
   Profile("organizational", "code_is_puk", {}, {}, {"puk"})}

\* A PIN of a card whose code is its PUK is delivered blocked.
Chip(profile, fresh, pin, puk) ==
  [profile |-> profile, fresh |-> fresh, verified |-> {},
   tries |-> [x \in FlooredCredentials |->
                IF x = "puk" THEN puk
                ELSE IF x \in fresh /\ profile.scheme = "code_is_puk" THEN 0 ELSE pin]]

Activated == Chip(Profile("citizen", "preset", PinSlots, {}, {}), {}, 5, 5)

AnyCard ==
  {Chip(p, fresh, 3, 3) : p \in MCProfiles, fresh \in {{}, {"pin2"}, PinSlots}}

MCInitially == [c \in Cards |-> IF c = k1 THEN AnyCard ELSE {Activated}]

\* A delivered card with a preset activation PIN, one wrong code from the floor.
PresetCard == {Chip(Profile("citizen", "preset", PinSlots, {}, {}), PinSlots, 3, 5)}

MCPreset == [c \in Cards |-> PresetCard]

\* Activated and delivered cards of either numbering, at the floor and with
\* every counter used up.
SpentCards ==
  {Chip(p, fresh, n, n) : p \in {Profile("citizen", "preset", PinSlots, {}, {}),
                                 Profile("organizational", "code_is_puk", {}, {}, {"puk"})},
                          fresh \in {{}, PinSlots}, n \in {0, 3}}

MCSpent == [c \in Cards |-> SpentCards]

SameTools == Permutations(Tools)

MCActivated == [c \in Cards |-> {Activated}]
=============================================================================
