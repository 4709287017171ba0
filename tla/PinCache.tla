------------------------------ MODULE PinCache ------------------------------
(* What crates/refineid-lib-core/src/pin_cache.rs decides without its state:  *)
(* the entries it holds and when one may be checked out.                      *)
EXTENDS CardChip

CONSTANTS
  Cards,  \* the cards that may be in a reader
  Pins    \* the values PINs take and users type

\* HeldPin1.  card: the one it was verified on; once: Pin1Retention::OneShot.
HeldPins == [card : Cards, pin : Pins, once : BOOLEAN]

\* Mutant: the serial is not compared.
AnySerialFits(e, c, status) == status = "verified" \/ PermitsReusableCache(status)

\* The test of checkout_pin1, with permits_held_pin1.
Fits(e, c, status) == e.card = c /\ (status = "verified" \/ PermitsReusableCache(status))

\* store_pin1 after a pristine counter, stage_pin1_once after another.
Holding(c, p, status) == [card |-> c, pin |-> p, once |-> ~PermitsReusableCache(status)]

=============================================================================
