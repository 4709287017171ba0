---------------------------- MODULE CustodianView ----------------------------
(* The requester's view of one custodian (crates/refineid-rapp-core/src/      *)
(* view.rs): the state that decides when this computer may dial its phone.    *)
(* The process keeps one view per pairing behind a mutex, and every operation *)
(* below runs under it, so each is one operator from a view to a view.  An    *)
(* absent map entry reads as a new view: state() and with_view() treat it so. *)
EXTENDS Integers

CONSTANTS
  RedialWindow,   \* REDIAL_WINDOW_MS, in ticks of the continuous clock
  Sights          \* instance names and advertiser addresses discovery shows

ASSUME ViewAssumption == RedialWindow \in Nat \ {0}

\* window_opened_ms = None.
NoWindow == -1

ViewStates == {"idle", "connecting", "connected", "withdrawn"}

Views == [state : ViewStates, opened : Nat \cup {NoWindow}, inSight : SUBSET Sights]

NewView == [state |-> "idle", opened |-> NoWindow, inSight |-> {}]

\* How a session ended, as far as the view is concerned.
Treatments == {"revoked", "withdrawn", "violation", "loss"}

\* u64::saturating_sub.
SatSub(a, b) == IF a >= b THEN a - b ELSE 0

InState(v, state, opened) == [v EXCEPT !.state = state, !.opened = opened]

WindowPassed(v, now) == SatSub(now, v.opened) >= RedialWindow

-----------------------------------------------------------------------------
Appeared(v, seen) == seen \ v.inSight # {}

Look(v, seen) ==
  LET looked == [v EXCEPT !.inSight = seen]
  IN  IF Appeared(v, seen) /\ v.state # "connected"
      THEN InState(looked, "connecting", NoWindow)
      ELSE looked

WithdrawnRecordMatched(v) ==
  IF v.state = "connected" THEN v ELSE InState(v, "withdrawn", NoWindow)

\* A redial window that is still counting, or a first dial that has not failed.
DialDue(v, now) ==
  \/ v.state = "connected"
  \/ v.state = "connecting" /\ (v.opened = NoWindow \/ ~WindowPassed(v, now))

DialAdmitted(v, now, consumerAsked) ==
  /\ v.state # "withdrawn"
  /\ DialDue(v, now) \/ consumerAsked

\* Mutant: a consumer's request lifts a withdrawal.
AfterDialAdmittedLifts(v, now, consumerAsked) ==
  IF DialDue(v, now) THEN v
  ELSE InState(v, IF consumerAsked THEN "connecting" ELSE "idle", NoWindow)

AfterDialAdmitted(v, now, consumerAsked) ==
  IF v.state = "withdrawn" \/ DialDue(v, now) THEN v
  ELSE InState(v, IF consumerAsked THEN "connecting" ELSE "idle", NoWindow)

DialFailed(v, now) ==
  LET opened == IF v.opened = NoWindow THEN now ELSE v.opened
      failed == InState(v, "connecting", opened)
  IN  IF v.state # "connecting" THEN v
      ELSE IF WindowPassed(failed, now) THEN InState(v, "idle", NoWindow)
      ELSE failed

SessionOpened(v) == InState(v, "connected", NoWindow)

SessionClosedHere(v) == InState(v, "idle", NoWindow)

SessionEnded(v, treatment, now) ==
  CASE treatment = "revoked"   -> NewView
    [] treatment = "withdrawn" -> InState(v, "withdrawn", NoWindow)
    [] treatment = "violation" -> InState(v, "idle", NoWindow)
    [] treatment = "loss"      -> InState(v, "connecting", now)

PairingLeft(v) == NewView
=============================================================================
