---------------------------- MODULE ProberVerdict ----------------------------
(***************************************************************************)
(* What the state machine of the active-standby link prober promises to    *)
(* the link manager: a verdict stands until enough heartbeat events in a   *)
(* row say the same other thing.  The link manager may force a verdict at  *)
(* any time, and a prober told to wait never finds that nothing answers.   *)
(*                                                                         *)
(* The states in src/src/link_prober keep a counter per kind of event and  *)
(* reset them selectively; that this amounts to one streak is what the     *)
(* refinement in LinkProber shows.                                         *)
(***************************************************************************)
EXTENDS Naturals

CONSTANTS
  PositiveRetry,  \* events in a row that establish Active or Standby
  NegativeRetry   \* events in a row that establish Unknown

Verdicts    == {"Active", "Standby", "Unknown", "Wait"}
ProbeEvents == {"Self", "Peer", "Unknown"}

NoStreak == [event |-> "None", length |-> 0]

VARIABLES
  verdict,  \* what the prober reports
  streak,   \* the run of equal events that speak against it
  reports   \* how many verdicts the link manager was told, modulo 2

\* The event that confirms a verdict; a waiting prober disregards silence.
Expected == [Active |-> "Self", Standby |-> "Peer",
             Unknown |-> "Unknown", Wait |-> "Unknown"]

\* The verdict an event speaks for, and how many it takes.
SpeaksFor == [Self |-> "Active", Peer |-> "Standby", Unknown |-> "Unknown"]
Needed    == [Self |-> PositiveRetry, Peer |-> PositiveRetry,
              Unknown |-> NegativeRetry]

Longer(e) == IF streak.event = e THEN streak.length + 1 ELSE 1

Init ==
  /\ verdict \in Verdicts
  /\ streak = NoStreak
  /\ reports = 0

Confirm(e) ==
  /\ e = Expected[verdict]
  /\ streak' = NoStreak
  /\ UNCHANGED <<verdict, reports>>

Doubt(e) ==
  /\ e # Expected[verdict]
  /\ Longer(e) < Needed[e]
  /\ streak' = [event |-> e, length |-> Longer(e)]
  /\ UNCHANGED <<verdict, reports>>

Decide(e) ==
  /\ e # Expected[verdict]
  /\ Longer(e) >= Needed[e]
  /\ verdict' = SpeaksFor[e]
  /\ streak' = NoStreak
  /\ reports' = 1 - reports

\* The link manager knows what it forces and is not told.
Force(l) ==
  /\ l # verdict
  /\ verdict' = l
  /\ streak' = NoStreak
  /\ UNCHANGED reports

Next ==
  \/ \E e \in ProbeEvents : Confirm(e) \/ Doubt(e) \/ Decide(e)
  \/ \E l \in Verdicts : Force(l)

Spec == Init /\ [][Next]_<<verdict, streak, reports>>

=============================================================================
