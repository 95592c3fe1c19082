-------------------------- MODULE SubStateMachines --------------------------
(***************************************************************************)
(* The state machines of the mux and of the link that a link manager owns: *)
(* the state classes in src/src/mux_state and src/src/link_state, their    *)
(* machines and common/StateMachine.cpp.                                   *)
(*                                                                         *)
(* A machine [state, count] moves when as many equal events came in a row  *)
(* as its retry count asks for.  count holds the event counters of the     *)
(* current state object.  Those of the other objects need no place: an     *)
(* object is reset whenever its state is entered.                          *)
(***************************************************************************)
EXTENDS Naturals

CONSTANTS
  MuxStateChangeRetryCount,   \* MuxConfig::mMuxStateChangeRetryCount
  LinkStateChangeRetryCount   \* MuxConfig::mLinkStateChangeRetryCount

ASSUME RetryCountAssumption ==
  /\ MuxStateChangeRetryCount \in Nat \ {0}
  /\ LinkStateChangeRetryCount \in Nat \ {0}

MuxEvents  == {"Active", "Standby", "Unknown", "Error"}
LinkEvents == {"Up", "Down"}

\* resetState: every counter of the object is 0.
NoneOf(events) == [e \in events |-> 0]

Machine(labels, events, retry) == [state : labels, count : [events -> 0 .. retry - 1]]

MuxMachines  == Machine(MuxEvents \cup {"Wait"}, MuxEvents, MuxStateChangeRetryCount)
LinkMachines == Machine(LinkEvents, LinkEvents, LinkStateChangeRetryCount)

\* An object is reset when its state is entered from another one.
setCurrentState(m, l) ==
  IF l = m.state THEN m ELSE [state |-> l, count |-> NoneOf(DOMAIN m.count)]

\* The event of the state the machine is in.
Confirmed(m) == [m EXCEPT !.count = NoneOf(DOMAIN @)]

\* The event e of another state: one more of its kind, and none of any other.
Counted(m, e, retry) ==
  IF m.count[e] + 1 >= retry
  THEN setCurrentState(m, e)
  ELSE [m EXCEPT !.count = [NoneOf(DOMAIN @) EXCEPT ![e] = m.count[e] + 1]]

-----------------------------------------------------------------------------
(* The mux: handleEvent of each state class. *)

ActiveState(m, e) ==
  IF e = "Active" THEN Confirmed(m) ELSE Counted(m, e, MuxStateChangeRetryCount)

StandbyState(m, e) ==
  IF e = "Standby" THEN Confirmed(m) ELSE Counted(m, e, MuxStateChangeRetryCount)

UnknownState(m, e) ==
  IF e = "Unknown" THEN Confirmed(m) ELSE Counted(m, e, MuxStateChangeRetryCount)

ErrorState(m, e) ==
  IF e = "Error" THEN Confirmed(m) ELSE Counted(m, e, MuxStateChangeRetryCount)

\* No event confirms a wait.
WaitState(m, e) == Counted(m, e, MuxStateChangeRetryCount)

\* The next state of the mux machine; processEvent reports a change of it.
MuxMoves(m, e) ==
  CASE m.state = "Active"  -> ActiveState(m, e)
    [] m.state = "Standby" -> StandbyState(m, e)
    [] m.state = "Unknown" -> UnknownState(m, e)
    [] m.state = "Error"   -> ErrorState(m, e)
    [] m.state = "Wait"    -> WaitState(m, e)

-----------------------------------------------------------------------------
(* The link. *)

UpState(m, e) ==
  IF e = "Up" THEN Confirmed(m) ELSE Counted(m, e, LinkStateChangeRetryCount)

DownState(m, e) ==
  IF e = "Down" THEN Confirmed(m) ELSE Counted(m, e, LinkStateChangeRetryCount)

LinkMoves(m, e) == IF m.state = "Up" THEN UpState(m, e) ELSE DownState(m, e)
=============================================================================
