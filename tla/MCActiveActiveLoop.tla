------------------------- MODULE MCActiveActiveLoop -------------------------
EXTENDS ActiveActiveLoop, SequencesExt

MCWorlds == {[server |-> TRUE, peer |-> TRUE, link |-> "Up", route |-> "OK", mode |-> "Auto"]}

(***************************************************************************)
(* The run has the retry counts the program starts with, 1.  For larger    *)
(* ones: whatever events came, a machine is in the state of the last that  *)
(* ended `retry' equal events in a row, and never left Wait if none did.   *)
(***************************************************************************)
Fed(events, retry) ==
  FoldLeft(LAMBDA m, e : IF e = m.state THEN Confirmed(m) ELSE Counted(m, e, retry),
           [state |-> "Wait", count |-> NoneOf(MuxEvents)], events).state

Deciding(events, retry) ==
  {i \in retry .. Len(events) : \A j \in i - retry + 1 .. i : events[j] = events[i]}

ASSUME LastStreakDecides ==
  \A retry \in 1 .. 3, n \in 0 .. 5 : \A events \in [1 .. n -> MuxEvents] :
    LET ends == Deciding(events, retry)
    IN  Fed(events, retry) = IF ends = {} THEN "Wait" ELSE events[Max(ends)]
=============================================================================
