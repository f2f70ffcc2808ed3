----------------------------- MODULE TimeWindow ------------------------------
(***************************************************************************)
(* internal/config/timewindow.go: the active window of a file monitor      *)
(* check, in minutes of the local day.                                     *)
(***************************************************************************)
EXTENDS Integers

CONSTANT Day  \* minutes of a day

ASSUME DayAssumption == Day \in Nat \ {0}

Minutes == 0 .. Day - 1

(* ParseTimeWindow: equal start and end are rejected; an empty string is a  *)
(* window that was not configured.                                          *)
NotConfigured == [startMin |-> 0, endMin |-> 0, configured |-> FALSE]
Windows == {NotConfigured} \cup {[startMin |-> s, endMin |-> e, configured |-> TRUE] :
                                   s \in Minutes, e \in Minutes}
Parsed == {w \in Windows : w.configured => w.startMin # w.endMin}

Active(w, cur) ==
  \/ ~w.configured
  \/ w.startMin < w.endMin /\ cur >= w.startMin /\ cur < w.endMin
  \/ w.startMin >= w.endMin /\ (cur >= w.startMin \/ cur < w.endMin)

-----------------------------------------------------------------------------
(* What the window means: the minutes from its start up to its end, counted *)
(* around midnight.                                                         *)
Within(w, cur) == (cur - w.startMin) % Day < (w.endMin - w.startMin) % Day

(* A parsed window is active exactly within itself, wrapped or not, and is  *)
(* neither always active nor never.                                         *)
WindowIsInterval ==
  \A w \in Parsed : w.configured =>
     /\ \A cur \in Minutes : Active(w, cur) <=> Within(w, cur)
     /\ Active(w, w.startMin) /\ ~Active(w, w.endMin)
=============================================================================
