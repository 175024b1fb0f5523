---------------------------- MODULE MCScheduler ----------------------------
(***************************************************************************)
(* Instances of Scheduler for TLC: days of four instants, a window within  *)
(* another window of the day, and one that crosses midnight.               *)
(***************************************************************************)
EXTENDS Scheduler

WideWindow == [start |-> 0, length |-> 3]

MorningWindow == [start |-> 1, length |-> 1]

NightWindow == [start |-> 3, length |-> 2]

AllWindows == {WideWindow, MorningWindow, NightWindow}

BothWindows == {MorningWindow, NightWindow}

=============================================================================
