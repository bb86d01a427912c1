------------------------------ MODULE MCPrograms ------------------------------
(* The suite for TLC.  Both servers fly over the one turbine; the second of   *)
(* two nodes, whose turn a step that breaks off does not reach, logs its      *)
(* positions.                                                                 *)
EXTENDS ProgramSuite

CONSTANTS s1, s2, w1

ScenarioBase == [count |-> 1, area |-> 1]

\* Two variants of one density, one of another.
TwoExperiments ==
  {[tuples |-> {[count |-> 2, area |-> 2]}, vary |-> << >>],
   [tuples |-> {}, vary |-> [error |-> {0, 1}]]}

Headings == [i \in {0, 1} |-> i * 8]

\* Places of which two neighbours are in range.
Line == {<<0, 0>>, <<1, 0>>, <<2, 0>>, <<3, 0>>}

InOrder == [p \in {"p1", "p2"} |-> IF p = "p1" THEN 1 ELSE 2]
=============================================================================
