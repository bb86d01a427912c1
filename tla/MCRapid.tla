------------------------------- MODULE MCRapid -------------------------------
(* Instances of Rapid for TLC.                                             *)
EXTENDS Rapid

CONSTANTS n1, n2, n3

\* Two nodes that hear each other.
Pair == {n1, n2}
PairHears == [n \in Pair |-> Pair \ {n}]
TwoOfOne == [n \in Pair |-> IF n = n1 THEN 2 ELSE 0]

\* A chain: n1 is heard by n2 but out of reach for it, n2 and n3 hear each other.
Chain == {n1, n2, n3}
ChainHears == [n \in Chain |-> IF n = n1 THEN {n2} ELSE IF n = n2 THEN {n3} ELSE {n2}]
OneAtTheEnd == [n \in Chain |-> IF n = n1 THEN 1 ELSE 0]
=============================================================================
