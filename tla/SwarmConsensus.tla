---------------------------- MODULE SwarmConsensus ----------------------------
(* The consensus of apps/swarm-consensus/swarm-consensus.py: every half       *)
(* second a node broadcasts its direction and moves it towards those it last  *)
(* heard, its own broadcast among them.  The receiving thread writes the      *)
(* dictionary that the job iterates.                                          *)
(*                                                                            *)
(* Directions are numbers of the code times Divisor ^ MaxRounds, so that they *)
(* stay whole through MaxRounds rounds; k is 1 / Divisor.                     *)
EXTENDS Integers, FiniteSets, FiniteSetsExt, Functions

CONSTANTS
  Node,
  First(_),   \* the direction each node draws at its start
  Divisor,    \* 1 / k
  MaxRounds   \* rounds of all nodes together (a bound)

VARIABLES
  direction,
  neighbours, \* each node's dictionary of the directions it last heard
  air,        \* the directions each node has broadcast; they arrive late or never
  iterating,  \* the copy of neighbours a round began with, while it runs
  rounds,
  lock        \* the scheduler and the interfaces run

swarmVars == <<direction, neighbours, air, iterating, rounds, lock>>

\* The empty dictionary.  A round over it is over when it begins.
NoRound == <<>>
Heard(i) == DOMAIN neighbours[i]

Init ==
  /\ direction = [i \in Node |-> First(i)]
  /\ neighbours = [i \in Node |-> <<>>]
  /\ air = [i \in Node |-> {}]
  /\ iterating = [i \in Node |-> NoRound]
  /\ rounds = 0 /\ lock = [i \in Node |-> TRUE]

\* _broadcast_my_direction
BroadcastMyDirection(i) ==
  /\ lock[i] /\ air' = [air EXCEPT ![i] = @ \cup {direction[i]}]
  /\ UNCHANGED <<direction, neighbours, iterating, rounds, lock>>

\* _packet_handler and _handle_direction_packet: the last one to arrive counts,
\* which need not be the last one sent.
HandleDirectionPacket(i, n) ==
  /\ lock[i]
  /\ \E heard \in air[n] :
       neighbours' = [neighbours EXCEPT ![i] =
         [m \in Heard(i) \cup {n} |-> IF m = n THEN heard ELSE neighbours[i][m]]]
  /\ UNCHANGED <<direction, air, iterating, rounds, lock>>

\* _run_swarm_consensus: the loop over neighbours.items() begins,
RunSwarmConsensus(i) ==
  /\ lock[i] /\ iterating[i] = NoRound /\ rounds < MaxRounds
  /\ iterating' = [iterating EXCEPT ![i] = neighbours[i]]
  /\ rounds' = rounds + 1
  /\ UNCHANGED <<direction, neighbours, air, lock>>

\* Slip: the operands of the difference are swapped.
TurnAway(i) ==
  /\ iterating[i] # NoRound
  /\ LET seen == iterating[i]
         met == DOMAIN seen
     IN /\ Heard(i) = met
        /\ direction' = [direction EXCEPT ![i] =
             @ + SumFunction([n \in met |-> direction[i] - seen[n]]) \div Divisor]
  /\ iterating' = [iterating EXCEPT ![i] = NoRound]
  /\ UNCHANGED <<neighbours, air, rounds, lock>>

\* and ends with the turn, each direction being read before or after it was
\* overwritten meanwhile.
Turn(i) ==
  /\ iterating[i] # NoRound
  /\ LET seen == iterating[i]
         met == DOMAIN seen
     IN /\ Heard(i) = met
        /\ \E late \in SUBSET met :
             direction' = [direction EXCEPT ![i] =
               @ + SumFunction([n \in met |->
                     (IF n \in late THEN neighbours[i][n] ELSE seen[n]) - direction[i]]) \div Divisor]
  /\ iterating' = [iterating EXCEPT ![i] = NoRound]
  /\ UNCHANGED <<neighbours, air, rounds, lock>>

\* A neighbour heard for the first time meanwhile: "dictionary changed size
\* during iteration", and the direction stays.
RoundRaises(i) ==
  /\ iterating[i] # NoRound
  /\ Heard(i) # DOMAIN iterating[i]
  /\ iterating' = [iterating EXCEPT ![i] = NoRound]
  /\ UNCHANGED <<direction, neighbours, air, rounds, lock>>

\* _checkruntime: the scheduler waits for a round that runs.
CheckRuntime(i) ==
  /\ lock[i] /\ iterating[i] = NoRound
  /\ lock' = [lock EXCEPT ![i] = FALSE]
  /\ UNCHANGED <<direction, neighbours, air, iterating, rounds>>

Next ==
  \E i \in Node :
    \/ BroadcastMyDirection(i) \/ \E n \in Node : HandleDirectionPacket(i, n)
    \/ RunSwarmConsensus(i) \/ Turn(i) \/ RoundRaises(i) \/ CheckRuntime(i)

Spec == Init /\ [][Next]_swarmVars

\* No node hears more than 1 / k others, itself included.
Few == \A i \in Node : Cardinality(Heard(i)) <= Divisor

\* The directions stay within those the nodes began with, however late, old or
\* reordered the ones they hear, as long as no node has heard of more than 1 / k
\* others; beyond, a turn may overshoot.
Enclosed ==
  Few => \A i \in Node :
    /\ direction[i] >= Min({First(n) : n \in Node})
    /\ direction[i] <= Max({First(n) : n \in Node})
=============================================================================
