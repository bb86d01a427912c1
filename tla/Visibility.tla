------------------------------ MODULE Visibility ------------------------------
(* The neighbour list over Paparazzi's messages (classes/membership and        *)
(* classes/network, membership_pprz_*.py and network_pprz_*.py: four copies of *)
(* one class) and the analysis of it that they share with Local and with       *)
(* apps/membership: which nodes were ever visible, how often each was lost and *)
(* for how long.  The analysis is a job of its own; rows come and go under its *)
(* indices, which raise an IndexError when they run over the end.  The races   *)
(* of the listener and the sweep themselves are in Membership.                 *)
EXTENDS Integers, Sequences, SequencesExt, FiniteSets

CONSTANTS
  Peer,       \* the other nodes
  Timeout,    \* visible_timeout
  MaxLosses   \* deletions by the sweep (a bound)

VARIABLES
  visible,    \* rows [node, age of the timestamp]
  everVisible,\* rows [node, lost: how often, absent: the time of the loss is set]
  visibilityLost, \* the nodes whose absences ended, in order
  losses,     \* deletions
  analysis,   \* the job: "idle", "compare", "append", "search" (the second loop)
  member, ever, \* its two indices
  bound,      \* the end of the loop over visible
  found

visibilityVars == <<visible, everVisible, visibilityLost, losses, analysis, member,
                    ever, bound, found>>
indices == <<member, ever, bound, found>>

Init ==
  /\ visible = <<>> /\ everVisible = <<>> /\ visibilityLost = <<>> /\ losses = 0
  /\ analysis = "idle" /\ member = 1 /\ ever = 1 /\ bound = 0 /\ found = FALSE

-----------------------------------------------------------------------------
\* _packet_handler: the first row of the node is refreshed, or one is appended.
PacketHandler(n) ==
  /\ IF \E i \in DOMAIN visible : visible[i].node = n
     THEN LET i == SelectInSeq(visible, LAMBDA row : row.node = n) IN
          visible' = [visible EXCEPT ![i].age = 0]
     ELSE visible' = Append(visible, [node |-> n, age |-> 0])
  /\ UNCHANGED <<everVisible, visibilityLost, losses, analysis, indices>>

\* _update_visible, at the end of _sendHello: the first row that is too old.
UpdateVisible ==
  /\ losses < MaxLosses
  /\ LET i == SelectInSeq(visible, LAMBDA row : row.age > Timeout) IN
     i # 0 /\ visible' = RemoveAt(visible, i)
  /\ losses' = losses + 1
  /\ UNCHANGED <<everVisible, visibilityLost, analysis, indices>>

\* A simulation second.
Tick ==
  /\ visible' = [i \in DOMAIN visible |->
       [visible[i] EXCEPT !.age = IF @ > Timeout THEN @ ELSE @ + 1]]
  /\ UNCHANGED <<everVisible, visibilityLost, losses, analysis, indices>>

-----------------------------------------------------------------------------
\* The second loop starts over the rows there are by then.
Second(rows) ==
  /\ analysis' = IF rows = <<>> THEN "idle" ELSE "search"
  /\ ever' = 1 /\ member' = 1 /\ bound' = Len(visible) /\ found' = FALSE

\* _analyse_visible: for member in range(len(self.visible)).
Analyse ==
  /\ analysis = "idle"
  /\ IF visible = <<>> THEN Second(everVisible)
     ELSE /\ analysis' = IF everVisible = <<>> THEN "append" ELSE "compare"
          /\ member' = 1 /\ ever' = 1 /\ bound' = Len(visible) /\ found' = FALSE
  /\ UNCHANGED <<visible, everVisible, visibilityLost, losses>>

\* The job ends; the next one begins anew.
IndexError == analysis' = "idle" /\ UNCHANGED indices

NextMember(rows) ==
  IF member = bound THEN Second(rows)
  ELSE /\ member' = member + 1 /\ ever' = 1 /\ found' = FALSE
       /\ analysis' = "compare" /\ UNCHANGED bound

\* Slip: the end of an absence does not clear its beginning.
CompareKeepsAbsence ==
  /\ analysis = "compare"
  /\ IF member > Len(visible)
     THEN IndexError /\ UNCHANGED <<everVisible, visibilityLost>>
     ELSE LET same == visible[member].node = everVisible[ever].node IN
       /\ visibilityLost' = IF same /\ everVisible[ever].absent
                            THEN Append(visibilityLost, everVisible[ever].node) ELSE visibilityLost
       /\ UNCHANGED everVisible
       /\ IF ever < Len(everVisible)
          THEN /\ ever' = ever + 1 /\ found' = (found \/ same)
               /\ UNCHANGED <<analysis, member, bound>>
          ELSE IF found \/ same THEN NextMember(everVisible)
          ELSE analysis' = "append" /\ UNCHANGED indices
  /\ Len(visibilityLost') <= MaxLosses + 1
  /\ UNCHANGED <<visible, losses>>

\* The first loop: the row of the member, whichever it is by now, against one of
\* those ever seen; an absence ends.
Compare ==
  /\ analysis = "compare"
  /\ IF member > Len(visible)
     THEN IndexError /\ UNCHANGED <<everVisible, visibilityLost>>
     ELSE LET same == visible[member].node = everVisible[ever].node IN
       /\ visibilityLost' = IF same /\ everVisible[ever].absent
                            THEN Append(visibilityLost, everVisible[ever].node) ELSE visibilityLost
       /\ everVisible' = IF same THEN [everVisible EXCEPT ![ever].absent = FALSE] ELSE everVisible
       /\ IF ever < Len(everVisible)
          THEN /\ ever' = ever + 1 /\ found' = (found \/ same)
               /\ UNCHANGED <<analysis, member, bound>>
          ELSE IF found \/ same THEN NextMember(everVisible)
          ELSE analysis' = "append" /\ UNCHANGED indices
  /\ UNCHANGED <<visible, losses>>

\* found == 0: the row that is at the index now is new.
AppendEver ==
  /\ analysis = "append"
  /\ IF member > Len(visible) THEN IndexError /\ UNCHANGED everVisible
     ELSE /\ everVisible' = Append(everVisible,
               [node |-> visible[member].node, lost |-> 0, absent |-> FALSE])
          /\ NextMember(everVisible')
  /\ UNCHANGED <<visible, visibilityLost, losses>>

\* The second loop: a node ever seen that is not among the rows is lost, once.
Search ==
  /\ analysis = "search"
  /\ IF member <= bound
     THEN /\ UNCHANGED everVisible
          /\ IF member > Len(visible) THEN IndexError
             ELSE /\ found' = (found \/ visible[member].node = everVisible[ever].node)
                  /\ member' = member + 1 /\ UNCHANGED <<analysis, ever, bound>>
     ELSE /\ everVisible' =
               IF ~found /\ ~everVisible[ever].absent
               THEN [everVisible EXCEPT ![ever].lost = @ + 1, ![ever].absent = TRUE]
               ELSE everVisible
          /\ IF ever = Len(everVisible) THEN analysis' = "idle" /\ UNCHANGED indices
             ELSE /\ ever' = ever + 1 /\ member' = 1 /\ bound' = Len(visible)
                  /\ found' = FALSE /\ UNCHANGED analysis
  /\ UNCHANGED <<visible, visibilityLost, losses>>

-----------------------------------------------------------------------------
Next ==
  \/ \E n \in Peer : PacketHandler(n)
  \/ UpdateVisible \/ Tick
  \/ Analyse \/ Compare \/ AppendEver \/ Search

Spec == Init /\ [][Next]_visibilityVars

Rows(n) == {i \in DOMAIN everVisible : everVisible[i].node = n}

\* Each loss of a node is closed by one absence in the report, except those that
\* last, although rows move under the analysis and a node may even get a second
\* row in everVisible by that.
LossesPaired ==
  \A n \in Peer :
    SumFunction([i \in Rows(n) |-> everVisible[i].lost])
      = Cardinality({k \in DOMAIN visibilityLost : visibilityLost[k] = n})
        + Cardinality({i \in Rows(n) : everVisible[i].absent})
=============================================================================
