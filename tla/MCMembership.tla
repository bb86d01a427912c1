---------------------------- MODULE MCMembership ----------------------------
(* Instances of Membership for TLC: two neighbours.                        *)
EXTENDS Membership

CONSTANTS n1, n2

Two == {n1, n2}
=============================================================================
