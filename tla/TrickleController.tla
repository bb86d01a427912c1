-------------------------- MODULE TrickleController --------------------------
(***************************************************************************)
(* class TrickleController of apps/crdt/trickle/crdt_trickle.cpp: the      *)
(* adaptive timer that decides, once per interval, whether a node sends    *)
(* its summary or stays silent.  Its methods run under mu_, so each is one *)
(* operator from a controller state to the states it may leave.            *)
(* Operators introduced as a slip are wrong on purpose: the properties are *)
(* shown to notice each of them.                                           *)
(***************************************************************************)
EXTENDS Integers

CONSTANTS
  K,       \* trickle_k: consistent summaries that silence a node
  Imax     \* trickle_imax_ticks: the longest interval, in ticks

ASSUME ControllerAssumption == K \in Nat \ {0} /\ Imax \in Nat \ {0}

\* main() passes imin_ticks = 1.
Imin == 1

(***************************************************************************)
(* consistent_count_ is only ever compared with k_, so counting saturates  *)
(* at K: a count of K stands for every count of at least K.                *)
(***************************************************************************)
Controller ==
  [interval : Imin .. Imax, elapsed : Nat, tx : Nat, count : 0 .. K, sent : BOOLEAN]

\* choose_tx_tick_locked: uniform over the second half of the interval.
TxTicks(interval) == interval \div 2 .. interval - 1

\* The fields reset_locked, advance_locked and the constructor all set.
Fresh(interval) ==
  {[interval |-> interval, elapsed |-> 0, tx |-> t, count |-> 0, sent |-> FALSE] :
     t \in TxTicks(interval)}

\* Slip: a reset to the longest interval instead of the shortest.
ResetToLongest == Fresh(Imax)

\* The constructor, and reset_locked as called by note_new_information.
Initial == Fresh(Imin)
Reset == Fresh(Imin)

\* Slip: doubling without the cap.
DoubledUncapped(interval) == 2 * interval

\* advance_locked: the interval doubles up to imax_ticks_.
Doubled(interval) ==
  IF interval < Imax THEN IF 2 * interval <= Imax THEN 2 * interval ELSE Imax
  ELSE interval

Advance(c) == Fresh(Doubled(c.interval))

\* tick(): does this tick take the interval's decision, and which one?
Decides(c)  == ~c.sent /\ c.elapsed = c.tx
Action(c) ==
  IF ~Decides(c) THEN "none"
  ELSE IF c.count < K THEN "transmit" ELSE "suppress"

\* Slip: the decision is taken but not remembered.
TickedForgetting(c) ==
  LET d == [c EXCEPT !.elapsed = @ + 1]
  IN  IF d.elapsed >= d.interval THEN Advance(d) ELSE {d}

\* tick(): the state it leaves.
Ticked(c) ==
  LET d == [c EXCEPT !.sent = IF Decides(c) THEN TRUE ELSE @, !.elapsed = @ + 1]
  IN  IF d.elapsed >= d.interval THEN Advance(d) ELSE {d}

\* note_consistent_summary().
NotedConsistent(c) == [c EXCEPT !.count = IF @ < K THEN @ + 1 ELSE @]
=============================================================================
