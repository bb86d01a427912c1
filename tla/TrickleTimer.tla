---------------------------- MODULE TrickleTimer ----------------------------
(***************************************************************************)
(* One TrickleController on its own, driven by anything the threads of a   *)
(* node may do to it and in any order: the timer's ticks, and the receive  *)
(* and main threads' notes.  This reaches intervals longer than the        *)
(* composed system can be checked with.                                    *)
(***************************************************************************)
EXTENDS TrickleController

VARIABLES
  c,         \* the controller
  equal,     \* history: summaries noted consistent since the interval began,
             \* not counted past K
  news       \* history: was new information noted since the last tick?

timerVars == <<c, equal, news>>

TimerInit ==
  /\ c \in Initial
  /\ equal = 0
  /\ news = FALSE

\* One turn of trickle_timer_loop.
TimerTick ==
  /\ c' \in Ticked(c)
  /\ equal' = IF c.elapsed + 1 >= c.interval THEN 0 ELSE equal
  /\ news' = FALSE

\* recv_loop found a summary equal to the local one.
TimerConsistent ==
  /\ c' = NotedConsistent(c)
  /\ equal' = IF equal < K THEN equal + 1 ELSE equal
  /\ UNCHANGED news

\* A local increment, a repair or a summary that shows news.
TimerNews ==
  /\ c' \in Reset
  /\ equal' = 0
  /\ news' = TRUE

TimerNext == TimerTick \/ TimerConsistent \/ TimerNews

TimerSpec == TimerInit /\ [][TimerNext]_timerVars

-----------------------------------------------------------------------------
\* News is announced or silenced at the very next tick, whatever else the
\* threads note in between, and only summaries noted after it can silence it.
NewsDecidesNext ==
  news => Decides(c) /\ (Action(c) = "suppress" => equal >= K)
=============================================================================
