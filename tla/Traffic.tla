------------------------------- MODULE Traffic -------------------------------
(* The traffic generator of apps/traffic/traffic.py: jobs of the scheduler   *)
(* that send a number of packets each, cancelled from the prompt at any      *)
(* time, and the two listeners of a node.  A job's sender runs in the        *)
(* scheduler's pool, at most one at a time for each job.                     *)
EXTENDS Integers

CONSTANTS
  Job,        \* the jobs a node may add, in the batch file or at the prompt
  Count       \* max_count

VARIABLES
  kind,       \* of each job: "udp" or "tcp"
  status,     \* job_queue[id][6]
  sent,       \* job_queue[id][8]
  scheduled,  \* the jobs in the scheduler
  sender,     \* where a job's sender is
  cancel,     \* where the prompt is in _cancel_job of each job
  listening,  \* the threads: "recv", "data", "spin" (reads of nothing for ever), "ended"
  lock        \* Node.lock

trafficVars == <<kind, status, sent, scheduled, sender, cancel, listening, lock>>

Init ==
  /\ kind \in [Job -> {"udp", "tcp"}]
  /\ status = [j \in Job |-> "none"] /\ sent = [j \in Job |-> 0]
  /\ scheduled = {} /\ sender = [j \in Job |-> "idle"]
  /\ cancel = [j \in Job |-> "no"]
  /\ listening = [udp |-> "recv", tcp |-> "recv"] /\ lock = TRUE

-----------------------------------------------------------------------------
\* _add_job, from the prompt or from _auto_job_add.
AddJob(j) ==
  /\ status[j] = "none"
  /\ status' = [status EXCEPT ![j] = "IDLE"]
  /\ scheduled' = scheduled \cup {j}
  /\ UNCHANGED <<kind, sent, sender, cancel, listening, lock>>

\* The scheduler hands the job to a thread, which marks it RUNNING a while later.
Fire(j) ==
  /\ j \in scheduled /\ sender[j] = "idle"
  /\ sender' = [sender EXCEPT ![j] = "fired"]
  /\ UNCHANGED <<kind, status, sent, scheduled, cancel, listening, lock>>

Run(j) ==
  /\ sender[j] = "fired"
  /\ status' = [status EXCEPT ![j] = "RUNNING"]
  /\ sender' = [sender EXCEPT ![j] = "send"]
  /\ UNCHANGED <<kind, sent, scheduled, cancel, listening, lock>>

\* The packet is counted; at max_count the job is FINISHED,
UdpSender(j) ==
  /\ kind[j] = "udp" /\ sender[j] = "send"
  /\ sent' = [sent EXCEPT ![j] = @ + 1]
  /\ IF sent[j] + 1 >= Count
     THEN /\ status' = [status EXCEPT ![j] = "FINISHED"]
          /\ sender' = [sender EXCEPT ![j] = "remove"]
     ELSE sender' = [sender EXCEPT ![j] = "idle"] /\ UNCHANGED status
  /\ UNCHANGED <<kind, scheduled, cancel, listening, lock>>

\* the same by TCP, where a refused connection counts as sent and any other
\* failure ends this turn uncounted.
TcpSender(j) ==
  /\ kind[j] = "tcp" /\ sender[j] = "send"
  /\ \E sends \in BOOLEAN :
       /\ sent' = [sent EXCEPT ![j] = IF sends THEN @ + 1 ELSE @]
       /\ IF sends /\ sent[j] + 1 >= Count
          THEN /\ status' = [status EXCEPT ![j] = "FINISHED"]
               /\ sender' = [sender EXCEPT ![j] = "remove"]
          ELSE sender' = [sender EXCEPT ![j] = "idle"] /\ UNCHANGED status
  /\ UNCHANGED <<kind, scheduled, cancel, listening, lock>>

\* Slip: the finished job stays in the scheduler.
KeepJob(j) ==
  /\ sender[j] = "remove"
  /\ sender' = [sender EXCEPT ![j] = "idle"]
  /\ UNCHANGED <<kind, status, sent, scheduled, cancel, listening, lock>>

\* and scheduler.remove_job takes it out (raising if it was cancelled).
RemoveJob(j) ==
  /\ sender[j] = "remove"
  /\ scheduled' = scheduled \ {j}
  /\ sender' = [sender EXCEPT ![j] = "idle"]
  /\ UNCHANGED <<kind, status, sent, cancel, listening, lock>>

\* _cancel_job: first out of the scheduler, if it is there,
CancelJob(j) ==
  /\ j \in scheduled /\ cancel[j] = "no"
  /\ scheduled' = scheduled \ {j}
  /\ cancel' = [cancel EXCEPT ![j] = "mark"]
  /\ UNCHANGED <<kind, status, sent, sender, listening, lock>>

\* then marked, whatever a sender still under way has written or will write.
MarkCancelled(j) ==
  /\ cancel[j] = "mark"
  /\ status' = [status EXCEPT ![j] = "CANCELLED"]
  /\ cancel' = [cancel EXCEPT ![j] = "done"]
  /\ UNCHANGED <<kind, sent, scheduled, sender, listening, lock>>

-----------------------------------------------------------------------------
Looped == IF lock THEN "recv" ELSE "ended"

\* _udp_listener: _packet_handler raises for what is neither pickle nor JSON.
UdpListener ==
  /\ listening.udp = "recv"
  /\ \E understood \in BOOLEAN :
       listening' = [listening EXCEPT !.udp = IF understood THEN Looped ELSE "ended"]
  /\ UNCHANGED <<kind, status, sent, scheduled, sender, cancel, lock>>

\* _tcp_listener: a length field cut short raises out of the loop,
TcpLength ==
  /\ listening.tcp = "recv"
  /\ \E whole \in BOOLEAN :
       listening' = [listening EXCEPT !.tcp = IF whole THEN "data" ELSE "ended"]
  /\ UNCHANGED <<kind, status, sent, scheduled, sender, cancel, lock>>

\* data cut short are read for ever, and data that are no pickle raise.
TcpData ==
  /\ listening.tcp = "data"
  /\ \E then \in {Looped, "spin", "ended"} : listening' = [listening EXCEPT !.tcp = then]
  /\ UNCHANGED <<kind, status, sent, scheduled, sender, cancel, lock>>

\* shutdown() waits for the jobs that run; the listeners are given two seconds.
Shutdown ==
  /\ lock /\ \A j \in Job : sender[j] = "idle"
  /\ lock' = FALSE /\ scheduled' = {}
  /\ UNCHANGED <<kind, status, sent, sender, cancel, listening>>

-----------------------------------------------------------------------------
Next ==
  \/ \E j \in Job :
       \/ AddJob(j) \/ Fire(j) \/ Run(j) \/ UdpSender(j) \/ TcpSender(j)
       \/ RemoveJob(j) \/ CancelJob(j) \/ MarkCancelled(j)
  \/ UdpListener \/ TcpLength \/ TcpData \/ Shutdown

Spec == Init /\ [][Next]_trafficVars

\* A job never sends more than it was asked to, and is FINISHED only when it has
\* sent all, although the scheduler may fire it again before it is removed and
\* the prompt may cancel it between any two steps of its sender.
JobCounts ==
  \A j \in Job : sent[j] <= Count /\ (status[j] = "FINISHED" => sent[j] = Count)
=============================================================================
