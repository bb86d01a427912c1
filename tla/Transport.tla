------------------------------ MODULE Transport ------------------------------
(* The three sockets of classes/network/network_sockets.py: TcpPersistent (a *)
(* thread per connection, with an answer), TcpInterface (one connection      *)
(* after the other, without) and UdpInterface.  One server thread, and       *)
(* clients that send a message each; a client may be cut off in the middle,  *)
(* and where the link is cut, the server is not told: no recv() of the three *)
(* has a timeout.                                                            *)
(*                                                                           *)
(* The methods of TcpPersistent are indented into its __init__, where they   *)
(* are never called; the model takes the class as its copies under apps/     *)
(* have it.                                                                  *)
EXTENDS Integers, Sequences

CONSTANTS
  Client,
  Buffer      \* datagrams the socket holds

VARIABLES
  class,      \* "persistent", "interface" or "udp"
  running,
  thread,     \* the server's: "loop" (in accept() or recvfrom()), "recv", "ended"
  open,       \* server: the listening socket
  stopping,   \* stop(): "no", "bye", "close", "stopped"
  queue,      \* connections or datagrams that wait: [from, data]
  serving,    \* connections that are received from: any number by the threads
              \* of TcpPersistent, one by the thread of TcpInterface
  payload,    \* TcpInterface.run's local: what the last connection left, or "unbound"
  delivered,  \* what the callback was given: [from, data]
  outcome     \* of each client's send()

transportVars == <<class, running, thread, open, stopping, queue, serving, payload, delivered, outcome>>

Self == "self"        \* stop() sends "bye" to its own port
Tcp == class # "udp"
Looped == IF running THEN "loop" ELSE "ended"

\* What arrives of a message: all of it, a part before the client breaks off,
\* nothing before it does; or the client has fallen silent, and neither the rest
\* nor an end arrives.
Received == {"whole", "part", "empty"}
Data == Received \cup {"silent"}
Arrives(c, data) == queue' = Append(queue, [from |-> c, data |-> data])

Init ==
  /\ class \in {"persistent", "interface", "udp"}
  /\ running = TRUE /\ thread = "loop" /\ open = TRUE /\ stopping = "no"
  /\ queue = <<>> /\ serving = {}
  /\ payload = "unbound" /\ delivered = {}
  /\ outcome = [c \in Client |-> "unsent"]

-----------------------------------------------------------------------------
(* send()                                                                   *)

\* TcpPersistent: waits for an answer.
SendPersistent(c) ==
  /\ class = "persistent" /\ outcome[c] = "unsent"
  /\ IF open
     THEN /\ \E data \in Data : Arrives(c, data)
          /\ outcome' = [outcome EXCEPT ![c] = "sent"]
     ELSE outcome' = [outcome EXCEPT ![c] = "TIMEOUT"] /\ UNCHANGED queue
  /\ UNCHANGED <<class, running, thread, open, stopping, serving, payload, delivered>>

\* Its timer, an answer cut short, or any other failure: None.
GiveUp(c) ==
  /\ class = "persistent" /\ outcome[c] = "sent"
  /\ outcome' = [outcome EXCEPT ![c] = "None"]
  /\ UNCHANGED <<class, running, thread, open, stopping, queue, serving, payload, delivered>>

\* TcpInterface: no answer, and no failure is told.
SendInterface(c) ==
  /\ class = "interface" /\ outcome[c] = "unsent"
  /\ IF open THEN \E data \in Data : Arrives(c, data)
     ELSE UNCHANGED queue
  /\ outcome' = [outcome EXCEPT ![c] = "None"]
  /\ UNCHANGED <<class, running, thread, open, stopping, serving, payload, delivered>>

\* A datagram is whole or lost, a full buffer drops it.
SendUdp(c) ==
  /\ class = "udp" /\ outcome[c] = "unsent"
  /\ \/ open /\ Len(queue) < Buffer /\ Arrives(c, "whole")
     \/ UNCHANGED queue
  /\ outcome' = [outcome EXCEPT ![c] = "None"]
  /\ UNCHANGED <<class, running, thread, open, stopping, serving, payload, delivered>>

-----------------------------------------------------------------------------
(* run()                                                                    *)

\* TcpPersistent: a thread for the connection, and back to accept().
\* TcpInterface: the server's own thread goes on to recv().
Accept ==
  /\ Tcp /\ thread = "loop" /\ queue # <<>>
  /\ serving' = serving \cup {Head(queue)}
  /\ queue' = Tail(queue)
  /\ thread' = IF class = "interface" THEN "recv" ELSE Looped
  /\ UNCHANGED <<class, running, open, stopping, payload, delivered, outcome>>

\* connection_thread: a message cut short is dropped, a whole one goes to the
\* callback, which answers.
ConnectionThread(m) ==
  /\ class = "persistent" /\ m \in serving /\ m.data \in Received
  /\ serving' = serving \ {m}
  /\ delivered' = IF m.data = "whole" THEN delivered \cup {m} ELSE delivered
  /\ outcome' = [c \in Client |->
       IF c = m.from /\ m.data = "whole" /\ outcome[c] = "sent" THEN "reply" ELSE outcome[c]]
  /\ UNCHANGED <<class, running, thread, open, stopping, queue, payload>>

\* TcpInterface, when recv() returns: the finally clause calls the callback even
\* with a part.  The return before it then ends the server's thread, unless the
\* connection was reset or the callback raises.  With nothing received the
\* payload is that of the connection before: it is delivered again, as this
\* sender's.  The first time it is unbound, which raises and is passed over.
ServeConnection(m) ==
  /\ class = "interface" /\ m \in serving /\ m.data \in Received
  /\ serving' = serving \ {m}
  /\ payload' = IF m.data = "empty" THEN payload ELSE m.data
  /\ delivered' = IF payload' = "unbound" THEN delivered
                  ELSE delivered \cup {[from |-> m.from, data |-> payload']}
  /\ thread' = Looped \/ (m.data = "part" /\ thread' = "ended")
  /\ UNCHANGED <<class, running, open, stopping, queue, outcome>>

\* A silent client is heard of again: the rest arrives, or the end of what it sent.
Speak(m) ==
  /\ m \in serving /\ m.data = "silent"
  /\ \E data \in Received :
       serving' = (serving \ {m}) \cup {[from |-> m.from, data |-> data]}
  /\ UNCHANGED <<class, running, thread, open, stopping, queue, payload, delivered, outcome>>

\* UdpInterface: what the callback raises is passed over.
ReceiveDatagram ==
  /\ class = "udp" /\ thread = "loop" /\ queue # <<>>
  /\ delivered' = delivered \cup {Head(queue)}
  /\ queue' = Tail(queue) /\ thread' = Looped
  /\ UNCHANGED <<class, running, open, stopping, serving, payload, outcome>>

-----------------------------------------------------------------------------
(* stop(): running is reset, a "bye" wakes the thread, the socket is closed. *)

Stop ==
  /\ stopping = "no"
  /\ running' = FALSE /\ stopping' = "bye"
  /\ UNCHANGED <<class, thread, open, queue, serving, payload, delivered, outcome>>

\* Slip: nothing wakes the thread.
ByeUnsent ==
  /\ stopping = "bye" /\ stopping' = "close"
  /\ UNCHANGED <<class, running, thread, open, queue, serving, payload, delivered, outcome>>

Bye ==
  /\ stopping = "bye" /\ stopping' = "close"
  /\ IF Tcp \/ Len(queue) < Buffer THEN Arrives(Self, "whole") ELSE UNCHANGED queue
  /\ UNCHANGED <<class, running, thread, open, serving, payload, delivered, outcome>>

\* A thread that waits in accept(), recv() or recvfrom() goes on waiting.
Close ==
  /\ stopping = "close" /\ stopping' = "stopped"
  /\ open' = FALSE
  /\ UNCHANGED <<class, running, thread, queue, serving, payload, delivered, outcome>>

-----------------------------------------------------------------------------
Serve == Accept \/ ReceiveDatagram \/ \E m \in serving : ServeConnection(m)

Next ==
  \/ \E c \in Client : SendPersistent(c) \/ GiveUp(c) \/ SendInterface(c) \/ SendUdp(c)
  \/ Serve \/ (\E m \in serving : ConnectionThread(m) \/ Speak(m))
  \/ Stop \/ Bye \/ Close

\* The server's thread runs, and so does stop().  A silent client need not speak.
Fairness ==
  WF_transportVars(Serve) /\ WF_transportVars(Bye) /\ WF_transportVars(Close)

Spec == Init /\ [][Next]_transportVars /\ Fairness

\* The thread of TcpInterface is in a recv() that does not return.
Held == thread = "recv" /\ \E m \in serving : m.data = "silent"

\* stop() ends the server's thread, which waits in a call without a timeout: the
\* "bye" reaches it, or was dropped because what fills the buffer wakes it.  Only
\* one client that has fallen silent for ever in TcpInterface's recv() keeps it.
StopEndsThread == (stopping # "no") ~> [](thread = "ended" \/ Held)

\* Once stop() is about to close the socket, the server's thread does not wait
\* in accept() or recvfrom() for something that is not there: it has ended, has
\* something to take up, or is receiving from a connection it has accepted.
NeverStranded ==
  stopping \in {"close", "stopped"} =>
    thread = "ended" \/ queue # <<>> \/ (thread = "recv" /\ serving # {})
=============================================================================
