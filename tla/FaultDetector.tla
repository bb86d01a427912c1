---------------------------- MODULE FaultDetector ----------------------------
(* The fault detector of one node (classes/fault/detector.py), over the      *)
(* fixed list of servers of the Global membership and the request and reply  *)
(* of TcpPersistent.  Simple asks every server by TCP each second; Fast      *)
(* broadcasts by UDP and suspects who was not heard for `pickup`.            *)
(*                                                                           *)
(* Every beacon, suspicion and echo is a thread of its own.  A thread's step *)
(* is one access to the shared lists, with the test that guards it, or one   *)
(* request; between two steps any other thread may run.                      *)
EXTENDS Integers, Sequences, FiniteSets, FiniteSetsExt, SequencesExt

CONSTANTS
  Peer,       \* the servers of Membership.get_servers() that this instance follows
  Other,      \* the rest of them, this node excluded: up, and in no list
  Leader,     \* set_leader(); may be no peer
  Subscriber, \* those that sampled this node for their echoes
  Slot,       \* threads a peer's beacons may occupy at a time (a bound)
  SampleSize, EchoThreshold,   \* echo_sample_size, echo_threshold
  Tries,      \* rounds of an echo job
  MaxFlaps,   \* failures and recoveries per peer (a bound)
  MaxEchoes,  \* echoes received (a bound)
  MaxLost,    \* beacons of a live peer lost or late (a bound)
  MaxDisabled \* uses of disable() (a bound)

ASSUME PeersAssumption ==
  /\ IsFiniteSet(Peer) /\ IsFiniteSet(Other) /\ Peer \cap Other = {}
  /\ Subscriber \subseteq Peer \cup Other
  /\ SampleSize \in 0..Cardinality(Peer)     \* else random.sample raises
  /\ EchoThreshold \in Nat \ {0} /\ Tries \in Nat \ {0}

VARIABLES
  kind,       \* which class Node.__init__ constructs
  phase,      \* "off", "started", "on", "disabled"
  sample,     \* echo_sample: peers that still have to accept the subscription
  running,    \* rows of each peer in the list running
  stale,      \* peers whose row is older than pickup (Fast)
  echoes,     \* the dict suspect: echoers of a suspicion, None if there is none
  faulty,     \* entries of each peer in the list faulty
  subscribers,\* echo_subscribers
  beat,       \* the threads of a peer: answers, beacons and echo jobs
  watch,      \* how many suspicion threads of a peer are at each step
  refreshing, \* the peer whose row _refresh is about to remove, if any
  raced,      \* peers whose fresh row _refresh removed
  reported,   \* the leader's fault was given to the callbacks
  up, flaps, echoed, lost, disabled   \* the peers, and the bounds' counters

lists == <<running, stale, echoes, faulty>>
world == <<up, flaps, echoed, lost, disabled>>
vars == <<kind, phase, sample, lists, subscribers, beat, watch, refreshing,
          raced, reported, world>>

None == -1
Nobody == "nobody"
Steps == {"watch", "declare", "report", "forget"}
Idle == [pc |-> "idle", job |-> <<>>, tries |-> 0]
At(pc) == [Idle EXCEPT !.pc = pc]
EchoJob == [pc |-> "echo", job |-> subscribers, tries |-> Tries]

Active == phase \in {"started", "on"}
Simple == kind = "Simple"
Fast == kind = "Fast"
Decrement(n) == IF n > 0 THEN n - 1 ELSE 0
Quorum == SampleSize \div EchoThreshold

\* What TcpPersistent.send gives back: the reply, ['TIMEOUT'] if the connection
\* is refused, and None on any other failure, an expired timer included.
State(p) == IF p \in Peer THEN up[p] ELSE "up"
Outcome(p) ==
  CASE State(p) = "up" -> {"OK"} \cup (IF lost < MaxLost THEN {"nothing"} ELSE {})
    [] State(p) = "down" -> {"TIMEOUT"}
    [] State(p) = "cut" -> {"nothing"}
\* A live peer that does not answer uses up the bound.
Spend(p, answer) == lost' = lost + (IF State(p) = "up" /\ answer = "nothing" THEN 1 ELSE 0)

Init ==
  /\ kind \in {"Simple", "Fast"}
  /\ phase = "off" /\ sample = {}
  /\ running = [p \in Peer |-> 0] /\ stale = {}
  /\ echoes = [p \in Peer |-> None] /\ faulty = [p \in Peer |-> 0]
  /\ subscribers = <<>>
  /\ beat = [p \in Peer |-> [s \in Slot |-> Idle]]
  /\ watch = [p \in Peer |-> [k \in Steps |-> 0]]
  /\ refreshing = Nobody /\ raced = {} /\ reported = FALSE
  /\ up = [p \in Peer |-> "up"] /\ flaps = [p \in Peer |-> 0]
  /\ echoed = 0 /\ lost = 0 /\ disabled = 0

-----------------------------------------------------------------------------
(* Starting and stopping                                                    *)

\* start(): the interfaces and the scheduler, before _initialize.
Start ==
  /\ phase = "off" /\ phase' = "started"
  /\ UNCHANGED <<kind, sample, lists, subscribers, beat, watch, refreshing, raced, reported, world>>

\* _initialize: Simple copies the server list, Fast appends a row per server to
\* what beacons have put there meanwhile.
Initialize ==
  /\ Simple /\ phase = "started" /\ phase' = "on"
  /\ running' = [p \in Peer |-> 1]
  /\ sample' \in kSubset(SampleSize, Peer)
  /\ UNCHANGED <<kind, stale, echoes, faulty, subscribers, beat, watch, refreshing, raced, reported, world>>

InitializeFast ==
  /\ Fast /\ phase = "started" /\ phase' = "on"
  /\ running' = [p \in Peer |-> running[p] + 1]
  /\ sample' \in kSubset(SampleSize, Peer)
  /\ UNCHANGED <<kind, stale, echoes, faulty, subscribers, beat, watch, refreshing, raced, reported, world>>

\* Its loop asks each sampled peer again until it accepts.
Subscribe(p) ==
  /\ phase = "on" /\ p \in sample
  /\ "OK" \in Outcome(p)
  /\ sample' = sample \ {p}
  /\ UNCHANGED <<kind, phase, lists, subscribers, beat, watch, refreshing, raced, reported, world>>

\* disable() stops the jobs and the interfaces; the threads go on.
Disable ==
  /\ phase = "on" /\ sample = {} /\ disabled < MaxDisabled
  /\ refreshing = Nobody       \* scheduler.shutdown waits for a running job
  /\ phase' = "disabled" /\ disabled' = disabled + 1
  /\ UNCHANGED <<kind, sample, lists, subscribers, beat, watch, refreshing, raced, reported, up, flaps, echoed, lost>>

\* enable() makes them anew, with the lists as they are.
Enable ==
  /\ phase = "disabled" /\ phase' = "on"
  /\ UNCHANGED <<kind, sample, lists, subscribers, beat, watch, refreshing, raced, reported, world>>

-----------------------------------------------------------------------------
(* A beacon and its answer                                                  *)

\* Simple: the job starts one thread per server.
SendBeacon(p, s) ==
  /\ Simple /\ Active /\ beat[p][s] = Idle
  /\ beat' = [beat EXCEPT ![p][s] = At("sent")]
  /\ UNCHANGED <<kind, phase, sample, lists, subscribers, watch, refreshing, raced, reported, world>>

BeaconAnswer(p, s) ==
  /\ beat[p][s].pc = "sent"
  /\ \E answer \in Outcome(p) :
       /\ beat' = [beat EXCEPT ![p][s] =
            CASE answer = "OK" -> At("append")
              [] answer = "TIMEOUT" -> At("suspect")
              [] answer = "nothing" -> Idle]      \* None[0] raises, and is passed over
       /\ Spend(p, answer)
  /\ UNCHANGED <<kind, phase, sample, lists, subscribers, watch, refreshing, raced, reported, up, flaps, echoed, disabled>>

\* Fast: one thread handles the beacons of all peers, one after the other.
RecvBeacon(p, s) ==
  /\ Fast /\ Active /\ up[p] = "up"
  /\ beat[p][s] = Idle
  /\ \A q \in Peer, r \in Slot : beat[q][r].pc # "append"
  /\ beat' = [beat EXCEPT ![p][s] = At("append")]
  /\ UNCHANGED <<kind, phase, sample, lists, subscribers, watch, refreshing, raced, reported, world>>

\* Slip: one who answers stays suspected.
NoteSuspect(p, s) ==
  /\ beat[p][s].pc = "append"
  /\ running' = [running EXCEPT ![p] = IF @ = 0 THEN 1 ELSE @]
  /\ stale' = stale \ {p} /\ raced' = raced \ {p}
  /\ faulty' = [faulty EXCEPT ![p] = Decrement(@)]
  /\ beat' = [beat EXCEPT ![p][s] = Idle]
  /\ UNCHANGED <<kind, phase, sample, echoes, subscribers, watch, refreshing, reported, world>>

\* One who answers has a row, no suspicion, and one entry in faulty less.
NoteRunning(p, s) ==
  /\ beat[p][s].pc = "append"
  /\ running' = [running EXCEPT ![p] = IF @ = 0 THEN 1 ELSE @]
  /\ stale' = stale \ {p} /\ raced' = raced \ {p}
  /\ echoes' = [echoes EXCEPT ![p] = None]
  /\ faulty' = [faulty EXCEPT ![p] = Decrement(@)]       \* list.remove
  /\ beat' = [beat EXCEPT ![p][s] = Idle]
  /\ UNCHANGED <<kind, phase, sample, subscribers, watch, refreshing, reported, world>>

-----------------------------------------------------------------------------
(* Suspicion                                                                *)

\* Slip: no thread watches the suspicion.
RaiseUnwatched(p, s) ==
  /\ beat[p][s].pc = "suspect"
  /\ echoes' = [echoes EXCEPT ![p] = IF echoes[p] = None /\ faulty[p] = 0 THEN 0 ELSE @]
  /\ beat' = [beat EXCEPT ![p][s] = EchoJob]
  /\ UNCHANGED <<kind, phase, sample, running, stale, faulty, subscribers, watch, refreshing, raced, reported, world>>

\* Simple, after TIMEOUT: "We suspect a failure".
Raise(p, s) ==
  /\ beat[p][s].pc = "suspect"
  /\ LET new == echoes[p] = None /\ faulty[p] = 0 IN
       /\ echoes' = [echoes EXCEPT ![p] = IF new THEN 0 ELSE @]
       /\ watch' = [watch EXCEPT ![p].watch = IF new THEN @ + 1 ELSE @]
  /\ beat' = [beat EXCEPT ![p][s] = EchoJob]
  /\ UNCHANGED <<kind, phase, sample, running, stale, faulty, subscribers, refreshing, raced, reported, world>>

\* for node in echo_job: the list an element is removed from under its own
\* iteration, so that the one behind it is passed over in this round.
Round(job, gone) ==
  LET after[i \in 0..Len(job)] ==     \* the list, and the next index, after i turns
        IF i = 0 THEN <<job, 1>>
        ELSE LET l == after[i - 1][1]
                 at == after[i - 1][2]
             IN IF at > Len(l) THEN <<l, at>>
                ELSE <<IF l[at] \in gone THEN RemoveAt(l, at) ELSE l, at + 1>>
  IN after[Len(job)][1]

\* _send_echo, a round at a time: struck off are p, those suspected or faulty
\* themselves, and those that answer OK.
Echo(p, s) ==
  /\ beat[p][s].pc = "echo"
  /\ LET b == beat[p][s]
         skipped == {q \in ToSet(b.job) :
                       q = p \/ (q \in Peer /\ (faulty[q] > 0 \/ echoes[q] # None))}
     IN \/ /\ b.job = <<>> \/ b.tries = 0
           /\ beat' = [beat EXCEPT ![p][s] = IF Simple THEN At("remove") ELSE Idle]
           /\ UNCHANGED lost
        \/ /\ b.job # <<>> /\ b.tries > 0
           /\ \E silent \in SUBSET (ToSet(b.job) \ skipped) :
                /\ \A q \in ToSet(b.job) \ skipped :
                     (IF q \in silent THEN {"nothing", "TIMEOUT"} ELSE {"OK"})
                       \cap Outcome(q) # {}
                /\ beat' = [beat EXCEPT ![p][s] =
                     [b EXCEPT !.job = Round(@, ToSet(@) \ silent), !.tries = @ - 1]]
                /\ lost' = IF \E q \in silent : State(q) = "up" THEN lost + 1 ELSE lost
  /\ UNCHANGED <<kind, phase, sample, lists, subscribers, watch, refreshing, raced, reported, up, flaps, echoed, disabled>>

\* Simple, at the end: self.running.remove(node).
NotRunning(p, s) ==
  /\ beat[p][s].pc = "remove"
  /\ running' = [running EXCEPT ![p] = Decrement(@)]
  /\ beat' = [beat EXCEPT ![p][s] = Idle]
  /\ UNCHANGED <<kind, phase, sample, stale, echoes, faulty, subscribers, watch, refreshing, raced, reported, world>>

\* Fast: time passes without a beacon; one of a live peer was lost, or this
\* node was not listening.  pickup is longer than the handling of a beacon, of
\* a stale row or of a fault.
Age(p) ==
  /\ Fast /\ running[p] > 0 /\ p \notin stale /\ refreshing # p
  /\ \A s \in Slot : beat[p][s].pc \in {"idle", "echo"}
  /\ \A k \in Steps \ {"watch"} : watch[p][k] = 0
  /\ LET late == up[p] = "up" /\ phase # "disabled" IN
       /\ late => lost < MaxLost
       /\ lost' = lost + (IF late THEN 1 ELSE 0)
  /\ stale' = stale \cup {p}
  /\ UNCHANGED <<kind, phase, sample, running, echoes, faulty, subscribers, beat, watch, refreshing, raced, reported, up, flaps, echoed, disabled>>

\* Slip: no watch if the peer is suspected already.
RefreshOnce(p) ==
  /\ Fast /\ Active /\ refreshing = Nobody
  /\ running[p] > 0 /\ p \in stale
  /\ echoes' = [echoes EXCEPT ![p] = IF @ = None THEN 0 ELSE @]
  /\ watch' = [watch EXCEPT ![p].watch = IF echoes[p] = None THEN @ + 1 ELSE @]
  /\ refreshing' = p
  /\ UNCHANGED <<kind, phase, sample, running, stale, faulty, subscribers, beat, raced, reported, world>>

\* Fast: _refresh suspects a peer not heard for pickup,
Refresh(p) ==
  /\ Fast /\ Active /\ refreshing = Nobody
  /\ running[p] > 0 /\ p \in stale
  /\ echoes' = [echoes EXCEPT ![p] = IF @ = None THEN 0 ELSE @]
  /\ watch' = [watch EXCEPT ![p].watch = @ + 1]
  /\ refreshing' = p
  /\ UNCHANGED <<kind, phase, sample, running, stale, faulty, subscribers, beat, raced, reported, world>>

\* and then removes the row, whatever a beacon wrote in it meanwhile.
RefreshRemove(s) ==
  LET p == refreshing IN
  /\ p # Nobody /\ beat[p][s] = Idle
  /\ running' = [running EXCEPT ![p] = Decrement(@)]
  /\ raced' = IF p \in stale THEN raced ELSE raced \cup {p}
  /\ beat' = [beat EXCEPT ![p][s] = EchoJob]
  /\ refreshing' = Nobody
  /\ UNCHANGED <<kind, phase, sample, stale, echoes, faulty, subscribers, watch, reported, world>>

-----------------------------------------------------------------------------
(* The threads that watch a suspicion                                       *)

Go(p, from, to) ==
  /\ watch[p][from] > 0
  /\ watch' = [watch EXCEPT ![p] = [k \in Steps |->
       @[k] - (IF k = from THEN 1 ELSE 0) + (IF k = to THEN 1 ELSE 0)]]

\* _suspect_thread: the suspicion is gone (KeyError), or enough peers share it.
Poll(p) ==
  /\ \/ echoes[p] = None /\ Go(p, "watch", "end")
     \/ echoes[p] # None /\ echoes[p] >= Quorum /\ Go(p, "watch", "declare")
  /\ UNCHANGED <<kind, phase, sample, lists, subscribers, beat, refreshing, raced, reported, world>>

\* Its timeout declares the fault without another look.
Expire(p) ==
  /\ Go(p, "watch", "declare")
  /\ UNCHANGED <<kind, phase, sample, lists, subscribers, beat, refreshing, raced, reported, world>>

\* Slip: the leader is reported only by the first declaration.
DeclareOnce(p) ==
  /\ Go(p, "declare", IF p = Leader /\ faulty[p] > 0 THEN "report" ELSE "forget")
  /\ faulty' = [faulty EXCEPT ![p] = @ + 1]
  /\ UNCHANGED <<kind, phase, sample, running, stale, echoes, subscribers, beat, refreshing, raced, reported, world>>

\* _fault_detected: faulty.append,
Declare(p) ==
  /\ Go(p, "declare", IF p = Leader THEN "report" ELSE "forget")
  /\ faulty' = [faulty EXCEPT ![p] = @ + 1]
  /\ UNCHANGED <<kind, phase, sample, running, stale, echoes, subscribers, beat, refreshing, raced, reported, world>>

\* the callbacks of the leader's fault (Simple waits until it is not running),
Report(p) ==
  /\ Simple => running[p] = 0
  /\ Go(p, "report", "forget")
  /\ reported' = TRUE
  /\ UNCHANGED <<kind, phase, sample, lists, subscribers, beat, refreshing, raced, world>>

\* del self.suspect[node]; a KeyError ends the thread as well.
Forget(p) ==
  /\ Go(p, "forget", "end")
  /\ echoes' = [echoes EXCEPT ![p] = None]
  /\ UNCHANGED <<kind, phase, sample, running, stale, faulty, subscribers, beat, refreshing, raced, reported, world>>

-----------------------------------------------------------------------------
(* Requests of other servers                                                *)

RecvSubscribe(q) ==
  /\ Active /\ State(q) = "up" /\ ~Contains(subscribers, q)
  /\ subscribers' = Append(subscribers, q)
  /\ UNCHANGED <<kind, phase, sample, lists, beat, watch, refreshing, raced, reported, world>>

\* Simple: an echo strikes the one who sent it off the running list.
RecvEcho(q, p) ==
  /\ Simple /\ Active /\ State(q) = "up" /\ p # q
  /\ faulty[p] = 0 /\ echoed < MaxEchoes
  /\ running' = [r \in Peer |-> IF r = q THEN 0 ELSE running[r]]
  /\ echoes' = [echoes EXCEPT ![p] = IF @ = None THEN 1 ELSE @ + 1]
  /\ watch' = [watch EXCEPT ![p].watch = IF echoes[p] = None THEN @ + 1 ELSE @]
  /\ echoed' = echoed + 1
  /\ UNCHANGED <<kind, phase, sample, stale, faulty, subscribers, beat, refreshing, raced, reported, up, flaps, lost, disabled>>

\* Fast: it only counts; no thread is started for it.
RecvEchoFast(q, p) ==
  /\ Fast /\ Active /\ State(q) = "up" /\ p # q
  /\ faulty[p] = 0 /\ echoed < MaxEchoes
  /\ echoes' = [echoes EXCEPT ![p] = IF @ = None THEN 1 ELSE @ + 1]
  /\ echoed' = echoed + 1
  /\ UNCHANGED <<kind, phase, sample, running, stale, faulty, subscribers, beat, watch, refreshing, raced, reported, up, flaps, lost, disabled>>

\* A server stops ("down"), or the way to it is lost ("cut"), and comes back.
\* Fast asks nobody and cannot tell the two apart.
Fail(p, how) ==
  /\ Fast => how = "down"
  /\ up[p] = "up" /\ up' = [up EXCEPT ![p] = how]
  /\ flaps[p] < MaxFlaps /\ flaps' = [flaps EXCEPT ![p] = @ + 1]
  /\ UNCHANGED <<kind, phase, sample, lists, subscribers, beat, watch, refreshing, raced, reported, echoed, lost, disabled>>

Recover(p) ==
  /\ up[p] # "up" /\ up' = [up EXCEPT ![p] = "up"]
  /\ reported' = (reported /\ p # Leader)
  /\ UNCHANGED <<kind, phase, sample, lists, subscribers, beat, watch, refreshing, raced, flaps, echoed, lost, disabled>>

-----------------------------------------------------------------------------
Beat(p, s) ==
  \/ BeaconAnswer(p, s) \/ NoteRunning(p, s)
  \/ Raise(p, s) \/ Echo(p, s) \/ NotRunning(p, s)

Watch(p) == Poll(p) \/ Declare(p) \/ Report(p) \/ Forget(p)

Next ==
  \/ Start \/ Initialize \/ InitializeFast \/ Disable \/ Enable
  \/ \E p \in Peer :
       \/ Subscribe(p)
       \/ Age(p) \/ Refresh(p) \/ Expire(p) \/ Watch(p) \/ Recover(p)
       \/ \E q \in Peer \cup Other : RecvEcho(q, p) \/ RecvEchoFast(q, p)
  \/ \E q \in Subscriber : RecvSubscribe(q)
  \/ \E p \in Peer, s \in Slot : SendBeacon(p, s) \/ RecvBeacon(p, s) \/ Beat(p, s)
  \/ \E s \in Slot : RefreshRemove(s)
  \/ \E p \in Peer, how \in {"down", "cut"} : Fail(p, how)

Spec == Init /\ [][Next]_vars

\* Every thread goes on, the jobs run each second, pickup and timeout expire,
\* and a live peer's beacons arrive (MaxLost of them may not).
Fairness ==
  \A p \in Peer :
    /\ WF_vars(\E s \in Slot : SendBeacon(p, s))
    /\ SF_vars(\E s \in Slot : RecvBeacon(p, s))
    /\ \A s \in Slot : WF_vars(Beat(p, s))
    /\ WF_vars(up[p] # "up" /\ Age(p)) /\ SF_vars(Refresh(p))
    /\ WF_vars(\E s \in Slot : RefreshRemove(s))
    /\ WF_vars(Expire(p)) /\ WF_vars(Declare(p)) /\ WF_vars(Report(p)) /\ WF_vars(Forget(p))

FairSpec == Spec /\ Fairness

-----------------------------------------------------------------------------
(* Properties                                                               *)

Watched(p) == \E k \in Steps : watch[p][k] > 0

\* Fast, once initialized: no peer falls out of the lists.  Each is running,
\* watched by a suspicion's thread or faulty, whatever beacons, timeouts and
\* refreshes do to the three lists at once, except one whose row _refresh
\* removed although a beacon had just made it fresh.
Tracked ==
  Fast /\ phase \notin {"off", "started"} =>
    \A p \in Peer : running[p] > 0 \/ Watched(p) \/ faulty[p] > 0 \/ p \in raced

\* A peer that stays down becomes faulty for good, unless _refresh has lost it.
\* (Simple never finds one out of reach: its beacon gives None, not TIMEOUT.)
FaultFound ==
  \A p \in Peer :
    <>[](phase = "on" /\ up[p] = "down") => <>[](faulty[p] > 0 \/ p \in raced)

\* "If it is ok, it will be fixed" (_suspect_thread): a peer that stays up ends
\* in running alone, after any number of wrong suspicions and faults.
AnswersFix ==
  \A p \in Peer :
    <>[](phase = "on" /\ up[p] = "up")
      => <>[](running[p] > 0 /\ echoes[p] = None /\ faulty[p] = 0)

\* A leader that stays down is reported to the callbacks, although Simple waits
\* without end for another thread to take it out of running.
LeaderReported ==
  <>[](phase = "on" /\ Leader \in Peer /\ up[Leader] = "down") => <>(reported \/ Leader \in raced)
=============================================================================
