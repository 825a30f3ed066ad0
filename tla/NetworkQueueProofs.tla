-------------------------- MODULE NetworkQueueProofs --------------------------
(***************************************************************************)
(* The queue of network PDUs is a user of the request queue: each of its   *)
(* steps is a step of GattQueue or none, and so what is proved of the      *)
(* request queue holds under it.  Only the command timeout can deadlock    *)
(* the request queue, and a PDU is left behind only by a poll that had     *)
(* found nothing, whatever the number of threads and requests.             *)
(***************************************************************************)
EXTENDS NetworkQueue, GattQueueProofs

\* The Mesh-Controller thread is one of the callers.
LEMMA MeshFacts == Mesh \in Callers /\ Mesh \in Threads
    BY NetworkQueueAssumption, ThreadFacts

-----------------------------------------------------------------------------
(* The queue of network PDUs.                                               *)

\* A thread that has prepared a PDU and has not yet looked at networkingBusy has
\* the PDU.
HasPdu == \A t \in Callers : In(t, "add") \/ In(t, "check") => pdu[t] \in Requests

NetTypes ==
    /\ mNetworkingQueue \in Seq(Requests)
    /\ networkingBusy \in BOOLEAN
    /\ sendingTask \in BOOLEAN
    /\ busyLock \in Callers \cup {None}
    /\ net \in [Callers -> {"idle", "direct", "add", "check", "poll", "sending", "null"}]
    /\ pdu \in [Callers -> Requests \cup {None}]
    /\ prepared \subseteq Requests
    /\ missed \subseteq Requests
    /\ \A t \in Callers : busyLock = t => net[t] \in {"direct", "poll", "sending", "null"}

NetInv == NetTypes /\ HasPdu

IInv == GattInv /\ NetInv

\* Both queues begin empty.
LEMMA InitInv == Init => IInv
<1> SUFFICES ASSUME Init PROVE IInv
    OBVIOUS
<1>1. GattInv
    BY GattInitInv DEF Init
<1>2. NetInv
    BY ThreadFacts, QueueFacts DEF Init, NetInv, NetTypes, HasPdu, In
<1> QED BY <1>1, <1>2 DEF IInv

\* The lock that is held and the PDU at hand agree with the place in
\* onNetworkingPduPrepared and in pollNetworkingQueue.
LEMMA NetStepInv ==
    ASSUME NetInv, [Next]_vars
    PROVE  NetInv'
<1> USE ThreadFacts, MeshFacts, QueueFacts DEF NetInv, NetTypes, HasPdu, In, NetGoto, Ready, netVars
<1>1. ASSUME NEW t \in Callers, NEW p \in Requests, PreparedDirect(t, p)
      PROVE  NetInv'
    BY <1>1 DEF PreparedDirect
<1>2. ASSUME NEW t \in Callers, NEW p \in Requests, PreparedQueued(t, p)
      PROVE  NetInv'
    BY <1>2 DEF PreparedQueued
<1>3. ASSUME NEW t \in Callers, DirectSent(t)
      PROVE  NetInv'
    BY <1>3 DEF DirectSent
<1>4. ASSUME NEW t \in Callers, AddPdu(t)
      PROVE  NetInv'
    BY <1>4 DEF AddPdu
<1>5. ASSUME NEW t \in Callers, CheckBusy(t)
      PROVE  NetInv'
  <2>1. CASE networkingBusy
      BY <1>5, <2>1 DEF CheckBusy
  <2>2. CASE ~networkingBusy
      BY <1>5, <2>2 DEF CheckBusy
  <2> QED BY <2>1, <2>2
<1>6. ASSUME NEW t \in Callers, PollPdu(t)
      PROVE  NetInv'
    BY <1>6 DEF PollPdu
<1>7. ASSUME NEW t \in Callers, PostTask(t)
      PROVE  NetInv'
    BY <1>7 DEF PostTask
<1>8. ASSUME NEW t \in Callers, PollNull(t)
      PROVE  NetInv'
    BY <1>8 DEF PollNull
<1>9. ASSUME NEW t \in Callers, ResetBusy(t)
      PROVE  NetInv'
    BY <1>9 DEF ResetBusy
<1>10. ASSUME TaskRuns
       PROVE  NetInv'
    BY <1>10 DEF TaskRuns
<1>11. ASSUME ReliableMessageComplete \/ Disconnected
       PROVE  NetInv'
    BY <1>11 DEF ReliableMessageComplete, Disconnected, Empty
<1>12. ASSUME UNCHANGED netVars
       PROVE  NetInv'
    BY <1>12
<1> QED
    BY <1>1, <1>2, <1>3, <1>4, <1>5, <1>6, <1>7, <1>8, <1>9, <1>10, <1>11, <1>12
    DEF Next, ProxyInit, vars

\* A step of the queue of network PDUs is a step of the request queue or leaves
\* it alone: onCommandPrepared is its sendRequest, with a request that is one.
LEMMA StepIsGattStep ==
    ASSUME NetInv, [Next]_vars
    PROVE  [GattNext]_gattVars
<1>1. ASSUME NEW t \in Callers, NEW p \in Requests, PreparedDirect(t, p)
      PROVE  GattNext
    BY <1>1 DEF PreparedDirect, GattNext
<1>2. ASSUME NEW t \in Callers, PollPdu(t)
      PROVE  GattNext
  <2>1. Head(mNetworkingQueue) \in Requests
      BY <1>2, QueueFacts DEF PollPdu, NetInv, NetTypes
  <2> QED BY <1>2, <2>1 DEF PollPdu, GattNext
<1>3. ASSUME NEW r \in Notify, ProxyInit(r)
      PROVE  GattNext
    BY <1>3, GattQueueAssumption, MeshFacts DEF ProxyInit, GattNext
<1>4. ASSUME Disconnected
      PROVE  GattNext
    BY <1>4 DEF Disconnected, GattNext, GattStep
<1>5. ASSUME \/ \E t \in Callers, p \in Requests : PreparedQueued(t, p)
             \/ \E t \in Callers : \/ DirectSent(t) \/ AddPdu(t) \/ CheckBusy(t)
                                   \/ PostTask(t) \/ PollNull(t) \/ ResetBusy(t)
             \/ TaskRuns \/ ReliableMessageComplete
             \/ UNCHANGED vars
      PROVE  UNCHANGED gattVars
    BY <1>5
    DEF PreparedQueued, DirectSent, AddPdu, CheckBusy, PostTask, PollNull, ResetBusy, TaskRuns,
        ReliableMessageComplete, vars
<1>6. ASSUME \/ \E t \in Threads : ThreadStep(t)
             \/ PlatformAnswers \/ MtuChanged
             \/ \E what \in {"success", "error"} : Poll(what)
             \/ Complete
             \/ TimeoutDue \/ TimeoutPeek \/ TimeoutDrop
             \/ Disconnect \/ LinkUp
      PROVE  GattNext
    BY <1>6 DEF GattNext, GattStep
<1> QED BY <1>1, <1>2, <1>3, <1>4, <1>5, <1>6 DEF Next

\* The inductive invariant of the two queues.
LEMMA StepInv == IInv /\ [Next]_vars => IInv'
    BY NetStepInv, StepIsGattStep, GattStepInv DEF IInv

\* In every state a thread that holds a lock is where the code holds it.
LEMMA Invariance == Spec => []IInv
    BY InitInv, StepInv, PTL DEF Spec

-----------------------------------------------------------------------------
\* The types of both queues, and where the threads are that hold a lock: the
\* lock of the request queue is held over postRequest by the command timeout
\* alone (CommandTimeoutRunnable.run).
THEOREM TypeCorrect == Spec => []TypeOK
<1>1. IInv => TypeOK
    BY DEF IInv, GattInv, NetInv, NetTypes, TypeOK
<1> QED BY <1>1, Invariance, PTL

\* NetworkingController uses GattConnection as sendRequest allows: what the
\* request queue does under it is a behaviour of the request queue.
THEOREM ImplementsGattQueue == Spec => GattSpec
<1>1. Init => GattInit
    BY DEF Init
<1>2. IInv /\ [Next]_vars => [GattNext]_gattVars
    BY StepIsGattStep DEF IInv
<1> QED BY <1>1, <1>2, Invariance, PTL DEF Spec, GattSpec

\* Two threads wait for each other's lock only if one is the main looper in the
\* command timeout: any other thread that waits for `this` in postRequest holds
\* nothing, and one that holds the queue is in processRequest and waits for
\* nothing.
THEOREM OnlyTimeoutClosesCircle == Spec => []CircularWaitNeedsTimeout
<1>1. GattInv => CircularWaitNeedsTimeout
  <2> SUFFICES ASSUME GattInv,
                      NEW t \in Threads, NEW u \in Threads,
                      WaitsFor(t, u), WaitsFor(u, t), t # Main, u # Main
               PROVE  FALSE
      BY DEF CircularWaitNeedsTimeout
  <2>1. \A x \in {t, u} : /\ monitor = x => pc[x] \in InMonitor
                          /\ queueLock = x => pc[x] = "process"
      BY DEF GattInv, GattTypeOK, InQueueLock
  <2>2. \A x \in {t, u} : pc[x] # "process"
      BY DEF WaitsFor, At
  <2>3. queueLock # t /\ queueLock # u
      BY <2>1, <2>2
  <2>4. pc[t] = "post" /\ monitor = u
      BY <2>3 DEF WaitsFor, At
  <2>5. pc[u] = "post"
      BY <2>3 DEF WaitsFor, At
  <2> QED BY <2>1, <2>4, <2>5 DEF InMonitor
<1> QED BY <1>1, Invariance, PTL DEF IInv

\* What the request queue promises holds under the queue of network PDUs: see
\* GivenAndReportedTruly.
THEOREM NeverGivenTwice == Spec => []ReportedTruly
    BY ImplementsGattQueue, GivenAndReportedTruly, PTL

-----------------------------------------------------------------------------
(* Who polls the queue of network PDUs.                                     *)

\* A thread that finds networkingBusy set finds the task posted or somebody who
\* polls, or who has just found nothing.
BusyInv ==
    networkingBusy =>
        sendingTask \/ \E t \in Callers : net[t] \in {"poll", "sending", "null"}

\* While nobody polls, what is in the queue has just been added or was missed.
LeftInv ==
    \/ sendingTask
    \/ \E t \in Callers : net[t] \in {"poll", "sending"}
    \/ \A i \in 1..Len(mNetworkingQueue) :
           \/ mNetworkingQueue[i] \in missed
           \/ \E t \in Callers : net[t] = "check" /\ pdu[t] = mNetworkingQueue[i]

PollInvs == BusyInv /\ LeftInv

\* Steps that neither begin nor end a poll leave the queue polled as it was.
LEMMA NotPolling ==
    ASSUME PollInvs,
           UNCHANGED <<mNetworkingQueue, networkingBusy, sendingTask, missed>>,
           \A t \in Callers : \/ net'[t] = net[t] /\ pdu'[t] = pdu[t]
                              \/ net[t] \in {"idle", "direct"}
    PROVE  PollInvs'
<1>1. \A t \in Callers : net[t] \in {"poll", "sending", "null", "check"} =>
                             net'[t] = net[t] /\ pdu'[t] = pdu[t]
    OBVIOUS
<1>2. BusyInv'
    BY <1>1 DEF PollInvs, BusyInv
<1>3. LeftInv'
    BY <1>1 DEF PollInvs, LeftInv
<1> QED BY <1>2, <1>3 DEF PollInvs

\* The PDU added is that of the thread that will look at networkingBusy.
LEMMA AddPduPolls ==
    ASSUME NEW t \in Callers, NetInv, PollInvs, AddPdu(t)
    PROVE  PollInvs'
<1> DEFINE q == mNetworkingQueue
<1>1. /\ net[t] = "add" /\ net' = [net EXCEPT ![t] = "check"] /\ q' = Append(q, pdu[t])
      /\ UNCHANGED <<networkingBusy, sendingTask, pdu, missed>>
    BY DEF AddPdu, In, NetGoto
<1>2. /\ pdu[t] \in Requests /\ q \in Seq(Requests)
      /\ net \in [Callers -> {"idle", "direct", "add", "check", "poll", "sending", "null"}]
    BY <1>1 DEF NetInv, NetTypes, HasPdu, In
<1>3. /\ Len(q) \in Nat /\ Len(q') = Len(q) + 1
      /\ \A i \in 1..Len(q) : q'[i] = q[i]
      /\ q'[Len(q) + 1] = pdu[t]
    BY <1>1, <1>2, QueueElements
<1>4. \A u \in Callers : net'[u] = IF u = t THEN "check" ELSE net[u]
    BY <1>1, <1>2
<1>5. \A u \in Callers : net[u] \in {"poll", "sending", "null", "check"} => net'[u] = net[u]
    BY <1>1, <1>4
<1> HIDE DEF q
<1>6. BusyInv'
    BY <1>1, <1>5 DEF PollInvs, BusyInv
<1>7. LeftInv'
  <2>1. CASE \/ sendingTask
             \/ \E u \in Callers : net[u] \in {"poll", "sending"}
      BY <1>1, <1>5, <2>1 DEF LeftInv
  <2>2. CASE \A i \in 1..Len(q) : \/ q[i] \in missed
                                  \/ \E u \in Callers : net[u] = "check" /\ pdu[u] = q[i]
    <3> SUFFICES ASSUME NEW i \in 1..Len(q')
                 PROVE  \/ q'[i] \in missed
                        \/ \E u \in Callers : net'[u] = "check" /\ pdu[u] = q'[i]
        BY <1>1 DEF LeftInv, q
    <3>1. CASE i = Len(q) + 1
        BY <1>3, <1>4, <3>1
    <3>2. CASE i \in 1..Len(q)
        BY <1>3, <1>5, <2>2, <3>2
    <3> QED BY <1>3, <3>1, <3>2
  <2> QED BY <2>1, <2>2 DEF PollInvs, LeftInv, q
<1> QED BY <1>6, <1>7 DEF PollInvs

\* networkingBusy is found set: somebody polls, or the PDU is missed by one who
\* has found nothing and has not reset it yet.  It is found reset: this thread
\* polls.
LEMMA CheckBusyPolls ==
    ASSUME NEW t \in Callers, NetInv, PollInvs, CheckBusy(t)
    PROVE  PollInvs'
<1> DEFINE q == mNetworkingQueue
<1>1. /\ net[t] = "check" /\ q' = q /\ sendingTask' = sendingTask
      /\ pdu' = [pdu EXCEPT ![t] = None]
    BY DEF CheckBusy, In
<1>2. /\ net \in [Callers -> {"idle", "direct", "add", "check", "poll", "sending", "null"}]
      /\ pdu \in [Callers -> Requests \cup {None}]
    BY DEF NetInv, NetTypes
<1>3. CASE networkingBusy
  <2>1. /\ net' = [net EXCEPT ![t] = "idle"] /\ networkingBusy' = networkingBusy
        /\ missed' = IF \E u \in Callers : net[u] = "null" THEN missed \cup {pdu[t]} ELSE missed
      BY <1>3 DEF CheckBusy, In, NetGoto
  <2>2. \A u \in Callers : u # t => net'[u] = net[u] /\ pdu'[u] = pdu[u]
      BY <1>1, <1>2, <2>1
  <2>3. \A u \in Callers : net[u] \in {"poll", "sending", "null"} => net'[u] = net[u]
      BY <1>1, <2>2
  <2>4. BusyInv'
      BY <1>1, <2>1, <2>3 DEF PollInvs, BusyInv
  <2>5. LeftInv'
    <3>1. CASE sendingTask \/ \E u \in Callers : net[u] \in {"poll", "sending"}
        BY <1>1, <2>3, <3>1 DEF LeftInv
    <3>2. CASE ~(sendingTask \/ \E u \in Callers : net[u] \in {"poll", "sending"})
      <4>1. \E u \in Callers : net[u] = "null"
          BY <1>3, <3>2 DEF PollInvs, BusyInv
      <4>2. missed' = missed \cup {pdu[t]}
          BY <2>1, <4>1
      <4>3. \A i \in 1..Len(q) : \/ q[i] \in missed
                                 \/ \E u \in Callers : net[u] = "check" /\ pdu[u] = q[i]
          BY <3>2 DEF PollInvs, LeftInv
      <4>4. \A i \in 1..Len(q) : \/ q[i] \in missed'
                                 \/ \E u \in Callers : net'[u] = "check" /\ pdu'[u] = q[i]
        <5> SUFFICES ASSUME NEW i \in 1..Len(q), q[i] \notin missed'
                     PROVE  \E u \in Callers : net'[u] = "check" /\ pdu'[u] = q[i]
            OBVIOUS
        <5>1. PICK u \in Callers : net[u] = "check" /\ pdu[u] = q[i]
            BY <4>2, <4>3
        <5>2. u # t
            BY <4>2, <5>1
        <5> QED BY <2>2, <5>1, <5>2
      <4> QED BY <1>1, <4>4 DEF LeftInv
    <3> QED BY <3>1, <3>2
  <2> QED BY <2>4, <2>5 DEF PollInvs
<1>4. CASE ~networkingBusy
  <2>1. net' = [net EXCEPT ![t] = "poll"]
      BY <1>4 DEF CheckBusy, NetGoto
  <2>2. net'[t] = "poll"
      BY <1>2, <2>1
  <2> QED BY <2>2 DEF PollInvs, BusyInv, LeftInv
<1> QED BY <1>3, <1>4

\* One who polls leaves the queue polled or empty, and resets networkingBusy only
\* when it has found nothing.
LEMMA PollsOn ==
    ASSUME NEW t \in Callers, NetInv, PollInvs,
           PollPdu(t) \/ PostTask(t) \/ PollNull(t) \/ ResetBusy(t)
    PROVE  PollInvs'
<1>1. net \in [Callers -> {"idle", "direct", "add", "check", "poll", "sending", "null"}]
    BY DEF NetInv, NetTypes
<1>2. CASE PollPdu(t)
  <2>1. net'[t] = "sending"
      BY <1>1, <1>2 DEF PollPdu, NetGoto
  <2> QED BY <2>1 DEF PollInvs, BusyInv, LeftInv
<1>3. CASE PostTask(t)
    BY <1>3 DEF PostTask, PollInvs, BusyInv, LeftInv
<1>4. CASE PollNull(t)
  <2>1. net'[t] = "null" /\ mNetworkingQueue' = <<>>
      BY <1>1, <1>4 DEF PollNull, NetGoto
  <2>2. Len(mNetworkingQueue') = 0
      BY <2>1
  <2> QED BY <2>1, <2>2 DEF PollInvs, BusyInv, LeftInv
<1>5. CASE ResetBusy(t)
  <2>1. /\ net[t] = "null" /\ net' = [net EXCEPT ![t] = "idle"] /\ networkingBusy' = FALSE
        /\ UNCHANGED <<mNetworkingQueue, sendingTask, pdu, missed>>
      BY <1>5 DEF ResetBusy, In, NetGoto
  <2>2. \A u \in Callers : net[u] # "null" => net'[u] = net[u]
      BY <1>1, <2>1
  <2> QED BY <2>1, <2>2 DEF PollInvs, BusyInv, LeftInv
<1> QED BY <1>2, <1>3, <1>4, <1>5

\* Whatever the threads do, what is in the queue is polled, just added or missed.
LEMMA PollStepInv ==
    ASSUME NetInv, PollInvs, [Next]_vars
    PROVE  PollInvs'
<1>1. net \in [Callers -> {"idle", "direct", "add", "check", "poll", "sending", "null"}]
      /\ pdu \in [Callers -> Requests \cup {None}]
    BY DEF NetInv, NetTypes
<1>2. ASSUME NEW t \in Callers, NEW p \in Requests, PreparedDirect(t, p) \/ PreparedQueued(t, p)
      PROVE  PollInvs'
  <2>1. /\ net[t] = "idle"
        /\ \A u \in Callers : u # t => net'[u] = net[u] /\ pdu'[u] = pdu[u]
        /\ UNCHANGED <<mNetworkingQueue, networkingBusy, sendingTask, missed>>
      BY <1>1, <1>2 DEF PreparedDirect, PreparedQueued, Ready, In, NetGoto
  <2> QED BY <2>1, NotPolling
<1>3. ASSUME NEW t \in Callers, DirectSent(t)
      PROVE  PollInvs'
  <2>1. /\ net[t] = "direct"
        /\ \A u \in Callers : u # t => net'[u] = net[u] /\ pdu'[u] = pdu[u]
        /\ UNCHANGED <<mNetworkingQueue, networkingBusy, sendingTask, missed>>
      BY <1>1, <1>3 DEF DirectSent, In, NetGoto
  <2> QED BY <2>1, NotPolling
<1>4. ASSUME NEW t \in Callers, \/ AddPdu(t) \/ CheckBusy(t)
                                \/ PollPdu(t) \/ PostTask(t) \/ PollNull(t) \/ ResetBusy(t)
      PROVE  PollInvs'
    BY <1>4, AddPduPolls, CheckBusyPolls, PollsOn
<1>5. ASSUME TaskRuns
      PROVE  PollInvs'
  <2>1. net'[Mesh] = "poll"
      BY <1>1, <1>5, MeshFacts DEF TaskRuns, NetGoto
  <2> QED BY <2>1, MeshFacts DEF PollInvs, BusyInv, LeftInv
<1>6. ASSUME ReliableMessageComplete \/ Disconnected
      PROVE  PollInvs'
  <2>1. networkingBusy' = FALSE /\ mNetworkingQueue' = <<>>
      BY <1>6 DEF ReliableMessageComplete, Disconnected, Empty
  <2>2. Len(mNetworkingQueue') = 0
      BY <2>1
  <2> QED BY <2>1, <2>2 DEF PollInvs, BusyInv, LeftInv
<1>7. ASSUME UNCHANGED netVars
      PROVE  PollInvs'
    BY <1>7, NotPolling DEF netVars
<1> QED
    BY <1>2, <1>3, <1>4, <1>5, <1>6, <1>7 DEF Next, ProxyInit, vars

\* A PDU stays in the queue with nobody to poll it only if it was added after a
\* poll had found the queue empty, and networkingBusy looked at before that poll
\* reset it: pollNetworkingQueue drops the lock of the queue in between.
THEOREM LeftBehindOnlyByThatPoll == Spec => []LeftBehindOnlyByEmptyPoll
<1>1. Init => PollInvs
  <2> SUFFICES ASSUME Init PROVE PollInvs
      OBVIOUS
  <2>1. networkingBusy = FALSE /\ Len(mNetworkingQueue) = 0
      BY DEF Init
  <2> QED BY <2>1 DEF PollInvs, BusyInv, LeftInv
<1>2. IInv /\ PollInvs /\ [Next]_vars => PollInvs'
    BY PollStepInv DEF IInv
<1>3. IInv /\ PollInvs => LeftBehindOnlyByEmptyPoll
  <2> SUFFICES ASSUME IInv, PollInvs, mNetworkingQueue # <<>>, ~sendingTask,
                      \A t \in Callers : net[t] = "idle"
               PROVE  Head(mNetworkingQueue) \in missed
      BY DEF LeftBehindOnlyByEmptyPoll, In
  <2>1. mNetworkingQueue \in Seq(Requests)
      BY DEF IInv, NetInv, NetTypes
  <2>2. Head(mNetworkingQueue) = mNetworkingQueue[1] /\ 1 \in 1..Len(mNetworkingQueue)
      BY <2>1, QueueElements
  <2> QED BY <2>2 DEF PollInvs, LeftInv
<1> QED BY <1>1, <1>2, <1>3, Invariance, PTL DEF Spec

=============================================================================
