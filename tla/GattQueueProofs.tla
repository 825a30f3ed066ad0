---------------------------- MODULE GattQueueProofs ----------------------------
(***************************************************************************)
(* The request queue keeps its types, in which it is said where a thread   *)
(* is when it holds a lock, gives no request to the platform twice, and,   *)
(* until a timeout, an MTU change or a disconnect comes between, reports   *)
(* each request once and as the platform has answered it: for any number   *)
(* of threads and requests.                                                *)
(*                                                                         *)
(* What is given to the platform stays the head of the queue until it is   *)
(* answered (GivenOnce), and as long as nothing disturbs it, nobody gets   *)
(* past the look at isRequestProcessing meanwhile (Undisturbed).           *)
(***************************************************************************)
EXTENDS GattQueue, FiniteSetTheorems, TLAPS

-----------------------------------------------------------------------------
(* Types and locks.                                                         *)

\* A thread is not None, and the threads are different.
LEMMA ThreadFacts ==
    /\ None \notin Threads
    /\ None \notin Callers
    /\ Binder \in Threads /\ Main \in Threads
    /\ Callers \subseteq Threads
    /\ Main # Binder /\ Main \notin Callers /\ Binder \notin Callers
    BY GattQueueAssumption DEF Threads

\* What is done to a queue.
LEMMA QueueFacts ==
    /\ <<>> \in Seq(Requests)
    /\ \A q \in Seq(Requests) : q # <<>> => Head(q) \in Requests /\ Tail(q) \in Seq(Requests)
    /\ \A q \in Seq(Requests), r \in Requests : Append(q, r) \in Seq(Requests)
    OBVIOUS

\* A thread that adds a request has one.
AddsRequest == \A t \in Threads : At(t, "add") => req[t] \in Requests

GattInv == GattTypeOK /\ AddsRequest

\* The parts of the types: the threads with their locks, the queue, the histories.
ThreadTypes ==
    /\ pc \in [Threads -> PCs]
    /\ req \in [Threads -> Requests \cup {None}]
    /\ monitor \in Threads \cup {None}
    /\ queueLock \in Threads \cup {None}
    /\ \A t \in Threads : /\ monitor = t <=> pc[t] \in InMonitor
                          /\ queueLock = t => pc[t] \in InQueueLock(t)

QueueTypes ==
    /\ link \in {"up", "closing", "down"}
    /\ mtuDue \in BOOLEAN
    /\ mGattRequestQueue \in Seq(Requests)
    /\ isRequestProcessing \in BOOLEAN
    /\ timer \in BOOLEAN
    /\ inFlight \in Requests \cup {None}

PastTypes ==
    /\ sent \subseteq Requests
    /\ given \in [Requests -> Nat]
    /\ done \subseteq Requests
    /\ reports \in [Requests -> SUBSET Reports]
    /\ disturbed \in BOOLEAN

\* GattQueue begins with its types.
LEMMA GattInitInv == GattInit => GattInv
<1> SUFFICES ASSUME GattInit PROVE GattInv
    OBVIOUS
<1>1. ThreadTypes /\ AddsRequest
    BY ThreadFacts DEF GattInit, ThreadTypes, AddsRequest, At, PCs, InMonitor
<1>2. QueueTypes
    BY QueueFacts DEF GattInit, QueueTypes
<1>3. PastTypes
    BY DEF GattInit, PastTypes
<1> QED BY <1>1, <1>2, <1>3 DEF GattInv, GattTypeOK, ThreadTypes, QueueTypes, PastTypes

\* sendRequest: the thread is idle and holds nothing.
LEMMA SendRequestInv ==
    ASSUME NEW t \in Callers, NEW r \in Requests, GattInv, SendRequest(t, r)
    PROVE  GattInv'
<1> USE DEF SendRequest, Goto, At, locks, threads, past
<1>1. ThreadTypes' /\ AddsRequest'
  <2>1. CASE link = "up"
    <3>1. t \in Threads /\ monitor # t /\ queueLock # t
      <4>1. t \in Threads /\ t # Main /\ pc[t] = "idle"
          BY ThreadFacts
      <4>2. pc[t] \notin InMonitor /\ pc[t] \notin InQueueLock(t)
          BY <4>1 DEF InMonitor, InQueueLock
      <4> QED BY <4>1, <4>2 DEF GattInv, GattTypeOK
    <3>2. /\ pc' = [pc EXCEPT ![t] = "add"] /\ req' = [req EXCEPT ![t] = r]
          /\ monitor' = monitor /\ queueLock' = queueLock
        BY <2>1
    <3>3. /\ pc' \in [Threads -> PCs] /\ req' \in [Threads -> Requests \cup {None}]
          /\ AddsRequest'
        BY <3>1, <3>2 DEF GattInv, GattTypeOK, AddsRequest, PCs
    <3>4. \A u \in Threads : /\ monitor' = u <=> pc'[u] \in InMonitor
                             /\ queueLock' = u => pc'[u] \in InQueueLock(u)
        BY <3>1, <3>2 DEF GattInv, GattTypeOK, InMonitor
    <3> QED BY <3>2, <3>3, <3>4 DEF GattInv, GattTypeOK, ThreadTypes
  <2>2. CASE link # "up"
      BY <2>2, ThreadFacts DEF GattInv, GattTypeOK, ThreadTypes, AddsRequest
  <2> QED BY <2>1, <2>2
<1>2. QueueTypes'
    BY QueueFacts DEF GattInv, GattTypeOK, AddsRequest, QueueTypes
<1>3. PastTypes'
    BY QueueFacts DEF GattInv, GattTypeOK, PastTypes, Reports
<1> QED BY <1>1, <1>2, <1>3 DEF GattInv, GattTypeOK, ThreadTypes, QueueTypes, PastTypes

\* sendRequest: the lock of the queue is given back at once.
LEMMA AddInv ==
    ASSUME NEW t \in Threads, GattInv, Add(t)
    PROVE  GattInv'
<1> USE DEF Add, Goto, At, locks, threads, past
<1>1. ThreadTypes' /\ AddsRequest'
    BY ThreadFacts DEF GattInv, GattTypeOK, ThreadTypes, AddsRequest, PCs, InMonitor, InQueueLock
<1>2. QueueTypes'
    BY QueueFacts DEF GattInv, GattTypeOK, AddsRequest, QueueTypes
<1>3. PastTypes'
    BY QueueFacts DEF GattInv, GattTypeOK, PastTypes, Reports
<1> QED BY <1>1, <1>2, <1>3 DEF GattInv, GattTypeOK, ThreadTypes, QueueTypes, PastTypes

\* postRequest: `this` is taken, or all is given back.
LEMMA EnterMonitorInv ==
    ASSUME NEW t \in Threads, GattInv, EnterMonitor(t)
    PROVE  GattInv'
<1> USE DEF EnterMonitor, Return, Goto, At, locks, threads, past
<1>1. ThreadTypes' /\ AddsRequest'
  <2>1. CASE isRequestProcessing
      BY <2>1, ThreadFacts
      DEF GattInv, GattTypeOK, ThreadTypes, AddsRequest, PCs, InMonitor, InQueueLock
  <2>2. CASE ~isRequestProcessing
      BY <2>2, ThreadFacts
      DEF GattInv, GattTypeOK, ThreadTypes, AddsRequest, PCs, InMonitor, InQueueLock
  <2> QED BY <2>1, <2>2
<1>2. QueueTypes'
    BY QueueFacts DEF GattInv, GattTypeOK, AddsRequest, QueueTypes
<1>3. PastTypes'
    BY QueueFacts DEF GattInv, GattTypeOK, PastTypes, Reports
<1> QED BY <1>1, <1>2, <1>3 DEF GattInv, GattTypeOK, ThreadTypes, QueueTypes, PastTypes

\* postRequest: the queue is taken with `this` held.
LEMMA EnterQueueInv ==
    ASSUME NEW t \in Threads, GattInv, EnterQueue(t)
    PROVE  GattInv'
<1> USE DEF EnterQueue, Free, Goto, At, locks, threads, past
<1>1. ThreadTypes' /\ AddsRequest'
    BY ThreadFacts DEF GattInv, GattTypeOK, ThreadTypes, AddsRequest, PCs, InMonitor, InQueueLock
<1>2. QueueTypes'
    BY QueueFacts DEF GattInv, GattTypeOK, AddsRequest, QueueTypes
<1>3. PastTypes'
    BY QueueFacts DEF GattInv, GattTypeOK, PastTypes, Reports
<1> QED BY <1>1, <1>2, <1>3 DEF GattInv, GattTypeOK, ThreadTypes, QueueTypes, PastTypes

\* postRequest: all is given back.
LEMMA ProcessNothingInv ==
    ASSUME NEW t \in Threads, GattInv, ProcessNothing(t)
    PROVE  GattInv'
<1> USE DEF ProcessNothing, Return, Goto, At, locks, threads, past
<1>1. ThreadTypes' /\ AddsRequest'
    BY ThreadFacts DEF GattInv, GattTypeOK, ThreadTypes, AddsRequest, PCs, InMonitor, InQueueLock
<1>2. QueueTypes'
    BY QueueFacts DEF GattInv, GattTypeOK, AddsRequest, QueueTypes
<1>3. PastTypes'
    BY QueueFacts DEF GattInv, GattTypeOK, PastTypes, Reports
<1> QED BY <1>1, <1>2, <1>3 DEF GattInv, GattTypeOK, ThreadTypes, QueueTypes, PastTypes

\* A request that ends in the call: the locks stay.
LEMMA ProcessAtOnceInv ==
    ASSUME NEW t \in Threads, GattInv, ProcessAtOnce(t)
    PROVE  GattInv'
<1> USE DEF ProcessAtOnce, Told, Goto, At, locks, threads, past
<1>1. ThreadTypes' /\ AddsRequest'
    BY ThreadFacts DEF GattInv, GattTypeOK, ThreadTypes, AddsRequest, PCs, InMonitor, InQueueLock
<1>2. QueueTypes'
    BY QueueFacts DEF GattInv, GattTypeOK, AddsRequest, QueueTypes
<1>3. PastTypes'
  <2>1. Head(mGattRequestQueue) \in Requests
      BY QueueFacts DEF GattInv, GattTypeOK
  <2>2. reports' \in [Requests -> SUBSET Reports]
      BY <2>1 DEF GattInv, GattTypeOK, Reports
  <2> QED BY <2>2 DEF GattInv, GattTypeOK, PastTypes
<1> QED BY <1>1, <1>2, <1>3 DEF GattInv, GattTypeOK, ThreadTypes, QueueTypes, PastTypes

\* A request the platform takes: all is given back.
LEMMA ProcessWriteInv ==
    ASSUME NEW t \in Threads, GattInv, ProcessWrite(t)
    PROVE  GattInv'
<1> USE DEF ProcessWrite, Return, Goto, At, locks, threads, past
<1>1. ThreadTypes' /\ AddsRequest'
    BY ThreadFacts DEF GattInv, GattTypeOK, ThreadTypes, AddsRequest, PCs, InMonitor, InQueueLock
<1>2. QueueTypes'
    BY QueueFacts DEF GattInv, GattTypeOK, AddsRequest, QueueTypes
<1>3. PastTypes'
    BY QueueFacts DEF GattInv, GattTypeOK, PastTypes, Reports
<1> QED BY <1>1, <1>2, <1>3 DEF GattInv, GattTypeOK, ThreadTypes, QueueTypes, PastTypes

\* The callbacks begin.
LEMMA PlatformAnswersInv ==
    ASSUME GattInv, PlatformAnswers
    PROVE  GattInv'
<1> USE DEF PlatformAnswers, Goto, At, locks, threads, past
<1>1. ThreadTypes' /\ AddsRequest'
    BY ThreadFacts DEF GattInv, GattTypeOK, ThreadTypes, AddsRequest, PCs, InMonitor, InQueueLock
<1>2. QueueTypes'
    BY QueueFacts DEF GattInv, GattTypeOK, AddsRequest, QueueTypes
<1>3. PastTypes'
    BY QueueFacts DEF GattInv, GattTypeOK, PastTypes, Reports
<1> QED BY <1>1, <1>2, <1>3 DEF GattInv, GattTypeOK, ThreadTypes, QueueTypes, PastTypes

\* onMtuChanged begins.
LEMMA MtuChangedInv ==
    ASSUME GattInv, MtuChanged
    PROVE  GattInv'
<1> USE DEF MtuChanged, Disturb, Goto, At, locks, threads, past
<1>1. ThreadTypes' /\ AddsRequest'
    BY ThreadFacts DEF GattInv, GattTypeOK, ThreadTypes, AddsRequest, PCs, InMonitor, InQueueLock
<1>2. QueueTypes'
    BY QueueFacts DEF GattInv, GattTypeOK, AddsRequest, QueueTypes
<1>3. PastTypes'
    BY QueueFacts DEF GattInv, GattTypeOK, PastTypes, Reports
<1> QED BY <1>1, <1>2, <1>3 DEF GattInv, GattTypeOK, ThreadTypes, QueueTypes, PastTypes

\* A callback takes the head.
LEMMA PollInv ==
    ASSUME NEW what \in {"success", "error"}, GattInv, Poll(what)
    PROVE  GattInv'
<1> USE DEF Poll, Told, Goto, At, locks, threads, past
<1>1. ThreadTypes' /\ AddsRequest'
    BY ThreadFacts DEF GattInv, GattTypeOK, ThreadTypes, AddsRequest, PCs, InMonitor, InQueueLock
<1>2. QueueTypes'
    BY QueueFacts DEF GattInv, GattTypeOK, AddsRequest, QueueTypes
<1>3. PastTypes'
  <2>1. CASE mGattRequestQueue = <<>>
      BY <2>1 DEF GattInv, GattTypeOK, PastTypes
  <2>2. CASE mGattRequestQueue # <<>>
    <3>1. Head(mGattRequestQueue) \in Requests
        BY <2>2, QueueFacts DEF GattInv, GattTypeOK
    <3>2. \/ reports' = reports
          \/ reports' = [reports EXCEPT ![Head(mGattRequestQueue)] = @ \cup {what}]
        BY <2>2 DEF GattInv, GattTypeOK
    <3>3. reports' \in [Requests -> SUBSET Reports]
        BY <3>1, <3>2 DEF GattInv, GattTypeOK, Reports
    <3> QED BY <2>2, <3>3 DEF GattInv, GattTypeOK, PastTypes
  <2> QED BY <2>1, <2>2
<1> QED BY <1>1, <1>2, <1>3 DEF GattInv, GattTypeOK, ThreadTypes, QueueTypes, PastTypes

\* onRequestComplete.
LEMMA CompleteInv ==
    ASSUME GattInv, Complete
    PROVE  GattInv'
<1> USE DEF Complete, Goto, At, locks, threads, past
<1>1. ThreadTypes' /\ AddsRequest'
    BY ThreadFacts DEF GattInv, GattTypeOK, ThreadTypes, AddsRequest, PCs, InMonitor, InQueueLock
<1>2. QueueTypes'
    BY QueueFacts DEF GattInv, GattTypeOK, AddsRequest, QueueTypes
<1>3. PastTypes'
    BY QueueFacts DEF GattInv, GattTypeOK, PastTypes, Reports
<1> QED BY <1>1, <1>2, <1>3 DEF GattInv, GattTypeOK, ThreadTypes, QueueTypes, PastTypes

\* The command timeout begins.
LEMMA TimeoutDueInv ==
    ASSUME GattInv, TimeoutDue
    PROVE  GattInv'
<1> USE DEF TimeoutDue, Disturb, Goto, At, locks, threads, past
<1>1. ThreadTypes' /\ AddsRequest'
    BY ThreadFacts DEF GattInv, GattTypeOK, ThreadTypes, AddsRequest, PCs, InMonitor, InQueueLock
<1>2. QueueTypes'
    BY QueueFacts DEF GattInv, GattTypeOK, AddsRequest, QueueTypes
<1>3. PastTypes'
    BY QueueFacts DEF GattInv, GattTypeOK, PastTypes, Reports
<1> QED BY <1>1, <1>2, <1>3 DEF GattInv, GattTypeOK, ThreadTypes, QueueTypes, PastTypes

\* The command timeout takes the lock of the queue.
LEMMA TimeoutPeekInv ==
    ASSUME GattInv, TimeoutPeek
    PROVE  GattInv'
<1> USE DEF TimeoutPeek, Goto, At, locks, threads, past
<1>1. ThreadTypes' /\ AddsRequest'
    BY ThreadFacts DEF GattInv, GattTypeOK, ThreadTypes, AddsRequest, PCs, InMonitor, InQueueLock
<1>2. QueueTypes'
    BY QueueFacts DEF GattInv, GattTypeOK, AddsRequest, QueueTypes
<1>3. PastTypes'
    BY QueueFacts DEF GattInv, GattTypeOK, PastTypes, Reports
<1> QED BY <1>1, <1>2, <1>3 DEF GattInv, GattTypeOK, ThreadTypes, QueueTypes, PastTypes

\* The command timeout drops the head.
LEMMA TimeoutDropInv ==
    ASSUME GattInv, TimeoutDrop
    PROVE  GattInv'
<1> USE DEF TimeoutDrop, Goto, At, locks, threads, past
<1>1. ThreadTypes' /\ AddsRequest'
    BY ThreadFacts DEF GattInv, GattTypeOK, ThreadTypes, AddsRequest, PCs, InMonitor, InQueueLock
<1>2. QueueTypes'
    BY QueueFacts DEF GattInv, GattTypeOK, AddsRequest, QueueTypes
<1>3. PastTypes'
    BY QueueFacts DEF GattInv, GattTypeOK, PastTypes, Reports
<1> QED BY <1>1, <1>2, <1>3 DEF GattInv, GattTypeOK, ThreadTypes, QueueTypes, PastTypes

\* disconnect takes no lock.
LEMMA DisconnectInv ==
    ASSUME GattInv, Disconnect
    PROVE  GattInv'
<1> USE DEF Disconnect, Clear, Disturb, Goto, At, locks, threads, past
<1>1. ThreadTypes' /\ AddsRequest'
    BY ThreadFacts DEF GattInv, GattTypeOK, ThreadTypes, AddsRequest, PCs, InMonitor, InQueueLock
<1>2. QueueTypes'
    BY QueueFacts DEF GattInv, GattTypeOK, AddsRequest, QueueTypes
<1>3. PastTypes'
    BY QueueFacts DEF GattInv, GattTypeOK, PastTypes, Reports
<1> QED BY <1>1, <1>2, <1>3 DEF GattInv, GattTypeOK, ThreadTypes, QueueTypes, PastTypes

\* Nor does the loss of the link.
LEMMA LinkDownInv ==
    ASSUME GattInv, LinkDown
    PROVE  GattInv'
<1> USE DEF LinkDown, Clear, Disturb, Goto, At, locks, threads, past
<1>1. ThreadTypes' /\ AddsRequest'
    BY ThreadFacts DEF GattInv, GattTypeOK, ThreadTypes, AddsRequest, PCs, InMonitor, InQueueLock
<1>2. QueueTypes'
    BY QueueFacts DEF GattInv, GattTypeOK, AddsRequest, QueueTypes
<1>3. PastTypes'
    BY QueueFacts DEF GattInv, GattTypeOK, PastTypes, Reports
<1> QED BY <1>1, <1>2, <1>3 DEF GattInv, GattTypeOK, ThreadTypes, QueueTypes, PastTypes

\* Nor does a new link.
LEMMA LinkUpInv ==
    ASSUME GattInv, LinkUp
    PROVE  GattInv'
<1> USE DEF LinkUp, Goto, At, locks, threads, past
<1>1. ThreadTypes' /\ AddsRequest'
    BY ThreadFacts DEF GattInv, GattTypeOK, ThreadTypes, AddsRequest, PCs, InMonitor, InQueueLock
<1>2. QueueTypes'
    BY QueueFacts DEF GattInv, GattTypeOK, AddsRequest, QueueTypes
<1>3. PastTypes'
    BY QueueFacts DEF GattInv, GattTypeOK, PastTypes, Reports
<1> QED BY <1>1, <1>2, <1>3 DEF GattInv, GattTypeOK, ThreadTypes, QueueTypes, PastTypes

\* Every step of the request queue keeps its types and its lock discipline.
LEMMA GattStepInv ==
    ASSUME GattInv, [GattNext]_gattVars
    PROVE  GattInv'
<1>1. CASE \E t \in Callers, r \in Requests : SendRequest(t, r)
    BY <1>1, SendRequestInv
<1>2. CASE \E t \in Threads : ThreadStep(t)
  <2> PICK t \in Threads : ThreadStep(t)
      BY <1>2
  <2> QED
      BY AddInv, EnterMonitorInv, EnterQueueInv, ProcessNothingInv, ProcessAtOnceInv,
         ProcessWriteInv DEF ThreadStep
<1>3. CASE \/ PlatformAnswers \/ MtuChanged
           \/ \E what \in {"success", "error"} : Poll(what)
           \/ Complete
    BY <1>3, PlatformAnswersInv, MtuChangedInv, PollInv, CompleteInv
<1>4. CASE TimeoutDue \/ TimeoutPeek \/ TimeoutDrop \/ Disconnect \/ LinkDown \/ LinkUp
    BY <1>4, TimeoutDueInv, TimeoutPeekInv, TimeoutDropInv, DisconnectInv, LinkDownInv, LinkUpInv
<1>5. CASE UNCHANGED gattVars
    BY <1>5
    DEF GattInv, GattTypeOK, AddsRequest, At, gattVars, locks, threads, past
<1> QED BY <1>1, <1>2, <1>3, <1>4, <1>5 DEF GattNext, GattStep

-----------------------------------------------------------------------------
(* What is given to the platform and what is reported.                      *)

\* A request is in the queue once, and only after sendRequest has taken it; what
\* is being added is new to the queue and to the platform.
SentOnce ==
    /\ \A i, j \in 1..Len(mGattRequestQueue) :
           mGattRequestQueue[i] = mGattRequestQueue[j] => i = j
    /\ \A i \in 1..Len(mGattRequestQueue) : mGattRequestQueue[i] \in sent
    /\ \A r \in Requests : given[r] # 0 \/ reports[r] # {} => r \in sent
    /\ \A t \in Threads : At(t, "add") =>
           /\ req[t] \in sent /\ given[req[t]] = 0 /\ reports[req[t]] = {}
           /\ \A i \in 1..Len(mGattRequestQueue) : mGattRequestQueue[i] # req[t]
           /\ \A u \in Threads : At(u, "add") /\ req[u] = req[t] => u = t

\* postRequest does not get past its first look at isRequestProcessing.
Closed == isRequestProcessing /\ monitor = None

\* Of the requests in the queue only the head has been given to the platform, and
\* while it is nobody gives another one: it is in flight, or its answer is about
\* to take it from the queue.  Where the binder has reset isRequestProcessing for
\* an earlier request, it is the next that comes to the queue, or another thread
\* before it, and the platform refuses the request that is in flight.
GivenOnce ==
    /\ \A r \in Requests : given[r] <= 1
    /\ inFlight # None => given[inFlight] # 0
    /\ \A i \in 1..Len(mGattRequestQueue) :
           given[mGattRequestQueue[i]] # 0 =>
               i = 1 /\ (inFlight = mGattRequestQueue[1] \/ (At(Binder, "poll") /\ Closed))
    /\ mGattRequestQueue # <<>> /\ Head(mGattRequestQueue) = inFlight =>
           Closed \/ pc[Binder] \in {"post", "wantQueue", "process"}

\* Until something disturbs it, the platform does the head of the queue, the
\* callbacks run while it is there, and each request is reported when it leaves.
Undisturbed ==
    ~disturbed =>
        /\ inFlight # None =>
             /\ mGattRequestQueue # <<>> /\ Head(mGattRequestQueue) = inFlight
             /\ Closed /\ pc[Binder] \notin {"poll", "complete"}
        /\ pc[Binder] \in {"poll", "complete"} => Closed
        /\ At(Binder, "poll") => mGattRequestQueue # <<>> /\ Head(mGattRequestQueue) \in done
        /\ pc[Main] \notin {"timeout", "drop"}
        /\ \A r \in Requests :
             /\ reports[r] = {} \/ \E what \in Reports : reports[r] = {what}
             /\ InQueue(r) => reports[r] = {}
             /\ "success" \in reports[r] => r \in done \cup Notify

ReportInv == SentOnce /\ GivenOnce /\ Undisturbed

\* The elements of the queue when a request is added or taken from it.
LEMMA QueueElements ==
    ASSUME NEW q \in Seq(Requests)
    PROVE  /\ \A r \in Requests :
                /\ Len(Append(q, r)) = Len(q) + 1
                /\ \A i \in 1..Len(q) : Append(q, r)[i] = q[i]
                /\ Append(q, r)[Len(q) + 1] = r
           /\ q # <<>> =>
                /\ Len(q) \in Nat \ {0} /\ Head(q) = q[1] /\ Head(q) \in Requests
                /\ Tail(q) \in Seq(Requests) /\ Len(Tail(q)) = Len(q) - 1
                /\ \A i \in 1..Len(Tail(q)) : Tail(q)[i] = q[i + 1]
           /\ Len(q) \in Nat
           /\ \A i \in 1..Len(q) : q[i] \in Requests
    OBVIOUS

\* The queue loses its head, or all; or gets a request that is new.
Shrunk == mGattRequestQueue' = <<>> \/ (mGattRequestQueue # <<>> /\
                                        mGattRequestQueue' = Tail(mGattRequestQueue))

\* What is left in the queue was behind the head.
LEMMA ShrunkElements ==
    ASSUME GattInv, ReportInv, Shrunk
    PROVE  /\ \A i, j \in 1..Len(mGattRequestQueue') :
                  mGattRequestQueue'[i] = mGattRequestQueue'[j] => i = j
           /\ \A i \in 1..Len(mGattRequestQueue') :
                /\ mGattRequestQueue'[i] \in sent /\ InQueue(mGattRequestQueue'[i])
                /\ given[mGattRequestQueue'[i]] = 0
                /\ mGattRequestQueue'[i] # inFlight
                /\ mGattRequestQueue # <<>>
                /\ mGattRequestQueue'[i] # Head(mGattRequestQueue)
           /\ \A r \in Requests : InQueue(r)' => InQueue(r)
           /\ mGattRequestQueue' # <<>> =>
                /\ Head(mGattRequestQueue') = mGattRequestQueue'[1]
                /\ Len(mGattRequestQueue') \in Nat \ {0}
<1> DEFINE q == mGattRequestQueue
           qq == mGattRequestQueue'
<1>1. q \in Seq(Requests) /\ inFlight \in Requests \cup {None}
    BY DEF GattInv, GattTypeOK
<1>2. CASE qq = <<>>
    BY <1>2 DEF InQueue
<1>3. CASE q # <<>> /\ qq = Tail(q)
  <2>1. /\ Len(q) \in Nat \ {0} /\ Head(q) = q[1] /\ Len(qq) = Len(q) - 1
        /\ qq \in Seq(Requests)
        /\ \A i \in 1..Len(qq) : qq[i] = q[i + 1]
        /\ \A i \in 1..Len(q) : q[i] \in Requests
      BY <1>1, <1>3, QueueElements
  <2> HIDE DEF q, qq
  <2>2. \A i \in 1..Len(qq) : i + 1 \in 1..Len(q) /\ i + 1 # 1 /\ i \in Nat
      BY <2>1
  <2>3. 1 \in 1..Len(q)
      BY <2>1
  <2>4. /\ \A i, j \in 1..Len(q) : q[i] = q[j] => i = j
        /\ \A i \in 1..Len(q) : q[i] \in sent
        /\ \A i \in 1..Len(q) : given[q[i]] # 0 => i = 1
        /\ inFlight # None => given[inFlight] # 0
      BY DEF ReportInv, SentOnce, GivenOnce, q
  <2>5. \A i \in 1..Len(qq) : given[qq[i]] = 0 /\ qq[i] \in sent /\ qq[i] # Head(q)
                              /\ qq[i] \in Requests
      BY <2>1, <2>2, <2>3, <2>4
  <2>6. \A i \in 1..Len(qq) : qq[i] # inFlight
      BY <2>4, <2>5, GattQueueAssumption
  <2>7. \A i, j \in 1..Len(qq) : qq[i] = qq[j] => i = j
    <3> SUFFICES ASSUME NEW i \in 1..Len(qq), NEW j \in 1..Len(qq), qq[i] = qq[j]
                 PROVE  i = j
        OBVIOUS
    <3>1. i + 1 = j + 1
        BY <2>1, <2>2, <2>4
    <3> QED BY <2>2, <3>1
  <2>8. \A i \in 1..Len(qq) : InQueue(qq[i])
      BY <2>1, <2>2 DEF InQueue, q
  <2>9. \A r \in Requests : InQueue(r)' => InQueue(r)
      BY <2>8 DEF InQueue, qq
  <2>10. qq # <<>> => Head(qq) = qq[1] /\ Len(qq) \in Nat \ {0}
      BY <2>1, QueueElements
  <2> QED BY <1>3, <2>5, <2>6, <2>7, <2>8, <2>9, <2>10 DEF q, qq
<1> QED BY <1>2, <1>3 DEF Shrunk

\* Nothing is in the queue at first.
LEMMA ReportInitInv == GattInit => ReportInv
<1> SUFFICES ASSUME GattInit PROVE ReportInv
    OBVIOUS
<1>1. \A t \in Threads : pc[t] = "idle"
    BY DEF GattInit
<1>2. Len(mGattRequestQueue) = 0
    BY DEF GattInit
<1>3. SentOnce
    BY <1>1, <1>2 DEF GattInit, SentOnce, At
<1>4. GivenOnce
    BY <1>1, <1>2 DEF GattInit, GivenOnce
<1>5. Undisturbed
  <2>1. \A r \in Requests : ~InQueue(r)
      BY <1>2 DEF InQueue
  <2> QED BY <1>1, <2>1, ThreadFacts DEF GattInit, Undisturbed, At
<1> QED BY <1>3, <1>4, <1>5 DEF ReportInv

\* A request is taken once.
LEMMA SendRequestReport ==
    ASSUME NEW t \in Callers, NEW r \in Requests, GattInv, ReportInv, SendRequest(t, r)
    PROVE  ReportInv'
<1>1. /\ t \in Threads /\ t # Binder /\ t # Main /\ pc[t] = "idle"
      /\ r \notin sent /\ sent' = sent \cup {r}
      /\ UNCHANGED <<link, mtuDue, mGattRequestQueue, isRequestProcessing, timer, locks,
                     inFlight, given, done, reports, disturbed>>
    BY ThreadFacts DEF SendRequest, At
<1>2. /\ pc \in [Threads -> PCs] /\ req \in [Threads -> Requests \cup {None}]
      /\ mGattRequestQueue \in Seq(Requests)
    BY DEF GattInv, GattTypeOK
<1>3. \/ pc' = [pc EXCEPT ![t] = "add"] /\ req' = [req EXCEPT ![t] = r]
      \/ pc' = pc /\ req' = req
    BY DEF SendRequest, Goto, threads
<1>4. \A u \in Threads : pc'[u] = "add" => (u = t /\ req'[u] = r) \/ (u # t /\ pc[u] = "add" /\ req'[u] = req[u])
    BY <1>1, <1>2, <1>3
<1>5. pc'[Binder] = pc[Binder] /\ pc'[Main] = pc[Main]
    BY <1>1, <1>2, <1>3, ThreadFacts
<1>6. \A x : InQueue(x)' <=> InQueue(x)
    BY <1>1 DEF InQueue
<1>7. SentOnce'
  <2>1. given[r] = 0 /\ reports[r] = {} /\ ~InQueue(r)
      BY <1>1 DEF ReportInv, SentOnce, InQueue
  <2>2. \A u \in Threads : pc[u] = "add" => req[u] # r
      BY <1>1 DEF ReportInv, SentOnce, At
  <2>3. /\ \A i, j \in 1..Len(mGattRequestQueue') :
               mGattRequestQueue'[i] = mGattRequestQueue'[j] => i = j
        /\ \A i \in 1..Len(mGattRequestQueue') : mGattRequestQueue'[i] \in sent'
        /\ \A x \in Requests : given'[x] # 0 \/ reports'[x] # {} => x \in sent'
      BY <1>1 DEF ReportInv, SentOnce
  <2>4. ASSUME NEW u \in Threads, pc'[u] = "add"
        PROVE  /\ req'[u] \in sent' /\ given'[req'[u]] = 0 /\ reports'[req'[u]] = {}
               /\ \A i \in 1..Len(mGattRequestQueue') : mGattRequestQueue'[i] # req'[u]
               /\ \A w \in Threads : pc'[w] = "add" /\ req'[w] = req'[u] => w = u
    <3>1. CASE u = t /\ req'[u] = r
      <4>1. \A i \in 1..Len(mGattRequestQueue) : mGattRequestQueue[i] # r
          BY <2>1 DEF InQueue
      <4> QED BY <1>1, <1>4, <2>1, <2>2, <2>4, <3>1, <4>1
    <3>2. CASE u # t /\ pc[u] = "add" /\ req'[u] = req[u]
      <4>1. /\ req[u] \in sent /\ given[req[u]] = 0 /\ reports[req[u]] = {}
            /\ \A i \in 1..Len(mGattRequestQueue) : mGattRequestQueue[i] # req[u]
            /\ \A w \in Threads : pc[w] = "add" /\ req[w] = req[u] => w = u
          BY <3>2 DEF ReportInv, SentOnce, At
      <4>2. req[u] # r
          BY <2>2, <3>2
      <4> QED BY <1>1, <1>4, <3>2, <4>1, <4>2
    <3> QED BY <1>4, <2>4, <3>1, <3>2
  <2> QED BY <2>3, <2>4 DEF SentOnce, At
<1>8. GivenOnce'
    BY <1>1, <1>5 DEF ReportInv, GivenOnce, Closed, At, locks
<1>9. Undisturbed'
    BY <1>1, <1>5, <1>6 DEF ReportInv, Undisturbed, Closed, At, locks
<1> QED BY <1>7, <1>8, <1>9 DEF ReportInv

\* The request is added behind the others: it has not been given to the platform.
LEMMA AddReport ==
    ASSUME NEW t \in Threads, GattInv, ReportInv, Add(t)
    PROVE  ReportInv'
<1> DEFINE q == mGattRequestQueue
           r == req[t]
<1>1. /\ pc[t] = "add" /\ pc' = [pc EXCEPT ![t] = "post"]
      /\ mGattRequestQueue' = Append(q, r)
      /\ UNCHANGED <<link, mtuDue, isRequestProcessing, timer, monitor, queueLock, req, inFlight,
                     sent, given, disturbed, done, reports>>
    BY DEF Add, At, Goto, locks, past
<1>2. /\ pc \in [Threads -> PCs] /\ q \in Seq(Requests) /\ r \in Requests
      /\ inFlight \in Requests \cup {None}
    BY <1>1 DEF GattInv, GattTypeOK, AddsRequest, At
<1>3. r \in sent /\ given[r] = 0 /\ reports[r] = {} /\ ~InQueue(r)
    BY <1>1 DEF ReportInv, SentOnce, InQueue, At
<1>4. /\ Len(q) \in Nat /\ Len(q') = Len(q) + 1
      /\ \A i \in 1..Len(q) : q'[i] = q[i]
      /\ q'[Len(q) + 1] = r
      /\ q' # <<>> /\ Head(q') = q'[1] /\ (q # <<>> => Head(q) = q[1] /\ 1 \in 1..Len(q))
      /\ (q = <<>> => Len(q) = 0)
  <2>1. q' \in Seq(Requests) /\ q' # <<>>
      BY <1>1, <1>2
  <2> QED BY <1>1, <1>2, <2>1, QueueElements
<1>5. \A i \in 1..Len(q') : i \in 1..Len(q) \/ i = Len(q) + 1
    BY <1>4
<1> HIDE DEF q
<1>6. \A x : InQueue(x)' <=> InQueue(x) \/ x = r
    BY <1>4, <1>5 DEF InQueue, q
<1>7. \A u \in Threads : pc'[u] = IF u = t THEN "post" ELSE pc[u]
    BY <1>1, <1>2
<1>8. SentOnce'
  <2>1. \A i, j \in 1..Len(q') : q'[i] = q'[j] => i = j
    <3>1. \A i \in 1..Len(q) : q'[i] # r
        BY <1>3, <1>4 DEF InQueue, q
    <3>2. \A i, j \in 1..Len(q) : q'[i] = q'[j] => i = j
        BY <1>4 DEF ReportInv, SentOnce, q
    <3> QED BY <1>4, <1>5, <3>1, <3>2
  <2>2. \A i \in 1..Len(q') : q'[i] \in sent
      BY <1>3, <1>4, <1>5 DEF ReportInv, SentOnce, q
  <2>3. ASSUME NEW u \in Threads, pc'[u] = "add"
        PROVE  /\ u # t /\ pc[u] = "add" /\ req[u] # r
      BY <1>1, <1>7, <2>3 DEF ReportInv, SentOnce, At
  <2>4. ASSUME NEW u \in Threads, pc'[u] = "add"
        PROVE  /\ req'[u] \in sent' /\ given'[req'[u]] = 0 /\ reports'[req'[u]] = {}
               /\ \A i \in 1..Len(mGattRequestQueue') : mGattRequestQueue'[i] # req'[u]
               /\ \A w \in Threads : pc'[w] = "add" /\ req'[w] = req'[u] => w = u
    <3>1. u # t /\ pc[u] = "add" /\ req[u] # r
        BY <2>3, <2>4
    <3>2. /\ req[u] \in sent /\ given[req[u]] = 0 /\ reports[req[u]] = {}
            /\ \A i \in 1..Len(mGattRequestQueue) : mGattRequestQueue[i] # req[u]
          /\ \A w \in Threads : pc[w] = "add" /\ req[w] = req[u] => w = u
        BY <3>1 DEF ReportInv, SentOnce, At
    <3> QED BY <1>1, <1>4, <1>5, <1>7, <3>1, <3>2 DEF q
  <2>5. \A x \in Requests : given'[x] # 0 \/ reports'[x] # {} => x \in sent'
      BY <1>1 DEF ReportInv, SentOnce
  <2>6. sent' = sent
      BY <1>1
  <2> HIDE DEF r
  <2> QED BY <2>1, <2>2, <2>4, <2>5, <2>6 DEF SentOnce, At, q
<1>9. pc'[Binder] = pc[Binder] \/ (pc[Binder] = "add" /\ pc'[Binder] = "post")
    BY <1>1, <1>7, ThreadFacts
<1>10. pc'[Main] = pc[Main] \/ pc'[Main] = "post"
    BY <1>7, ThreadFacts
<1>11. inFlight # None => inFlight # r
    BY <1>3 DEF ReportInv, GivenOnce
<1>12. r # None
    BY <1>2, GattQueueAssumption
<1>13. GivenOnce'
  <2>1. ASSUME NEW i \in 1..Len(q'), given'[q'[i]] # 0
        PROVE  i = 1 /\ (inFlight' = q'[1] \/ (At(Binder, "poll")' /\ Closed'))
    <3>1. i \in 1..Len(q) /\ q'[i] = q[i]
        BY <1>1, <1>3, <1>4, <1>5, <2>1
    <3>2. i = 1 /\ (inFlight = q[1] \/ (At(Binder, "poll") /\ Closed))
        BY <1>1, <2>1, <3>1 DEF ReportInv, GivenOnce, q
    <3> QED BY <1>1, <1>4, <1>9, <3>1, <3>2 DEF Closed, At
  <2>2. q' # <<>> /\ Head(q') = inFlight' =>
            Closed' \/ pc'[Binder] \in {"post", "wantQueue", "process"}
    <3>1. CASE q = <<>>
        BY <1>1, <1>4, <1>11, <1>12, <3>1
    <3>2. CASE q # <<>>
        BY <1>1, <1>4, <1>9, <3>2 DEF ReportInv, GivenOnce, q, Closed
    <3> QED BY <3>1, <3>2
  <2> QED BY <1>1, <2>1, <2>2 DEF ReportInv, GivenOnce, q
<1>14. Undisturbed'
  <2> SUFFICES ASSUME ~disturbed PROVE Undisturbed'
      BY <1>1 DEF Undisturbed
  <2>1. q # <<>> => q' # <<>> /\ Head(q') = Head(q)
      BY <1>4
  <2>2. /\ inFlight # None => /\ q # <<>> /\ Head(q) = inFlight
                              /\ Closed /\ pc[Binder] \notin {"poll", "complete"}
        /\ pc[Binder] \in {"poll", "complete"} => Closed
        /\ pc[Binder] = "poll" => q # <<>> /\ Head(q) \in done
        /\ pc[Main] \notin {"timeout", "drop"}
      BY DEF ReportInv, Undisturbed, q, At
  <2>3. Closed' = Closed
      BY <1>1 DEF Closed
  <2>4. \A x \in Requests :
             /\ reports[x] = {} \/ \E what \in Reports : reports[x] = {what}
             /\ InQueue(x)' => reports[x] = {}
             /\ "success" \in reports[x] => x \in done \cup Notify
      BY <1>3, <1>6 DEF ReportInv, Undisturbed
  <2> QED BY <1>1, <1>9, <1>10, <2>1, <2>2, <2>3, <2>4 DEF Undisturbed, q, At
<1> QED BY <1>8, <1>13, <1>14 DEF ReportInv

\* Threads in postRequest that give nothing to the platform: one that enters
\* finds isRequestProcessing reset, and then nothing is in flight undisturbed.
LEMMA PostReport ==
    ASSUME NEW t \in Threads, GattInv, ReportInv,
           EnterMonitor(t) \/ EnterQueue(t) \/ ProcessNothing(t)
    PROVE  ReportInv'
<1>1. /\ UNCHANGED <<link, mtuDue, mGattRequestQueue, isRequestProcessing, timer, inFlight,
                     sent, given, disturbed, done, reports>>
    BY DEF EnterMonitor, EnterQueue, ProcessNothing, past
<1>2. pc \in [Threads -> PCs] /\ req \in [Threads -> Requests \cup {None}]
    BY DEF GattInv, GattTypeOK
<1>3. /\ \A u \in Threads : u # t => pc'[u] = pc[u] /\ req'[u] = req[u]
      /\ \/ pc[t] = "post" /\ monitor = None /\ isRequestProcessing /\ monitor' = None
            /\ pc'[t] = "idle"
         \/ pc[t] = "post" /\ monitor = None /\ ~isRequestProcessing /\ pc'[t] = "wantQueue"
         \/ pc[t] = "wantQueue" /\ monitor' = monitor /\ pc'[t] = "process"
         \/ pc[t] = "process" /\ mGattRequestQueue = <<>> /\ pc'[t] = "idle"
  <2>1. CASE EnterMonitor(t)
    <3>1. CASE isRequestProcessing
        BY <1>2, <2>1, <3>1 DEF EnterMonitor, Return, Goto, At
    <3>2. CASE ~isRequestProcessing
        BY <1>2, <2>1, <3>2 DEF EnterMonitor, Return, Goto, At
    <3> QED BY <3>1, <3>2
  <2>2. CASE EnterQueue(t)
      BY <1>2, <2>2 DEF EnterQueue, Goto, At
  <2>3. CASE ProcessNothing(t)
      BY <1>2, <2>3 DEF ProcessNothing, Return, Goto, At
  <2> QED BY <2>1, <2>2, <2>3
<1>4. pc'[t] # "add" /\ pc'[t] # "poll" /\ pc'[t] # "complete" /\ pc'[t] \notin {"timeout", "drop"}
    BY <1>3
<1>5. \A x : InQueue(x)' <=> InQueue(x)
    BY <1>1 DEF InQueue
<1>6. \/ monitor # None /\ pc[t] \in {"wantQueue", "process"}
      \/ pc[t] = "post" /\ monitor = None
  <2>1. pc[t] \in {"wantQueue", "process"} => monitor = t
      BY DEF GattInv, GattTypeOK, InMonitor
  <2>2. t # None
      BY ThreadFacts
  <2> QED BY <1>3, <2>1, <2>2
<1>7. SentOnce'
    BY <1>1, <1>3, <1>4, <1>5 DEF ReportInv, SentOnce, At
<1>8. Closed => Closed'
    BY <1>1, <1>3, <1>6 DEF Closed
<1>9. \/ pc'[Binder] = pc[Binder]
      \/ Binder = t
    BY <1>3, ThreadFacts
<1>10. mGattRequestQueue = <<>> \/ Closed' \/ pc'[t] \in {"wantQueue", "process"}
    BY <1>1, <1>3 DEF Closed
<1>11. GivenOnce'
  <2>1. \A i \in 1..Len(mGattRequestQueue') :
           given'[mGattRequestQueue'[i]] # 0 =>
               i = 1 /\ (inFlight' = mGattRequestQueue'[1] \/ (At(Binder, "poll")' /\ Closed'))
    <3>1. At(Binder, "poll") => At(Binder, "poll")'
        BY <1>6, <1>9 DEF At
    <3> QED BY <1>1, <1>8, <3>1 DEF ReportInv, GivenOnce
  <2>2. mGattRequestQueue' # <<>> /\ Head(mGattRequestQueue') = inFlight' =>
           Closed' \/ pc'[Binder] \in {"post", "wantQueue", "process"}
    <3>1. CASE Binder = t
        BY <1>1, <1>10, <3>1
    <3>2. CASE Binder # t
        BY <1>1, <1>8, <1>9, <3>2 DEF ReportInv, GivenOnce
    <3> QED BY <3>1, <3>2
  <2> QED BY <1>1, <2>1, <2>2 DEF ReportInv, GivenOnce
<1>12. Undisturbed'
  <2>1. pc'[Binder] \in {"poll", "complete"} => pc'[Binder] = pc[Binder]
      BY <1>4, <1>9
  <2>2. pc'[Main] \in {"timeout", "drop"} => pc'[Main] = pc[Main]
      BY <1>3, <1>4, ThreadFacts
  <2>3. pc[Binder] \notin {"poll", "complete"} => pc'[Binder] \notin {"poll", "complete"}
      BY <2>1
  <2> QED BY <1>1, <1>5, <1>8, <2>1, <2>2, <2>3 DEF ReportInv, Undisturbed, At
<1> QED BY <1>7, <1>11, <1>12 DEF ReportInv

\* Nothing is sent, and only what is in the queue is given or reported.
LEMMA SentOnceKept ==
    ASSUME GattInv, ReportInv,
           Shrunk \/ mGattRequestQueue' = mGattRequestQueue,
           sent' = sent,
           \A u \in Threads : pc'[u] = "add" => pc[u] = "add" /\ req'[u] = req[u],
           \A r \in Requests :
               /\ given'[r] # 0 => given[r] # 0 \/ InQueue(r)
               /\ reports'[r] # {} => reports[r] # {} \/ InQueue(r)
    PROVE  SentOnce'
<1> DEFINE q == mGattRequestQueue
           qq == mGattRequestQueue'
<1>1. /\ \A i, j \in 1..Len(qq) : qq[i] = qq[j] => i = j
      /\ \A i \in 1..Len(qq) : qq[i] \in sent /\ \E j \in 1..Len(q) : q[j] = qq[i]
  <2>1. CASE Shrunk
      BY <2>1, ShrunkElements DEF InQueue
  <2>2. CASE qq = q
      BY <2>2 DEF ReportInv, SentOnce
  <2> QED BY <2>1, <2>2
<1>2. \A r \in Requests : InQueue(r) => r \in sent
    BY DEF ReportInv, SentOnce, InQueue
<1>3. \A r \in Requests : given'[r] # 0 \/ reports'[r] # {} => r \in sent'
    BY <1>2 DEF ReportInv, SentOnce
<1>4. ASSUME NEW u \in Threads, pc'[u] = "add"
      PROVE  /\ req'[u] \in sent' /\ given'[req'[u]] = 0 /\ reports'[req'[u]] = {}
             /\ \A i \in 1..Len(qq) : qq[i] # req'[u]
             /\ \A w \in Threads : pc'[w] = "add" /\ req'[w] = req'[u] => w = u
  <2>1. pc[u] = "add" /\ req'[u] = req[u]
      BY <1>4
  <2>2. /\ req[u] \in sent /\ given[req[u]] = 0 /\ reports[req[u]] = {}
        /\ \A i \in 1..Len(q) : q[i] # req[u]
        /\ \A w \in Threads : pc[w] = "add" /\ req[w] = req[u] => w = u
      BY <2>1 DEF ReportInv, SentOnce, At
  <2>3. req[u] \in Requests /\ ~InQueue(req[u])
      BY <2>1, <2>2 DEF GattInv, AddsRequest, At, InQueue
  <2> QED BY <1>1, <2>1, <2>2, <2>3
<1> QED BY <1>1, <1>3, <1>4 DEF SentOnce, At

\* What is left when the queue has lost its head has not been given.
LEMMA ShrunkGivenOnce ==
    ASSUME GattInv, ReportInv, Shrunk, given' = given, inFlight' \in {inFlight, None}
    PROVE  GivenOnce'
<1>1. \A i \in 1..Len(mGattRequestQueue') :
          /\ given'[mGattRequestQueue'[i]] = 0
          /\ mGattRequestQueue'[i] # inFlight'
    BY ShrunkElements, GattQueueAssumption DEF GattInv, GattTypeOK
<1>2. mGattRequestQueue' # <<>> => Head(mGattRequestQueue') # inFlight'
    BY <1>1, ShrunkElements
<1> QED BY <1>1, <1>2 DEF ReportInv, GivenOnce

\* A thread in processRequest holds `this`: nobody else has given the head.
LEMMA InProcess ==
    ASSUME NEW t \in Threads, GattInv, ReportInv, pc[t] = "process"
    PROVE  /\ monitor = t /\ t # None /\ ~Closed
           /\ ~disturbed => inFlight = None /\ pc[Binder] \notin {"poll", "complete"}
<1>1. monitor = t /\ t # None
    BY ThreadFacts DEF GattInv, GattTypeOK, InMonitor
<1> QED BY <1>1 DEF ReportInv, Undisturbed, Closed

\* The head of the queue.
LEMMA HeadFacts ==
    ASSUME GattInv, mGattRequestQueue # <<>>
    PROVE  /\ Head(mGattRequestQueue) \in Requests
           /\ Head(mGattRequestQueue) = mGattRequestQueue[1]
           /\ 1 \in 1..Len(mGattRequestQueue)
           /\ InQueue(Head(mGattRequestQueue))
<1>1. mGattRequestQueue \in Seq(Requests)
    BY DEF GattInv, GattTypeOK
<1>2. /\ Head(mGattRequestQueue) \in Requests
      /\ Head(mGattRequestQueue) = mGattRequestQueue[1]
      /\ Len(mGattRequestQueue) \in Nat \ {0}
    BY <1>1, QueueElements
<1> QED BY <1>2 DEF InQueue

\* The head is reported as it leaves the queue.
LEMMA HeadReported ==
    ASSUME GattInv, ReportInv, Shrunk, mGattRequestQueue # <<>>, ~disturbed,
           NEW what \in Reports, Told(Head(mGattRequestQueue), what), done' = done,
           what = "success" => Head(mGattRequestQueue) \in done \cup Notify
    PROVE  /\ \A x \in Requests : reports'[x] # {} => reports[x] # {} \/ InQueue(x)
           /\ \A x \in Requests :
                /\ reports'[x] = {} \/ \E w \in Reports : reports'[x] = {w}
                /\ InQueue(x)' => reports'[x] = {}
                /\ "success" \in reports'[x] => x \in done' \cup Notify
<1> DEFINE r == Head(mGattRequestQueue)
<1>1. r \in Requests /\ InQueue(r)
    BY HeadFacts
<1>2. reports \in [Requests -> SUBSET Reports]
    BY DEF GattInv, GattTypeOK
<1>3. \A x \in Requests :
        /\ reports[x] = {} \/ \E w \in Reports : reports[x] = {w}
        /\ InQueue(x) => reports[x] = {}
        /\ "success" \in reports[x] => x \in done \cup Notify
    BY DEF ReportInv, Undisturbed
<1>4. reports' = [reports EXCEPT ![r] = @ \cup {what}]
    BY DEF Told
<1>5. reports'[r] = {what} /\ \A x \in Requests : x # r => reports'[x] = reports[x]
    BY <1>1, <1>2, <1>3, <1>4
<1>6. \A x \in Requests : InQueue(x)' => InQueue(x) /\ x # r
  <2>1. \A x \in Requests : InQueue(x)' => InQueue(x)
      BY ShrunkElements
  <2>2. \A i \in 1..Len(mGattRequestQueue') : mGattRequestQueue'[i] # r
      BY ShrunkElements
  <2> QED BY <2>1, <2>2 DEF InQueue
<1> HIDE DEF r
<1> QED
  <2> SUFFICES ASSUME NEW x \in Requests
               PROVE  /\ reports'[x] # {} => reports[x] # {} \/ InQueue(x)
                      /\ reports'[x] = {} \/ \E w \in Reports : reports'[x] = {w}
                      /\ InQueue(x)' => reports'[x] = {}
                      /\ "success" \in reports'[x] => x \in done' \cup Notify
      OBVIOUS
  <2>1. CASE x = r
      BY <1>1, <1>5, <1>6, <2>1 DEF r
  <2>2. CASE x # r
      BY <1>3, <1>5, <1>6, <2>2
  <2> QED BY <2>1, <2>2

\* A request that ends in the call: it is reported, and leaves the queue.
LEMMA ProcessAtOnceReport ==
    ASSUME NEW t \in Threads, GattInv, ReportInv, ProcessAtOnce(t)
    PROVE  ReportInv'
<1> DEFINE r == Head(mGattRequestQueue)
<1>1. /\ pc[t] = "process" /\ mGattRequestQueue # <<>> /\ Shrunk
      /\ UNCHANGED <<monitor, pc, req, inFlight, sent, given, done, disturbed>>
    BY DEF ProcessAtOnce, At, locks, threads, Shrunk
<1>2. PICK what \in Reports : Told(r, what) /\ (what = "success" => r \in Notify)
    BY DEF ProcessAtOnce, Reports
<1>3. \A x \in Requests : reports'[x] # {} => reports[x] # {} \/ InQueue(x)
    BY <1>1, <1>2, HeadReported DEF Told
<1>4. SentOnce'
    BY <1>1, <1>3, SentOnceKept
<1>5. GivenOnce'
    BY <1>1, ShrunkGivenOnce
<1>6. Undisturbed'
  <2>1. ~disturbed => \A x \in Requests :
                /\ reports'[x] = {} \/ \E w \in Reports : reports'[x] = {w}
                /\ InQueue(x)' => reports'[x] = {}
                /\ "success" \in reports'[x] => x \in done' \cup Notify
      BY <1>1, <1>2, HeadReported
  <2>2. ~disturbed => /\ inFlight = None /\ pc[Binder] \notin {"poll", "complete"}
                      /\ pc[Main] \notin {"timeout", "drop"}
      BY <1>1, InProcess DEF ReportInv, Undisturbed
  <2> QED BY <1>1, <2>1, <2>2 DEF Undisturbed, At
<1> QED BY <1>4, <1>5, <1>6 DEF ReportInv

\* The platform takes the head, which it has not been given before; `this` is
\* given back with isRequestProcessing set.
LEMMA ProcessWriteReport ==
    ASSUME NEW t \in Threads, GattInv, ReportInv, ProcessWrite(t)
    PROVE  ReportInv'
<1> DEFINE q == mGattRequestQueue
           r == Head(q)
<1>1. /\ pc[t] = "process" /\ q # <<>> /\ inFlight = None /\ inFlight' = r
      /\ isRequestProcessing' = TRUE /\ given' = [given EXCEPT ![r] = @ + 1]
      /\ pc' = [pc EXCEPT ![t] = "idle"] /\ req' = [req EXCEPT ![t] = None]
      /\ monitor' = IF monitor = t THEN None ELSE monitor
      /\ UNCHANGED <<mGattRequestQueue, sent, done, reports, disturbed>>
    BY DEF ProcessWrite, Return, Goto, At
<1>2. /\ pc \in [Threads -> PCs] /\ req \in [Threads -> Requests \cup {None}]
      /\ given \in [Requests -> Nat]
    BY DEF GattInv, GattTypeOK
<1>3. r \in Requests /\ r = q[1] /\ 1 \in 1..Len(q) /\ InQueue(r) /\ r # None
    BY <1>1, HeadFacts, GattQueueAssumption
<1>4. /\ monitor = t /\ t # None /\ ~Closed
      /\ ~disturbed => pc[Binder] \notin {"poll", "complete"}
    BY <1>1, InProcess
<1>5. Closed'
    BY <1>1, <1>4 DEF Closed
<1>6. given[r] = 0
    BY <1>1, <1>3, <1>4 DEF ReportInv, GivenOnce
<1>7. given'[r] = 1 /\ \A x \in Requests : x # r => given'[x] = given[x]
    BY <1>1, <1>2, <1>3, <1>6
<1>8. \A u \in Threads : pc'[u] = IF u = t THEN "idle" ELSE pc[u]
    BY <1>1, <1>2
<1>9. \A u \in Threads : u # t => req'[u] = req[u]
    BY <1>1, <1>2
<1> HIDE DEF q, r
<1>10. SentOnce'
  <2>1. \A u \in Threads : pc'[u] = "add" => pc[u] = "add" /\ req'[u] = req[u]
      BY <1>8, <1>9
  <2>2. \A x \in Requests : given'[x] # 0 => given[x] # 0 \/ InQueue(x)
      BY <1>3, <1>7
  <2> QED BY <1>1, <2>1, <2>2, SentOnceKept
<1>11. GivenOnce'
  <2>1. \A x \in Requests : given'[x] <= 1
      BY <1>7 DEF ReportInv, GivenOnce
  <2>2. ASSUME NEW i \in 1..Len(q), given'[q[i]] # 0
        PROVE  i = 1
    <3>1. q[i] \in Requests
        BY QueueElements DEF q, GattInv, GattTypeOK
    <3>2. CASE q[i] = r
        BY <1>3, <3>2 DEF ReportInv, SentOnce, q
    <3>3. CASE q[i] # r
        BY <1>7, <2>2, <3>1, <3>3 DEF ReportInv, GivenOnce, q
    <3> QED BY <3>2, <3>3
  <2> QED BY <1>1, <1>3, <1>5, <1>7, <2>1, <2>2 DEF GivenOnce, q
<1>12. Undisturbed'
  <2>1. pc'[Binder] \in {"poll", "complete"} => pc[Binder] = pc'[Binder]
      BY <1>8, ThreadFacts
  <2>2. pc'[Main] \in {"timeout", "drop"} => pc[Main] = pc'[Main]
      BY <1>8, ThreadFacts
  <2>3. \A x \in Requests : InQueue(x)' <=> InQueue(x)
      BY <1>1 DEF InQueue
  <2>4. q' # <<>> /\ Head(q') = inFlight'
      BY <1>1 DEF q, r
  <2> SUFFICES ASSUME ~disturbed' PROVE Undisturbed'
      BY DEF Undisturbed
  <2>5. /\ pc[Main] \notin {"timeout", "drop"}
        /\ \A x \in Requests :
             /\ reports[x] = {} \/ \E what \in Reports : reports[x] = {what}
             /\ InQueue(x) => reports[x] = {}
             /\ "success" \in reports[x] => x \in done \cup Notify
      BY <1>1 DEF ReportInv, Undisturbed
  <2>6. pc'[Binder] \notin {"poll", "complete"} /\ pc'[Main] \notin {"timeout", "drop"}
      BY <1>1, <1>4, <2>1, <2>2, <2>5
  <2> QED BY <1>1, <1>5, <2>3, <2>4, <2>5, <2>6 DEF Undisturbed, q, At
<1> QED BY <1>10, <1>11, <1>12 DEF ReportInv

\* The answer is that of the head, which stays until the callback takes it.
LEMMA PlatformAnswersReport ==
    ASSUME GattInv, ReportInv, PlatformAnswers
    PROVE  ReportInv'
<1> DEFINE q == mGattRequestQueue
<1>1. /\ pc[Binder] = "idle" /\ pc' = [pc EXCEPT ![Binder] = "poll"]
      /\ inFlight # None /\ inFlight' = None
      /\ done' = IF disturbed THEN done ELSE done \cup {inFlight}
      /\ UNCHANGED <<mGattRequestQueue, isRequestProcessing, monitor, req, sent, given, reports,
                     disturbed>>
    BY DEF PlatformAnswers, Goto, At, locks
<1>2. pc \in [Threads -> PCs] /\ mGattRequestQueue \in Seq(Requests)
    BY DEF GattInv, GattTypeOK
<1>3. \A u \in Threads : pc'[u] = IF u = Binder THEN "poll" ELSE pc[u]
    BY <1>1, <1>2
<1>4. pc'[Binder] = "poll" /\ pc'[Main] = pc[Main]
    BY <1>3, ThreadFacts
<1>5. q # <<>> => Head(q) \in Requests /\ Head(q) # None /\ Head(q) = q[1]
    BY HeadFacts, GattQueueAssumption
<1>6. Closed' = Closed
    BY <1>1 DEF Closed
<1> HIDE DEF q
<1>7. q' = q
    BY <1>1 DEF q
<1>8. SentOnce'
    BY <1>1, <1>3, SentOnceKept
<1>9. GivenOnce'
  <2>1. \A i \in 1..Len(q) : given[q[i]] # 0 => i = 1 /\ inFlight = q[1]
      BY <1>1 DEF ReportInv, GivenOnce, At, q
  <2>2. ASSUME NEW i \in 1..Len(q), given[q[i]] # 0
        PROVE  i = 1 /\ Closed
    <3>1. i = 1 /\ inFlight = q[1] /\ q # <<>>
        BY <2>1, <2>2
    <3> QED BY <1>1, <1>5, <3>1 DEF ReportInv, GivenOnce, q
  <2>3. \A x \in Requests : given'[x] <= 1
      BY <1>1 DEF ReportInv, GivenOnce
  <2> QED BY <1>1, <1>4, <1>5, <1>6, <1>7, <2>2, <2>3 DEF GivenOnce, At, q
<1>10. Undisturbed'
  <2> SUFFICES ASSUME ~disturbed PROVE Undisturbed'
      BY <1>1 DEF Undisturbed
  <2>1. /\ q # <<>> /\ Head(q) = inFlight /\ Closed /\ pc[Main] \notin {"timeout", "drop"}
        /\ \A x \in Requests :
             /\ reports[x] = {} \/ \E what \in Reports : reports[x] = {what}
             /\ InQueue(x) => reports[x] = {}
             /\ "success" \in reports[x] => x \in done \cup Notify
      BY <1>1 DEF ReportInv, Undisturbed, q
  <2>2. \A x \in Requests : InQueue(x)' <=> InQueue(x)
      BY <1>1 DEF InQueue
  <2>3. inFlight \in done' /\ done \subseteq done'
      BY <1>1
  <2> QED BY <1>1, <1>4, <1>6, <1>7, <2>1, <2>2, <2>3 DEF Undisturbed, At, q
<1> QED BY <1>8, <1>9, <1>10 DEF ReportInv

\* The queue, what is given and in flight, and `this` stay; the callback thread
\* stays where it is, or does not poll.
LEMMA GivenOnceKept ==
    ASSUME GattInv, ReportInv,
           UNCHANGED <<mGattRequestQueue, given, inFlight>>,
           pc[Binder] # "poll" \/ (pc'[Binder] = "poll" /\ (Closed => Closed')),
           \/ pc'[Binder] \in {"post", "wantQueue", "process"}
           \/ /\ Closed => Closed'
              /\ pc[Binder] \in {"post", "wantQueue", "process"} => pc'[Binder] = pc[Binder]
    PROVE  GivenOnce'
<1>1. ASSUME NEW i \in 1..Len(mGattRequestQueue), given[mGattRequestQueue[i]] # 0
      PROVE  i = 1 /\ (inFlight = mGattRequestQueue[1] \/ (At(Binder, "poll")' /\ Closed'))
    BY <1>1 DEF ReportInv, GivenOnce, At
<1>2. mGattRequestQueue # <<>> /\ Head(mGattRequestQueue) = inFlight =>
           Closed' \/ pc'[Binder] \in {"post", "wantQueue", "process"}
    BY DEF ReportInv, GivenOnce
<1> QED BY <1>1, <1>2 DEF ReportInv, GivenOnce

\* A thread at another place than before is not in sendRequest.
LEMMA MovedThread ==
    ASSUME NEW t \in Threads, NEW l \in PCs \ {"add"}, GattInv, Goto(t, l)
    PROVE  /\ \A u \in Threads : pc'[u] = IF u = t THEN l ELSE pc[u]
           /\ \A u \in Threads : pc'[u] = "add" => pc[u] = "add"
BY DEF GattInv, GattTypeOK, Goto

\* onMtuChanged: its callback will take what is the head then.
LEMMA MtuChangedReport ==
    ASSUME GattInv, ReportInv, MtuChanged
    PROVE  ReportInv'
<1>1. /\ pc[Binder] = "idle" /\ Goto(Binder, "poll") /\ disturbed' = TRUE
      /\ reports' = [r \in Requests |-> {}]
      /\ UNCHANGED <<mGattRequestQueue, isRequestProcessing, monitor, req, inFlight, sent, given>>
    BY DEF MtuChanged, Disturb, At, locks
<1>2. /\ \A u \in Threads : pc'[u] = IF u = Binder THEN "poll" ELSE pc[u]
      /\ \A u \in Threads : pc'[u] = "add" => pc[u] = "add"
    BY <1>1, MovedThread, ThreadFacts DEF PCs
<1>3. SentOnce'
    BY <1>1, <1>2, SentOnceKept
<1>4. GivenOnce'
    BY <1>1, GivenOnceKept DEF Closed
<1>5. Undisturbed'
    BY <1>1 DEF Undisturbed
<1> QED BY <1>3, <1>4, <1>5 DEF ReportInv

\* Undisturbed, the callback takes the request that the platform has answered.
LEMMA PollReport ==
    ASSUME NEW what \in {"success", "error"}, GattInv, ReportInv, Poll(what)
    PROVE  ReportInv'
<1>1. /\ pc[Binder] = "poll" /\ Goto(Binder, "complete")
      /\ UNCHANGED <<isRequestProcessing, monitor, req, inFlight, sent, given, done, disturbed>>
    BY DEF Poll, At, locks
<1>2. /\ \A u \in Threads : pc'[u] = IF u = Binder THEN "complete" ELSE pc[u]
      /\ \A u \in Threads : pc'[u] = "add" => pc[u] = "add"
    BY <1>1, MovedThread, ThreadFacts DEF PCs
<1>3. /\ Shrunk
      /\ \/ mGattRequestQueue = <<>> /\ reports' = reports
         \/ mGattRequestQueue # <<>> /\ Told(Head(mGattRequestQueue), what)
    BY DEF Poll, Shrunk
<1>4. ~disturbed => /\ inFlight = None /\ Closed /\ mGattRequestQueue # <<>>
                    /\ Head(mGattRequestQueue) \in done /\ pc[Main] \notin {"timeout", "drop"}
    BY <1>1 DEF ReportInv, Undisturbed, At
<1>5. ~disturbed =>
           /\ \A x \in Requests : reports'[x] # {} => reports[x] # {} \/ InQueue(x)
           /\ \A x \in Requests :
                /\ reports'[x] = {} \/ \E w \in Reports : reports'[x] = {w}
                /\ InQueue(x)' => reports'[x] = {}
                /\ "success" \in reports'[x] => x \in done' \cup Notify
    BY <1>1, <1>3, <1>4, HeadReported DEF Reports
<1>6. disturbed => reports' = reports
    BY <1>3 DEF Told
<1>7. SentOnce'
    BY <1>1, <1>2, <1>3, <1>5, <1>6, SentOnceKept
<1>8. GivenOnce'
    BY <1>1, <1>3, ShrunkGivenOnce
<1>9. Undisturbed'
  <2>1. pc'[Binder] = "complete" /\ pc'[Main] = pc[Main]
      BY <1>2, ThreadFacts
  <2>2. Closed' = Closed
      BY <1>1 DEF Closed
  <2> QED BY <1>1, <1>4, <1>5, <2>1, <2>2 DEF Undisturbed, At
<1> QED BY <1>7, <1>8, <1>9 DEF ReportInv

\* onRequestComplete: nothing is in flight unless something has disturbed it.
LEMMA CompleteReport ==
    ASSUME GattInv, ReportInv, Complete
    PROVE  ReportInv'
<1>1. /\ pc[Binder] = "complete" /\ Goto(Binder, "post")
      /\ UNCHANGED <<mGattRequestQueue, monitor, req, inFlight, sent, given, done, reports,
                     disturbed>>
    BY DEF Complete, At, locks, past
<1>2. /\ \A u \in Threads : pc'[u] = IF u = Binder THEN "post" ELSE pc[u]
      /\ \A u \in Threads : pc'[u] = "add" => pc[u] = "add"
    BY <1>1, MovedThread, ThreadFacts DEF PCs
<1>3. pc'[Binder] = "post" /\ pc'[Main] = pc[Main]
    BY <1>2, ThreadFacts
<1>4. SentOnce'
    BY <1>1, <1>2, SentOnceKept
<1>5. GivenOnce'
    BY <1>1, <1>3, GivenOnceKept
<1>6. Undisturbed'
  <2>1. \A x \in Requests : InQueue(x)' <=> InQueue(x)
      BY <1>1 DEF InQueue
  <2> QED BY <1>1, <1>3, <2>1 DEF ReportInv, Undisturbed, At
<1> QED BY <1>4, <1>5, <1>6 DEF ReportInv

\* The command timeout is among what disturbs: until then its task is not there.
LEMMA TimeoutReport ==
    ASSUME GattInv, ReportInv, TimeoutDue \/ TimeoutPeek \/ TimeoutDrop
    PROVE  ReportInv'
<1>1. CASE TimeoutDue
  <2>1. /\ Goto(Main, "timeout") /\ disturbed' = TRUE
        /\ reports' = [r \in Requests |-> {}]
        /\ UNCHANGED <<mGattRequestQueue, isRequestProcessing, monitor, req, inFlight, sent, given>>
      BY <1>1 DEF TimeoutDue, Disturb, locks
  <2>2. /\ \A u \in Threads : pc'[u] = "add" => pc[u] = "add"
        /\ pc'[Binder] = pc[Binder]
      BY <2>1, MovedThread, ThreadFacts DEF PCs
  <2>3. SentOnce'
      BY <2>1, <2>2, SentOnceKept
  <2>4. GivenOnce'
      BY <2>1, <2>2, GivenOnceKept DEF Closed
  <2>5. Undisturbed'
      BY <2>1 DEF Undisturbed
  <2> QED BY <2>3, <2>4, <2>5 DEF ReportInv
<1>2. CASE TimeoutPeek
  <2>1. /\ Goto(Main, "idle") \/ Goto(Main, "drop")
        /\ UNCHANGED <<mGattRequestQueue, isRequestProcessing, monitor, req, inFlight, sent, given,
                       done, reports, disturbed>>
      BY <1>2 DEF TimeoutPeek, At, past
  <2>2. /\ \A u \in Threads : pc'[u] = "add" => pc[u] = "add"
        /\ pc'[Binder] = pc[Binder]
      BY <2>1, MovedThread, ThreadFacts DEF PCs
  <2>3. SentOnce'
      BY <2>1, <2>2, SentOnceKept
  <2>4. GivenOnce'
      BY <2>1, <2>2, GivenOnceKept DEF Closed
  <2>5. pc[Main] = "timeout"
      BY <1>2 DEF TimeoutPeek, At
  <2>6. Undisturbed'
      BY <2>1, <2>5 DEF ReportInv, Undisturbed
  <2> QED BY <2>3, <2>4, <2>6 DEF ReportInv
<1>3. CASE TimeoutDrop
  <2>1. /\ pc[Main] = "drop" /\ Goto(Main, "post") /\ Shrunk
        /\ UNCHANGED <<req, inFlight, sent, given, done, reports, disturbed>>
      BY <1>3 DEF TimeoutDrop, At, past, Shrunk
  <2>2. \A u \in Threads : pc'[u] = "add" => pc[u] = "add"
      BY <2>1, MovedThread, ThreadFacts DEF PCs
  <2>3. SentOnce'
      BY <2>1, <2>2, SentOnceKept
  <2>4. GivenOnce'
      BY <2>1, ShrunkGivenOnce
  <2>5. Undisturbed'
      BY <2>1 DEF ReportInv, Undisturbed
  <2> QED BY <2>3, <2>4, <2>5 DEF ReportInv
<1> QED BY <1>1, <1>2, <1>3

\* disconnect, and what the platform says of the link, empty the queue.
LEMMA LinkReport ==
    ASSUME GattInv, ReportInv, Disconnect \/ LinkDown \/ LinkUp
    PROVE  ReportInv'
<1>1. CASE Disconnect \/ LinkDown
  <2>1. /\ Shrunk /\ disturbed' = TRUE /\ reports' = [r \in Requests |-> {}]
        /\ inFlight' \in {inFlight, None}
        /\ UNCHANGED <<pc, req, sent, given>>
      BY <1>1 DEF Disconnect, LinkDown, Clear, Disturb, Shrunk, threads
  <2>2. SentOnce'
      BY <2>1, SentOnceKept
  <2>3. GivenOnce'
      BY <2>1, ShrunkGivenOnce
  <2>4. Undisturbed'
      BY <2>1 DEF Undisturbed
  <2> QED BY <2>2, <2>3, <2>4 DEF ReportInv
<1>2. CASE LinkUp
    BY <1>2 DEF LinkUp, locks, threads, past, ReportInv, SentOnce, GivenOnce, Undisturbed, Closed,
                InQueue, At
<1> QED BY <1>1, <1>2

\* Every step of the request queue keeps what it has given and reported true.
LEMMA ReportStepInv ==
    ASSUME GattInv, ReportInv, [GattNext]_gattVars
    PROVE  ReportInv'
<1>1. CASE \E t \in Callers, r \in Requests : SendRequest(t, r)
    BY <1>1, SendRequestReport
<1>2. CASE \E t \in Threads : ThreadStep(t)
  <2> PICK t \in Threads : ThreadStep(t)
      BY <1>2
  <2> QED
      BY AddReport, PostReport, ProcessAtOnceReport, ProcessWriteReport DEF ThreadStep
<1>3. CASE \/ PlatformAnswers \/ MtuChanged
           \/ \E what \in {"success", "error"} : Poll(what)
           \/ Complete
    BY <1>3, PlatformAnswersReport, MtuChangedReport, PollReport, CompleteReport
<1>4. CASE TimeoutDue \/ TimeoutPeek \/ TimeoutDrop \/ Disconnect \/ LinkDown \/ LinkUp
    BY <1>4, TimeoutReport, LinkReport
<1>5. CASE UNCHANGED gattVars
    BY <1>5
    DEF gattVars, locks, threads, past, ReportInv, SentOnce, GivenOnce, Undisturbed, Closed,
        InQueue, At
<1> QED BY <1>1, <1>2, <1>3, <1>4, <1>5 DEF GattNext, GattStep

-----------------------------------------------------------------------------
\* In every behaviour of the request queue a request is given to the platform
\* once at most, whatever times out or is cleared; and until a timeout, an MTU
\* change or a disconnect comes between, the callbacks report it once, as it
\* leaves the queue, and "success" only when the platform has answered it.
THEOREM GivenAndReportedTruly == GattSpec => []ReportedTruly
<1>1. GattInit => GattInv /\ ReportInv
    BY GattInitInv, ReportInitInv
<1>2. GattInv /\ ReportInv /\ [GattNext]_gattVars => (GattInv /\ ReportInv)'
    BY GattStepInv, ReportStepInv
<1>3. GattInv /\ ReportInv => ReportedTruly
  <2> SUFFICES ASSUME GattInv, ReportInv, NEW r \in Requests
               PROVE  /\ given[r] <= 1
                      /\ ~disturbed =>
                           /\ Cardinality(reports[r]) <= 1
                           /\ InQueue(r) => reports[r] = {}
                           /\ "success" \in reports[r] => r \in done \cup Notify
      BY DEF ReportedTruly
  <2>1. Cardinality({}) = 0 /\ \A what \in Reports : Cardinality({what}) = 1
      BY FS_EmptySet, FS_Singleton
  <2>2. ~disturbed => reports[r] = {} \/ \E what \in Reports : reports[r] = {what}
      BY DEF ReportInv, Undisturbed
  <2>3. ~disturbed => Cardinality(reports[r]) <= 1
      BY <2>1, <2>2
  <2> QED BY <2>3 DEF ReportInv, GivenOnce, Undisturbed
<1> QED BY <1>1, <1>2, <1>3, PTL DEF GattSpec

=============================================================================
