------------------------------ MODULE GattQueue ------------------------------
(***************************************************************************)
(* The request queue of GattConnection: sendRequest on any thread, the     *)
(* platform's callbacks on its binder thread, the command timeout on the   *)
(* main looper, disconnect on any thread.                                  *)
(*                                                                         *)
(* The locks are those that are waited for: `this`, held by postRequest,   *)
(* and mGattRequestQueue.  (COMMAND_PROCESSING_LOCK is only held for one   *)
(* access of isRequestProcessing.)  A thread is at a pc, and a step goes   *)
(* from one lock, or one access without a lock, to the next.               *)
(*                                                                         *)
(* The platform does one request at a time and refuses another meanwhile;  *)
(* enableNotification is done in the call.  No callback of the library     *)
(* asks for a retry, so a request that times out is dropped.               *)
(***************************************************************************)
EXTENDS Naturals, Sequences, FiniteSets

CONSTANTS Callers,  \* threads that send requests
          Binder,   \* the thread of the platform's callbacks
          Main,     \* the thread of the command timeout
          Requests,
          Notify,   \* those of type ENABLE_NOTIFY
          None

Threads == Callers \cup {Binder, Main}

ASSUME GattQueueAssumption ==
    /\ Binder \notin Callers /\ Main \notin Callers /\ Binder # Main
    /\ None \notin Threads /\ None \notin Requests
    /\ Notify \subseteq Requests

VARIABLES link,         \* "up", "closing" (disconnect was called) or "down"
          mtuDue,       \* the answer to requestMtu is still to come
          mGattRequestQueue,
          isRequestProcessing,
          timer,        \* the command timeout is posted
          monitor,      \* the thread that holds `this`
          queueLock,    \* the thread that holds mGattRequestQueue
          pc, req,      \* of each thread: where it is, with which request
          inFlight,     \* the request the platform is doing
          sent,         \* history: requests sendRequest has taken
          given,        \* history: how often a request was given to the platform
          disturbed,    \* history: a timeout, an MTU change or a disconnect
          done,         \* history, until disturbed: requests the platform has answered
          reports       \* history, until disturbed: what the callbacks of a request were told

locks    == <<monitor, queueLock>>
threads  == <<pc, req>>
past     == <<sent, given, disturbed, done, reports>>
gattVars == <<link, mtuDue, mGattRequestQueue, isRequestProcessing, timer, locks, threads,
              inFlight, past>>

PCs == {"idle", "add", "post", "wantQueue", "process", "poll", "complete", "timeout", "drop"}
Reports == {"success", "error"}

\* Where a thread is when it holds `this`, and when it holds the queue.
InMonitor == {"wantQueue", "process"}
InQueueLock(t) == IF t = Main THEN {"drop", "post", "wantQueue", "process"} ELSE {"process"}

GattTypeOK ==
    /\ link \in {"up", "closing", "down"}
    /\ mtuDue \in BOOLEAN
    /\ mGattRequestQueue \in Seq(Requests)
    /\ isRequestProcessing \in BOOLEAN
    /\ timer \in BOOLEAN
    /\ monitor \in Threads \cup {None}
    /\ queueLock \in Threads \cup {None}
    /\ pc \in [Threads -> PCs]
    /\ req \in [Threads -> Requests \cup {None}]
    /\ inFlight \in Requests \cup {None}
    /\ sent \subseteq Requests
    /\ given \in [Requests -> Nat]
    /\ done \subseteq Requests
    /\ reports \in [Requests -> SUBSET Reports]
    /\ disturbed \in BOOLEAN
    /\ \A t \in Threads : /\ monitor = t <=> pc[t] \in InMonitor
                          /\ queueLock = t => pc[t] \in InQueueLock(t)

GattInit ==
    /\ link = "up" /\ mtuDue = TRUE
    /\ mGattRequestQueue = <<>> /\ isRequestProcessing = FALSE /\ timer = FALSE
    /\ monitor = None /\ queueLock = None
    /\ pc = [t \in Threads |-> "idle"] /\ req = [t \in Threads |-> None]
    /\ inFlight = None
    /\ sent = {} /\ given = [r \in Requests |-> 0] /\ done = {}
    /\ reports = [r \in Requests |-> {}] /\ disturbed = FALSE

-----------------------------------------------------------------------------
Goto(t, l)  == pc' = [pc EXCEPT ![t] = l]
At(t, l)    == pc[t] = l
Free(lock, t) == lock \in {None, t}
Told(r, what) ==
    reports' = IF disturbed THEN reports ELSE [reports EXCEPT ![r] = @ \cup {what}]

\* A timeout, an MTU change or a disconnect: the histories end here.
Disturb == disturbed' = TRUE /\ done' = {} /\ reports' = [r \in Requests |-> {}]

\* postRequest returns: its locks are given back, and with them the lock the
\* command timeout still holds around it.
Return(t) ==
    /\ Goto(t, "idle")
    /\ req' = [req EXCEPT ![t] = None]
    /\ monitor' = IF monitor = t THEN None ELSE monitor
    /\ queueLock' = IF queueLock = t THEN None ELSE queueLock

\* sendRequest: the state of the connection is looked at ...
SendRequest(t, r) ==
    /\ At(t, "idle")
    /\ r \notin sent
    /\ sent' = sent \cup {r}
    /\ IF link = "up"
       THEN Goto(t, "add") /\ req' = [req EXCEPT ![t] = r]
       ELSE UNCHANGED threads
    /\ UNCHANGED <<link, mtuDue, mGattRequestQueue, isRequestProcessing, timer, locks, inFlight,
                   given, done, reports, disturbed>>

\* ... and the request is added.  Mutant: the lock is kept for postRequest.
AddAndKeepLock(t) ==
    /\ At(t, "add")
    /\ queueLock = None
    /\ queueLock' = t
    /\ mGattRequestQueue' = Append(mGattRequestQueue, req[t])
    /\ Goto(t, "post")
    /\ UNCHANGED <<link, mtuDue, isRequestProcessing, timer, monitor, req, inFlight, past>>

Add(t) ==
    /\ At(t, "add")
    /\ queueLock = None
    /\ mGattRequestQueue' = Append(mGattRequestQueue, req[t])
    /\ Goto(t, "post")
    /\ UNCHANGED <<link, mtuDue, isRequestProcessing, timer, locks, req, inFlight, past>>

\* postRequest: `this` is taken and isRequestProcessing looked at.
EnterMonitor(t) ==
    /\ At(t, "post")
    /\ monitor = None
    /\ IF isRequestProcessing
       THEN Return(t)
       ELSE /\ monitor' = t
            /\ Goto(t, "wantQueue")
            /\ UNCHANGED <<req, queueLock>>
    /\ UNCHANGED <<link, mtuDue, mGattRequestQueue, isRequestProcessing, timer, inFlight, past>>

\* postRequest: the lock of the queue is taken.
EnterQueue(t) ==
    /\ At(t, "wantQueue")
    /\ Free(queueLock, t)
    /\ queueLock' = t
    /\ Goto(t, "process")
    /\ UNCHANGED <<link, mtuDue, mGattRequestQueue, isRequestProcessing, timer, monitor, req,
                   inFlight, past>>

\* postRequest: nothing is left.
ProcessNothing(t) ==
    /\ At(t, "process")
    /\ mGattRequestQueue = <<>>
    /\ Return(t)
    /\ UNCHANGED <<link, mtuDue, mGattRequestQueue, isRequestProcessing, timer, inFlight, past>>

\* processRequest of a request that ends in the call: the notification is
\* enabled or not, or the platform refuses the request.  onRequestSuccess or
\* onRequestError, then onRequestComplete, whose postRequest goes on with the
\* locks it has.  (The timeout posted for a refused request stays posted.)
ProcessAtOnce(t) ==
    LET r == Head(mGattRequestQueue) IN
    /\ At(t, "process")
    /\ mGattRequestQueue # <<>>
    /\ mGattRequestQueue' = Tail(mGattRequestQueue)
    /\ isRequestProcessing' = FALSE
    /\ \/ r \in Notify /\ Told(r, "success") /\ UNCHANGED timer
       \/ r \in Notify /\ Told(r, "error") /\ UNCHANGED timer
       \/ r \notin Notify /\ Told(r, "error") /\ timer' = TRUE
    /\ UNCHANGED <<link, mtuDue, locks, threads, inFlight, sent, given, done, disturbed>>

\* processRequest of a request the platform takes.
ProcessWrite(t) ==
    LET r == Head(mGattRequestQueue) IN
    /\ At(t, "process")
    /\ mGattRequestQueue # <<>> /\ r \notin Notify
    /\ inFlight = None /\ link # "down"
    /\ inFlight' = r
    /\ isRequestProcessing' = TRUE
    /\ timer' = TRUE
    /\ given' = [given EXCEPT ![r] = @ + 1]
    /\ Return(t)
    /\ UNCHANGED <<link, mtuDue, mGattRequestQueue, sent, done, reports, disturbed>>

-----------------------------------------------------------------------------
(* The binder thread.                                                       *)

\* The platform has done a request and calls back: the timeout is cancelled.
PlatformAnswers ==
    /\ At(Binder, "idle") /\ inFlight # None
    /\ inFlight' = None
    /\ done' = IF disturbed THEN done ELSE done \cup {inFlight}
    /\ timer' = FALSE
    /\ Goto(Binder, "poll")
    /\ UNCHANGED <<link, mtuDue, mGattRequestQueue, isRequestProcessing, locks, req, sent, given,
                   reports, disturbed>>

\* onMtuChanged: the answer to requestMtu, which is not in the queue.
MtuChanged ==
    /\ At(Binder, "idle") /\ mtuDue /\ link = "up"
    /\ mtuDue' = FALSE
    /\ timer' = FALSE
    /\ Disturb
    /\ Goto(Binder, "poll")
    /\ UNCHANGED <<link, mGattRequestQueue, isRequestProcessing, locks, req, inFlight, sent, given>>

\* Mutant: onRequestComplete before the request is taken from the queue.
PollAfterComplete(what) ==
    /\ At(Binder, "poll")
    /\ what = "error" => queueLock = None
    /\ Goto(Binder, "complete")
    /\ UNCHANGED <<link, mtuDue, mGattRequestQueue, isRequestProcessing, timer, locks, req,
                   inFlight, past>>

\* onRequestSuccess takes the head without the lock, onRequestError with it.
Poll(what) ==
    /\ At(Binder, "poll")
    /\ what = "error" => queueLock = None
    /\ Goto(Binder, "complete")
    /\ IF mGattRequestQueue = <<>>
       THEN UNCHANGED <<mGattRequestQueue, reports>>
       ELSE /\ mGattRequestQueue' = Tail(mGattRequestQueue)
            /\ Told(Head(mGattRequestQueue), what)
    /\ UNCHANGED <<link, mtuDue, isRequestProcessing, timer, locks, req, inFlight, sent, given,
                   done, disturbed>>

\* onRequestComplete, before its postRequest.
Complete ==
    /\ At(Binder, "complete")
    /\ isRequestProcessing' = FALSE
    /\ Goto(Binder, "post")
    /\ UNCHANGED <<link, mtuDue, mGattRequestQueue, timer, locks, req, inFlight, past>>

-----------------------------------------------------------------------------
(* The main looper: CommandTimeoutRunnable.                                 *)

\* The timeout is due: its task has begun and cannot be cancelled any more.
TimeoutDue ==
    /\ At(Main, "idle") /\ timer
    /\ timer' = FALSE
    /\ Disturb
    /\ Goto(Main, "timeout")
    /\ UNCHANGED <<link, mtuDue, mGattRequestQueue, isRequestProcessing, locks, req, inFlight, sent,
                   given>>

\* Under the lock of the queue, the head is told of its timeout ...
TimeoutPeek ==
    /\ At(Main, "timeout")
    /\ queueLock = None
    /\ IF mGattRequestQueue = <<>>
       THEN Goto(Main, "idle") /\ UNCHANGED queueLock
       ELSE Goto(Main, "drop") /\ queueLock' = Main
    /\ UNCHANGED <<link, mtuDue, mGattRequestQueue, isRequestProcessing, timer, monitor, req,
                   inFlight, past>>

\* ... and what is the head now is dropped, another request if the binder has
\* taken the first one meanwhile; onRequestComplete, whose postRequest waits for
\* `this` with the queue locked.
TimeoutDrop ==
    /\ At(Main, "drop")
    /\ mGattRequestQueue' = IF mGattRequestQueue = <<>> THEN <<>> ELSE Tail(mGattRequestQueue)
    /\ isRequestProcessing' = FALSE
    /\ Goto(Main, "post")
    /\ UNCHANGED <<link, mtuDue, timer, locks, req, inFlight, past>>

-----------------------------------------------------------------------------
(* The connection, on threads that take none of the locks: clear empties     *)
(* the queue and resets it.                                                 *)

Clear ==
    /\ mGattRequestQueue' = <<>>
    /\ isRequestProcessing' = FALSE
    /\ timer' = FALSE
    /\ Disturb

\* disconnect
Disconnect ==
    /\ link = "up"
    /\ link' = "closing"
    /\ Clear
    /\ UNCHANGED <<mtuDue, locks, threads, inFlight, sent, given>>

\* onConnectionStateChange: the link is gone, and with it what was in flight.
LinkDown ==
    /\ link \in {"up", "closing"}
    /\ link' = "down"
    /\ Clear
    /\ inFlight' = None
    /\ UNCHANGED <<mtuDue, locks, threads, sent, given>>

\* onConnectionStateChange: connected again, and onServicesDiscoveredComplete,
\* which asks for the MTU.
LinkUp ==
    /\ link = "down"
    /\ link' = "up"
    /\ mtuDue' = TRUE
    /\ UNCHANGED <<mGattRequestQueue, isRequestProcessing, timer, locks, threads, inFlight, past>>

\* What the threads do once a request is sent.
ThreadStep(t) ==
    \/ Add(t) \/ EnterMonitor(t) \/ EnterQueue(t)
    \/ ProcessNothing(t) \/ ProcessAtOnce(t) \/ ProcessWrite(t)

GattStep ==
    \/ \E t \in Threads : ThreadStep(t)
    \/ PlatformAnswers \/ MtuChanged
    \/ \E what \in {"success", "error"} : Poll(what)
    \/ Complete
    \/ TimeoutDue \/ TimeoutPeek \/ TimeoutDrop
    \/ Disconnect \/ LinkDown \/ LinkUp

GattNext ==
    \/ \E t \in Callers, r \in Requests : SendRequest(t, r)
    \/ GattStep

GattSpec == GattInit /\ [][GattNext]_gattVars

-----------------------------------------------------------------------------
(* Safety.                                                                  *)

\* The lock thread t waits for is held by thread u.
WaitsFor(t, u) ==
    /\ t # u
    /\ \/ At(t, "post") /\ monitor = u
       \/ (At(t, "add") \/ At(t, "wantQueue") \/ At(t, "timeout")) /\ queueLock = u

\* The queue goes on sending: no two threads wait for each other's lock.  Of all
\* that run, sendRequest, the callbacks and the request that ends in the call take
\* `this` before the queue; only the command timeout holds the queue when it
\* waits for `this`, so only it can close the circle.
CircularWaitNeedsTimeout ==
    \A t, u \in Threads : WaitsFor(t, u) /\ WaitsFor(u, t) => Main \in {t, u}

InQueue(r) == \E i \in 1..Len(mGattRequestQueue) : mGattRequestQueue[i] = r

\* A request is given to the platform once at most, whatever times out or is
\* cleared.  Until a timeout, an MTU change or a disconnect comes between, it is
\* reported once, when it has left the queue, and "success" only if the platform
\* has answered this request (the callbacks report the head of the queue).
ReportedTruly ==
    \A r \in Requests :
        /\ given[r] <= 1
        /\ ~disturbed =>
             /\ Cardinality(reports[r]) <= 1
             /\ InQueue(r) => reports[r] = {}
             /\ "success" \in reports[r] => r \in done \cup Notify

=============================================================================
