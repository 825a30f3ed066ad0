----------------------------- MODULE NetworkQueue -----------------------------
(***************************************************************************)
(* The queue of network PDUs of NetworkingController, which sends one PDU  *)
(* per netPktSendInterval, on top of the request queue of GattConnection:  *)
(* onCommandPrepared is sendRequest, called with mNetworkBusyLock held or  *)
(* not.  A PDU is a request of GattQueue.                                  *)
(*                                                                         *)
(* Any thread prepares PDUs; the Mesh-Controller thread runs the sending   *)
(* task; a reliable message completes on that thread or on the binder's.   *)
(***************************************************************************)
EXTENDS GattQueue

CONSTANTS Mesh,   \* the Mesh-Controller thread, one of the Callers
          Direct  \* the PDUs whose destination is the direct node

ASSUME NetworkQueueAssumption == Mesh \in Callers /\ Direct \subseteq Requests \ Notify

VARIABLES mNetworkingQueue,
          networkingBusy,
          sendingTask,  \* networkingSendingTask is posted
          busyLock,     \* the thread that holds mNetworkBusyLock
          net, pdu,     \* of each caller: where it is, with which PDU
          prepared,     \* history: PDUs prepared so far
          missed        \* history: PDUs added after a poll had found nothing and
                        \* looked at before it had reset networkingBusy

netVars == <<mNetworkingQueue, networkingBusy, sendingTask, busyLock, net, pdu, prepared, missed>>
vars    == <<gattVars, netVars>>

\* The types of both queues and of what the threads are doing, and where a thread
\* is when it holds one of the locks.
TypeOK ==
    /\ GattTypeOK
    /\ mNetworkingQueue \in Seq(Requests)
    /\ networkingBusy \in BOOLEAN
    /\ sendingTask \in BOOLEAN
    /\ busyLock \in Callers \cup {None}
    /\ net \in [Callers -> {"idle", "direct", "add", "check", "poll", "sending", "null"}]
    /\ pdu \in [Callers -> Requests \cup {None}]
    /\ prepared \subseteq Requests
    /\ missed \subseteq Requests
    /\ \A t \in Callers : busyLock = t => net[t] \in {"direct", "poll", "sending", "null"}

Init ==
    /\ GattInit
    /\ mNetworkingQueue = <<>> /\ networkingBusy = FALSE /\ sendingTask = FALSE
    /\ busyLock = None
    /\ net = [t \in Callers |-> "idle"] /\ pdu = [t \in Callers |-> None]
    /\ prepared = {} /\ missed = {}

-----------------------------------------------------------------------------
In(t, l)     == net[t] = l
NetGoto(t, l) == net' = [net EXCEPT ![t] = l]
Ready(t)     == In(t, "idle") /\ At(t, "idle")

\* onNetworkingPduPrepared: with nothing being sent, a PDU for the direct node
\* goes out at once, under mNetworkBusyLock ...
PreparedDirect(t, p) ==
    /\ Ready(t)
    /\ p \in Direct \ prepared
    /\ busyLock = None /\ ~networkingBusy
    /\ busyLock' = t
    /\ prepared' = prepared \cup {p}
    /\ NetGoto(t, "direct")
    /\ SendRequest(t, p)
    /\ UNCHANGED <<mNetworkingQueue, networkingBusy, sendingTask, pdu, missed>>

DirectSent(t) ==
    /\ In(t, "direct") /\ At(t, "idle")
    /\ busyLock' = None
    /\ NetGoto(t, "idle")
    /\ UNCHANGED <<gattVars, mNetworkingQueue, networkingBusy, sendingTask, pdu, prepared, missed>>

\* ... any other one is added to the queue ...
PreparedQueued(t, p) ==
    /\ Ready(t)
    /\ p \in Requests \ (prepared \cup Notify)
    /\ busyLock = None /\ (networkingBusy \/ p \notin Direct)
    /\ prepared' = prepared \cup {p}
    /\ pdu' = [pdu EXCEPT ![t] = p]
    /\ NetGoto(t, "add")
    /\ UNCHANGED <<gattVars, mNetworkingQueue, networkingBusy, sendingTask, busyLock, missed>>

AddPdu(t) ==
    /\ In(t, "add")
    /\ mNetworkingQueue' = Append(mNetworkingQueue, pdu[t])
    /\ NetGoto(t, "check")
    /\ UNCHANGED <<gattVars, networkingBusy, sendingTask, busyLock, pdu, prepared, missed>>

\* ... and the sending started, unless networkingBusy.
CheckBusy(t) ==
    /\ In(t, "check")
    /\ busyLock = None
    /\ pdu' = [pdu EXCEPT ![t] = None]
    /\ IF networkingBusy
       THEN /\ NetGoto(t, "idle")
            /\ missed' = IF \E u \in Callers : In(u, "null") THEN missed \cup {pdu[t]} ELSE missed
            /\ UNCHANGED <<networkingBusy, busyLock>>
       ELSE /\ networkingBusy' = TRUE
            /\ busyLock' = t
            /\ NetGoto(t, "poll")
            /\ UNCHANGED missed
    /\ UNCHANGED <<gattVars, mNetworkingQueue, sendingTask, prepared>>

\* networkingSendingTask
TaskRuns ==
    /\ Ready(Mesh)
    /\ sendingTask
    /\ sendingTask' = FALSE
    /\ NetGoto(Mesh, "poll")
    /\ UNCHANGED <<gattVars, mNetworkingQueue, networkingBusy, busyLock, pdu, prepared, missed>>

\* pollNetworkingQueue: the head is sent ...
PollPdu(t) ==
    /\ In(t, "poll")
    /\ mNetworkingQueue # <<>>
    /\ mNetworkingQueue' = Tail(mNetworkingQueue)
    /\ NetGoto(t, "sending")
    /\ SendRequest(t, Head(mNetworkingQueue))
    /\ UNCHANGED <<networkingBusy, sendingTask, busyLock, pdu, prepared, missed>>

\* ... and the task posted again ...
PostTask(t) ==
    /\ In(t, "sending") /\ At(t, "idle")
    /\ sendingTask' = TRUE
    /\ busyLock' = IF busyLock = t THEN None ELSE busyLock
    /\ NetGoto(t, "idle")
    /\ UNCHANGED <<gattVars, mNetworkingQueue, networkingBusy, pdu, prepared, missed>>

\* ... or nothing is found, and then networkingBusy reset.
PollNull(t) ==
    /\ In(t, "poll")
    /\ mNetworkingQueue = <<>>
    /\ NetGoto(t, "null")
    /\ UNCHANGED <<gattVars, mNetworkingQueue, networkingBusy, sendingTask, busyLock, pdu,
                   prepared, missed>>

\* Mutant: networkingBusy stays set.
StaysBusy(t) ==
    /\ In(t, "null")
    /\ Free(busyLock, t)
    /\ busyLock' = None
    /\ NetGoto(t, "idle")
    /\ UNCHANGED <<gattVars, mNetworkingQueue, networkingBusy, sendingTask, pdu, prepared, missed>>

ResetBusy(t) ==
    /\ In(t, "null")
    /\ Free(busyLock, t)
    /\ networkingBusy' = FALSE
    /\ busyLock' = None
    /\ NetGoto(t, "idle")
    /\ UNCHANGED <<gattVars, mNetworkingQueue, sendingTask, pdu, prepared, missed>>

\* clear, and what onReliableMessageComplete does to the queue: what is in it is
\* dropped, and networkingBusy written without its lock.
Empty ==
    /\ sendingTask' = FALSE
    /\ networkingBusy' = FALSE
    /\ mNetworkingQueue' = <<>>
    /\ UNCHANGED <<busyLock, net, pdu, prepared, missed>>

\* onReliableMessageComplete, on the binder's or the Mesh-Controller thread.
ReliableMessageComplete ==
    /\ At(Binder, "idle") \/ Ready(Mesh)
    /\ Empty
    /\ UNCHANGED gattVars

\* onGattDisconnected: NetworkingController.clear.
Disconnected == LinkDown /\ Empty

\* proxyInit: the notifications of the proxy are enabled.
ProxyInit(r) ==
    /\ Ready(Mesh)
    /\ r \in Notify
    /\ SendRequest(Mesh, r)
    /\ UNCHANGED netVars

Next ==
    \/ \E t \in Callers, p \in Requests : PreparedDirect(t, p) \/ PreparedQueued(t, p)
    \/ \E t \in Callers : \/ DirectSent(t) \/ AddPdu(t) \/ CheckBusy(t)
                          \/ PollPdu(t) \/ PostTask(t) \/ PollNull(t) \/ ResetBusy(t)
    \/ TaskRuns \/ ReliableMessageComplete \/ Disconnected
    \/ \E r \in Notify : ProxyInit(r)
    \/ /\ \/ \E t \in Threads : ThreadStep(t)
          \/ PlatformAnswers \/ MtuChanged
          \/ \E what \in {"success", "error"} : Poll(what)
          \/ Complete
          \/ TimeoutDue \/ TimeoutPeek \/ TimeoutDrop
          \/ Disconnect \/ LinkUp
       /\ UNCHANGED netVars

Spec == Init /\ [][Next]_vars

-----------------------------------------------------------------------------
\* PDUs are in the queue only while somebody will poll it: the task is posted or
\* a thread is in between.  The one way to leave a PDU behind, until another one
\* is prepared, is to add it after a poll has found the queue empty and to look
\* at networkingBusy before that poll has reset it (pollNetworkingQueue drops
\* the lock of the queue in between).
LeftBehindOnlyByEmptyPoll ==
    /\ mNetworkingQueue # <<>>
    /\ ~sendingTask
    /\ \A t \in Callers : In(t, "idle")
    => Head(mNetworkingQueue) \in missed

=============================================================================
