----------------------------- MODULE Provisioning -----------------------------
(***************************************************************************)
(* Provisioning of one device after the other over PB-GATT: MeshController *)
(* (mode, connection, retries), ProvisioningController (the protocol), the *)
(* link of GattConnection, and the nodes (ProvisioningNode).               *)
(*                                                                         *)
(* Threads: the application calls; the platform's callbacks; the           *)
(* Mesh-Controller thread, which runs the delayed tasks, the timers of the *)
(* link and the provisioning timeout.  A handler is one step, except the   *)
(* timeout task, which sets STATE_FAILED and then reports it: calls and    *)
(* callbacks fall in between, other tasks of its thread do not.            *)
(***************************************************************************)
EXTENDS ProvisioningNode, Integers, SequencesExt

CONSTANTS AuthValue,     \* what the application knows of each device
          AutoUseNoOOB,  \* devices with autoUseNoOOB
          BadCert,       \* certified devices whose certificate does not verify
          Records,       \* number of records of a certified device
          MaxAttempts    \* bound: calls of startProvisioning

MAX_CONNECT_RETRY == 3
Attempts == 1..MaxAttempts

ASSUME ProvisioningAssumption ==
    /\ AuthValue \in [Devices -> {"right", "wrong", "null"}]
    /\ AutoUseNoOOB \subseteq Devices
    /\ BadCert \subseteq Certified
    /\ Records \in Nat \ {0}
    /\ MaxAttempts \in Nat \ {0}

VARIABLES mode,        \* actionMode
          isActionStarted,
          connectRetry,
          isDisconnectWaiting,
          task,        \* what mDelayHandler holds
          scanning,    \* isScanning, and the BleScanner at work
          target,      \* ACTION_PROVISIONING_TARGET
          link,        \* GattConnection: state, device, services (mServices # null)
          ctl,         \* ProvisioningController
          timerTask,   \* provisioningTimeoutTask between its two steps
          toNode, toPhone,   \* PDUs on the link
          node,        \* the nodes
          saved,       \* deviceKeyMap
          attempt,     \* history: calls of startProvisioning
          abandoned,   \* history: attempts something else ended
          outcomes     \* history: what was reported of each attempt

control == <<isActionStarted, connectRetry, isDisconnectWaiting, task, scanning>>
pdus    == <<toNode, toPhone>>
history == <<attempt, abandoned>>
vars == <<mode, control, target, link, ctl, timerTask, pdus, node, saved, history, outcomes>>

Modes      == {"IDLE", "PROVISION", "AUTO_CONNECT"}
Tasks      == {"none", "disconnection", "init", "success", "rescan"}
LinkStates == {"IDLE", "CONNECTING", "CONNECTED", "DISCONNECTING"}
States     == {"IDLE", "RECORDS_GET", "RECORD_REQUEST", "INVITE", "PUB_KEY_SENT",
               "CONFIRM_SENT", "RANDOM_SENT", "DATA", "FAILED"}
Outcomes   == {"success", "failed", "timeout", "connection interrupt", "connect fail"}

Links == [state : LinkStates, device : Devices \cup {NoDevice}, services : BOOLEAN]

Controllers ==
    [state : States, device : Devices \cup {NoDevice}, n : 0..MaxAttempts, timer : BOOLEAN,
     recordKey : Devices \cup {NoDevice}, recordIndex : 0..Records, static : BOOLEAN,
     key : Devices \cup {NoDevice}, auth : {"right", "wrong", "null"},
     peerConfirm : Confirms, devKey : Secrets]

\* The types of the state; the attempts to connect are bounded.
TypeOK ==
    /\ mode \in Modes
    /\ isActionStarted \in BOOLEAN
    /\ connectRetry \in -1..MAX_CONNECT_RETRY
    /\ isDisconnectWaiting \in BOOLEAN
    /\ task \in Tasks
    /\ scanning \in BOOLEAN
    /\ target \in Devices \cup {NoDevice}
    /\ link \in Links
    /\ ctl \in Controllers
    /\ timerTask \in BOOLEAN
    /\ toNode \in Seq(ToNodePdus)
    /\ toPhone \in Seq(ToPhonePdus)
    /\ node \in [Devices -> NodeStates]
    /\ saved \in [Devices -> Secrets]
    /\ attempt \in 0..MaxAttempts
    /\ abandoned \subseteq Attempts
    /\ outcomes \in [Attempts -> Seq([what : Outcomes, late : BOOLEAN])]

Init ==
    /\ mode = "IDLE" /\ isActionStarted = FALSE /\ connectRetry = 0
    /\ isDisconnectWaiting = FALSE /\ task = "none" /\ scanning = FALSE
    /\ target = NoDevice
    /\ link = [state |-> "IDLE", device |-> NoDevice, services |-> FALSE]
    /\ ctl = [state |-> "IDLE", device |-> NoDevice, n |-> 0, timer |-> FALSE,
              recordKey |-> NoDevice, recordIndex |-> 0, static |-> FALSE,
              key |-> NoDevice, auth |-> "null", peerConfirm |-> NoConfirm,
              devKey |-> NoSecret]
    /\ timerTask = FALSE
    /\ toNode = <<>> /\ toPhone = <<>>
    /\ node = [d \in Devices |-> NewNode]
    /\ saved = [d \in Devices |-> NoSecret]
    /\ attempt = 0 /\ abandoned = {}
    /\ outcomes = [n \in Attempts |-> <<>>]

-----------------------------------------------------------------------------
(* GattConnection's link.                                                   *)

\* disconnect: a connection being made is closed at once, without a callback.
DisconnectedLink ==
    CASE link.state = "CONNECTED"  -> [link EXCEPT !.state = "DISCONNECTING"]
      [] link.state = "CONNECTING" -> [link EXCEPT !.state = "IDLE"]
      [] OTHER -> link

\* What disconnect returns: onDisconnected will be called.
DisconnectCallsBack == link.state \in {"CONNECTED", "DISCONNECTING"}

\* connect, which is only reached with the link idle.
Connect(d) == link' = [state |-> "CONNECTING", device |-> d, services |-> FALSE]

Joined == link.state \in {"CONNECTED", "DISCONNECTING"}

-----------------------------------------------------------------------------
(* ProvisioningController: each handler gives the controller after it, the  *)
(* PDUs it sends, and whether it ended the provisioning.                    *)

Goes(c, send)  == [ctl |-> c, send |-> send, end |-> "no"]
Fails(c, send) == [ctl |-> c, send |-> send, end |-> "failed"]
Ignored(c)     == Goes(c, <<>>)

\* clear.  Mutant: the timeout stays posted.
ClearKeepsTimer(c) == [c EXCEPT !.state = "IDLE"]

Clear(c) == [c EXCEPT !.state = "IDLE", !.timer = FALSE]

\* getAuthValue
UsedAuth(c) == IF c.static /\ c.auth # "null" THEN c.auth ELSE "none"

\* The secret and the confirmation of the provisioner.
PhoneSecret(c)  == <<c.n, c.key>>
PhoneConfirm(c) == [secret |-> PhoneSecret(c), auth |-> UsedAuth(c)]

\* provisionInvite
Invited(c) == [c EXCEPT !.state = "INVITE"]

\* begin, with the timeout posted.  Mutant: it is not posted.
NotPosted(c) == c

Posted(c) == [c EXCEPT !.timer = TRUE]

\* begin: recordPubKey keeps what an earlier device's certificate left there.
Begin(c, d, n) ==
    LET b == [Posted(c) EXCEPT !.device = d, !.n = n, !.auth = AuthValue[d],
                               !.devKey = NoSecret]
    IN IF d \in Certified
       THEN Goes([b EXCEPT !.state = "RECORDS_GET"], <<Plain("RECORDS_GET")>>)
       ELSE Goes(Invited(b), <<Plain("INVITE")>>)

\* validateDeviceCert
OnAllRecordsComplete(c) ==
    IF c.device \in BadCert THEN Fails(c, <<>>)
    ELSE Goes(Invited([c EXCEPT !.recordKey = c.device,
                                !.auth = IF c.device \in StaticOob THEN "right" ELSE "null"]),
              <<Plain("INVITE")>>)

\* getNextRecord
GetNextRecord(c) ==
    IF c.recordIndex = Records THEN OnAllRecordsComplete(c)
    ELSE Goes([c EXCEPT !.state = "RECORD_REQUEST", !.recordKey = NoDevice],
              <<Plain("RECORD_REQUEST")>>)

OnRecordListReceived(c) ==
    IF c.state # "RECORDS_GET" THEN Ignored(c)
    ELSE GetNextRecord([c EXCEPT !.recordIndex = 0])

OnRecordResponse(c) ==
    IF c.state # "RECORD_REQUEST" THEN Ignored(c)
    ELSE GetNextRecord([c EXCEPT !.recordIndex = @ + 1])

\* sendConfirm, once the device's public key is known.
WithKey(c, k) == [c EXCEPT !.state = "CONFIRM_SENT", !.key = k]

OnPubKeyReceived(c, k) ==
    IF c.state # "PUB_KEY_SENT" THEN Ignored(c)
    ELSE Goes(WithKey(c, k), <<Confirmation(PhoneConfirm(WithKey(c, k)))>>)

\* onCapabilityReceived: the start, the provisioner's key and, with an OOB key,
\* the confirmation too.
OnCapabilityReceived(c0, pdu) ==
    LET c   == [c0 EXCEPT !.static = pdu.static]
        use == pdu.static /\ c.auth # "null"
        oob == pdu.oobKey /\ c.recordKey # NoDevice
        out == <<Start(oob, use), PublicKey(c.n)>>
    IN IF c.state # "INVITE" THEN Ignored(c0)
       ELSE IF pdu.static /\ ~use /\ c.device \notin AutoUseNoOOB THEN Fails(c, <<>>)
       ELSE IF oob
       THEN LET k == WithKey(c, c.recordKey)
            IN Goes(k, Append(out, Confirmation(PhoneConfirm(k))))
       ELSE Goes([c EXCEPT !.state = "PUB_KEY_SENT"], out)

OnConfirmReceived(c, confirm) ==
    IF c.state # "CONFIRM_SENT" THEN Ignored(c)
    ELSE Goes([c EXCEPT !.state = "RANDOM_SENT", !.peerConfirm = confirm],
              <<Plain("RANDOM")>>)

\* onRandomReceived: checkDeviceConfirm, then sendProvisionData.
OnRandomReceived(c) ==
    IF c.state # "RANDOM_SENT" THEN Ignored(c)
    ELSE IF c.peerConfirm # PhoneConfirm(c) THEN Fails(c, <<>>)
    ELSE Goes([c EXCEPT !.state = "DATA", !.devKey = PhoneSecret(c)], <<Data(PhoneSecret(c))>>)

\* pushNotification: COMPLETE and FAILED are taken in any state but idle.
PushNotification(c, pdu) ==
    CASE c.state = "IDLE"               -> Ignored(c)
      [] c.state # "IDLE" ->
         CASE pdu.type = "RECORDS_LIST"    -> OnRecordListReceived(c)
           [] pdu.type = "RECORD_RESPONSE" -> OnRecordResponse(c)
           [] pdu.type = "CAPABILITIES"    -> OnCapabilityReceived(c, pdu)
           [] pdu.type = "PUBLIC_KEY"      -> OnPubKeyReceived(c, pdu.key)
           [] pdu.type = "CONFIRMATION"    -> OnConfirmReceived(c, pdu.confirm)
           [] pdu.type = "RANDOM"          -> OnRandomReceived(c)
           [] pdu.type = "COMPLETE" -> [ctl |-> c, send |-> <<>>, end |-> "success"]
           [] pdu.type = "FAILED"   -> Fails(c, <<>>)

-----------------------------------------------------------------------------
(* MeshController.                                                          *)

\* idle(disconnect), with validateActionMode(IDLE): a provisioning is cleared.
Idle(disconnect) ==
    /\ mode' = "IDLE"
    /\ task' = "none"
    /\ scanning' = FALSE
    /\ link' = IF disconnect THEN DisconnectedLink ELSE link

\* validateActionMode, for any other mode.  Mutant: the provisioning goes on.
ValidateNothing == ctl

ValidateActionMode == IF mode = "PROVISION" THEN Clear(ctl) ELSE ctl

\* The attempt being made ends without an outcome.
Abandon == abandoned' = IF mode = "PROVISION" THEN abandoned \cup {attempt} ELSE abandoned

\* The outcome of attempt n, as the application is told it.
Report(n, what) == outcomes' = [outcomes EXCEPT ![n] = Append(@, [what |-> what, late |-> timerTask])]

\* onProvisionComplete of the MeshController, and the event.
ProvisionComplete(n, what) ==
    /\ isActionStarted' = FALSE
    /\ Idle(what # "success")
    /\ Report(n, what)
    /\ UNCHANGED <<connectRetry, isDisconnectWaiting>>

\* What a handler of the ProvisioningController leads to.  sendProvisionPDU
\* sends nothing unless the link is up.
Handled(r) ==
    /\ toNode' = IF link.state = "CONNECTED" THEN toNode \o r.send ELSE toNode
    /\ ctl' = IF r.end = "no" THEN r.ctl ELSE Clear(r.ctl)
    /\ IF r.end = "no"
       THEN UNCHANGED <<mode, control, link, outcomes>>
       ELSE ProvisionComplete(r.ctl.n, r.end)
    /\ saved' = IF r.end = "success"
                THEN [saved EXCEPT ![r.ctl.device] = r.ctl.devKey] ELSE saved

\* startProvisioning, called by the application.
StartProvisioning(d) ==
    /\ mode # "PROVISION"
    /\ attempt < MaxAttempts
    /\ mode' = "PROVISION"
    /\ task' = "none"
    /\ isActionStarted' = FALSE /\ connectRetry' = 0
    /\ target' = d
    /\ attempt' = attempt + 1
    /\ IF DisconnectCallsBack
       THEN /\ isDisconnectWaiting' = TRUE
            /\ link' = DisconnectedLink
            /\ UNCHANGED scanning
       ELSE /\ Connect(d)
            /\ scanning' = FALSE
            /\ UNCHANGED isDisconnectWaiting
    /\ UNCHANGED <<ctl, timerTask, pdus, node, saved, abandoned, outcomes>>

\* autoConnect, called by the application; proxyFilterInit has no state here.
AutoConnect ==
    /\ mode # "AUTO_CONNECT"
    /\ ctl' = ValidateActionMode
    /\ Abandon
    /\ task' = "none"
    /\ IF \A d \in Devices : saved[d] = NoSecret
       THEN /\ mode' = "IDLE"
            /\ scanning' = FALSE
            /\ UNCHANGED <<isDisconnectWaiting, link>>
       ELSE /\ mode' = "AUTO_CONNECT"
            /\ IF link.state = "CONNECTED" /\ link.services
               THEN UNCHANGED <<isDisconnectWaiting, link, scanning>>
               ELSE /\ isDisconnectWaiting' = (DisconnectCallsBack \/ isDisconnectWaiting)
                    /\ link' = DisconnectedLink
                    /\ scanning' = (scanning \/ ~DisconnectCallsBack)
    /\ UNCHANGED <<isActionStarted, connectRetry, target, timerTask, pdus, node, saved,
                   attempt, outcomes>>

\* idle, called by the application.
AppIdle(disconnect) ==
    /\ ctl' = ValidateActionMode
    /\ Abandon
    /\ Idle(disconnect)
    /\ UNCHANGED <<isActionStarted, connectRetry, isDisconnectWaiting, target, timerTask,
                   pdus, node, saved, attempt, outcomes>>

\* disconnect, called by the application or when Bluetooth goes off.  A
\* connection being made is closed and nothing more comes of it: the mode stays.
AppDisconnect ==
    /\ link' = DisconnectedLink
    /\ IF link.state = "CONNECTING" THEN Abandon ELSE UNCHANGED abandoned
    /\ UNCHANGED <<mode, control, target, ctl, timerTask, pdus, node, saved, attempt, outcomes>>

\* The link comes up: the node forgets an unfinished provisioning.
Connected ==
    /\ link.state = "CONNECTING"
    /\ link' = [link EXCEPT !.state = "CONNECTED"]
    /\ node' = [node EXCEPT ![link.device] = ParaReset(@)]
    /\ UNCHANGED <<mode, control, target, ctl, timerTask, pdus, saved, history, outcomes>>

\* The link goes down, or its timers give it up: onGattDisconnected.
Disconnected ==
    /\ link.state # "IDLE"
    /\ link' = [link EXCEPT !.state = "IDLE", !.services = FALSE]
    /\ toNode' = <<>> /\ toPhone' = <<>>
    /\ node' = IF Joined THEN [node EXCEPT ![link.device] = ParaReset(@)] ELSE node
    /\ isDisconnectWaiting' = FALSE
    /\ connectRetry' = IF isDisconnectWaiting THEN -1 ELSE connectRetry
    /\ task' = IF mode = "IDLE" THEN "none" ELSE "disconnection"
    /\ UNCHANGED <<mode, isActionStarted, scanning, target, ctl, timerTask, saved, history,
                   outcomes>>

\* onServicesDiscovered, which may come late, when the link is being closed.
ServicesDiscovered ==
    /\ Joined /\ ~link.services
    /\ link' = [link EXCEPT !.services = TRUE]
    /\ task' = "init"
    /\ UNCHANGED <<mode, isActionStarted, connectRetry, isDisconnectWaiting, scanning, target,
                   ctl, timerTask, pdus, node, saved, history, outcomes>>

\* discoverServices is refused: the link is closed.
DiscoveryFails ==
    /\ ~timerTask
    /\ link.state = "CONNECTED" /\ ~link.services
    /\ link' = DisconnectedLink
    /\ UNCHANGED <<mode, control, target, ctl, timerTask, pdus, node, saved, history, outcomes>>

-----------------------------------------------------------------------------
(* The Mesh-Controller thread.                                              *)

\* provisionInit or proxyInit; 200 ms later, onConnectSuccess.
RunInit ==
    /\ ~timerTask
    /\ task = "init"
    /\ task' = "success"
    /\ UNCHANGED <<mode, isActionStarted, connectRetry, isDisconnectWaiting, scanning, target,
                   link, ctl, timerTask, pdus, node, saved, history, outcomes>>

\* onConnectSuccess
RunSuccess ==
    /\ ~timerTask
    /\ task = "success"
    /\ task' = "none"
    /\ IF mode = "PROVISION"
       THEN LET r == Begin(ctl, target, attempt) IN
            /\ isActionStarted' = TRUE
            /\ ctl' = r.ctl
            /\ toNode' = IF link.state = "CONNECTED" THEN toNode \o r.send ELSE toNode
       ELSE UNCHANGED <<isActionStarted, ctl, toNode>>
    /\ UNCHANGED <<mode, connectRetry, isDisconnectWaiting, scanning, target, link, timerTask,
                   toPhone, node, saved, history, outcomes>>

\* DISCONNECTION_TASK when it starts a scan, and restartScanTask.
RunScan ==
    /\ ~timerTask
    /\ task \in {"disconnection", "rescan"}
    /\ mode = "AUTO_CONNECT"
    /\ task' = "none"
    /\ scanning' = TRUE
    /\ UNCHANGED <<mode, isActionStarted, connectRetry, isDisconnectWaiting, target, link, ctl,
                   timerTask, pdus, node, saved, history, outcomes>>

\* DISCONNECTION_TASK, onConnectionInterrupt: the provisioning had begun.
RunInterrupt ==
    /\ ~timerTask
    /\ task = "disconnection"
    /\ mode = "PROVISION" /\ isActionStarted
    /\ ctl' = Clear(ctl)
    /\ ProvisionComplete(ctl.n, "connection interrupt")
    /\ UNCHANGED <<target, timerTask, pdus, node, saved, history>>

\* Mutant: it is tried again for ever.
NeverGivesUp == FALSE

GivesUp == connectRetry + 1 >= MAX_CONNECT_RETRY

\* DISCONNECTION_TASK, onConnectionFail
RunConnectFail ==
    /\ ~timerTask
    /\ task = "disconnection"
    /\ mode = "PROVISION" /\ ~isActionStarted
    /\ GivesUp
    /\ connectRetry' = connectRetry + 1
    /\ isActionStarted' = FALSE
    /\ ctl' = Clear(ctl)
    /\ Idle(TRUE)
    /\ Report(attempt, "connect fail")
    /\ UNCHANGED <<isDisconnectWaiting, target, timerTask, pdus, node, saved, history>>

\* DISCONNECTION_TASK, the retry
RunReconnect ==
    /\ ~timerTask
    /\ task = "disconnection"
    /\ mode = "PROVISION" /\ ~isActionStarted
    /\ ~GivesUp
    /\ connectRetry' = connectRetry + 1
    /\ task' = "none"
    /\ scanning' = FALSE
    /\ Connect(target)
    /\ UNCHANGED <<mode, isActionStarted, isDisconnectWaiting, target, ctl, timerTask, pdus,
                   node, saved, history, outcomes>>

\* onScanFilter: a node of the network is found.
ScanFound(d) ==
    /\ ~timerTask
    /\ scanning
    /\ mode = "AUTO_CONNECT"
    /\ node[d].provisioned
    /\ link.state = "IDLE"
    /\ scanning' = FALSE
    /\ Connect(d)
    /\ UNCHANGED <<mode, isActionStarted, connectRetry, isDisconnectWaiting, task, target, ctl,
                   timerTask, pdus, node, saved, history, outcomes>>

\* scanningTimeoutTask and onScanTimeout: the BleScanner stops.  isScanning stays set,
\* which nothing sees but an advertisement reported only after the scan was stopped;
\* such reports are left out.
ScanTimeout ==
    /\ ~timerTask
    /\ scanning
    /\ mode = "AUTO_CONNECT"
    /\ scanning' = FALSE
    /\ task' = "rescan"
    /\ UNCHANGED <<mode, isActionStarted, connectRetry, isDisconnectWaiting, target, link, ctl,
                   timerTask, pdus, node, saved, history, outcomes>>

\* provisioningTimeoutTask: onProvisionFail sets the state ...
TimerFires ==
    /\ ~timerTask
    /\ ctl.timer
    /\ ctl' = [ctl EXCEPT !.state = "FAILED", !.timer = FALSE]
    /\ timerTask' = TRUE
    /\ UNCHANGED <<mode, control, target, link, pdus, node, saved, history, outcomes>>

\* ... and reports it, whatever was done in between: another attempt or another
\* mode the application has started meanwhile is set to idle.
TimerReports ==
    /\ timerTask
    /\ IF ctl.n # attempt THEN Abandon ELSE UNCHANGED abandoned
    /\ timerTask' = FALSE
    /\ ctl' = Clear(ctl)
    /\ ProvisionComplete(ctl.n, "timeout")
    /\ UNCHANGED <<target, pdus, node, saved, attempt>>

-----------------------------------------------------------------------------
(* The PDUs, and the nodes.                                                 *)

\* onGattNotification: the PDU is dropped unless the provisioning has begun.
PhoneReceives ==
    /\ Joined /\ toPhone # <<>>
    /\ toPhone' = Tail(toPhone)
    /\ IF isActionStarted
       THEN Handled(PushNotification(ctl, Head(toPhone)))
       ELSE UNCHANGED <<mode, control, link, ctl, toNode, saved, outcomes>>
    /\ UNCHANGED <<target, timerTask, node, history>>

NodeReceives ==
    LET d == link.device
        a == Dispatch(node[d], d, Head(toNode))
    IN /\ Joined /\ toNode # <<>>
       /\ toNode' = Tail(toNode)
       /\ toPhone' = toPhone \o a.out
       /\ node' = [node EXCEPT ![d] = a.node]
       /\ UNCHANGED <<mode, control, target, link, ctl, timerTask, saved, history, outcomes>>

\* The node's own timeout.
NodeTimeout ==
    /\ Joined /\ Timed(node[link.device])
    /\ node' = [node EXCEPT ![link.device] = ParaReset(@)]
    /\ UNCHANGED <<mode, control, target, link, ctl, timerTask, pdus, saved, history, outcomes>>

TaskRuns == RunInit \/ RunSuccess \/ RunScan \/ RunInterrupt \/ RunConnectFail \/ RunReconnect

AppCall ==
    \/ \E d \in Devices : StartProvisioning(d)
    \/ AutoConnect
    \/ \E disconnect \in BOOLEAN : AppIdle(disconnect)
    \/ AppDisconnect

Next ==
    \/ AppCall
    \/ Connected \/ Disconnected \/ ServicesDiscovered \/ DiscoveryFails
    \/ RunInit \/ RunSuccess \/ RunScan \/ RunInterrupt \/ RunConnectFail \/ RunReconnect
    \/ \E d \in Devices : ScanFound(d)
    \/ ScanTimeout
    \/ TimerFires \/ TimerReports
    \/ PhoneReceives \/ NodeReceives \/ NodeTimeout

Spec == Init /\ [][Next]_vars

\* What the phone's threads and its platform do in the end: posted tasks run,
\* the timers of the link and of the provisioning fire, and a platform that has
\* been asked for the services answers.
Fairness ==
    /\ WF_vars(TaskRuns)
    /\ WF_vars(TimerFires) /\ WF_vars(TimerReports)
    /\ WF_vars(link.state = "CONNECTING" /\ (Connected \/ Disconnected))
    /\ WF_vars(link.state = "DISCONNECTING" /\ Disconnected)
    /\ WF_vars(/\ link.state = "CONNECTED" /\ ~link.services
               /\ ServicesDiscovered \/ DiscoveryFails \/ Disconnected)

FairSpec == Spec /\ Fairness

-----------------------------------------------------------------------------
(* Safety.                                                                  *)

\* The device keys the provisioner has are the ones the nodes have: what it
\* saves at COMPLETE (updateDeviceKeyMap), whatever was aborted, lost with the
\* link or made again before, is what a provisioned node derived in that
\* attempt, or the node cannot be configured any more.
KeysAgree ==
    \A d \in Devices : saved[d] # NoSecret => node[d].provisioned /\ node[d].devKey = saved[d]

\* The application is told one outcome of an attempt; only when COMPLETE or
\* another call comes while the timeout task is under way (onProvisionFail has
\* set the state, onProvisionComplete has not) is a second one, the timeout.
OutcomeOnce ==
    \A n \in Attempts :
        \/ Len(outcomes[n]) <= 1
        \/ /\ Len(outcomes[n]) = 2
           /\ outcomes[n][1].late
           /\ outcomes[n][2] = [what |-> "timeout", late |-> TRUE]

\* What is reported is the attempt being made, in the mode of it: nothing of a
\* provisioning the application has left (idle, autoConnect) ends what it does
\* now, but for the timeout task that was under way.
OutcomeOfThisAttempt ==
    [][\A n \in Attempts :
          outcomes'[n] # outcomes[n] /\ ~timerTask => mode = "PROVISION" /\ n = attempt]_vars

\* A provisioned node keeps its device key, also when a provisioning of it is
\* tried again because the provisioner never saw its COMPLETE.
ProvisionedNodeKept ==
    [][\A d \in Devices :
          node[d].provisioned => node'[d].provisioned /\ node'[d].devKey = node[d].devKey]_vars

-----------------------------------------------------------------------------
(* Liveness.                                                                *)

\* Every attempt has an outcome, however the link, the node and its answers are
\* lost, unless the application leaves it, or closes the connection while it is
\* made: then no callback, no task and no timeout is left.
AttemptEnds ==
    \A n \in Attempts :
        (mode = "PROVISION" /\ attempt = n) ~> (outcomes[n] # <<>> \/ n \in abandoned)

=============================================================================
