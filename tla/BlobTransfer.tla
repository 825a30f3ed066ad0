----------------------------- MODULE BlobTransfer -----------------------------
(***************************************************************************)
(* The BLOB transfer client of the Android provisioner (BlobTransfer with  *)
(* MeshFirmwareParser), as the phone distributes a firmware to several     *)
(* nodes over the mesh in push mode, and what FUDistributor and FUController *)
(* do with it when the connection is lost and made again.  The nodes are   *)
(* BlobReceivers.                                                          *)
(*                                                                         *)
(* The client goes through steps; in most of them it sends one reliable    *)
(* message to each target in turn and takes the next target at its answer. *)
(* Chunks go to a group and are not answered.  What the client sends       *)
(* reaches a node in the order in which it was sent, or not at all (the    *)
(* nodes' replay check); so does what a node answers, later.               *)
(***************************************************************************)
EXTENDS BlobReceiver, Sequences, SequencesExt

CONSTANTS Nodes,      \* the nodes to update
          Proxy,      \* a node of the network that is not updated
          InitConfig, \* order of the nodes in the configuration
          NoCommand,  \* the reliable slot is free
          RetryCnt,   \* retries of a reliable message
          MaxLoss,    \* bound: chunks lost on the way to a node
          MaxLate,    \* bound: answers of one node on their way
          MaxHold     \* bound: losses of the connection

ASSUME BlobTransferAssumption ==
    /\ Nodes # {} /\ Proxy \notin Nodes
    /\ InitConfig \in Seq(Nodes) /\ Range(InitConfig) = Nodes
    /\ IsInjective(InitConfig)
    /\ Len(InitConfig) > 1 \* one node on its own is served over GATT
    /\ RetryCnt \in Nat /\ MaxLoss \in Nat
    /\ MaxLate \in Nat /\ MaxHold \in Nat

VARIABLES
    \* --- fields of BlobTransfer and MeshFirmwareParser ---
    step,       \* step
    nodeIndex,  \* nodeIndex
    targets,    \* targetDevices
    failed,     \* the targets in STATE_FAIL
    block,      \* curBlockIndex
    chunk,      \* curChunkIndex
    mixFormat,  \* mixFormat, "unknown" is -1
    missing,    \* missingChunks
    missingIdx, \* missingChunkIndex
    tasks,      \* the tasks posted to delayHandler
    \* --- FUDistributor, FUController and NetworkingController ---
    config,     \* updatingDevices of the configuration
    reported,   \* those of them in STATE_FAIL, which are not told to apply
    link,       \* the connection: up, lost (noticed by half), held, or asking the
                \* node connected to whether to continue
    direct,     \* the node connected to; first read after a reconnection
    slot,       \* the reliable message under way
    retries,    \* its retries left
    \* --- the nodes and the network ---
    node,       \* the BLOB server of each node
    late,       \* answers of each node on their way
    \* --- history ---
    outcome,    \* what onTransferComplete told first
    misread,    \* an answer was taken for that to another command
    losses,     \* chunks lost
    holds,      \* losses of the connection
    derailed    \* a continuation did not repeat what the loss interrupted

report  == <<mixFormat, missing, missingIdx>>
session == <<config, link, direct>>
failures == <<failed, reported>>
service == <<slot, retries>>
network == <<node, late>>
vars == <<step, nodeIndex, targets, failed, block, chunk, mixFormat, missing,
          missingIdx, tasks, config, reported, link, direct, slot, retries, node, late,
          outcome, misread, losses, holds, derailed>>

\* STEP_*, in the order in which step++ goes through them.
StepOrder == <<"transferGet", "getInfo", "transferStart", "blockStart", "chunkSending",
               "getBlock">>
Steps     == Range(StepOrder) \union {"idle"}
NextStep(s) == StepOrder[1 + CHOOSE i \in 1 .. Len(StepOrder) - 1 : StepOrder[i] = s]

\* The opcode of the answer to the command of a step.
Answer(s) == CASE s \in {"transferGet", "transferStart"} -> "transferStatus"
               [] s \in {"blockStart", "getBlock"}       -> "blockStatus"
               [] OTHER                                  -> "infoStatus"

Commands == [op: Steps \ {"idle", "chunkSending"}, dst: Nodes, block: Blocks \union {-1}]
Statuses == [op: {"transferStatus", "blockStatus", "infoStatus"}, ok: BOOLEAN,
             format: {"none", "all", "some"}, miss: SUBSET Chunks, to: Commands]
Tasks    == {"action", "chunk", "missing"}

\* A free slot is told from one that holds a command.
ASSUME NoCommandAssumption == NoCommand \notin Commands

\* What is left of s without the elements in S, in the order of s.
Without(s, S) ==
    LET F[i \in 0 .. Len(s)] ==
            IF i = 0 THEN <<>>
            ELSE IF s[i] \in S THEN F[i - 1] ELSE Append(F[i - 1], s[i])
    IN  F[Len(s)]

\* The chunks of a block in their order.
ChunkSeq == [i \in 1 .. ChunkNum |-> i - 1]

Init ==
    /\ step = "transferGet"
    /\ nodeIndex = 0
    /\ targets = InitConfig
    /\ failed = {}
    /\ block = -1
    /\ chunk = -1
    /\ mixFormat = "unknown"
    /\ missing = <<>>
    /\ missingIdx = 0
    /\ tasks = {"action"}
    /\ config = InitConfig
    /\ reported = {}
    /\ link = "up"
    /\ direct = Proxy
    /\ slot = NoCommand
    /\ retries = 0
    /\ node = [n \in Nodes |-> Started]
    /\ late = [n \in Nodes |-> <<>>]
    /\ outcome = "pending"
    /\ misread = FALSE
    /\ losses = 0
    /\ holds = 0
    /\ derailed = FALSE

-----------------------------------------------------------------------------
(* The nodes *)

Handle(r, cmd) ==
    CASE cmd.op = "transferStart" -> OnTransferStart(r)
      [] cmd.op = "blockStart"    -> OnBlockStart(r, cmd.block)
      [] cmd.op = "getBlock"      -> OnBlockGet(r)
      [] OTHER                    -> r

\* The answer of a node that was in state r.
StatusOf(r, cmd) ==
    [op     |-> Answer(cmd.op),
     ok     |-> CASE cmd.op = "blockStart" -> BlockStartOk(r, cmd.block)
                  [] cmd.op = "getBlock"   -> r.busy
                  [] OTHER                 -> TRUE,
     format |-> IF cmd.op = "getBlock" THEN MissingFormat(r)
                ELSE IF cmd.op = "blockStart" /\ cmd.block >= RxOkCount(Handle(r, cmd))
                     THEN "all" ELSE "none",
     miss   |-> IF cmd.op = "getBlock" /\ MissingFormat(r) = "some" THEN r.miss ELSE {},
     to     |-> cmd]

\* A command is lost, or received; then its answer may be lost.
Transmit(cmd) ==
    \/ UNCHANGED network
    \/ /\ node' = [node EXCEPT ![cmd.dst] = Handle(@, cmd)]
       /\ \/ late' = late
          \/ /\ Len(late[cmd.dst]) < MaxLate
             /\ late' = [late EXCEPT ![cmd.dst] = Append(@, StatusOf(node[cmd.dst], cmd))]

\* A chunk goes to the group, which failed nodes do not leave.
Broadcast(c) ==
    \E lost \in SUBSET Nodes :
        /\ losses + Cardinality(lost) <= MaxLoss
        /\ losses' = losses + Cardinality(lost)
        /\ node' = [n \in Nodes |-> IF n \in lost THEN node[n]
                                                  ELSE OnChunk(node[n], block, c)]

-----------------------------------------------------------------------------
(* Parts of the handlers.  "rest" are the tasks posted besides the one that  *)
(* runs.                                                                     *)

Target   == targets[nodeIndex + 1]
Targeted == nodeIndex < Len(targets)

\* onTransferComplete with its clear()
OnTransferComplete(result, posted) ==
    /\ step' = "idle"
    /\ tasks' = posted
    /\ outcome' = IF outcome = "pending" THEN result ELSE outcome

\* onDeviceFail.  Mutant: the target stays in the transfer.
DeviceFailIgnored == UNCHANGED failures

DeviceFail ==
    /\ failed' = failed \union {Target}
    /\ reported' = reported \union {Target}

\* onTransferMessagePrepared for a command.  When it cannot be sent, the target
\* fails and nothing is posted.
SendCommand(cmd) ==
    \/ /\ link = "up" /\ slot = NoCommand
       /\ slot' = cmd
       /\ retries' = RetryCnt
       /\ Transmit(cmd)
       /\ UNCHANGED failures
    \/ /\ ~(link = "up" /\ slot = NoCommand)
       /\ DeviceFail
       /\ UNCHANGED <<service, network>>

\* onTransferMessagePrepared for a chunk, and the posting of the task that goes
\* on: it is posted even when the chunk could not be sent and the transfer was
\* completed.
SendChunk(c, task, rest) ==
    \/ /\ link = "up"
       /\ Broadcast(c)
       /\ tasks' = rest \union {task}
       /\ UNCHANGED <<step, outcome>>
    \/ /\ link # "up"
       /\ OnTransferComplete("failure", {task})
       /\ UNCHANGED <<node, losses>>

CheckMissingChunks(rest) ==
    /\ missing' = <<>>
    /\ mixFormat' = "unknown"
    /\ step' = "getBlock"
    /\ nodeIndex' = 0
    /\ tasks' = rest \union {"action"}
    /\ UNCHANGED <<outcome, node, losses>>

\* sendChunks: the next chunk of the block, or after the last one the check.
SendChunks(rest) ==
    \/ /\ chunk + 1 < ChunkNum
       /\ chunk' = chunk + 1
       /\ SendChunk(chunk + 1, "chunk", rest)
       /\ UNCHANGED <<nodeIndex, mixFormat, missing>>
    \/ /\ chunk + 1 >= ChunkNum
       /\ CheckMissingChunks(rest)
       /\ UNCHANGED chunk

\* sendMissingChunks
SendMissingChunks(rest) ==
    \/ /\ missingIdx' < Len(missing)
       /\ SendChunk(missing[missingIdx' + 1], "missing", rest)
       /\ UNCHANGED <<nodeIndex, mixFormat, missing>>
    \/ /\ missingIdx' >= Len(missing)
       /\ CheckMissingChunks(rest)

\* onGetBlobBlockComplete
BlockComplete == mixFormat = "none" \/ (mixFormat = "some" /\ missing = <<>>)

OnGetBlobBlockComplete(rest) ==
    \/ /\ BlockComplete
       /\ step' = "blockStart"
       /\ nodeIndex' = 0
       /\ tasks' = rest \union {"action"}
       /\ UNCHANGED <<chunk, report, outcome, node, losses>>
    \/ /\ mixFormat = "all"
       /\ step' = "chunkSending"
       /\ nodeIndex' = 0
       /\ chunk' = -1
       /\ tasks' = rest \union {"action"}
       /\ UNCHANGED <<report, outcome, node, losses>>
    \/ /\ mixFormat = "some" /\ missing # <<>>
       /\ nodeIndex' = 0
       /\ missingIdx' = 0
       /\ SendChunk(missing[1], "missing", rest)
       /\ UNCHANGED <<chunk, mixFormat, missing>>
    \/ /\ mixFormat = "unknown"
       /\ nodeIndex' = 0
       /\ tasks' = rest
       /\ UNCHANGED <<step, chunk, report, outcome, node, losses>>

-----------------------------------------------------------------------------
(* ACTION_TASK *)

\* removeFailedDevices
RemainingTargets == Without(targets, failed)

\* All targets have been through the step: on to the next one, if any is left.
StepComplete ==
    /\ "action" \in tasks
    /\ ~Targeted
    /\ targets' = RemainingTargets
    /\ failed' = {}
    /\ \/ /\ targets' = <<>>
          /\ OnTransferComplete("failure", {})
          /\ UNCHANGED <<nodeIndex, chunk, report, node, losses>>
       \/ /\ targets' # <<>> /\ step = "getBlock"
          /\ OnGetBlobBlockComplete(tasks \ {"action"})
       \/ /\ targets' # <<>> /\ step # "getBlock"
          /\ step' = NextStep(step)
          /\ nodeIndex' = 0
          /\ UNCHANGED <<chunk, report, tasks, outcome, node, losses>>
    /\ UNCHANGED <<block, reported, session, service, late, misread, holds, derailed>>

\* The command of the step for the next target.
SendToTarget ==
    /\ "action" \in tasks
    /\ Targeted
    /\ step \in {"transferGet", "getInfo", "transferStart", "getBlock"}
    /\ SendCommand([op |-> step, dst |-> Target, block |-> block])
    /\ tasks' = tasks \ {"action"}
    /\ UNCHANGED <<step, nodeIndex, targets, block, chunk, report, session, outcome,
                   misread, losses, holds, derailed>>

\* At the first target the next block begins, or all have been sent.  Mutants: a
\* block begins at every target; there is always one more block.
FirstOfBlockEveryTarget == step = "blockStart"

FirstOfBlock == step = "blockStart" /\ nodeIndex = 0

HasNextBlockOneMore == block < BlockNum

HasNextBlock == block + 1 < BlockNum

StartBlock ==
    /\ "action" \in tasks
    /\ Targeted
    /\ step = "blockStart"
    /\ FirstOfBlock => HasNextBlock
    /\ block' = IF FirstOfBlock THEN block + 1 ELSE block
    /\ chunk' = IF FirstOfBlock THEN -1 ELSE chunk
    /\ SendCommand([op |-> step, dst |-> Target, block |-> block'])
    /\ tasks' = tasks \ {"action"}
    /\ derailed' = (derailed \/ (FirstOfBlock /\ link # "up"))
    /\ UNCHANGED <<step, nodeIndex, targets, report, session, outcome, misread, losses,
                   holds>>

AllBlocksSent ==
    /\ "action" \in tasks
    /\ Targeted
    /\ FirstOfBlock
    /\ ~HasNextBlock
    /\ OnTransferComplete("success", {})
    /\ UNCHANGED <<nodeIndex, targets, failures, block, chunk, report, session, service,
                   network, misread, losses, holds, derailed>>

StartSending ==
    /\ "action" \in tasks
    /\ Targeted
    /\ step = "chunkSending"
    /\ SendChunks(tasks \ {"action"})
    /\ UNCHANGED <<targets, failures, block, missingIdx, session, service, late, misread,
                   holds, derailed>>

\* chunkSendingTask
ChunkTask ==
    /\ "chunk" \in tasks
    /\ SendChunks(tasks \ {"chunk"})
    /\ UNCHANGED <<targets, failures, block, missingIdx, session, service, late, misread,
                   holds, derailed>>

\* missingChunkSendingTask
MissingChunkTask ==
    /\ "missing" \in tasks
    /\ missingIdx' = missingIdx + 1
    /\ SendMissingChunks(tasks \ {"missing"})
    /\ UNCHANGED <<targets, failures, block, chunk, session, service, late, misread, holds,
                   derailed>>

-----------------------------------------------------------------------------
(* Answers and failures of commands *)

\* nodeIndex++ and nextAction()
NextTarget ==
    /\ nodeIndex' = nodeIndex + 1
    /\ tasks' = tasks \union {"action"}

\* mixFormat.  Mutant: the last answer counts.
MixLast(format) == format

Mix(format) ==
    IF mixFormat = "all" \/ (format = "none" /\ mixFormat # "unknown")
    THEN mixFormat ELSE format

\* mixMissingChunks
MixMissing(s) ==
    IF Mix(s.format) = "all" THEN missing
    ELSE missing \o Without(ChunkSeq, Range(missing) \union (Chunks \ s.miss))

\* onTransferNotification and the handlers it calls take a status of the target
\* for the answer to the command of the step.
Accepts(s, src) ==
    /\ link = "up" /\ outcome = "pending"
    /\ Targeted /\ Target = src
    /\ step \in Steps \ {"idle", "chunkSending"} /\ s.op = Answer(step)

OnStatus(s) ==
    /\ NextTarget
    /\ IF s.ok THEN UNCHANGED failures ELSE DeviceFail
    /\ IF s.ok /\ step = "getBlock"
       THEN mixFormat' = Mix(s.format) /\ missing' = MixMissing(s)
       ELSE UNCHANGED <<mixFormat, missing>>
    /\ IF step = "getInfo" THEN block' = -1 /\ chunk' = -1 ELSE UNCHANGED <<block, chunk>>
    /\ misread' = (misread \/ s.to # [op |-> step, dst |-> Target, block |-> block])

\* A status arrives.  It completes the reliable message if it has the opcode of
\* its response.
ReceiveStatus(n) ==
    /\ late[n] # <<>>
    /\ late' = [late EXCEPT ![n] = Tail(@)]
    /\ slot' = IF slot # NoCommand /\ slot.dst = n /\ Answer(slot.op) = Head(late[n]).op
               THEN NoCommand ELSE slot
    /\ IF Accepts(Head(late[n]), n) THEN OnStatus(Head(late[n]))
       ELSE UNCHANGED <<nodeIndex, tasks, failures, mixFormat, missing, block, chunk, misread>>
    /\ UNCHANGED <<step, targets, missingIdx, session, retries, node, outcome, losses,
                   holds, derailed>>

\* The reliable message is sent again.
Retry ==
    /\ slot # NoCommand /\ retries > 0
    /\ retries' = retries - 1
    /\ Transmit(slot)
    /\ UNCHANGED <<step, nodeIndex, targets, failures, block, chunk, report, tasks, session,
                   slot, outcome, misread, losses, holds, derailed>>

\* onTransferCommandFail.  Mutant: without nextAction().
CommandFailWithoutNext ==
    /\ slot # NoCommand /\ retries = 0
    /\ slot' = NoCommand
    /\ IF outcome = "pending" /\ step = slot.op
       THEN nodeIndex' = nodeIndex + 1 /\ tasks' = tasks /\ DeviceFail
       ELSE UNCHANGED <<nodeIndex, tasks, failures>>
    /\ UNCHANGED <<step, targets, block, chunk, report, session, retries, network, outcome,
                   misread, losses, holds, derailed>>

CommandFail ==
    /\ slot # NoCommand /\ retries = 0
    /\ slot' = NoCommand
    /\ IF outcome = "pending" /\ step = slot.op
       THEN NextTarget /\ DeviceFail
       ELSE UNCHANGED <<nodeIndex, tasks, failures>>
    /\ UNCHANGED <<step, targets, block, chunk, report, session, retries, network, outcome,
                   misread, losses, holds, derailed>>

-----------------------------------------------------------------------------
(* The connection *)

\* onGattDisconnected up to isLogin = false.  NetworkingController drops its
\* message without a word.
LoseConnection ==
    /\ link = "up" /\ outcome = "pending" /\ holds < MaxHold
    /\ link' = "lost"
    /\ holds' = holds + 1
    /\ slot' = NoCommand
    /\ late' = [n \in Nodes |-> <<>>]
    /\ derailed' = (derailed \/ (FirstOfBlock /\ slot # NoCommand))
    /\ UNCHANGED <<step, nodeIndex, targets, failures, block, chunk, report, tasks, config,
                   direct, retries, node, outcome, misread, losses>>

\* hold() of FUController, FUDistributor and BlobTransfer
Hold ==
    /\ link = "lost" /\ outcome = "pending"
    /\ link' = "held"
    /\ tasks' = {}
    /\ UNCHANGED <<step, nodeIndex, targets, failures, block, chunk, report, config, direct,
                   service, network, outcome, misread, losses, holds, derailed>>

\* A connection to some node: rebuildFirmwareUpdatingDevices moves it to the end
\* of the configuration, resetParams makes the targets anew.
Reconnect(n) ==
    /\ link = "held"
    /\ link' = "asking"
    /\ direct' = n
    /\ config' = Without(config, {n}) \o (IF n \in Nodes THEN <<n>> ELSE <<>>)
    /\ targets' = config'
    /\ failed' = {}
    /\ derailed' = (derailed \/ targets' # targets)
    /\ UNCHANGED <<step, nodeIndex, reported, block, chunk, report, tasks, service, network,
                   outcome, misread, losses, holds>>

\* The node connected to answers to FirmwareUpdateGet.  It is in the phase of a
\* transfer when it is updated and has not received all; then begin(true) goes on.
ContinueAnswered ==
    /\ link = "asking"
    /\ link' = "up"
    /\ IF direct \in Nodes /\ RxOkCount(node[direct]) < BlockNum
       THEN tasks' = tasks \union {"action"} /\ UNCHANGED outcome
       ELSE outcome' = "failure" /\ UNCHANGED tasks
    /\ UNCHANGED <<step, nodeIndex, targets, failures, block, chunk, report, config, direct,
                   service, network, misread, losses, holds, derailed>>

Next ==
    \/ StepComplete \/ SendToTarget \/ StartBlock \/ AllBlocksSent \/ StartSending
    \/ ChunkTask \/ MissingChunkTask
    \/ \E n \in Nodes : ReceiveStatus(n)
    \/ Retry \/ CommandFail
    \/ LoseConnection \/ Hold
    \/ \E n \in Nodes \union {Proxy} : Reconnect(n)
    \/ ContinueAnswered

\* Posted tasks run, and a reliable message is answered or times out.
Fairness ==
    /\ WF_vars(StepComplete \/ SendToTarget \/ StartBlock \/ AllBlocksSent \/ StartSending)
    /\ WF_vars(ChunkTask)
    /\ WF_vars(MissingChunkTask)
    /\ WF_vars(Retry \/ CommandFail)

Spec == Init /\ [][Next]_vars /\ Fairness

-----------------------------------------------------------------------------
(* Properties *)

TypeOK ==
    /\ step \in Steps
    /\ nodeIndex \in 0 .. Cardinality(Nodes)
    /\ targets \in Seq(Nodes) /\ config \in Seq(Nodes)
    /\ failed \subseteq Nodes /\ reported \subseteq Nodes
    /\ block \in Blocks \union {-1} /\ chunk \in Chunks \union {-1}
    /\ mixFormat \in {"unknown", "none", "all", "some"}
    /\ missing \in Seq(Chunks) /\ missingIdx \in 0 .. ChunkNum
    /\ tasks \subseteq Tasks
    /\ link \in {"up", "lost", "held", "asking"}
    /\ direct \in Nodes \union {Proxy}
    /\ slot \in Commands \union {NoCommand} /\ retries \in 0 .. RetryCnt
    /\ node \in [Nodes -> Receivers]
    /\ late \in [Nodes -> Seq(Statuses)] /\ \A n \in Nodes : Len(late[n]) <= MaxLate
    /\ outcome \in {"pending", "success", "failure"}
    /\ misread \in BOOLEAN /\ derailed \in BOOLEAN
    /\ losses \in 0 .. MaxLoss /\ holds \in 0 .. MaxHold

\* The nodes that have not been reported as failed.
Live == Nodes \ reported

Regular == ~misread /\ ~derailed

\* A transfer that is reported as a success has brought the whole BLOB to every
\* node that was not reported as failed, with every chunk in its place:
\* onTransferComplete(true) leads to the installation on them.
DeliveredToAll ==
    outcome = "success" /\ Regular => \A n \in Live : HoldsBlob(node[n])

\* A target never counts a chunk of one block as that of another, although chunks
\* do not name their block: the client opens the next block only when the last
\* target has all of this one.
StoredInItsBlock ==
    Regular => \A n \in Live : LET r == node[n] IN
        /\ \A c \in Chunks : r.busy /\ r.blk <= block /\ (r.ok \/ r.phase = "nextChunk")
                             /\ c \notin r.miss => <<r.blk, c>> \in r.got
        /\ \A b \in 0 .. RxOkCount(r) - 1, c \in Chunks : <<b, c>> \in r.got

\* While chunks are sent and asked for, every target has the client's block open
\* or received.
BlocksInStep ==
    /\ Regular
    /\ step \in {"chunkSending", "getBlock"}
    /\ outcome = "pending"
    => \A n \in Live : node[n].blk = block

\* What a node has received of the blocks it has completed, it keeps, whatever is
\* repeated, late or lost: a block start sent again does not open a block that is
\* complete.
CompletedBlocksKept ==
    [][\A n \in Nodes :
         /\ RxOkCount(node'[n]) >= RxOkCount(node[n])
         /\ \A b \in 0 .. RxOkCount(node[n]) - 1, c \in Chunks :
              <<b, c>> \in node[n].got => <<b, c>> \in node'[n].got]_vars

\* A second answer to the Block Get of the first target, arriving while missing
\* chunks are sent again, starts the round of targets beside the sending.
TwoLoops == {"missing", "action"} \subseteq tasks

\* A transfer is completed in the end, with success or failure: no order of
\* answers, losses and retries leaves it without a task or a message under way,
\* unless an answer is misread or starts a second loop.
TransferEnds == <>(outcome # "pending" \/ misread \/ TwoLoops \/ holds > 0)

\* "if at least one device blob transfer success": what BlobTransferCallback says
\* of a success.
AtLeastOneDelivered ==
    outcome = "success" => \E n \in Nodes : HoldsBlob(node[n])
=============================================================================
