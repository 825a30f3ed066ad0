# Verification of the Telink SIG Mesh SDK

TLA+ modules, TLC runs and TLAPS proofs for the Telink SIG Mesh SDK: first of
all for the mesh stack of the Android provisioner, whose transport layer is in
the repository as source (the node's is a binary library).

In this file `NC` is `NetworkingController.java`, in
`app/android/TelinkBleMesh/TelinkBleMesh/TelinkBleMeshLib/.../ble/mesh/core/networking/`.

## 1. Inventory

### Android library (`app/android/TelinkBleMesh`)

| Component | State it keeps | Operations | What makes it correct |
|---|---|---|---|
| Sequence number and IV index (`NC`) | `mSequenceNumber`, `ivIndex`, `initIvIndex`, `isIvUpdating`; one number in 256 saved | create a PDU, `setup`, `clear`, `checkSequenceNumber`, beacons | no (IV index, number) pair is used twice, not even after a restart |
| Reassembly (`NC`) | one buffer, `lastSeqAuth/Src/Complete`, records of completed and refused messages, two timers | segment received, acknowledgment task, timeout, `clear` | no mixing of messages, honest acknowledgments, delivered once, the buffer is freed |
| Reliable and segmented sending (`NC`) | `reliableBusy` with message and retry count, `segmentedBusy` with segments, three timers | post, response, block acknowledgment, three timeouts, `clear` | each message completed once, no slot stuck |
| Queue of network PDUs (`NC` 1108-1167) | queue, `networkingBusy` | prepared, poll | no PDU stays behind, order |
| Proxy filter (`NC` 833-893, 1322-1370) | `proxyFilterInitStep`, timer | init, status, timeout | completes once, addresses set |
| `MeshController` | `actionMode`, connection, `connectRetry`, `isDisconnectWaiting` | modes, scan, connect, disconnect, events | no mode is left for ever, retries bounded |
| `GattConnection` | request queue, `isRequestProcessing`, SAR buffer | requests, callbacks, timeout | a callback completes its own request |
| `ProvisioningController` | state, keys, timer | nine PDU types, timeout | success only after the data was sent |
| `BindingController`, `FastProvisioningController`, `RemoteProvisioningController` | step, device, timer | commands and their completion | steps in order, ends |
| `FUController`, `FUInitiator`, `FUDistributor`, `BlobTransfer` | step, node index, block and chunk, missing chunks | statuses, command failures, timers | each node reported once, no chunk left out |
| `GattOtaController`, `MeshFirmwareParser`, `OtaPacketParser` | index into a file | packets | linear |
| `Encipher`, PDU classes | - | byte layouts, cryptography | data, not control |
| demo application | mesh storage | user interface; saves number and IV index | |

### Node firmware (`firmware/vendor/common`) and the rest

| Component | State it keeps | Operations | What makes it correct |
|---|---|---|---|
| Storage of parameters (`mesh_node.c`: `mesh_par_store`, `mesh_par_retrieve`) | sectors of records, a backup sector, the next place | store, retrieve at power-on | a power cut leaves the old value or the new one |
| Provisioning (`app_provison.c`) | receiving state, keys, confirmation, whether it is provisioned | one per PDU, timeout, reset at a new link | the device key agrees with the provisioner's, a provisioned node stays so |
| `mesh_ota` (BLOB and firmware update server) | block, missing chunks, phase | one per message | see `BlobTransfer` |

Also the models (generic, lighting, scene, scheduler, time, configuration),
remote and fast provisioning, `factory_reset`, `tlv_flash`, software timers,
heartbeat, beacons, subnet bridge, directed forwarding, low-power and friend
nodes. Its network and transport layers are `firmware/proj_lib/*.a`. `app/ios` is a second implementation of the
Android library's protocol. `vc_debug_tool`, `tools`, `release_bin` and the
vendored libraries are not part of the system's own core.

### How they interact

`MeshController` owns the other controllers and passes them what arrives:
notifications of `GattConnection` (on the Bluetooth callback thread) go to `NC`
as network PDUs, beacons or proxy configuration. `NC` hands PDUs down through
`NetworkingBridge.onCommandPrepared`, and up: access messages, the completion of
reliable and of segmented messages, sequence number updates. The application
sends on its own thread; the timers of `NC` run on the "Mesh-Controller" handler
thread, the command timeout of `GattConnection` on the main looper. `NC` has locks
for single fields, none for a handler. A lost link runs `NC.clear()`, as do the
ends of a binding and of a mesh OTA. `ProvisioningController` talks to the node
over the link itself, without `NC`; its end sets the mode of `MeshController`.

### What is hard

- three threads in `NC` without a common lock, and two locks in `GattConnection`
  that are taken in both orders;
- a network that loses, delays, repeats and reorders PDUs, and nodes that lag
  behind in an IV update;
- two slots (reliable, segmented) that are taken and freed by seven handlers,
  with four timers;
- one reassembly buffer for all nodes;
- restarts with a saved sequence number that lags behind;
- `clear()` at any moment;
- calls of the application, callbacks and delayed tasks of one mode that meet the
  next mode, a link that is still being closed, or a timeout under way;
- a node whose power is cut between any two operations of its flash.

The file PROJECT.json lists each hazard at its line, with the properties that
would catch it.

## 2. What is modelled

### SequenceIv

Models creation of PDUs, `initSequenceNumber`, `onSequenceNumberUpdate`,
`getTransmitIvIndex`, `checkSequenceNumber`, `onIvUpdated`, `onIvIndexReceived`,
`setup` and `clear`. Variables have the names of the fields. `storedSeq` and
`storedIv` are what the application saves, `netIv` and `netUpdating` are how far
the nodes' IV update has come; beacons of nodes that lag behind are all allowed
(`SentBeacon`). `CreateNetworkPdus(n)` is a handler that creates `n` PDUs, up to
the segments of a message. `Setup` is a restart as well as a call: the live
fields are replaced by what is saved, at any moment. `Save` keeps the 32-bit
wrap of an unknown IV index (`IvMissing`). An unknown IV index is the state after
the import of a mesh; the case of a PDU created then is excluded from the
freshness properties because no node accepts such a PDU.

Left out: `mSnoUpdateStep` of 0 and 1 (the library sets 256), the beacons' and
PDUs' bytes, the wrap of the 24-bit number in a PDU (a hazard without a property
yet), the received sequence numbers that `onIvUpdated` forgets (`SegmentReceiver`
has one IV index), fast provisioning, where the IV index is not saved, and IV indexes
from 2^31 on, which the cast to `int` in `onIvUpdated` (`NC` 563) makes negative.

Properties: `NonceFreshUnlessCleared` (the next nonce is above all used so far),
`RestartNonceFreshUnlessCleared` (so is the first one after a restart at this
moment), `TransmitIvReached` (never an IV index the network has not reached).
Their preconditions are what the run `sequence_iv_clear` refutes without:
`SequenceIncreases` fails when `clear()` falls into an IV update.

### SequenceThreads

The same state with the creation of PDUs split as the threads run it: read the
number, read the IV index, then create and count PDU by PDU. Its run finds two
threads that use one number (`PduNumbersDiffer`).

### SegmentReceiver

`ReceivePdu` is `parseNetworkPdu` with `validateSequenceNumber` and
`parseSegmentedAccessMessage`, whose outcomes are `RefuseSegment`,
`AcknowledgeCompleted` and `AcceptSegment`; `SendSegmentBlockAck` and
`SegmentTimeout` are the tasks, `Clear` is `clear()`. A segment is its source, the
sequence number of its message's first PDU, and its index; `TransportSeqNo` is
the code's arithmetic, by which the receiver finds that first number again from
`seqZero`. `Decrypt` is what becomes of a message that is whole: it is delivered, or it
is `unread`, when there is no device key (`NC` 2075) or no key fits (2089), which may
change from one try to the next. The acknowledgment of a step is in `ack`, `heard`,
`delivered`, `unread`, `redelivered`, `passed`, `refused` and `forgotten` are history. The nodes start a message at
any time, send segments of it again at any time with new sequence numbers, and
give it up before `seqZero` comes round; `air` loses and reorders.

One IV index, all messages of the same number of segments, one step for each handler.

Properties: what is acknowledged has arrived (`AckTruthful`) and, when all of it,
was put together and decryption was tried (`FullAckMeansDecrypted`); the buffer holds one message
(`BufferHoldsOneMessage`); a held buffer has its timer (`HeldBufferIsTimed`) and is
freed (`BufferIsFreed`); what was put together is not refused (`OutcomeAgrees`); and
what the receiver has moved on from is not delivered again, nor at all if it could not
be decrypted (`MovedOnNotRedelivered`). A full acknowledgment does not say that the
message was read: the code posts it (`NC` 2064) before it looks for the key, and keeps
the message on record as completed when there is none. The run `segment_once` shows that without the moving on
a message can be delivered again.

### ReliableService and ReliableSender

`ReliableService` is what the application is promised: one reliable message at a
time, each completed once with success or failure, or dropped with the link.

`ReliableSender` has the two slots, the retry counts, the set of nodes that
answered, the timers as "posted or not", and on the other side the segments on
their way and arrived. `SendMeshMessage` is `sendMeshMessage` that returns true;
`OnAccessPdu` any status of any node at any time; `ReliableTimeoutFails` and
`ReliableTimeoutRetries` the reliable timer; `SegmentedMessageTimeout`,
`OnSegmentAck` and `SegmentBlockWaitingTimeout` the segmented side; `Clear` is
`clear()`. `ReceptionStarts` and `ReceptionEnds` are the part of `SegmentReceiver`
the retry timer looks at (`lastSegComplete`).

A task that only posts itself again (the retry while a reception is under way)
is no step. The queue of network PDUs appears as delay and loss (`SegmentLost`),
which covers its being emptied by the completion of a reliable message.
Acknowledgments of other segmented messages are left out: the code ignores them by
their `seqZero` (`NC` 1514-1519), and that two messages with the same 13 bits are not on
their way together is assumed.

Properties: `SlotsAreTimed`, `PendingHasSlot`, `AcknowledgmentsAreTrusted`, and
`ImplementsService`, the refinement of `ReliableService` with its liveness. The run
`reliable_own` finds a reliable message failed by the timeout of another one.

### BlobReceiver and BlobTransfer

`BlobReceiver` has no state of its own: it is what one node's BLOB server
(`mesh_ota.c`) keeps of a transfer, a record, and one operator for each message
that changes it. The place a chunk is stored in follows from the node's open
block, not from the message; `got` therefore holds the places whose content is
what the client meant for them. Opening a block again leaves the flash as it is
(`blob_block_erase`, `mesh_ota.c` 3197, has no statements), but all chunks are missing again.

`BlobTransfer` is the client of the phone with the class's fields as variables,
its posted tasks (`tasks`), the one reliable message under way (`slot`, a reduced
`ReliableSender`) and the connection. `StepComplete`, `SendToTarget`, `StartBlock`,
`AllBlocksSent` and `StartSending` are the branches of `ACTION_TASK`; `ChunkTask` and
`MissingChunkTask` the other two tasks; `ReceiveStatus` is `onTransferNotification`
with its three handlers, after the reliable message has been completed;
`CommandFail` is `onTransferCommandFail`. `LoseConnection` and `Hold` are the two
halves of `onGattDisconnected`, between which a task may run; `Reconnect` and
`ContinueAnswered` are the new connection, `resetParams` and what follows the answer
to the distributor's question. The nodes' replay check makes what is sent arrive
in order or not at all, so a command is received when it is sent or is lost, while
answers wait in `late`: a retry brings second answers, which arrive at any time.

Three things are recorded and excepted by the properties, because the code does
not handle them: `misread` (a late answer taken for the one to another command;
only its source and the step are compared), `derailed` (a continuation that does not
repeat what the loss interrupted: the start of a block runs twice, or the list of
targets has another order than `nodeIndex` was counted in) and `TwoLoops` (a second
answer to the first target's Block Get, while missing chunks are sent, starts a
round of targets beside the sending; the two then collide and the transfer may
stop for good). A fourth is covered: targets that failed before a loss of the
connection take part again after it, but `reported` keeps them out of what is
promised, as `FUDistributor` keeps them out of the installation.

Properties: success means that every node not reported has the whole BLOB
(`DeliveredToAll`); no node not reported counts a chunk it does not have, or has in
the wrong block (`StoredInItsBlock`); client and nodes agree on the block while
chunks are on their way (`BlocksInStep`); a completed block is never lost again
(`CompletedBlocksKept`, without exception); the transfer ends (`TransferEnds`). The
run `blob_transfer_continue` shows what a derailed continuation can do.

Left out: pull mode, transfers to one node over GATT, the sizes of chunks and
blocks (with the shorter last block and `bk_size_current`, which a refused block
start changes too), progress, suspension and cancelling, the update phases of the
node after the transfer, the distributor's other steps and the initiator. The
nodes have been started and accept the transfer's parameters.

### ProvisioningNode and Provisioning

`ProvisioningNode` is what a node's `app_provison.c` keeps and answers,
as `BlobReceiver` is for BLOBs: a record, and `Dispatch` with one operator for each
PDU. What is stored in flash (`provisioned`, `devKey`) outlives `ParaReset`, which
runs at each connection, disconnection and at the node's timeout.

`Provisioning` has the fields of `MeshController` (`mode` is `actionMode`), one
variable for what its handler holds (`task`: every post removes what was there),
the link of `GattConnection`, a record for `ProvisioningController` (`ctl`), two
queues of PDUs on the link and the nodes. `StartProvisioning`, `AutoConnect`, `AppIdle`
and `AppDisconnect` are the calls of the application; `Connected`, `Disconnected`,
`ServicesDiscovered` and `DiscoveryFails` the platform's callbacks with the timers of
the link; `RunInit` and `RunSuccess` the two delayed tasks of a new connection;
`RunInterrupt`, `RunConnectFail`, `RunReconnect` and `RunScan` the branches of
`DISCONNECTION_TASK`. `PhoneReceives` is `onGattNotification` with every handler of a
provisioning PDU and what the end of a provisioning does to the mode. Handlers are
one step, but for the timeout task: `TimerFires` sets `STATE_FAILED`, `TimerReports`
reports, and calls of the application or PDUs fall in between.

The secret an attempt and a device share is the pair of the two; confirmations
agree when they were made from the same secret and authentication value. Left out:
public keys that are not on the curve, randoms (a confirmation is never
accidentally right), the fragments of a record, the renewal of the services' cache,
a scan that fails to start, the set-up of the proxy filter in `AUTO_CONNECT`, the
other modes, and a factory reset of a node. `scanning` is `isScanning` together with the
scanner at work: `onScanTimeout` stops the scanner and leaves `isScanning` set, which only
an advertisement reported after the scan was stopped could meet; those are left out.

Properties: the device keys that are saved are the nodes' (`KeysAgree`), although a
COMPLETE counts in any state and keys of an earlier device's certificate are left
behind; an attempt is reported once (`OutcomeOnce`), as the one being made
(`OutcomeOfThisAttempt`); a provisioned node stays provisioned, with its key
(`ProvisionedNodeKept`); an attempt ends (`AttemptEnds`). Two exceptions are in the
properties because the code has them: the timeout task once it is under way reports
whatever happened meanwhile (`late`), and ends a newer attempt or mode; and
`disconnect()` while a connection is being made closes it without a callback, after
which nothing ends the attempt (it counts as abandoned by the application).

### GattQueue and NetworkQueue

`GattQueue` is the request queue of `GattConnection` lock by lock. A thread has a
place (`pc`) and a request; `SendRequest` and `Add` are `sendRequest`; `EnterMonitor`,
`EnterQueue` and the `Process` actions are `postRequest` and `processRequest`, on any
thread; `PlatformAnswers`, `MtuChanged`, `Poll` and `Complete` the callbacks on the
binder's thread; `TimeoutDue`, `TimeoutPeek` and `TimeoutDrop` the command timeout on
the main looper; `Disconnect`, `LinkDown` and `LinkUp` the connection.

`NetworkQueue` extends it with the queue of network PDUs of `NC`, which sends through
it: `onCommandPrepared` is `SendRequest`, inside an action of this module
(`PreparedDirect`, `PollPdu`). `PreparedQueued`, `AddPdu` and `CheckBusy` are
`onNetworkingPduPrepared`; `TaskRuns`, `PollPdu`, `PostTask`, `PollNull` and `ResetBusy`
the sending task with `pollNetworkingQueue`; `Empty` is what `clear()` and the completion
of a reliable message do to the queue.

Properties: `CircularWaitNeedsTimeout`: two threads wait for each other's lock only
if one is the main looper in the command timeout. That one can: it holds the queue
(`GattConnection` 1331-1348) when `onRequestComplete` waits for the object's monitor,
which another thread may hold in `postRequest`, waiting for the queue. `ReportedTruly`:
a request is given to the platform once at most, and, until a timeout, an MTU change
or a disconnect disturbs the queue, reported once and truly; after these, a late
callback is taken for the request that is first then. `LeftBehindOnlyByEmptyPoll`: a
PDU stays in the queue with nobody to send it only if it was added after a poll had
found the queue empty and looked at `networkingBusy` before that poll reset it.

Each new connection asks for the MTU again (`LinkUp`).

Left out: `COMMAND_PROCESSING_LOCK` (held for one access of one field),
`CONNECTION_STATE_LOCK` (held while a connection is opened, closed or reported as gone;
none of its holders waits for one of the two locks of the model, so it can close no
circle with them, and `Disconnect` and `LinkDown` are one step each), requests of
the platform's other types, and retries (no callback of the library asks for one).

### FlashStore

`mesh_par_store`, `mesh_par_write_with_check` and `mesh_par_retrieve`, one operation of
the flash after the other, for any number of sectors without a backup and for the one
with (`FLASH_ADR_MISC`, which holds the sequence number and the IV index). `PowerCut`
comes at any operation and between any two; what the operation was doing is done, not
done, or torn. Programming flash clears bits, so what is programmed over something
else mixes with it. `PowerOn` is `mesh_flash_retrieve`: the values found and the next
places.

`Store(s, v)` begins a store or, in the sectors of the models (`mesh_save_map`, `Mapped`),
ends it at once, when the record before has equal data (`EqualsRecordBefore`,
`mesh_node.c` 3938-3951). That comparison does not look at the record's flag.

`RetrievedIsLatest`: the node starts with the value stored last or the one whose store
was cut. It excepts the three windows the code has. Two are in `exposed`: a full sector
without a backup is erased before the new record is written; and a backup left behind
by an earlier power cut is programmed over when the sector is full again, and read
without a CRC. The third is in `unsaved`: when the power was cut between the data of a
record and its `SAVE_FLAG`, the node starts with the older value, and storing the
lost one again compares equal and writes nothing, so that the node starts with the
older one once more. The property says that in this window it is that older value and no
other, and that there is no fourth window. Left out: the content of the records, and
data that cannot be told from those of a torn or of an erased record.

## 3. Runs and bounds

| Run | Checks | Result |
|---|---|---|
| `sequence_iv` | inductive invariant (types included), freshness, IV reached | holds, 15,622 states |
| `sequence_iv_clear` | `SequenceIncreases` | refuted |
| `sequence_threads` | `PduNumbersDiffer` | refuted |
| `segment_receiver` | six invariants, one action property, one liveness property | holds, 880,493 states |
| `segment_once` | `DeliveredOnce` | refuted |
| `reliable_sender` | three invariants, one action property, refinement | holds, 672,894 states |
| `reliable_own` | `FailureIsOwn` | refuted |
| `blob_transfer` | four invariants, one action property, one liveness property | holds, 3,780,053 states |
| `blob_transfer_continue` | `AtLeastOneDelivered` | refuted |
| `provisioning` | three invariants, two action properties, one liveness property | holds, 181,783 states |
| `queues` | four invariants | holds, 915,444 states |
| `flash_store` | the types, one action property | holds, 8,491,508 states |

Bounds of `sequence_iv`: `Step` 2, `Threshold` 4, `MaxPdus` 2, `MaxSeq` 8: numbers
saved and not saved, below and above the threshold, and two numbers per handler,
so that a handler passes a saved one inside. `MaxIv` 3 with `MaxJump` 2: beacons one
and two ahead, and one too far. `IvMissing` 13 is above all IV indexes reached, as
the assumption of the module asks; restarts in the middle of an update count the
IV index up, which is what the assumption leaves room for.

Bounds of `segment_receiver`: two nodes, messages of two segments (`SegN` 1),
`SeqZeros` 4 and, in `MaxSeq`, four PDUs of one node and two of the other: two
messages in a row of one node, one message with all segments sent again, a wrap
of `seqZero`, and a second node in between. `MaxAir` 2 PDUs at a time allow every
pair to be reordered.

Bounds of `reliable_sender`: one message of each kind (to a node or a group,
with segments or without, reliable or not, with `responseMax` 0, 1 and 2, two of
them with one response opcode), one retry each, two segments, and one reception
(`MaxRx`) to put a retry off.

Bounds of `blob_transfer`: two nodes in one order of the list (the code treats
them alike otherwise, and a third node of the network may be the one connected
to), two blocks, so that there is a first, a next and a last one, of two chunks.
`MaxLoss` 2 chunks allow each of the answers "none", "some" and "all missing", and two
nodes that lack different chunks. `RetryCnt` 1 and `MaxLate` 2 let two answers to
one command be under way; the code's 10 retries would add more of them, not
others. `MaxHold` 1 loses the connection once, at any moment.

Bounds of `provisioning`: two attempts (`MaxAttempts`), so that a second one meets all
the first has left behind, at any two of four devices: a static OOB value that the
application knows; one it has wrong; a certificate that gives the OOB public key and
value; and an OOB public key without certificate, for which a key the second kind left
behind would be used. One record in a certificate: the second is asked for as the
first is.

Bounds of `queues`: two threads that send, besides the binder's and the main looper;
three requests, of which one ends in the call (a notification to enable), one is for
the direct node and one for the queue. Two locks need two threads to be waited for in
a circle, a third request is what a late callback can be mistaken for.

Bounds of `flash_store`: two sectors of two records, one with the backup and one of a
model, where equal values are not written; two values, so that a value is stored again
and is told from the other; six stores in all (`MaxStores`), so that either sector is full
twice and more, with whatever power cuts in between. Power cuts are not bounded. A sector
without a backup and without the comparison (the keys) takes the steps of a model's
whose values differ.

`CHECK_DEADLOCK` is left on but for `blob_transfer`, which stops when the transfer has
been completed, and for the last three: the application may be out of attempts, all
requests sent, and the stores used up. (In `queues` the deadlock above would be one for
TLC, too.) In the other runs restarts, `clear()` and the network always can take a step.

Every property of the passing runs has a mutant: an operator of the same module,
placed before the one it stands in for and marked "Mutant", that has a plausible
bug of that code (PROJECT.json names the pairs).

## 4. Fairness

- `SegmentReceiver`: weak fairness of `SegmentTimeout`. A task posted with a delay
  runs on the handler thread, unless it is removed.
- `ReliableSender`: weak fairness of the reliable timer and of the 15 s limit of a
  segmented message, for the same reason, and of `ReceptionEnds`, which is
  `SegmentReceiver!BufferIsFreed`. Nothing is assumed of nodes or of the network:
  every completion is in the end a timeout's.
- `SequenceIv` has safety properties only.
- `BlobTransfer`: weak fairness of each posted task, and of the reliable message's
  timer (`Retry` or `CommandFail`), which is what `ReliableSender` guarantees. None of
  the network, of the answers or of the connection; `TransferEnds` does not speak of
  transfers whose connection was lost.

- `Provisioning`: weak fairness of the posted tasks, of the two steps of the
  provisioning timeout, and of the link: a connection that is being made or closed
  has a timer each in `GattConnection`, and a platform asked for the services answers
  or the link goes. (The discovery has no timer; this is assumed, not guaranteed.)
  Nothing is assumed of the node, of the PDUs or of the application.
- `GattQueue`, `NetworkQueue` and `FlashStore` have safety properties only: what the
  queues would have to promise, that everything sent goes out, does not hold, by the
  deadlock and by the PDU left behind.

## 5. Proofs

`SequenceIvProofs` proves, for all values of the constants that satisfy
`SequenceIvAssumption`, that `IInv` is an invariant, and from it `TypeOK`,
`NonceFreshUnlessCleared`, `RestartNonceFreshUnlessCleared` and `TransmitIvReached`.
Freshness is not inductive: that a restart gives a higher number needs that the
saved one is the last multiple of `Step` reached (`StepInv`); that an IV update
gives a higher IV index needs that `ivIndex` is never more than one ahead of
`initIvIndex` and that both agree outside updates (`WindowInv`, `FreshInv`); and
that the IV index was reached needs `initIvIndex <= netIv` (`ReachedInv`). One lemma
for each action, one step for each conjunct, over arithmetic lemmas about
`InitSequenceNumber` and about the multiple of `Step` a message may pass.

`ReliableSenderProofs` proves `TypeOK`, `SlotsAreTimed` and `PendingHasSlot` (together
inductive), `AcknowledgmentsAreTrusted` from them, and that each step of
`ReliableSender` is a step of `ReliableService` or none (`ImplementsServiceSafety`).
`PendingHasSlot` is what makes the refinement mapping work: `Resolve` needs that
the message in the slot is the one pending.

`NetworkQueueProofs` proves `TypeOK` and `CircularWaitNeedsTimeout` for any number of
threads and requests, and that `NetworkQueue` implements `GattQueue`
(`ImplementsGattQueue`: its steps are steps of the request queue or leave it alone).
Where a thread is when it holds a lock is part of the types; they are inductive
together with two facts: a thread that adds a request has one (`AddsRequest`), and one
that has prepared a PDU and not yet looked at `networkingBusy` has the PDU (`HasPdu`).
`GattQueue` has one lemma for each action, which the refinement makes good for the
steps of both modules. The argument of `OnlyTimeoutClosesCircle` is that any other
thread takes `this` before the queue: who waits for `this` holds nothing, and who
holds the queue waits for nothing.

`GattQueueProofs` proves `ReportedTruly` of the request queue by itself, whoever uses
it, and `NetworkQueueProofs` has it through the refinement (`NeverGivenTwice`).
`ReportedTruly` counts what happened; what makes it inductive is what the queue looks
like meanwhile. A request is in the queue once (`SentOnce`); of those in the queue only
the head has been given to the platform, and it is in flight or its answer is about to
take it off (`GivenOnce`); and until something disturbs it, nobody gets past the look
at `isRequestProcessing` while a request is in flight (`Undisturbed`).
`LeftBehindOnlyByThatPoll` adds, of the queue of network PDUs, that whoever finds
`networkingBusy` set finds somebody who will poll, or who has just found nothing
(`BusyInv`), and that what is in the queue with nobody polling has just been added or
is one of those missed (`LeftInv`).

`SegmentReceiverProofs` proves all six invariants of `segment_receiver` and
`MovedOnNotRedelivered` for any number of nodes, segments and values of `seqZero`. The
arithmetic is in `SeqAuthIsFirst`: `transportSeqNo` gives the first sequence number
back as long as less than `SeqZeros` later ones have been used, which is the environment's
(the protocol's) promise. PDUs of an earlier message have lower numbers (`OrderInv`); the
buffer's fields describe its segments (`SlotInv`); what is on record was put together or
refused (`RecordInv`); and since the last `clear()` the one record for each node is
enough to know a message again (`SinceClearInv`), since older PDUs fail the check of
the sequence number.

`FlashStoreProofs` proves `TypeOK` and `RetrievedIsLatest` for any number of sectors, of
records in a sector, of values and of stores. A sector is written from its beginning
(`WrittenInv`), `p_adr` is behind what is written (`PlaceInv`), the store under way has
done what its step says (`StoreInv`), and so what `mesh_par_retrieve` would find changes
only with the last flag of a record, or while a full sector is erased
(`RetrievedInv`). The comparison needs one more: a record before `p_adr` without a flag
has been there since the last power-on, since each store that ends flags its record, and
what would be found is what was found then (`UntouchedInv`). So either the record that
compares equal is the one that counts, or the third window is open.

`ProvisioningProofs` proves `TypeOK`, `KeysAgree`, `OutcomeOnce`, `OutcomeOfThisAttempt`
and `ProvisionedNodeKept` for any number of devices, attempts and records.
`KeysAgree` needs that a COMPLETE on the link answers the data the controller has now:
PDUs are on a link only once the provisioning over it has begun (`LinkInv`), so they are
of the present attempt (`PduInv`); a node that has been provisioned has settled
(`NodesSettled`). `OutcomeOnce` needs that the controller runs only in the attempt
being made, which has no outcome yet (`AttemptInv`, `OutcomeInv`); that the timeout task
may have passed its check before an outcome came is its one exception.

`BlobTransferProofs` proves all invariants of `blob_transfer` and `CompletedBlocksKept`
for any number of nodes, blocks and chunks, and any bounds (`BlobReceiverAssumption`,
`BlobTransferAssumption`, and `NoCommandAssumption`: the mark of a free slot is not a
command). One lemma for each message a
`BlobReceiver` takes says what it preserves and that it takes nothing back (`Onward`).
The types need more than types: `nodeIndex` and `missingChunkIndex` stay within their
lists because no list has an element twice (`ListInv`), because the message under way is
to a target whose turn is now or later (`SlotInv`), so that its failure does not go past
the end, and because an answer that says that some chunks are missing names one
(`AnswerInv`). What `removeFailedDevices` and `mixMissingChunks` keep of a list
(`Without`) is shown by the least number of elements for which it would fail.

`StoredInItsBlock`, `BlocksInStep` and `DeliveredToAll` follow from one invariant of the
states that are `Regular` (no answer was misread and no continuation went another way,
as in the properties themselves), `RegularInv`. Its parts need each other:

- The client and the nodes agree on the block (`NodesInv`), as a target that has had its
  turn has opened or received it, or has failed (`AnsweredInv`). A chunk, which does not
  name its block, therefore goes into the block it belongs to (`StoredInv`).
- What an answer says of opened or received blocks is still true when it arrives
  (`LateInv`), because nodes take nothing back. What it says is missing need not be
  true any more. Answers of one node arrive in order (`OrderInv`), so behind an answer to
  the Block Get there is none to the Block Start, and once all targets have answered to
  the one, no answer to the other can be taken for one in the next block (`StartedInv`).
- Outside `getBlock` one task or one message is all that goes on (`SlotRegular`,
  `TasksRegular`). In `getBlock` the sending of missing chunks and a round of questions
  may run side by side (`TwoLoops`); the code does not prevent it. The round must not
  end in "all chunks are missing" or in a complete block meanwhile, since the sending
  would go on in `chunkSending` or in `blockStart`. `LoopInv` says why it does not: when
  chunks are sent again, each target has some (`HasSome`), and no answer on its way says
  otherwise. The exception is a round that a lost connection interrupted, for
  `resetParams` makes a failed target one again that has not answered. But then nothing
  of the first target is on its way (`FirstSilent`), and with an answer of the first
  target a second round would have to begin.

`BlockComplete` in `StepComplete`, the last block in `AllBlocksSent` and the return to
`chunkSending` are the steps where these come together; each action has its own lemma
(`RegularStepComplete`, `RegularReceiveStatus`, ...), over four lemmas for what most of
them do: send a command in the middle of a step (`MidSend...`), begin a block
(`FirstSendKeeps`), send a chunk (`MidChunkKeeps`), or only receive (`ShrinksKeeps`).

Only model-checked: the liveness properties (`BufferIsFreed`, the fairness part of
`ImplementsService`, `TransferEnds`, `AttemptEnds`), which need ENABLED.

## 6. Findings

1. `clear()` during an IV update leads to nonces used twice (`sequence_iv_clear`).
2. Two threads give two PDUs one sequence number (`sequence_threads`).
3. A completed message whose segments come again is delivered again
   (`segment_once`).
4. The timeout of a segmented message fails an unrelated reliable message that
   has retries left (`reliable_own`).
5. A connection lost during the start of the last block makes the continued BLOB
   transfer a success although no node has got that block; during the start of an
   earlier one, a block is passed over (`blob_transfer_continue`).

## 7. Plan

What is left, in order of what it would add:

1. The distributor's and the initiator's steps over reliable messages, the binding of
   application keys, remote provisioning over `Provisioning`, each with its theorems; the
   set-up of the proxy filter under repeated statuses; `SegmentReceiver` on two threads.
2. Of `BlobTransfer`: that a second loop beside the first one (`TwoLoops`) is the only way
   to a transfer that does not end, by a safety invariant that says what is always posted
   or under way.

### Not modelled

- The node's network and transport layers: a binary library.
- Byte formats and cryptography: data, not control; the models keep what the control
  depends on (nonces, confirmations, device keys).
- Proxy filter, binding, fast and remote provisioning, the initiator: short sequences
  of reliable messages whose hazards (a repeated status, a late answer) are listed in
  PROJECT.json without a property.
- The node's models, heartbeat, beacons and directed forwarding: handlers of one
  message over the binary library; `factory_reset` erases its power-on counter last, so
  that a cut reset is repeated; `tlv_flash.c` is compiled out.
- User interfaces, the iOS library (the same protocol again), the desktop tool,
  vendored and generated code.
