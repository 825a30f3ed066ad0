---------------------------- MODULE ReliableSender ----------------------------
(***************************************************************************)
(* The sending side of the Android provisioner (NetworkingController):     *)
(* reliable messages, which are sent again until they are answered, and    *)
(* segmented messages, whose segments are sent again until they are        *)
(* acknowledged.  There is one slot for each: a message may take both, or  *)
(* two messages one each.  The response to a reliable message may itself   *)
(* be segmented; while it is being received the retry is put off.          *)
(*                                                                         *)
(* Each handler is one step.  Responses are not tied to the message sent:  *)
(* any node may send a status of any opcode at any time.                   *)
(***************************************************************************)
EXTENDS Integers, FiniteSets

CONSTANTS Messages,  \* [id, dst, rsp, rspMax, segmented]
          NoMessage, \* mSendingReliableMessage before the first
          Nodes,     \* unicast addresses; any other dst is a group
          NoOpcode,  \* OPCODE_INVALID, the rsp of an unreliable message
          SegN,      \* index of the last segment of a segmented message
          RetryCnt,  \* DEFAULT_RETRY_CNT
          MaxRx      \* bound: segmented messages received in the meantime

ASSUME ReliableSenderAssumption ==
    /\ NoMessage \notin Messages
    /\ \A m \in Messages : m.rspMax \in Nat /\ m.segmented \in BOOLEAN
    /\ SegN \in Nat
    /\ RetryCnt \in Nat
    /\ MaxRx \in Nat

VARIABLES
    \* --- fields of NetworkingController ---
    reliableBusy,    \* reliableBusy
    sending,         \* mSendingReliableMessage, kept after its completion
    retryCnt,        \* retryCnt of each message
    responses,       \* mResponseMessageBuffer
    reliableTimer,   \* reliableMessageTimeoutTask is posted
    segmentedBusy,   \* segmentedBusy
    sent,            \* sentSegmentedMessageBuffer: the message in it, or NoMessage
    segTimer,        \* segmentedMessageTimeoutTask is posted
    blockTimer,      \* mSegmentBlockWaitingTask is posted
    lastSegComplete, \* lastSegComplete, set by the receiving side
    \* --- the network ---
    air,             \* segments of the buffer's message on their way
    arrived,         \* segments of it that have reached its destination
    rx,              \* segmented messages received so far
    \* --- history ---
    outcome,         \* what the application was told of each message
    ownFailure,      \* failures reported for want of answers or of acknowledgments
                     \* of the message itself
    claimed          \* segmented messages reported as sent before all had arrived

reliableSlot == <<reliableBusy, sending, retryCnt, responses, reliableTimer>>
segmentSlot  == <<segmentedBusy, sent, segTimer, blockTimer, air, arrived>>
receiver     == <<lastSegComplete, rx>>
vars == <<reliableBusy, sending, retryCnt, responses, reliableTimer,
          segmentedBusy, sent, segTimer, blockTimer, lastSegComplete,
          air, arrived, rx, outcome, ownFailure, claimed>>

Segments       == 0 .. SegN
Reliable(m)    == m.rsp # NoOpcode
Unicast(m)     == m.dst \in Nodes
AwaitsAcks(m)  == m.segmented /\ Unicast(m)
ReliableMessages == {m \in Messages : Reliable(m)}

Init ==
    /\ reliableBusy = FALSE
    /\ sending = NoMessage
    /\ retryCnt = [m \in Messages |-> RetryCnt]
    /\ responses = {}
    /\ reliableTimer = FALSE
    /\ segmentedBusy = FALSE
    /\ sent = NoMessage
    /\ segTimer = FALSE
    /\ blockTimer = FALSE
    /\ lastSegComplete = TRUE
    /\ air = {}
    /\ arrived = {}
    /\ rx = 0
    /\ outcome = [m \in Messages |-> "new"]
    /\ ownFailure = {}
    /\ claimed = {}

-----------------------------------------------------------------------------
(* The parts of the handlers. *)

\* startSegmentedMessageTimeoutCheck(), startSegmentedBlockAckWaiting(), and the
\* segments handed to the network.
StartSegments(m) ==
    /\ segmentedBusy' = TRUE
    /\ sent' = m
    /\ segTimer' = TRUE
    /\ blockTimer' = TRUE
    /\ air' = Segments
    /\ arrived' = {}

\* stopSegmentedBlockAckWaiting(true, _) and clearSegmentSendingState().
ClearSegments ==
    /\ segmentedBusy' = FALSE
    /\ sent' = NoMessage
    /\ segTimer' = FALSE
    /\ blockTimer' = FALSE
    /\ air' = {}
    /\ arrived' = {}

\* The end of postMeshMessage(): the message takes the slots it needs.  The
\* reliable timer of a message that awaits acknowledgments starts with the last
\* of these.
TakeReliableSlot(m) ==
    IF Reliable(m) THEN /\ reliableBusy' = TRUE
                        /\ sending' = m
                        /\ reliableTimer' = ~AwaitsAcks(m)
                   ELSE UNCHANGED <<reliableBusy, sending, reliableTimer>>

\* Mutant: the task stays posted.
FreeReliableSlotTimed ==
    /\ reliableBusy' = FALSE
    /\ responses' = {}
    /\ UNCHANGED reliableTimer

\* The reliable slot is free, and its task removed.
FreeReliableSlot ==
    /\ reliableBusy' = FALSE
    /\ responses' = {}
    /\ reliableTimer' = FALSE

\* onReliableMessageComplete(), except for the slot of segmented messages.
EndReliable(result) ==
    /\ FreeReliableSlot
    /\ outcome' = [outcome EXCEPT ![sending] = result]
    /\ UNCHANGED <<sending, retryCnt>>

-----------------------------------------------------------------------------
\* Mutant: only the slot of segmented messages is looked at.
SegmentSlotFree(m) == m.segmented => ~segmentedBusy

\* The slots the message needs are free.
SlotsFree(m) == /\ m.segmented => ~segmentedBusy
                /\ Reliable(m) => ~reliableBusy

\* sendMeshMessage() that returns true: a message that finds its slots taken is
\* refused, and the application may try again.
SendMeshMessage(m) ==
    /\ outcome[m] = "new"
    /\ SlotsFree(m)
    /\ TakeReliableSlot(m)
    /\ IF AwaitsAcks(m) THEN StartSegments(m) ELSE UNCHANGED segmentSlot
    /\ outcome' = [outcome EXCEPT ![m] = IF Reliable(m) THEN "pending" ELSE "sent"]
    /\ UNCHANGED <<retryCnt, responses, receiver, ownFailure, claimed>>

\* updateReliableMessage(): a status from a node.
OnAccessPdu(n, opcode) ==
    LET answers == responses \union {n}
        frees   == segmentedBusy /\ sending.segmented
    IN
    /\ reliableBusy
    /\ sending.rsp = opcode
    /\ Unicast(sending) => sending.dst = n
    /\ IF Cardinality(answers) >= sending.rspMax
       THEN /\ EndReliable("success")
            /\ IF frees
               THEN /\ ClearSegments
                    /\ claimed' = IF arrived = Segments THEN claimed
                                                        ELSE claimed \union {sent}
               ELSE UNCHANGED <<segmentSlot, claimed>>
       ELSE /\ responses' = answers
            /\ UNCHANGED <<reliableBusy, sending, retryCnt, reliableTimer,
                           segmentSlot, outcome, claimed>>
    /\ UNCHANGED <<receiver, ownFailure>>

\* Mutant: one retry too many.
RetryLeftOrNone == retryCnt[sending] >= 0

RetryLeft == retryCnt[sending] > 0

\* reliableMessageTimeoutTask, no retry left.  (While a segmented message is being
\* received the task only posts itself again.)
ReliableTimeoutFails ==
    /\ reliableTimer
    /\ lastSegComplete
    /\ ~RetryLeft
    /\ EndReliable("failure")
    /\ ownFailure' = ownFailure \union {sending}
    /\ UNCHANGED <<segmentSlot, receiver, claimed>>

\* reliableMessageTimeoutTask: post the message again.  A segmented message first
\* frees the slot of segmented messages, whichever message is in it.
ReliableTimeoutRetries ==
    /\ reliableTimer
    /\ lastSegComplete
    /\ RetryLeft
    /\ retryCnt' = [retryCnt EXCEPT ![sending] = @ - 1]
    /\ TakeReliableSlot(sending)
    /\ IF AwaitsAcks(sending) THEN StartSegments(sending)
       ELSE IF sending.segmented /\ segmentedBusy THEN ClearSegments
       ELSE UNCHANGED segmentSlot
    /\ UNCHANGED <<responses, receiver, outcome, ownFailure, claimed>>

\* SegmentedMessageTimeoutTask: 15 s without all segments acknowledged.  A
\* reliable message that waits for its response fails with it.
SegmentedMessageTimeout ==
    /\ segTimer
    /\ ClearSegments
    /\ IF reliableBusy
       THEN /\ EndReliable("failure")
            /\ ownFailure' = IF sent = sending THEN ownFailure \union {sending}
                                               ELSE ownFailure
       ELSE UNCHANGED <<reliableSlot, outcome, ownFailure>>
    /\ UNCHANGED <<receiver, claimed>>

\* Mutant: the last segment is not looked at.
AllButLast(block) == 0 .. SegN - 1 \subseteq block

AllSegments(block) == Segments \subseteq block

\* Mutant: the response is not waited for.
AfterSegmentsUntimed == UNCHANGED reliableTimer

\* onSegmentedMessageComplete(true): a reliable message now waits for its response.
AfterSegments == reliableTimer' = (reliableBusy \/ reliableTimer)

\* resendSegmentedMessages() on an acknowledgment of the message in the buffer
\* that names all its segments.
AllSegmentsAcknowledged(block) ==
    /\ segmentedBusy
    /\ AllSegments(block)
    /\ ClearSegments
    /\ AfterSegments
    /\ claimed' = IF arrived = Segments THEN claimed ELSE claimed \union {sent}
    /\ UNCHANGED <<reliableBusy, sending, retryCnt, responses, receiver, outcome, ownFailure>>

\* The same when some are missing (or, with no block, for a busy node).
ResendMissingSegments(block) ==
    /\ segmentedBusy
    /\ ~AllSegments(block)
    /\ air' = air \union (Segments \ block)
    /\ blockTimer' = TRUE
    /\ UNCHANGED <<segmentedBusy, sent, segTimer, arrived, reliableSlot,
                   receiver, outcome, ownFailure, claimed>>

\* An acknowledgment tells of segments that had arrived when it was sent.  Those of
\* other messages are left out: the code ignores them by their seqZero, and two
\* messages with one seqZero are assumed never to be on their way together.
OnSegmentAck(block) ==
    /\ block \subseteq arrived
    /\ AllSegmentsAcknowledged(block) \/ ResendMissingSegments(block)

\* SegmentBlockWaitingTask: no acknowledgment, send all segments again.
SegmentBlockWaitingTimeout ==
    /\ blockTimer
    /\ air' = air \union Segments
    /\ UNCHANGED <<segmentedBusy, sent, segTimer, blockTimer, arrived, reliableSlot,
                   receiver, outcome, ownFailure, claimed>>

\* clear(): the link dropped.  Nothing is reported to the application.
Clear ==
    /\ FreeReliableSlot
    /\ ClearSegments
    /\ lastSegComplete' = TRUE
    /\ outcome' = IF reliableBusy THEN [outcome EXCEPT ![sending] = "dropped"] ELSE outcome
    /\ UNCHANGED <<sending, retryCnt, rx, ownFailure, claimed>>

-----------------------------------------------------------------------------
(* The environment. *)

SegmentArrives(segO) ==
    /\ segO \in air
    /\ air' = air \ {segO}
    /\ arrived' = arrived \union {segO}
    /\ UNCHANGED <<segmentedBusy, sent, segTimer, blockTimer, reliableSlot,
                   receiver, outcome, ownFailure, claimed>>

SegmentLost(segO) ==
    /\ segO \in air
    /\ air' = air \ {segO}
    /\ UNCHANGED <<segmentedBusy, sent, segTimer, blockTimer, arrived, reliableSlot,
                   receiver, outcome, ownFailure, claimed>>

\* The receiving side (SegmentReceiver) starts and ends a segmented message.
ReceptionStarts ==
    /\ lastSegComplete
    /\ rx < MaxRx
    /\ lastSegComplete' = FALSE
    /\ rx' = rx + 1
    /\ UNCHANGED <<reliableSlot, segmentSlot, outcome, ownFailure, claimed>>

ReceptionEnds ==
    /\ ~lastSegComplete
    /\ lastSegComplete' = TRUE
    /\ UNCHANGED <<reliableSlot, segmentSlot, rx, outcome, ownFailure, claimed>>

ReliableTimeout == ReliableTimeoutFails \/ ReliableTimeoutRetries

Next ==
    \/ \E m \in Messages : SendMeshMessage(m)
    \/ \E n \in Nodes, m \in ReliableMessages : OnAccessPdu(n, m.rsp)
    \/ ReliableTimeout
    \/ SegmentedMessageTimeout
    \/ \E block \in SUBSET Segments : OnSegmentAck(block)
    \/ SegmentBlockWaitingTimeout
    \/ Clear
    \/ \E segO \in Segments : SegmentArrives(segO) \/ SegmentLost(segO)
    \/ ReceptionStarts
    \/ ReceptionEnds

\* The tasks posted to the Mesh-Controller thread run; the receiving side frees
\* its buffer (SegmentReceiver!BufferIsFreed).  Nothing is assumed of the network.
Spec == /\ Init /\ [][Next]_vars
        /\ WF_vars(ReliableTimeout)
        /\ WF_vars(SegmentedMessageTimeout)
        /\ WF_vars(ReceptionEnds)

-----------------------------------------------------------------------------
\* Every variable holds a value the code can give it.
TypeOK ==
    /\ reliableBusy \in BOOLEAN
    /\ sending \in ReliableMessages \union {NoMessage}
    /\ retryCnt \in [Messages -> 0 .. RetryCnt]
    /\ responses \subseteq Nodes
    /\ reliableTimer \in BOOLEAN
    /\ segmentedBusy \in BOOLEAN
    /\ sent \in Messages \union {NoMessage}
    /\ segTimer \in BOOLEAN
    /\ blockTimer \in BOOLEAN
    /\ lastSegComplete \in BOOLEAN
    /\ air \subseteq Segments
    /\ arrived \subseteq Segments
    /\ rx \in 0 .. MaxRx
    /\ outcome \in [Messages -> {"new", "pending", "sent", "success", "failure", "dropped"}]
    /\ ownFailure \subseteq Messages
    /\ claimed \subseteq Messages

\* A slot that is taken has a timer that frees it, and no timer runs for a free
\* slot: without the first, no message could be sent any more; a timer that is
\* left over would retry or fail a message that is already completed
\* (reliableMessageTimeoutTask does not look at reliableBusy).
SlotsAreTimed ==
    /\ reliableBusy => /\ sending # NoMessage
                       /\ reliableTimer \/ (segmentedBusy /\ sent = sending)
    /\ reliableTimer => reliableBusy
    /\ segmentedBusy <=> segTimer
    /\ segmentedBusy <=> sent # NoMessage
    /\ segmentedBusy <=> blockTimer

\* A message is pending for the application exactly while it has the reliable
\* slot: no completion is lost and none comes for another message.
PendingHasSlot ==
    \A m \in Messages : outcome[m] = "pending" <=> reliableBusy /\ sending = m

\* A segmented message is reported as sent without all of it having arrived only
\* by a step that completes a reliable message, never by an acknowledgment.
AcknowledgmentsAreTrusted ==
    [][claimed' # claimed => reliableBusy /\ ~reliableBusy']_vars

\* The implementation of the abstract service.
Service == INSTANCE ReliableService
               WITH pending <- IF reliableBusy THEN sending ELSE NoMessage,
                    outcome <- [m \in ReliableMessages |-> outcome[m]]

\* Reliable messages are accepted one at a time, and each is completed once; with
\* the fairness of Spec, each one is completed or dropped.
ImplementsService == Service!Spec

\* "if true, message will be cached and checked completion by message response or
\* retryCnt == 0" (MeshMessage.isReliable): a failure is reported only for the
\* message's own sake.  The timeout of another, segmented message refutes it.
FailureIsOwn ==
    \A m \in Messages : outcome[m] = "failure" => m \in ownFailure
=============================================================================
