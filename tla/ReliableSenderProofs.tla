------------------------- MODULE ReliableSenderProofs -------------------------
(***************************************************************************)
(* Proofs about ReliableSender, for any messages, nodes and retry count.   *)
(* The three invariants the model checker finds are inductive together:    *)
(* that a taken slot is timed needs that the pending message is the one in *)
(* the slot, and the other way round.                                      *)
(***************************************************************************)
EXTENDS ReliableSender, TLAPS

Inv == TypeOK /\ SlotsAreTimed /\ PendingHasSlot

\* A message in the slot is one of the reliable messages.
LEMMA BusyMessage ==
    ASSUME Inv, reliableBusy
    PROVE  sending \in Messages /\ Reliable(sending)
BY DEF Inv, TypeOK, SlotsAreTimed, ReliableMessages

LEMMA InitInv == Init => Inv
<1> SUFFICES ASSUME Init PROVE Inv
    OBVIOUS
<1> USE ReliableSenderAssumption
<1>1. TypeOK
    <2>1. retryCnt \in [Messages -> 0 .. RetryCnt] /\ rx \in 0 .. MaxRx
        BY DEF Init
    <2>2. outcome \in [Messages -> {"new", "pending", "sent", "success", "failure", "dropped"}]
        BY DEF Init
    <2> QED BY <2>1, <2>2 DEF Init, TypeOK
<1>2. SlotsAreTimed
    BY DEF Init, SlotsAreTimed
<1>3. PendingHasSlot
    BY DEF Init, PendingHasSlot
<1> QED BY <1>1, <1>2, <1>3 DEF Inv

-----------------------------------------------------------------------------
(* One lemma for each action. *)

LEMMA SendMeshMessageInv ==
    ASSUME Inv, NEW m \in Messages, SendMeshMessage(m)
    PROVE  Inv'
<1> USE ReliableSenderAssumption DEF SendMeshMessage, SlotsFree
<1>1. TypeOK'
    BY DEF Inv, TypeOK, TakeReliableSlot, StartSegments, segmentSlot, receiver,
           AwaitsAcks, Unicast, ReliableMessages, Segments
<1>2. SlotsAreTimed'
    BY DEF Inv, TypeOK, SlotsAreTimed, TakeReliableSlot, StartSegments, segmentSlot,
           AwaitsAcks
<1>3. PendingHasSlot'
    BY DEF Inv, TypeOK, PendingHasSlot, TakeReliableSlot
<1> QED BY <1>1, <1>2, <1>3 DEF Inv

LEMMA EndReliableInv ==
    ASSUME Inv, reliableBusy,
           NEW result \in {"success", "failure"}, EndReliable(result)
    PROVE  /\ (reliableBusy' = FALSE) /\ (reliableTimer' = FALSE)
           /\ sending' \in ReliableMessages \union {NoMessage}
           /\ retryCnt' \in [Messages -> 0 .. RetryCnt]
           /\ responses' \subseteq Nodes
           /\ outcome' \in [Messages -> {"new", "pending", "sent", "success", "failure", "dropped"}]
           /\ PendingHasSlot'
<1>1. sending \in Messages
    BY BusyMessage
<1> QED BY <1>1 DEF EndReliable, FreeReliableSlot, Inv, TypeOK, PendingHasSlot

LEMMA OnAccessPduInv ==
    ASSUME Inv, NEW n \in Nodes, NEW opcode, OnAccessPdu(n, opcode)
    PROVE  Inv'
<1>1. CASE Cardinality(responses \union {n}) >= sending.rspMax
    <2>1. EndReliable("success") /\ reliableBusy
        BY <1>1 DEF OnAccessPdu
    <2>2. CASE segmentedBusy /\ sending.segmented
        <3>1. ClearSegments
            BY <1>1, <2>2 DEF OnAccessPdu
        <3>2. claimed' \subseteq Messages
            BY <1>1, <2>2 DEF OnAccessPdu, Inv, TypeOK, SlotsAreTimed
        <3>3. TypeOK'
            BY <2>1, <3>1, <3>2, EndReliableInv
            DEF OnAccessPdu, Inv, TypeOK, ClearSegments, receiver, Segments
        <3>4. SlotsAreTimed'
            BY <2>1, <3>1, EndReliableInv DEF SlotsAreTimed, ClearSegments
        <3> QED BY <2>1, <3>3, <3>4, EndReliableInv DEF Inv
    <2>3. CASE ~(segmentedBusy /\ sending.segmented)
        <3>1. UNCHANGED <<segmentSlot, claimed>>
            BY <1>1, <2>3 DEF OnAccessPdu
        <3>2. TypeOK'
            BY <2>1, <3>1, EndReliableInv
            DEF OnAccessPdu, Inv, TypeOK, segmentSlot, receiver, Segments
        <3>3. SlotsAreTimed'
            BY <2>1, <3>1, EndReliableInv DEF Inv, SlotsAreTimed, segmentSlot
        <3> QED BY <2>1, <3>2, <3>3, EndReliableInv DEF Inv
    <2> QED BY <2>2, <2>3
<1>2. CASE ~(Cardinality(responses \union {n}) >= sending.rspMax)
    <2>1. /\ responses' = responses \union {n}
          /\ UNCHANGED <<reliableBusy, sending, retryCnt, reliableTimer,
                         segmentSlot, outcome, claimed, receiver, ownFailure>>
        BY <1>2 DEF OnAccessPdu
    <2>2. TypeOK'
        BY <2>1 DEF Inv, TypeOK, segmentSlot, receiver, Segments
    <2>3. SlotsAreTimed' /\ PendingHasSlot'
        BY <2>1 DEF Inv, SlotsAreTimed, PendingHasSlot, segmentSlot
    <2> QED BY <2>2, <2>3 DEF Inv
<1> QED BY <1>1, <1>2

LEMMA ReliableTimeoutFailsInv ==
    ASSUME Inv, ReliableTimeoutFails
    PROVE  Inv'
<1>1. reliableBusy /\ EndReliable("failure")
    BY DEF ReliableTimeoutFails, Inv, SlotsAreTimed
<1>2. TypeOK'
    BY <1>1, BusyMessage, EndReliableInv
    DEF ReliableTimeoutFails, Inv, TypeOK, segmentSlot, receiver, Segments
<1>3. SlotsAreTimed'
    BY <1>1, EndReliableInv DEF ReliableTimeoutFails, Inv, SlotsAreTimed, segmentSlot
<1> QED BY <1>1, <1>2, <1>3, EndReliableInv DEF Inv

LEMMA ReliableTimeoutRetriesInv ==
    ASSUME Inv, ReliableTimeoutRetries
    PROVE  Inv'
<1>1. reliableBusy /\ sending \in Messages /\ Reliable(sending)
    BY BusyMessage DEF ReliableTimeoutRetries, Inv, SlotsAreTimed
<1>2. /\ reliableBusy' = TRUE
      /\ sending' = sending
      /\ reliableTimer' = ~AwaitsAcks(sending)
    BY <1>1 DEF ReliableTimeoutRetries, TakeReliableSlot
<1>3. \/ AwaitsAcks(sending) /\ StartSegments(sending)
      \/ ~AwaitsAcks(sending) /\ (ClearSegments \/ UNCHANGED segmentSlot)
    BY DEF ReliableTimeoutRetries
<1>4. retryCnt' \in [Messages -> 0 .. RetryCnt]
    BY <1>1, ReliableSenderAssumption DEF ReliableTimeoutRetries, RetryLeft, Inv, TypeOK
<1>5. TypeOK'
    BY <1>1, <1>2, <1>3, <1>4
    DEF ReliableTimeoutRetries, Inv, TypeOK, StartSegments, ClearSegments,
        segmentSlot, receiver, Segments
<1>6. SlotsAreTimed'
    BY <1>1, <1>2, <1>3
    DEF Inv, TypeOK, SlotsAreTimed, StartSegments, ClearSegments, segmentSlot
<1>7. PendingHasSlot'
    BY <1>1, <1>2 DEF ReliableTimeoutRetries, Inv, PendingHasSlot
<1> QED BY <1>5, <1>6, <1>7 DEF Inv

LEMMA SegmentedMessageTimeoutInv ==
    ASSUME Inv, SegmentedMessageTimeout
    PROVE  Inv'
<1>1. ClearSegments /\ UNCHANGED <<receiver, claimed>>
    BY DEF SegmentedMessageTimeout
<1>2. CASE reliableBusy
    <2>1. EndReliable("failure")
        BY <1>2 DEF SegmentedMessageTimeout
    <2>2. ownFailure' \subseteq Messages
        BY <1>2, BusyMessage DEF SegmentedMessageTimeout, Inv, TypeOK
    <2>3. TypeOK'
        BY <1>1, <1>2, <2>1, <2>2, EndReliableInv
        DEF Inv, TypeOK, ClearSegments, receiver, Segments
    <2>4. SlotsAreTimed'
        BY <1>1, <1>2, <2>1, EndReliableInv DEF SlotsAreTimed, ClearSegments
    <2> QED BY <1>2, <2>1, <2>3, <2>4, EndReliableInv DEF Inv
<1>3. CASE ~reliableBusy
    <2>1. UNCHANGED <<reliableSlot, outcome, ownFailure>>
        BY <1>3 DEF SegmentedMessageTimeout
    <2>2. TypeOK'
        BY <1>1, <2>1 DEF Inv, TypeOK, ClearSegments, reliableSlot, receiver, Segments
    <2>3. SlotsAreTimed'
        BY <1>1, <1>3, <2>1 DEF Inv, SlotsAreTimed, ClearSegments, reliableSlot
    <2>4. PendingHasSlot'
        BY <2>1 DEF Inv, PendingHasSlot, reliableSlot
    <2> QED BY <2>2, <2>3, <2>4 DEF Inv
<1> QED BY <1>2, <1>3

LEMMA OnSegmentAckInv ==
    ASSUME Inv, NEW block \in SUBSET Segments, OnSegmentAck(block)
    PROVE  Inv'
<1>1. CASE AllSegmentsAcknowledged(block)
    <2>1. reliableTimer' = reliableBusy
        BY <1>1 DEF AllSegmentsAcknowledged, AfterSegments, Inv, TypeOK, SlotsAreTimed
    <2>2. claimed' \subseteq Messages
        BY <1>1 DEF AllSegmentsAcknowledged, Inv, TypeOK, SlotsAreTimed
    <2>3. TypeOK'
        BY <1>1, <2>1, <2>2
        DEF AllSegmentsAcknowledged, Inv, TypeOK, ClearSegments, receiver, Segments
    <2>4. SlotsAreTimed'
        BY <1>1, <2>1 DEF AllSegmentsAcknowledged, Inv, SlotsAreTimed, ClearSegments
    <2>5. PendingHasSlot'
        BY <1>1 DEF AllSegmentsAcknowledged, Inv, PendingHasSlot
    <2> QED BY <2>3, <2>4, <2>5 DEF Inv
<1>2. CASE ResendMissingSegments(block)
    <2>1. TypeOK'
        BY <1>2 DEF ResendMissingSegments, Inv, TypeOK, reliableSlot, receiver, Segments
    <2>2. SlotsAreTimed' /\ PendingHasSlot'
        BY <1>2 DEF ResendMissingSegments, Inv, TypeOK, SlotsAreTimed, PendingHasSlot,
                    reliableSlot
    <2> QED BY <2>1, <2>2 DEF Inv
<1> QED BY <1>1, <1>2 DEF OnSegmentAck

LEMMA ClearInv ==
    ASSUME Inv, Clear
    PROVE  Inv'
<1>1. outcome' \in [Messages -> {"new", "pending", "sent", "success", "failure", "dropped"}]
    BY BusyMessage DEF Clear, Inv, TypeOK
<1>2. TypeOK'
    BY <1>1 DEF Clear, FreeReliableSlot, Inv, TypeOK, ClearSegments, Segments
<1>3. SlotsAreTimed'
    BY DEF Clear, FreeReliableSlot, SlotsAreTimed, ClearSegments
<1>4. PendingHasSlot'
    BY BusyMessage DEF Clear, FreeReliableSlot, Inv, TypeOK, PendingHasSlot
<1> QED BY <1>2, <1>3, <1>4 DEF Inv

\* The steps that touch neither slot's flags.
LEMMA OtherStepsInv ==
    ASSUME Inv,
           \/ SegmentBlockWaitingTimeout
           \/ \E segO \in Segments : SegmentArrives(segO) \/ SegmentLost(segO)
           \/ ReceptionStarts
           \/ ReceptionEnds
           \/ UNCHANGED vars
    PROVE  Inv'
<1> USE ReliableSenderAssumption
    DEF Inv, TypeOK, SlotsAreTimed, PendingHasSlot, reliableSlot, segmentSlot, receiver,
        Segments
<1>1. CASE SegmentBlockWaitingTimeout
    BY <1>1 DEF SegmentBlockWaitingTimeout
<1>2. ASSUME NEW segO \in Segments, SegmentArrives(segO)
      PROVE  Inv'
    BY <1>2 DEF SegmentArrives
<1>3. ASSUME NEW segO \in Segments, SegmentLost(segO)
      PROVE  Inv'
    BY <1>3 DEF SegmentLost
<1>4. CASE ReceptionStarts
    <2>1. rx' \in 0 .. MaxRx
        BY <1>4 DEF ReceptionStarts
    <2>2. lastSegComplete' \in BOOLEAN
        BY <1>4 DEF ReceptionStarts
    <2> QED BY <1>4, <2>1, <2>2 DEF ReceptionStarts
<1>5. CASE ReceptionEnds
    BY <1>5 DEF ReceptionEnds
<1>6. CASE UNCHANGED vars
    BY <1>6 DEF vars
<1> QED BY <1>1, <1>2, <1>3, <1>4, <1>5, <1>6

LEMMA NextInv == Inv /\ [Next]_vars => Inv'
<1> SUFFICES ASSUME Inv, [Next]_vars PROVE Inv'
    OBVIOUS
<1> QED BY SendMeshMessageInv, OnAccessPduInv, ReliableTimeoutFailsInv,
           ReliableTimeoutRetriesInv, SegmentedMessageTimeoutInv, OnSegmentAckInv,
           ClearInv, OtherStepsInv
        DEF Next, ReliableTimeout

\* The inductive invariant holds in every reachable state.
THEOREM Invariance == Spec => []Inv
BY InitInv, NextInv, PTL DEF Spec

\* Every variable keeps to its type.
THEOREM TypeCorrect == Spec => []TypeOK
BY Invariance, PTL DEF Inv

\* A taken slot always has a timer that frees it (restartReliableMessageTimeoutTask,
\* startSegmentedMessageTimeoutCheck and their counterparts).
THEOREM SlotsTimed == Spec => []SlotsAreTimed
BY Invariance, PTL DEF Inv

\* A message the application waits for is the one in the reliable slot.
THEOREM PendingInSlot == Spec => []PendingHasSlot
BY Invariance, PTL DEF Inv

-----------------------------------------------------------------------------
(* Properties of the steps. *)

\* An acknowledgment never makes a segmented message count as sent that has not
\* arrived (resendSegmentedMessages looks at the bit of every segment).
THEOREM AcknowledgmentsTrusted == Spec => AcknowledgmentsAreTrusted
<1>1. ASSUME Inv, [Next]_vars, claimed' # claimed
      PROVE  reliableBusy /\ ~reliableBusy'
    <2>1. ASSUME NEW n \in Nodes, NEW m \in ReliableMessages, OnAccessPdu(n, m.rsp)
          PROVE  reliableBusy /\ ~reliableBusy'
        BY <1>1, <2>1 DEF OnAccessPdu, EndReliable, FreeReliableSlot
    <2>2. ASSUME NEW block \in SUBSET Segments, OnSegmentAck(block)
          PROVE  FALSE
        <3>1. AllSegmentsAcknowledged(block) /\ block \subseteq arrived
            BY <1>1, <2>2 DEF OnSegmentAck, ResendMissingSegments
        <3>2. arrived = Segments
            BY <1>1, <3>1 DEF AllSegmentsAcknowledged, AllSegments, Inv, TypeOK
        <3> QED BY <1>1, <3>1, <3>2 DEF AllSegmentsAcknowledged
    <2>3. \/ \E n \in Nodes, m \in ReliableMessages : OnAccessPdu(n, m.rsp)
          \/ \E block \in SUBSET Segments : OnSegmentAck(block)
        BY <1>1 DEF Next, vars, SendMeshMessage, ReliableTimeout, ReliableTimeoutFails,
                    ReliableTimeoutRetries, SegmentedMessageTimeout,
                    SegmentBlockWaitingTimeout, Clear, SegmentArrives, SegmentLost,
                    ReceptionStarts, ReceptionEnds
    <2> QED BY <2>1, <2>2, <2>3
<1>2. Inv /\ [Next]_vars => [claimed' # claimed => reliableBusy /\ ~reliableBusy']_vars
    BY <1>1
<1> QED BY <1>2, Invariance, PTL DEF Spec, AcknowledgmentsAreTrusted

-----------------------------------------------------------------------------
(* The implementation of ReliableService, without its fairness. *)

Pending == IF reliableBusy THEN sending ELSE NoMessage
Outcome == [m \in ReliableMessages |-> outcome[m]]

\* The end of a reliable message resolves the pending one.
LEMMA EndReliableResolves ==
    ASSUME Inv, reliableBusy, NEW result, EndReliable(result)
    PROVE  Service!Resolve(result)
<1>1. sending \in ReliableMessages /\ sending \in Messages
    BY BusyMessage DEF ReliableMessages
<1>2. Pending = sending /\ Pending # NoMessage /\ Pending' = NoMessage
    BY <1>1, ReliableSenderAssumption DEF EndReliable, FreeReliableSlot, Pending
<1>3. Outcome' = [Outcome EXCEPT ![Pending] = result]
    BY <1>1, <1>2 DEF EndReliable, Outcome, Inv, TypeOK, ReliableMessages
<1> QED BY <1>2, <1>3 DEF Service!Resolve, Pending, Outcome

\* Every step is a step of the service or leaves it as it is.
LEMMA StepImplements ==
    ASSUME Inv, [Next]_vars
    PROVE  [Service!Next]_(Service!vars)
<1>1. ASSUME NEW m \in Messages, SendMeshMessage(m)
      PROVE  [Service!Next]_(Service!vars)
    <2>1. CASE Reliable(m)
        <3>1. m \in ReliableMessages /\ m # NoMessage
            BY <2>1, ReliableSenderAssumption DEF ReliableMessages
        <3>2. Pending = NoMessage /\ Pending' = m /\ Outcome[m] = "new"
            BY <1>1, <2>1, <3>1 DEF SendMeshMessage, SlotsFree, TakeReliableSlot, Pending, Outcome
        <3>3. Outcome' = [Outcome EXCEPT ![m] = "pending"]
            BY <1>1, <2>1, <3>1 DEF SendMeshMessage, Outcome, Inv, TypeOK, ReliableMessages
        <3>4. Service!Accept(m)
            BY <3>2, <3>3 DEF Service!Accept, Pending, Outcome
        <3> QED BY <3>1, <3>4 DEF Service!Next
    <2>2. CASE ~Reliable(m)
        <3>1. Pending' = Pending
            BY <1>1, <2>2 DEF SendMeshMessage, TakeReliableSlot, Pending
        <3>2. Outcome' = Outcome
            BY <1>1, <2>2 DEF SendMeshMessage, Outcome, Inv, TypeOK, ReliableMessages
        <3> QED BY <3>1, <3>2 DEF Service!vars, Pending, Outcome
    <2> QED BY <2>1, <2>2
<1>2. ASSUME NEW n \in Nodes, NEW m \in ReliableMessages, OnAccessPdu(n, m.rsp)
      PROVE  [Service!Next]_(Service!vars)
    <2>1. CASE EndReliable("success")
        <3>1. Service!Resolve("success")
            BY <1>1, <1>2, <2>1, EndReliableResolves DEF OnAccessPdu
        <3> QED BY <3>1 DEF Service!Next, Service!Complete
    <2>2. CASE UNCHANGED <<reliableBusy, sending, outcome>>
        BY <2>2 DEF Service!vars
    <2> QED BY <1>2, <2>1, <2>2 DEF OnAccessPdu
<1>3. CASE ReliableTimeoutFails
    <2>1. Service!Resolve("failure")
        BY <1>3, EndReliableResolves DEF ReliableTimeoutFails, Inv, SlotsAreTimed
    <2> QED BY <2>1 DEF Service!Next, Service!Complete
<1>4. CASE ReliableTimeoutRetries
    <2>1. reliableBusy /\ Reliable(sending)
        BY <1>4, BusyMessage DEF ReliableTimeoutRetries, Inv, SlotsAreTimed
    <2> QED BY <1>4, <2>1 DEF ReliableTimeoutRetries, TakeReliableSlot, Inv, TypeOK,
                              Service!vars
<1>5. CASE SegmentedMessageTimeout
    <2>1. CASE reliableBusy
        <3>1. Service!Resolve("failure")
            BY <1>5, <2>1, EndReliableResolves DEF SegmentedMessageTimeout
        <3> QED BY <3>1 DEF Service!Next, Service!Complete
    <2>2. CASE ~reliableBusy
        BY <1>5, <2>2 DEF SegmentedMessageTimeout, reliableSlot, Service!vars
    <2> QED BY <2>1, <2>2
<1>6. CASE Clear
    <2>1. CASE reliableBusy
        <3>1. sending \in ReliableMessages
            BY <2>1, BusyMessage DEF ReliableMessages
        <3>2. Pending = sending /\ Pending # NoMessage /\ Pending' = NoMessage
            BY <1>6, <2>1, <3>1, ReliableSenderAssumption
            DEF Clear, FreeReliableSlot, Pending, ReliableMessages
        <3>3. Outcome' = [Outcome EXCEPT ![Pending] = "dropped"]
            BY <1>6, <2>1, <3>1, <3>2 DEF Clear, Outcome, Inv, TypeOK, ReliableMessages
        <3>4. Service!Drop
            BY <3>2, <3>3 DEF Service!Drop, Service!Resolve, Pending, Outcome
        <3> QED BY <3>4 DEF Service!Next
    <2>2. CASE ~reliableBusy
        BY <1>6, <2>2 DEF Clear, FreeReliableSlot, Service!vars
    <2> QED BY <2>1, <2>2
<1>7. CASE UNCHANGED <<reliableBusy, sending, outcome>>
    BY <1>7 DEF Service!vars
<1>8. ASSUME NEW block \in SUBSET Segments, OnSegmentAck(block)
      PROVE  UNCHANGED <<reliableBusy, sending, outcome>>
    BY <1>8 DEF OnSegmentAck, AllSegmentsAcknowledged, ResendMissingSegments, reliableSlot
<1>9. \/ SegmentBlockWaitingTimeout
      \/ \E segO \in Segments : SegmentArrives(segO) \/ SegmentLost(segO)
      \/ ReceptionStarts
      \/ ReceptionEnds
      \/ UNCHANGED vars
      => UNCHANGED <<reliableBusy, sending, outcome>>
    BY DEF SegmentBlockWaitingTimeout, SegmentArrives, SegmentLost, ReceptionStarts,
           ReceptionEnds, reliableSlot, vars
<1> QED BY <1>1, <1>2, <1>3, <1>4, <1>5, <1>6, <1>7, <1>8, <1>9 DEF Next, ReliableTimeout

LEMMA InitImplements == Init => Service!Init
BY DEF Init, Service!Init, ReliableMessages

\* The sender implements the service: one reliable message at a time, each
\* completed once and none that was not accepted (its completion in the end is
\* left to the model checker).
THEOREM ImplementsServiceSafety == Spec => Service!SafeSpec
BY InitImplements, StepImplements, Invariance, PTL DEF Spec, Service!SafeSpec
=============================================================================
