------------------------------ MODULE SequenceIv ------------------------------
(***************************************************************************)
(* The sequence number and the IV index of the Android provisioner         *)
(* (core/networking/NetworkingController.java).  A network PDU is          *)
(* encrypted with a nonce made of the transmit IV index and the sequence   *)
(* number, so a pair that is used twice for the same source address breaks *)
(* the encryption, and a pair below an earlier one is dropped by the       *)
(* replay protection of every node.  The controller keeps the pair fresh   *)
(* across                                                                  *)
(*   - restarts: only one value in Step is saved, and setup() skips to the *)
(*     next multiple of Step;                                              *)
(*   - IV updates: the sequence number restarts at 0 when the network has  *)
(*     moved to a new IV index;                                            *)
(*   - the loss of the link and the end of a binding or an OTA, which run  *)
(*     clear().                                                            *)
(*                                                                         *)
(* Every handler is one step here: see SequenceThreads for what two        *)
(* threads inside the handlers can do to each other.                       *)
(***************************************************************************)
EXTENDS Integers, FiniteSets

CONSTANTS Step,      \* mSnoUpdateStep: one sequence number in Step is saved
          Threshold, \* THRESHOLD_SEQUENCE_NUMBER: ask for an IV update from here on
          MaxJump,   \* 42: the largest step forward of the IV index that is believed
          IvMissing, \* MeshUtils.IV_MISSING, the largest 32-bit value
          MaxPdus,   \* most network PDUs one handler creates
          MaxSeq,    \* bound: the sequence numbers explored (24 bits in a PDU)
          MaxIv      \* bound: the IV indexes the network goes through

ASSUME SequenceIvAssumption ==
    /\ Step \in Nat \ {0}
    /\ Threshold \in Nat
    /\ MaxJump \in Nat
    /\ MaxPdus \in 1 .. Step
    /\ MaxSeq \in Nat /\ MaxSeq >= Step
    /\ MaxIv \in Nat
    /\ IvMissing \in Nat
    /\ IvMissing > MaxIv + MaxSeq + 1

VARIABLES
    \* --- fields of NetworkingController ---
    seq,          \* mSequenceNumber
    ivIndex,      \* ivIndex
    initIvIndex,  \* initIvIndex
    isIvUpdating, \* isIvUpdating
    \* --- MeshConfiguration / MeshInfo, saved by the application ---
    storedSeq,
    storedIv,
    \* --- the mesh network, as its beacons show it ---
    netIv,        \* IV index the network has reached
    netUpdating,  \* the network is in the IV Update in Progress state
    \* --- history ---
    lastNonce,    \* <<IV index, sequence number>> of the last PDU created
    aborted       \* calls that ran while isIvUpdating: "clear", "setup"

controller == <<seq, ivIndex, initIvIndex, isIvUpdating>>
storage    == <<storedSeq, storedIv>>
network    == <<netIv, netUpdating>>
history    == <<lastNonce, aborted>>
vars       == <<seq, ivIndex, initIvIndex, isIvUpdating, storedSeq, storedIv,
                netIv, netUpdating, lastNonce, aborted>>

-----------------------------------------------------------------------------
\* The cast to int and the mask UNSIGNED_INTEGER_MAX: ivIndex + 1 may wrap.
Narrow(iv) == IF iv > IvMissing THEN iv - (IvMissing + 1) ELSE iv

\* Mutant: the IV index of an update is used before the network has it.
TransmitIvEarly == Narrow(ivIndex)

\* getTransmitIvIndex()
TransmitIv == Narrow(IF isIvUpdating THEN ivIndex - 1 ELSE ivIndex)

\* Mutant: restart from the saved value, not beyond it.
InitSequenceNumberNoSkip(s) == (s \div Step) * Step

\* The first multiple of Step above a saved sequence number: a saved value
\* may lie up to Step - 1 behind the ones already used.
InitSequenceNumber(s) == ((s \div Step) + 1) * Step

\* Lexicographic order of nonces: what a receiver's replay protection accepts.
Before(p, q) == p[1] < q[1] \/ (p[1] = q[1] /\ p[2] < q[2])

\* onNetworkInfoUpdate(): the application saves both values before it returns.
Save(s, iv) == /\ storedSeq' = s
               /\ storedIv'  = Narrow(iv)

-----------------------------------------------------------------------------
(***************************************************************************)
(* The program starts with what an earlier mesh has saved, or with an      *)
(* unknown IV index when the mesh was imported from another provisioner,   *)
(* and setup() runs at once.                                               *)
(***************************************************************************)
Init ==
    /\ netIv \in 0 .. MaxIv
    /\ netUpdating = FALSE
    /\ storedSeq = InitSequenceNumber(0)
    /\ storedIv \in {netIv, IvMissing}
    /\ seq = storedSeq
    /\ ivIndex = storedIv
    /\ initIvIndex = storedIv
    /\ isIvUpdating = FALSE
    /\ lastNonce = <<-1, -1>>
    /\ aborted = {}

\* A message of n network PDUs: the values seq .. seq + n - 1 are used with one
\* transmit IV index, and every multiple of Step the counter reaches is saved.
CreateNetworkPdus(n) ==
    LET saved == {m \in seq + 1 .. seq + n : m % Step = 0} IN
    /\ seq + n <= MaxSeq
    /\ seq' = seq + n
    /\ IF saved = {} THEN UNCHANGED storage
                     ELSE Save(CHOOSE m \in saved : TRUE, ivIndex)
    /\ lastNonce' = IF TransmitIv = IvMissing THEN lastNonce
                                              ELSE <<TransmitIv, seq + n - 1>>
    /\ UNCHANGED <<ivIndex, initIvIndex, isIvUpdating, network, aborted>>

\* setup(): the process restarted or the application set the mesh up again.
Setup ==
    /\ InitSequenceNumber(storedSeq) <= MaxSeq
    /\ aborted' = IF isIvUpdating THEN aborted \union {"setup"} ELSE aborted
    /\ isIvUpdating' = FALSE
    /\ initIvIndex' = storedIv
    /\ ivIndex' = storedIv
    /\ seq' = InitSequenceNumber(storedSeq)
    /\ Save(InitSequenceNumber(storedSeq), storedIv)
    /\ UNCHANGED <<network, lastNonce>>

\* clear(): the link dropped, a binding ended, or the mesh OTA was stopped.
Clear ==
    /\ aborted' = IF isIvUpdating THEN aborted \union {"clear"} ELSE aborted
    /\ isIvUpdating' = FALSE
    /\ UNCHANGED <<seq, ivIndex, initIvIndex, storage, network, lastNonce>>

\* Mutant: an update in progress is not looked at, and each call goes one further.
CheckSequenceNumberAgain ==
    /\ isIvUpdating' = (seq >= Threshold)
    /\ ivIndex' = IF seq >= Threshold THEN ivIndex + 1 ELSE ivIndex
    /\ UNCHANGED <<seq, initIvIndex, storage, network, history>>

\* checkSequenceNumber(): run when the proxy connection is set up.  The beacon
\* it sends asks for an update; whether the network follows is the network's.
CheckSequenceNumber ==
    /\ ~isIvUpdating
    /\ isIvUpdating' = (seq >= Threshold)
    /\ ivIndex' = IF seq >= Threshold THEN initIvIndex + 1 ELSE ivIndex
    /\ UNCHANGED <<seq, initIvIndex, storage, network, history>>

\* Mutant: the restarted sequence number is not saved.
OnIvUpdatedUnsaved(newIvIndex) ==
    IF newIvIndex > initIvIndex \/ initIvIndex = IvMissing
    THEN /\ initIvIndex' = newIvIndex
         /\ seq' = 0
         /\ UNCHANGED storage
    ELSE UNCHANGED <<initIvIndex, seq, storage>>

\* onIvUpdated(): only a new IV index restarts the sequence number.  IV indexes are
\* below 2^31 here: its cast to int makes a larger one negative.
OnIvUpdated(newIvIndex) ==
    IF newIvIndex > initIvIndex \/ initIvIndex = IvMissing
    THEN /\ initIvIndex' = newIvIndex
         /\ seq' = 0
         /\ Save(0, newIvIndex)
    ELSE UNCHANGED <<initIvIndex, seq, storage>>

-----------------------------------------------------------------------------
(* The cases of onIvIndexReceived(): a secure or private beacon arrives. *)

\* The local IV index is unknown: take the beacon's.
AdoptIv(remote, updating) ==
    /\ ivIndex = IvMissing
    /\ isIvUpdating' = updating
    /\ ivIndex' = remote
    /\ OnIvUpdated(remote)

\* The same IV index, no longer updating: the update is complete.
CompleteIvUpdate(remote, updating) ==
    /\ ivIndex # IvMissing
    /\ remote = ivIndex
    /\ ~updating
    /\ isIvUpdating
    /\ isIvUpdating' = FALSE
    /\ OnIvUpdated(remote)
    /\ UNCHANGED ivIndex

\* Mutant: the sequence number restarts as soon as an update begins.
FollowIvAtOnce(remote, updating) ==
    /\ ivIndex # IvMissing
    /\ remote - ivIndex \in 1 .. MaxJump
    /\ isIvUpdating' = updating
    /\ ivIndex' = remote
    /\ OnIvUpdated(remote)

\* A larger IV index within the limit: follow it.
FollowIv(remote, updating) ==
    /\ ivIndex # IvMissing
    /\ remote - ivIndex \in 1 .. MaxJump
    /\ isIvUpdating' = updating
    /\ ivIndex' = remote
    /\ OnIvUpdated(IF updating THEN remote - 1 ELSE remote)

\* The beacons of nodes that have come as far as the network or lag behind.
\* (Beacons that none of the cases takes change nothing.)
SentBeacon(remote, updating) ==
    /\ remote \in 0 .. netIv
    /\ updating => remote > 0
    /\ remote = netIv /\ netUpdating => updating

OnIvIndexReceived(remote, updating) ==
    /\ SentBeacon(remote, updating)
    /\ \/ AdoptIv(remote, updating)
       \/ CompleteIvUpdate(remote, updating)
       \/ FollowIv(remote, updating)
    /\ UNCHANGED <<network, history>>

\* The nodes: an update starts when some node asks for it (this provisioner's
\* beacon or another's) and ends when the nodes have changed over.
NetworkStartsIvUpdate ==
    /\ ~netUpdating
    /\ netIv < MaxIv
    /\ netIv' = netIv + 1
    /\ netUpdating' = TRUE
    /\ UNCHANGED <<controller, storage, history>>

NetworkEndsIvUpdate ==
    /\ netUpdating
    /\ netUpdating' = FALSE
    /\ UNCHANGED <<netIv, controller, storage, history>>

Next ==
    \/ \E n \in 1 .. MaxPdus : CreateNetworkPdus(n)
    \/ Setup
    \/ Clear
    \/ CheckSequenceNumber
    \/ \E remote \in 0 .. MaxIv, updating \in BOOLEAN :
           OnIvIndexReceived(remote, updating)
    \/ NetworkStartsIvUpdate
    \/ NetworkEndsIvUpdate

Spec == Init /\ [][Next]_vars

-----------------------------------------------------------------------------
\* Every variable holds a value the code can give it.
TypeOK ==
    /\ seq \in 0 .. MaxSeq
    /\ ivIndex \in 0 .. IvMissing + 1
    /\ initIvIndex \in 0 .. IvMissing
    /\ isIvUpdating \in BOOLEAN
    /\ storedSeq \in 0 .. MaxSeq
    /\ storedIv \in 0 .. IvMissing
    /\ netIv \in 0 .. MaxIv
    /\ netUpdating \in BOOLEAN
    /\ lastNonce \in Int \X Int
    /\ aborted \in SUBSET {"clear", "setup"}

\* As long as clear() has never cut an IV update short, the next PDU the
\* controller creates has a nonce above every earlier one, whatever restarts,
\* IV updates and beacons came in between (createNetworkPDU, initSequenceNumber
\* and onIvUpdated together).  Compared with lastNonce, the largest so far.
NonceFreshUnlessCleared ==
    "clear" \notin aborted /\ TransmitIv # IvMissing
        => Before(lastNonce, <<TransmitIv, seq>>)

\* The same for a restart that may strike at any moment: the first PDU after
\* setup() has run on the saved values is above every PDU created before.
RestartNonceFreshUnlessCleared ==
    "clear" \notin aborted /\ storedIv # IvMissing
        => Before(lastNonce, <<storedIv, InitSequenceNumber(storedSeq)>>)

\* As long as no IV update was cut short, the controller never transmits with
\* an IV index the network has not reached yet: such PDUs reach nobody
\* (getTransmitIvIndex against the beacons of the network).
TransmitIvReached ==
    aborted = {} /\ TransmitIv # IvMissing => TransmitIv <= netIv

\* "for every network pdu , sequence number should increase" (the comment on
\* createNetworkPDU): in one IV index, the next PDU's number is above the last.
\* clear() in the middle of an IV update refutes it.
SequenceIncreases ==
    TransmitIv = lastNonce[1] => seq > lastNonce[2]
-----------------------------------------------------------------------------
(***************************************************************************)
(* The inductive invariant.  The freshness of the next nonce is not        *)
(* inductive by itself: it needs how far the saved values lag behind the   *)
(* live ones, and that initIvIndex, ivIndex and the saved IV index never   *)
(* differ by more than one update.                                         *)
(***************************************************************************)
Known == initIvIndex # IvMissing

\* The saved sequence number is the last multiple of Step reached.
StepInv ==
    /\ storedSeq % Step = 0
    /\ storedSeq <= seq
    /\ seq < storedSeq + Step

\* The live and the saved IV index are the initial one or, in an update, the
\* next; each restart in the middle of an update may add one more, and costs
\* at least one sequence number.
WindowInv ==
    /\ Known => /\ initIvIndex <= MaxIv + seq
                /\ ivIndex \in {initIvIndex, initIvIndex + 1}
                /\ storedIv \in {initIvIndex, ivIndex}
                /\ storedIv <= MaxIv + storedSeq
                /\ isIvUpdating => ivIndex > 0
    /\ ~Known => /\ ivIndex \in {IvMissing, IvMissing + 1}
                 /\ storedIv \in {IvMissing, 0}
                 /\ ivIndex = IvMissing => storedIv = IvMissing
                 /\ isIvUpdating => ivIndex = IvMissing + 1

\* Without a clear() in the middle of an update, the three IV indexes agree
\* between updates, and the next nonce is fresh.
FreshInv ==
    "clear" \notin aborted =>
        /\ Known => /\ ~isIvUpdating => ivIndex = initIvIndex /\ storedIv = initIvIndex
                    /\ Before(lastNonce, <<TransmitIv, seq>>)
        /\ ~Known => /\ ivIndex = IvMissing + 1 => isIvUpdating
                     /\ lastNonce[1] = -1

\* Without any update cut short, the initial IV index is one the network had.
ReachedInv ==
    aborted = {} /\ Known => initIvIndex <= netIv

IInv == TypeOK /\ StepInv /\ WindowInv /\ FreshInv /\ ReachedInv
=============================================================================
