--------------------------- MODULE SequenceThreads ---------------------------
(***************************************************************************)
(* The creation of network PDUs as the threads of the application run it.  *)
(* sendMeshMessage() runs on the caller's thread, the acknowledgments and  *)
(* resent segments on the Bluetooth callback thread, the retries on the    *)
(* "Mesh-Controller" thread.  Each of them reads mSequenceNumber once,     *)
(* reads the transmit IV index, and then creates its PDUs one by one with  *)
(* the numbers it has read, incrementing the shared counter once per PDU.  *)
(* No lock covers the read together with the increments.  Everything else  *)
(* is as in SequenceIv.                                                    *)
(***************************************************************************)
EXTENDS SequenceIv, Sequences

CONSTANT Threads  \* threads that create network PDUs

VARIABLES job,     \* what each thread is doing
          created  \* history: the nonces of the PDUs created, in order

tvars == <<vars, job, created>>

Idle == [doing |-> "idle"]

InitT ==
    /\ Init
    /\ job = [t \in Threads |-> Idle]
    /\ created = <<>>

\* postMeshMessage() reads the sequence number before the IV index; between the
\* two it assigns the tid and builds the access PDU.
ReadSequenceNumber(t) ==
    /\ job[t] = Idle
    /\ job' = [job EXCEPT ![t] = [doing |-> "read", first |-> seq]]
    /\ UNCHANGED <<vars, created>>

ReadIvIndex(t, n) ==
    /\ job[t].doing = "read"
    /\ job' = [job EXCEPT ![t] = [doing |-> "create", first |-> job[t].first,
                                  iv |-> TransmitIv, done |-> 0, left |-> n]]
    /\ UNCHANGED <<vars, created>>

\* resendSegmentedMessages() and sendUnsegmentedControlMessage() read both at
\* once, the IV index first.
ReadBoth(t, n) ==
    /\ job[t] = Idle
    /\ job' = [job EXCEPT ![t] = [doing |-> "create", first |-> seq,
                                  iv |-> TransmitIv, done |-> 0, left |-> n]]
    /\ UNCHANGED <<vars, created>>

\* createNetworkPDU() with the next of the numbers read, then
\* increaseSequenceNumber().
CreateNetworkPdu(t) ==
    LET j == job[t] IN
    /\ j.doing = "create"
    /\ seq < MaxSeq
    /\ created' = Append(created, <<j.iv, j.first + j.done>>)
    /\ seq' = seq + 1
    /\ IF seq' % Step = 0 THEN Save(seq', ivIndex) ELSE UNCHANGED storage
    /\ job' = [job EXCEPT ![t] = IF j.left = 1 THEN Idle
                                 ELSE [j EXCEPT !.done = @ + 1, !.left = @ - 1]]
    /\ UNCHANGED <<ivIndex, initIvIndex, isIvUpdating, network, history>>

NextT ==
    \/ \E t \in Threads :
           \/ ReadSequenceNumber(t)
           \/ \E n \in 1 .. MaxPdus : ReadIvIndex(t, n) \/ ReadBoth(t, n)
           \/ CreateNetworkPdu(t)
    \/ /\ \/ CheckSequenceNumber
          \/ \E remote \in 0 .. MaxIv, updating \in BOOLEAN :
                 OnIvIndexReceived(remote, updating)
          \/ NetworkStartsIvUpdate
          \/ NetworkEndsIvUpdate
       /\ UNCHANGED <<job, created>>

SpecT == InitT /\ [][NextT]_tvars

\* "for every network pdu , sequence number should increase" (the comment in
\* createNetworkPDU): no two PDUs are created with the same sequence number and
\* IV index.  Two threads that read the counter before either increments it
\* refute it.
PduNumbersDiffer ==
    \A i, k \in DOMAIN created : i # k => created[i] # created[k]
=============================================================================
