--------------------------- MODULE SegmentReceiver ---------------------------
(***************************************************************************)
(* Reassembly of segmented access messages in the Android provisioner      *)
(* (NetworkingController.parseNetworkPdu, parseSegmentedAccessMessage and  *)
(* its two timers).  There is one reassembly buffer for all the nodes of   *)
(* the network: while a message is in it, a segment of any other message   *)
(* is refused with a "busy" acknowledgment.  For each source the           *)
(* controller remembers the last message it completed and the last one it  *)
(* refused, and answers later segments of these without looking further.   *)
(* A message is acknowledged in full before it is decrypted, and one that  *)
(* cannot be decrypted is put on record like any other.                    *)
(*                                                                         *)
(* The senders and the network stand for the nodes.  A sender works on one *)
(* segmented message at a time and may send each segment again, with a new *)
(* sequence number; the network loses and reorders PDUs.                   *)
(***************************************************************************)
EXTENDS Integers, FiniteSets

CONSTANTS Sources,   \* unicast addresses of the nodes
          NoSource,  \* address 0: lastSegSrc of an idle receiver
          SegN,      \* index of the last segment of a message
          SeqZeros,  \* number of values of SeqZero (13 bits: 0x2000)
          MaxSeq,    \* bound: the sequence numbers each node uses
          MaxAir     \* bound: PDUs on their way at a time

ASSUME SegmentReceiverAssumption ==
    /\ NoSource \notin Sources
    /\ SegN \in Nat
    /\ SeqZeros \in Nat \ {0}
    /\ MaxSeq \in [Sources -> Nat]
    /\ MaxAir \in Nat

VARIABLES
    \* --- the nodes and the network ---
    nextSeq,         \* next sequence number of each node
    current,         \* first sequence number of the message a node works on
    air,             \* PDUs on their way
    \* --- fields of NetworkingController ---
    seqCache,        \* deviceSequenceNumberMap, 0 when it has no entry
    lastSeqAuth,     \* lastSeqAuth, 0 when idle
    lastSegSrc,      \* lastSegSrc
    lastSegComplete, \* lastSegComplete
    buffer,          \* receivedSegmentedMessageBuffer: the segments in it
    completed,       \* completedSeqAuthBuffer, 0 when it has no entry
    busy,            \* busySeqAuthBuffer, 0 when it has no entry
    ackTask,         \* source mAccessSegCheckTask is posted for, or NoSource
    segTimer,        \* segmentTimeoutTask is posted
    \* --- history ---
    ack,             \* the acknowledgment the last step sent, if any
    heard,           \* segments of PDUs that passed the sequence number check
    delivered,       \* messages handed to the access layer
    unread,          \* messages put together that could not be decrypted
    redelivered,     \* messages handed to it more than once
    passed,          \* messages put together before another one was begun
    refused,         \* messages answered with a busy acknowledgment
    forgotten        \* messages put together or refused before a clear()

senders  == <<nextSeq, current>>
slot     == <<lastSeqAuth, lastSegSrc, lastSegComplete, buffer>>
records  == <<completed, busy>>
timers   == <<ackTask, segTimer>>
outcomes == <<delivered, unread, redelivered, passed, refused, forgotten>>
vars == <<nextSeq, current, air, seqCache, lastSeqAuth, lastSegSrc,
          lastSegComplete, buffer, completed, busy, ackTask, segTimer,
          ack, heard, delivered, unread, redelivered, passed, refused, forgotten>>

Segments == 0 .. SegN
Pdu      == [src : Sources, first : Nat, segO : Segments, seq : Nat]
Segment  == [src : Sources, first : Nat, segO : Segments]
Message  == Sources \X Nat
NoAck    == [to |-> NoSource, first |-> 0, block |-> {}]

\* The messages the receiver has put together.
Assembled == delivered \union unread

-----------------------------------------------------------------------------
\* seqZero of a message whose first PDU has the sequence number first.
SeqZero(first) == first % SeqZeros

\* Mutant: the first PDU itself is taken for one after a wrap.
TransportSeqNoOffByOne(seq, seqZero) ==
    LET high == seq - (seq % SeqZeros) IN
    seqZero + (IF (seq % SeqZeros) <= seqZero THEN high - SeqZeros ELSE high)

\* transportSeqNo: the sequence number of the first PDU, from that of any PDU of
\* the message and the message's seqZero.
TransportSeqNo(seq, seqZero) ==
    LET high == seq - (seq % SeqZeros) IN
    seqZero + (IF (seq % SeqZeros) < seqZero THEN high - SeqZeros ELSE high)

SeqAuth(p) == TransportSeqNo(p.seq, SeqZero(p.first))

\* The message a PDU or a segment really belongs to.
MessageOf(p) == <<p.src, p.first>>

\* SegmentedAccessMessagePDU: the segment a PDU carries.
SegmentOf(p) == [src |-> p.src, first |-> p.first, segO |-> p.segO]

\* SparseArray.put(): one segment for each segment index.
Put(buf, p) == {q \in buf : q.segO # p.segO} \union {SegmentOf(p)}

-----------------------------------------------------------------------------
Init ==
    /\ nextSeq = [s \in Sources |-> 1]
    /\ current = [s \in Sources |-> 0]
    /\ air = {}
    /\ seqCache = [s \in Sources |-> 0]
    /\ lastSeqAuth = 0
    /\ lastSegSrc = NoSource
    /\ lastSegComplete = TRUE
    /\ buffer = {}
    /\ completed = [s \in Sources |-> 0]
    /\ busy = [s \in Sources |-> 0]
    /\ ackTask = NoSource
    /\ segTimer = FALSE
    /\ ack = NoAck
    /\ heard = {}
    /\ delivered = {}
    /\ unread = {}
    /\ redelivered = {}
    /\ passed = {}
    /\ refused = {}
    /\ forgotten = {}

\* A node starts its next segmented message; the one before is over for it.
StartMessage(s) ==
    /\ nextSeq[s] <= MaxSeq[s]
    /\ Cardinality(air) < MaxAir
    /\ air' = air \union
           {[src |-> s, first |-> nextSeq[s], segO |-> 0, seq |-> nextSeq[s]]}
    /\ current' = [current EXCEPT ![s] = nextSeq[s]]
    /\ ack' = NoAck
    /\ nextSeq' = [nextSeq EXCEPT ![s] = @ + 1]
    /\ UNCHANGED <<seqCache, slot, records, timers, heard, outcomes>>

\* A node sends a segment of its message, for the first time or again.  It gives
\* the message up before SeqZero could be taken for a later one's.
SendSegment(s, segO) ==
    /\ current[s] # 0
    /\ nextSeq[s] <= MaxSeq[s]
    /\ nextSeq[s] < current[s] + SeqZeros
    /\ Cardinality(air) < MaxAir
    /\ air' = air \union
           {[src |-> s, first |-> current[s], segO |-> segO, seq |-> nextSeq[s]]}
    /\ ack' = NoAck
    /\ nextSeq' = [nextSeq EXCEPT ![s] = @ + 1]
    /\ UNCHANGED <<current, seqCache, slot, records, timers, heard, outcomes>>

LosePdu(p) ==
    /\ air' = air \ {p}
    /\ ack' = NoAck
    /\ UNCHANGED <<senders, seqCache, slot, records, timers, heard, outcomes>>

-----------------------------------------------------------------------------
(* parseSegmentedAccessMessage(): the cases for an arriving segment. *)

Same(p) == lastSeqAuth = SeqAuth(p) /\ lastSegSrc = p.src

Refused(p)   == busy[p.src] = SeqAuth(p)
Completed(p) == completed[p.src] = SeqAuth(p)

\* sendSegmentBlockBusyAck(): a block acknowledgment of no segment.
SendBusyAck(p) ==
    /\ busy' = [busy EXCEPT ![p.src] = SeqAuth(p)]
    /\ ack' = [to |-> p.src, first |-> p.first, block |-> {}]
    /\ refused' = refused \union {MessageOf(p)}
    /\ UNCHANGED <<slot, completed, timers, delivered, unread, redelivered, passed, forgotten>>

\* Mutant: a message on record as completed is refused while another is received.
RefuseSegmentOfCompleted(p) ==
    /\ \/ Refused(p)
       \/ ~Same(p) /\ ~lastSegComplete
    /\ SendBusyAck(p)

\* The message was refused before, or another one is in the buffer.
RefuseSegment(p) ==
    /\ \/ Refused(p)
       \/ ~Completed(p) /\ ~Same(p) /\ ~lastSegComplete
    /\ SendBusyAck(p)

\* The message was completed before: acknowledge all of it.
AcknowledgeCompleted(p) ==
    /\ ~Refused(p)
    /\ Completed(p)
    /\ ack' = [to |-> p.src, first |-> p.first, block |-> Segments]
    /\ UNCHANGED <<slot, records, timers, outcomes>>

\* Mutant: the buffer is not cleared for a new message.
CollectInto(p) == Put(buffer, p)

\* The buffer with one more segment; a new message starts with an empty one.
Collected(p) == Put(IF Same(p) THEN buffer ELSE {}, p)

\* Mutant: the message before is not put on record.
RecordNone(p) == UNCHANGED completed

\* saveCompletedSeqAuth(), when a new message starts.
RecordLast(p) ==
    completed' = IF Same(p) \/ lastSegSrc = NoSource THEN completed
                 ELSE [completed EXCEPT ![lastSegSrc] = lastSeqAuth]

\* Mutant: the timeout is only stopped.
CheckSegmentBlockUntimed(p, immediate) ==
    /\ segTimer' = (segTimer /\ ~immediate)
    /\ ackTask' = p.src

\* checkSegmentBlock(): both timers start again, or the acknowledgment is posted
\* without delay and the timeout is stopped.
CheckSegmentBlock(p, immediate) ==
    /\ segTimer' = ~immediate
    /\ ackTask' = p.src

\* A whole message is decrypted and goes to the access layer; or the device key of
\* its source is not there, or no key fits, and nobody is told.
Decrypt(m) ==
    \/ /\ delivered' = delivered \union {m}
       /\ redelivered' = redelivered \union (delivered \intersect {m})
       /\ UNCHANGED unread
    \/ /\ unread' = unread \union {m}
       /\ UNCHANGED <<delivered, redelivered>>

\* A segment of the message in the buffer, or the first one to arrive of a new
\* message.  With the last missing segment the message is decrypted, after the
\* acknowledgment of all of it was posted.  One that is whole, but not yet on
\* record, is decrypted again with each segment that comes again.
AcceptSegment(p) ==
    LET whole == Cardinality(Collected(p)) = SegN + 1
        known == completed'[p.src] = SeqAuth(p)
    IN
    /\ ~Refused(p)
    /\ ~Completed(p)
    /\ Same(p) \/ lastSegComplete
    /\ RecordLast(p)
    /\ buffer' = Collected(p)
    /\ lastSegSrc' = p.src
    /\ lastSeqAuth' = IF whole /\ known THEN 0 ELSE SeqAuth(p)
    /\ lastSegComplete' = (whole \/ (lastSegComplete /\ Same(p)))
    /\ CheckSegmentBlock(p, whole)
    /\ IF whole /\ ~known THEN Decrypt(MessageOf(p))
                          ELSE UNCHANGED <<delivered, unread, redelivered>>
    /\ passed' = IF Same(p) THEN passed
                 ELSE passed \union (Assembled \intersect {<<lastSegSrc, lastSeqAuth>>})
    /\ ack' = NoAck
    /\ UNCHANGED <<busy, refused, forgotten>>

\* parseNetworkPdu() with validateSequenceNumber(): only a PDU above all earlier
\* ones of its source is looked at.
ReceivePdu(p) ==
    /\ p.seq > seqCache[p.src]
    /\ air' = air \ {p}
    /\ seqCache' = [seqCache EXCEPT ![p.src] = p.seq]
    /\ heard' = heard \union {SegmentOf(p)}
    /\ RefuseSegment(p) \/ AcknowledgeCompleted(p) \/ AcceptSegment(p)
    /\ UNCHANGED senders

-----------------------------------------------------------------------------
\* SegmentAckMessageSentTask: acknowledge the segments in the buffer; posted
\* again until the message is whole.
SendSegmentBlockAck ==
    /\ ackTask # NoSource
    /\ ack' = IF buffer = {} THEN NoAck
              ELSE [to    |-> ackTask,
                    first |-> (CHOOSE p \in buffer :
                                   \A q \in buffer : p.segO <= q.segO).first,
                    block |-> {p.segO : p \in buffer}]
    /\ ackTask' = IF Cardinality(buffer) \in 1 .. SegN THEN ackTask ELSE NoSource
    /\ UNCHANGED <<senders, air, seqCache, slot, records, segTimer, heard, outcomes>>

\* Mutant: the message given up stays the last one, to be put on record.
SegmentTimeoutKeepsLast ==
    /\ segTimer
    /\ segTimer' = FALSE
    /\ ackTask' = NoSource
    /\ lastSegComplete' = TRUE
    /\ ack' = NoAck
    /\ UNCHANGED <<senders, air, seqCache, lastSegSrc, lastSeqAuth, buffer, records, heard, outcomes>>

\* Mutant: the buffer stays held.
SegmentTimeoutHolds ==
    /\ segTimer
    /\ segTimer' = FALSE
    /\ ackTask' = NoSource
    /\ lastSegSrc' = NoSource
    /\ lastSeqAuth' = 0
    /\ ack' = NoAck
    /\ UNCHANGED <<senders, air, seqCache, lastSegComplete, buffer, records, heard, outcomes>>

\* segmentTimeoutTask: no segment for SEG_TIMEOUT, the message is given up.
SegmentTimeout ==
    /\ segTimer
    /\ segTimer' = FALSE
    /\ ackTask' = NoSource
    /\ lastSegComplete' = TRUE
    /\ lastSegSrc' = NoSource
    /\ lastSeqAuth' = 0
    /\ ack' = NoAck
    /\ UNCHANGED <<senders, air, seqCache, buffer, records, heard, outcomes>>

\* clear(): the link dropped, a binding ended, or the mesh OTA was stopped.  What
\* was completed or refused stays on record, except for the last message.
Clear ==
    /\ seqCache' = [s \in Sources |-> 0]
    /\ lastSeqAuth' = 0
    /\ lastSegSrc' = NoSource
    /\ lastSegComplete' = TRUE
    /\ buffer' = {}
    /\ ackTask' = NoSource
    /\ segTimer' = FALSE
    /\ forgotten' = forgotten \union Assembled \union refused
    /\ ack' = NoAck
    /\ UNCHANGED <<senders, air, records, heard, delivered, unread, redelivered, passed, refused>>

Next ==
    \/ \E s \in Sources : StartMessage(s)
    \/ \E s \in Sources, segO \in Segments : SendSegment(s, segO)
    \/ \E p \in air : LosePdu(p) \/ ReceivePdu(p)
    \/ SendSegmentBlockAck
    \/ SegmentTimeout
    \/ Clear

\* The timers run on the Mesh-Controller thread, which handles every message
\* posted to it.
Spec == Init /\ [][Next]_vars /\ WF_vars(SegmentTimeout)

-----------------------------------------------------------------------------
\* Every variable holds a value the code can give it.
TypeOK ==
    /\ nextSeq \in [Sources -> Nat]
    /\ current \in [Sources -> Nat]
    /\ air \subseteq Pdu
    /\ seqCache \in [Sources -> Nat]
    /\ lastSeqAuth \in Nat
    /\ lastSegSrc \in Sources \union {NoSource}
    /\ lastSegComplete \in BOOLEAN
    /\ buffer \subseteq Segment
    /\ completed \in [Sources -> Nat]
    /\ busy \in [Sources -> Nat]
    /\ ackTask \in Sources \union {NoSource}
    /\ segTimer \in BOOLEAN
    /\ ack \in [to : Sources \union {NoSource}, first : Nat, block : SUBSET Segments]
    /\ heard \subseteq Segment
    /\ delivered \subseteq Message
    /\ unread \subseteq Message
    /\ redelivered \subseteq Message
    /\ passed \subseteq Message
    /\ refused \subseteq Message
    /\ forgotten \subseteq Message

\* An acknowledgment goes to the node that sent the segments it names, and names
\* no segment that has not arrived (sendSegmentBlockAck reads the shared buffer
\* when its task runs, and the record of completed messages is trusted without
\* the segments).
AckTruthful ==
    \A segO \in ack.block :
        \E p \in heard : MessageOf(p) = <<ack.to, ack.first>> /\ p.segO = segO

\* A node that is told that all its segments have arrived is one whose message
\* the receiver has put together, and given to the access layer unless it could
\* not be decrypted: nothing is acknowledged in full, by the task or from the
\* record of completed messages, and lost on the way to the decryption.  That it
\* was read the acknowledgment does not say: it is posted before the device key
\* is looked up.
FullAckMeansDecrypted ==
    ack.block = Segments => <<ack.to, ack.first>> \in delivered \union unread

\* What the access layer is given was put together from one message's segments:
\* the buffer never mixes two messages, whatever comes in between.
BufferHoldsOneMessage ==
    \A p, q \in buffer : MessageOf(p) = MessageOf(q)

\* The one buffer is never held without the timer that frees it: otherwise every
\* other node would be refused for good.
HeldBufferIsTimed ==
    ~lastSegComplete => segTimer

\* Without a clear() in between, no message is both put together and refused: a
\* node is not told "busy", on which it cancels, for what was carried out, nor
\* told that all has arrived for what was refused.
OutcomeAgrees ==
    \A m \in Assembled \intersect refused : m \in forgotten

\* Once the receiver has begun another message, it does not deliver the one
\* before again, unless a clear() came in between; and what it could not decrypt
\* it does not deliver at all, however often the node sends it again.  The record
\* of completed messages holds only one message of each source
\* (completedSeqAuthBuffer): it suffices because the sequence number check drops
\* what is older.
MovedOnNotRedelivered ==
    [][\A m \in passed \ forgotten :
          /\ m \in delivered' => m \in delivered
          /\ m \in redelivered' => m \in redelivered]_vars

\* Other nodes get their turn: the buffer is not held for ever.
BufferIsFreed == ~lastSegComplete ~> lastSegComplete

\* "segment completed auth buffer" and " seqAuth already received": a message is
\* given to the access layer once.  A message is put on record only when the
\* next one starts, so segments sent again before that refute it.
DeliveredOnce == redelivered = {}
=============================================================================
