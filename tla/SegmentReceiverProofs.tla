------------------------- MODULE SegmentReceiverProofs -------------------------
(***************************************************************************)
(* The one reassembly buffer for all nodes mixes no messages, acknowledges *)
(* nothing that has not arrived and nothing in full that was not put       *)
(* together and given to the decryption, is never held without its timer,  *)
(* and what was put together is neither refused nor, once another message  *)
(* has begun, delivered: for any number of nodes, segments and values of   *)
(* seqZero, however the network loses and reorders PDUs, whenever clear()  *)
(* comes and whatever cannot be decrypted.                                 *)
(*                                                                         *)
(* The receiver finds the first sequence number of a message again         *)
(* (SeqAuthIsFirst); PDUs of an earlier message have lower numbers         *)
(* (OrderInv); and so one record for each node is enough.                  *)
(***************************************************************************)
EXTENDS SegmentReceiver, FiniteSetTheorems, WellFoundedInduction, TLAPS

-----------------------------------------------------------------------------
(* Sequence numbers.                                                        *)

\* Division by the number of values of seqZero.
LEMMA DivisionBySeqZeros ==
    ASSUME NEW m \in Nat
    PROVE  /\ m = SeqZeros * (m \div SeqZeros) + (m % SeqZeros)
           /\ m \div SeqZeros \in Nat
           /\ m % SeqZeros \in 0 .. SeqZeros - 1
    BY SegmentReceiverAssumption, SMT

\* Different multiples are at least SeqZeros apart.
LEMMA ProductsApart ==
    ASSUME NEW a \in Nat, NEW b \in Nat, a < b
    PROVE  SeqZeros * b >= SeqZeros * a + SeqZeros
<1>1. PICK d \in Nat : b = a + 1 + d
  <2>1. b - a - 1 \in Nat
      OBVIOUS
  <2> QED BY <2>1, b = a + 1 + (b - a - 1)
<1>2. SeqZeros * b = SeqZeros * a + SeqZeros + SeqZeros * d
    BY <1>1, SegmentReceiverAssumption, SMT
<1>3. SeqZeros * d \in Nat /\ SeqZeros * a \in Nat
    BY <1>1, SegmentReceiverAssumption, SMT
<1> QED BY <1>2, <1>3, SegmentReceiverAssumption, SMT

\* transportSeqNo gives back the sequence number of a message's first PDU, as
\* long as less than SeqZeros later ones have been used.
LEMMA SeqAuthIsFirst ==
    ASSUME NEW seq \in Nat, NEW first \in Nat, first <= seq, seq < first + SeqZeros
    PROVE  TransportSeqNo(seq, SeqZero(first)) = first
<1> DEFINE a == seq \div SeqZeros
           r == seq % SeqZeros
           b == first \div SeqZeros
           z == first % SeqZeros
<1>1. /\ seq = SeqZeros * a + r /\ a \in Nat /\ r \in 0 .. SeqZeros - 1
      /\ first = SeqZeros * b + z /\ b \in Nat /\ z \in 0 .. SeqZeros - 1
    BY DivisionBySeqZeros
<1>2. TransportSeqNo(seq, SeqZero(first))
        = z + (IF r < z THEN (seq - r) - SeqZeros ELSE seq - r)
    BY DEF TransportSeqNo, SeqZero
<1> HIDE DEF a, b, r, z
<1> DEFINE na == SeqZeros * a
           nb == SeqZeros * b
<1>3. na \in Nat /\ nb \in Nat /\ SeqZeros \in Nat
    BY <1>1, SegmentReceiverAssumption, SMT
<1>4. /\ a < b => nb >= na + SeqZeros
      /\ b < a => na >= nb + SeqZeros
      /\ a = b => na = nb
    BY <1>1, ProductsApart
<1>5. b + 1 < a => na >= nb + SeqZeros + SeqZeros
  <2> SUFFICES ASSUME b + 1 < a PROVE na >= nb + SeqZeros + SeqZeros
      OBVIOUS
  <2>1. na >= SeqZeros * (b + 1) + SeqZeros
      BY <1>1, ProductsApart
  <2>2. SeqZeros * (b + 1) = nb + SeqZeros
      BY <1>1, SegmentReceiverAssumption, SMT
  <2> QED BY <2>1, <2>2
<1>6. seq - r = na /\ first - z = nb
    BY <1>1, <1>3
<1>7. CASE r < z
  <2>1. na = nb + SeqZeros
    <3>1. ~(a <= b) /\ ~(b + 1 < a)
        BY <1>1, <1>3, <1>4, <1>5, <1>7
    <3>2. a = b + 1
        BY <3>1, <1>1
    <3> QED BY <3>2, <1>1, SegmentReceiverAssumption, SMT
  <2> QED BY <2>1, <1>1, <1>2, <1>3, <1>6, <1>7
<1>8. CASE ~(r < z)
  <2>1. a = b
      BY <1>1, <1>3, <1>4, <1>8
  <2> QED BY <2>1, <1>1, <1>2, <1>3, <1>4, <1>6, <1>8
<1> QED BY <1>7, <1>8

-----------------------------------------------------------------------------
(* The buffer.                                                              *)

\* All segment indexes are in the buffer.
Whole(buf) == {q.segO : q \in buf} = Segments

\* parseSegmentedAccessMessage counts the segments to know whether the message is
\* whole, which is right as long as they are of one message.
LEMMA WholeIsCounted ==
    ASSUME NEW buf \in SUBSET Segment,
           \A p, q \in buf : MessageOf(p) = MessageOf(q)
    PROVE  Whole(buf) <=> Cardinality(buf) = SegN + 1
<1> DEFINE f == [q \in buf |-> q.segO]
<1>1. IsFiniteSet(Segments) /\ Cardinality(Segments) = SegN + 1
    BY FS_Interval, SegmentReceiverAssumption DEF Segments
<1>2. f \in Injection(buf, Segments)
  <2>1. f \in [buf -> Segments]
      BY DEF Segment
  <2>2. ASSUME NEW p \in buf, NEW q \in buf, p.segO = q.segO
        PROVE  p = q
      BY <2>2 DEF MessageOf, Segment
  <2>3. \A p, q \in buf : f[p] = f[q] => p = q
      BY <2>2
  <2> QED BY <2>1, <2>3 DEF Injection, IsInjective
<1>3. Cardinality(buf) = Cardinality(Segments) <=> f \in Surjection(buf, Segments)
    BY <1>1, <1>2, FS_Injection
<1>4. f \in Surjection(buf, Segments) <=> Whole(buf)
  <2>1. f \in [buf -> Segments]
      BY <1>2 DEF Injection
  <2> QED BY <2>1 DEF Surjection, Whole, Segment
<1> QED BY <1>1, <1>3, <1>4

\* A segment put into a buffer of its own message.
LEMMA PutKeepsMessage ==
    ASSUME NEW p \in Pdu, NEW buf \in SUBSET Segment,
           \A q \in buf : MessageOf(q) = MessageOf(p)
    PROVE  /\ Put(buf, p) \in SUBSET Segment
           /\ \A q \in Put(buf, p) : MessageOf(q) = MessageOf(p)
           /\ Put(buf, p) \subseteq buf \union {SegmentOf(p)}
           /\ Whole(buf) => Whole(Put(buf, p))
<1>1. SegmentOf(p) \in Segment /\ MessageOf(SegmentOf(p)) = MessageOf(p)
    BY DEF SegmentOf, Segment, Pdu, MessageOf
<1>2. Put(buf, p) \subseteq buf \union {SegmentOf(p)}
    BY DEF Put
<1>3. ASSUME Whole(buf)
      PROVE  Whole(Put(buf, p))
  <2>1. ASSUME NEW o \in Segments
        PROVE  \E q \in Put(buf, p) : q.segO = o
    <3>1. PICK q \in buf : q.segO = o
        BY <1>3 DEF Whole
    <3>2. p.segO = o => SegmentOf(p) \in Put(buf, p) /\ SegmentOf(p).segO = o
        BY DEF Put, SegmentOf
    <3>3. p.segO # o => q \in Put(buf, p)
        BY <3>1 DEF Put
    <3> QED BY <3>1, <3>2, <3>3
  <2>2. \A q \in Put(buf, p) : q.segO \in Segments
      BY <1>1, <1>2 DEF Segment
  <2> QED BY <2>1, <2>2 DEF Whole
<1> QED BY <1>1, <1>2, <1>3

\* The segment an acknowledgment is numbered by is one of the buffer.
LEMMA LowestInBuffer ==
    ASSUME NEW buf \in SUBSET Segment, buf # {}
    PROVE  (CHOOSE p \in buf : \A q \in buf : p.segO <= q.segO) \in buf
<1> DEFINE S == {q.segO : q \in buf}
<1>1. S \in SUBSET Nat
    BY SegmentReceiverAssumption DEF Segment, Segments
<1>2. PICK n : n \in S
    OBVIOUS
<1>3. PICK m \in S : \A k \in S : <<k, m>> \notin OpToRel(<, Nat)
    BY <1>1, <1>2, WFMin, NatLessThanWellFounded, Zenon
<1>4. \A k \in S : m <= k
  <2>1. ASSUME NEW k \in S
        PROVE  ~(k < m)
      BY <1>1, <1>3, Zenon DEF OpToRel
  <2>2. m \in Nat /\ \A k \in S : k \in Nat
      BY <1>1
  <2> HIDE DEF S
  <2> QED BY <2>1, <2>2
<1>5. PICK p \in buf : p.segO = m
    OBVIOUS
<1>6. \A q \in buf : p.segO <= q.segO
    BY <1>4, <1>5
<1> QED BY <1>5, <1>6

-----------------------------------------------------------------------------
(* The inductive invariant.                                                 *)

\* The message in the buffer, or the last one that was.
Last == <<lastSegSrc, lastSeqAuth>>

\* Something of the message m has arrived, and all of it.
Arrived(m)    == \E h \in heard : MessageOf(h) = m
AllArrived(m) == \A segO \in Segments : \E h \in heard : MessageOf(h) = m /\ h.segO = segO

\* Of the node's messages, record r names m or a later one that came after the
\* last clear().
OnRecord(m, r) == m[2] <= r[m[1]] /\ r[m[1]] <= seqCache[m[1]]

\* The sequence numbers of a message's PDUs begin with the first and do not
\* reach round to its seqZero again.
PduInv ==
    /\ \A s \in Sources : current[s] < nextSeq[s]
    /\ \A p \in air :
         /\ 1 <= p.first /\ p.first <= p.seq /\ p.seq < p.first + SeqZeros
         /\ p.seq < nextSeq[p.src]
         /\ p.first <= current[p.src]
         /\ p.first < current[p.src] => p.seq < current[p.src]
    /\ \A h \in heard : 1 <= h.first /\ h.first <= current[h.src]

\* A PDU of an earlier message has a sequence number below those of a later one.
OrderInv ==
    \A p \in air : \A q \in air \union heard :
        p.src = q.src /\ p.first < q.first => p.seq < q.first

\* What the fields say of the buffer: it holds segments of the last message, has
\* all of them if and only if the message is complete, and the timers are those
\* of this message.
SlotInv ==
    /\ buffer \subseteq heard
    /\ lastSegSrc = NoSource => lastSeqAuth = 0 /\ lastSegComplete
    /\ lastSegSrc # NoSource =>
         /\ Arrived(Last)
         /\ lastSeqAuth <= seqCache[lastSegSrc]
         /\ \A q \in buffer : MessageOf(q) = Last
         /\ Whole(buffer) <=> lastSegComplete
         /\ lastSegComplete => Last \in Assembled /\ ~segTimer
    /\ ackTask \in {NoSource, lastSegSrc}

\* What is on record has been put together or refused, and what was put together
\* had arrived.
RecordInv ==
    /\ \A m \in Assembled : AllArrived(m)
    /\ \A m \in refused : Arrived(m)
    /\ passed \subseteq Assembled
    /\ \A s \in Sources : completed[s] # 0 => <<s, completed[s]>> \in Assembled
    /\ \A s \in Sources : busy[s] # 0 => <<s, busy[s]>> \in refused

\* Since the last clear(), the records are enough to know what was put together
\* and what was refused: a message is the last one, or it is on record.
SinceClearInv ==
    /\ \A m \in Assembled \ forgotten :
         /\ m[1] = lastSegSrc => m[2] <= lastSeqAuth
         /\ (m = Last /\ lastSegComplete) \/ OnRecord(m, completed)
    /\ \A m \in passed \ forgotten : OnRecord(m, completed)
    /\ \A m \in refused \ forgotten : OnRecord(m, busy)

IInv ==
    /\ TypeOK /\ PduInv /\ OrderInv /\ SlotInv /\ RecordInv /\ SinceClearInv
    /\ AckTruthful /\ FullAckMeansDecrypted /\ BufferHoldsOneMessage
    /\ HeldBufferIsTimed /\ OutcomeAgrees
-----------------------------------------------------------------------------
(* What follows of it.                                                      *)

\* A PDU on its way: the receiver finds the first number of its message.
LEMMA PduFacts ==
    ASSUME TypeOK, PduInv, NEW p \in air
    PROVE  /\ p \in Pdu /\ p.src \in Sources /\ p.src # NoSource
           /\ p.first \in Nat /\ p.seq \in Nat /\ p.first # 0 /\ p.first <= p.seq
           /\ SeqAuth(p) = p.first
           /\ MessageOf(p) \in Message
           /\ SegmentOf(p) \in Segment /\ MessageOf(SegmentOf(p)) = MessageOf(p)
<1>1. p \in Pdu
    BY DEF TypeOK
<1>2. 1 <= p.first /\ p.first <= p.seq /\ p.seq < p.first + SeqZeros
    BY DEF PduInv
<1>3. SeqAuth(p) = p.first
    BY <1>1, <1>2, SeqAuthIsFirst DEF Pdu, SeqAuth
<1>4. p.src # NoSource
    BY <1>1, SegmentReceiverAssumption DEF Pdu
<1> QED BY <1>1, <1>2, <1>3, <1>4 DEF Pdu, Message, MessageOf, SegmentOf, Segment

\* A PDU that passes the sequence number check is not of a message before one
\* that has arrived since the last clear().
LEMMA NotBefore ==
    ASSUME TypeOK, PduInv, OrderInv,
           NEW p \in air, p.seq > seqCache[p.src],
           NEW n \in Nat, Arrived(<<p.src, n>>), n <= seqCache[p.src]
    PROVE  n <= p.first
<1>1. PICK h \in heard : h.src = p.src /\ h.first = n
    BY DEF Arrived, MessageOf
<1>2. p.first < n => p.seq < n
    BY <1>1 DEF OrderInv
<1>3. p.first \in Nat /\ p.seq \in Nat /\ seqCache[p.src] \in Nat
    BY PduFacts DEF TypeOK
<1> QED BY <1>2, <1>3

\* If it is of a message on record, the record names this very message.
LEMMA RecordIsOfMessage ==
    ASSUME TypeOK, PduInv, OrderInv,
           NEW p \in air, p.seq > seqCache[p.src],
           NEW r \in [Sources -> Nat],
           r[p.src] # 0 => Arrived(<<p.src, r[p.src]>>),
           OnRecord(MessageOf(p), r)
    PROVE  r[p.src] = SeqAuth(p)
<1>1. p.src \in Sources /\ p.first \in Nat /\ p.first # 0 /\ SeqAuth(p) = p.first
    BY PduFacts
<1>2. p.first <= r[p.src] /\ r[p.src] <= seqCache[p.src] /\ r[p.src] \in Nat
    BY <1>1 DEF OnRecord, MessageOf
<1>3. r[p.src] <= p.first
    BY <1>1, <1>2, NotBefore
<1> QED BY <1>1, <1>2, <1>3

\* What was put together has arrived, and what is on record.
LEMMA RecordsArrived ==
    ASSUME RecordInv
    PROVE  /\ \A m \in Assembled : Arrived(m)
           /\ \A s \in Sources : completed[s] # 0 => Arrived(<<s, completed[s]>>)
           /\ \A s \in Sources : busy[s] # 0 => Arrived(<<s, busy[s]>>)
<1>1. 0 \in Segments
    BY SegmentReceiverAssumption DEF Segments
<1>2. \A m \in Assembled : Arrived(m)
    BY <1>1 DEF RecordInv, AllArrived, Arrived
<1> QED BY <1>2 DEF RecordInv

\* A step without an acknowledgment acknowledges nothing wrongly.
LEMMA NoAckInv ==
    ASSUME ack' = NoAck
    PROVE  AckTruthful' /\ FullAckMeansDecrypted'
<1>1. 0 \in Segments
    BY SegmentReceiverAssumption DEF Segments
<1> QED BY <1>1 DEF NoAck, AckTruthful, FullAckMeansDecrypted, Assembled

-----------------------------------------------------------------------------
(* One lemma for each action.                                               *)

\* The receiver starts with nothing.
LEMMA InitInv == Init => IInv
<1> SUFFICES ASSUME Init PROVE IInv
    OBVIOUS
<1> USE SegmentReceiverAssumption DEF Init
<1>1. TypeOK
    BY DEF TypeOK, NoAck, Segments
<1>2. PduInv /\ OrderInv
    BY DEF PduInv, OrderInv
<1>3. SlotInv /\ RecordInv /\ SinceClearInv
    BY DEF SlotInv, RecordInv, SinceClearInv, Assembled
<1>4. AckTruthful /\ FullAckMeansDecrypted
    BY DEF AckTruthful, FullAckMeansDecrypted, Assembled, NoAck, Segments
<1>5. BufferHoldsOneMessage /\ HeldBufferIsTimed /\ OutcomeAgrees
    BY DEF BufferHoldsOneMessage, HeldBufferIsTimed, OutcomeAgrees
<1> QED BY <1>1, <1>2, <1>3, <1>4, <1>5 DEF IInv

\* The nodes and the network change nothing of the receiver.
LEMMA ReceiverUnchanged ==
    ASSUME IInv, UNCHANGED <<seqCache, slot, records, timers, heard, outcomes>>
    PROVE  /\ SlotInv' /\ RecordInv' /\ SinceClearInv'
           /\ BufferHoldsOneMessage' /\ HeldBufferIsTimed' /\ OutcomeAgrees'
<1> USE DEF slot, records, timers, outcomes, Assembled
<1>1. SlotInv'
    BY DEF IInv, SlotInv, Arrived, Last, Whole
<1>2. RecordInv'
    BY DEF IInv, RecordInv, Arrived, AllArrived
<1>3. SinceClearInv'
    BY DEF IInv, SinceClearInv, Last, OnRecord
<1>4. BufferHoldsOneMessage' /\ HeldBufferIsTimed' /\ OutcomeAgrees'
    BY DEF IInv, BufferHoldsOneMessage, HeldBufferIsTimed, OutcomeAgrees
<1> QED BY <1>1, <1>2, <1>3, <1>4

\* A new message: all its numbers are above those used before.
LEMMA StartMessageInv ==
    ASSUME IInv, NEW s \in Sources, StartMessage(s)
    PROVE  IInv'
<1> DEFINE q == [src |-> s, first |-> nextSeq[s], segO |-> 0, seq |-> nextSeq[s]]
<1>1. nextSeq[s] \in Nat /\ current[s] \in Nat /\ current[s] < nextSeq[s] /\ SeqZeros > 0
    BY SegmentReceiverAssumption DEF IInv, TypeOK, PduInv
<1>2. q \in Pdu /\ air' = air \union {q}
    BY <1>1, SegmentReceiverAssumption DEF StartMessage, Pdu, Segments
<1>3. TypeOK'
  <2>1. air' \subseteq Pdu
      BY <1>2 DEF IInv, TypeOK
  <2>2. nextSeq' \in [Sources -> Nat] /\ current' \in [Sources -> Nat]
      BY <1>1 DEF IInv, TypeOK, StartMessage
  <2>3. ack' \in [to : Sources \union {NoSource}, first : Nat, block : SUBSET Segments]
      BY DEF StartMessage, NoAck
  <2> QED
      BY <2>1, <2>2, <2>3
      DEF IInv, TypeOK, StartMessage, slot, records, timers, outcomes, Assembled
<1>4. PduInv'
  <2>1. \A p \in air' : p \in air \/ p = q
      BY <1>2
  <2>2. air \subseteq Pdu /\ heard \subseteq Segment
      BY DEF IInv, TypeOK
  <2> QED
      BY <1>1, <2>1, <2>2, SegmentReceiverAssumption
      DEF IInv, TypeOK, PduInv, StartMessage, Pdu, Segment
<1>5. OrderInv'
  <2> SUFFICES ASSUME NEW p \in air', NEW r \in air' \union heard',
                      p.src = r.src, p.first < r.first
               PROVE  p.seq < r.first
      BY DEF OrderInv
  <2>1. (p \in air \/ p = q) /\ (r \in air \/ r \in heard \/ r = q)
      BY <1>2 DEF StartMessage
  <2>2. p = q => r = q
      BY <1>1, <2>1, SegmentReceiverAssumption DEF IInv, TypeOK, PduInv, Pdu, Segment
  <2>3. p \in air /\ r = q => p.seq < r.first
      BY <1>1 DEF IInv, TypeOK, PduInv, Pdu
  <2> QED BY <1>1, <2>1, <2>2, <2>3 DEF IInv, OrderInv
<1>6. ack' = NoAck
    BY DEF StartMessage
<1>7. UNCHANGED <<seqCache, slot, records, timers, heard, outcomes>>
    BY DEF StartMessage
<1> QED BY <1>3, <1>4, <1>5, <1>6, <1>7, NoAckInv, ReceiverUnchanged DEF IInv

\* Another PDU of the message.
LEMMA SendSegmentInv ==
    ASSUME IInv, NEW s \in Sources, NEW segO \in Segments, SendSegment(s, segO)
    PROVE  IInv'
<1> DEFINE q == [src |-> s, first |-> current[s], segO |-> segO, seq |-> nextSeq[s]]
<1>1. /\ nextSeq[s] \in Nat /\ current[s] \in Nat /\ current[s] < nextSeq[s]
      /\ current[s] # 0 /\ nextSeq[s] < current[s] + SeqZeros
    BY DEF IInv, TypeOK, PduInv, SendSegment
<1>2. q \in Pdu /\ air' = air \union {q}
    BY <1>1 DEF SendSegment, Pdu
<1>3. TypeOK'
  <2>1. air' \subseteq Pdu
      BY <1>2 DEF IInv, TypeOK
  <2>2. nextSeq' \in [Sources -> Nat]
      BY <1>1 DEF IInv, TypeOK, SendSegment
  <2>3. ack' \in [to : Sources \union {NoSource}, first : Nat, block : SUBSET Segments]
      BY DEF SendSegment, NoAck
  <2> QED
      BY <2>1, <2>2, <2>3
      DEF IInv, TypeOK, SendSegment, slot, records, timers, outcomes, Assembled
<1>4. PduInv'
  <2>1. \A p \in air' : p \in air \/ p = q
      BY <1>2
  <2>2. air \subseteq Pdu /\ heard \subseteq Segment
      BY DEF IInv, TypeOK
  <2> QED
      BY <1>1, <2>1, <2>2, SegmentReceiverAssumption
      DEF IInv, TypeOK, PduInv, SendSegment, Pdu, Segment
<1>5. OrderInv'
  <2> SUFFICES ASSUME NEW p \in air', NEW r \in air' \union heard',
                      p.src = r.src, p.first < r.first
               PROVE  p.seq < r.first
      BY DEF OrderInv
  <2>1. (p \in air \/ p = q) /\ (r \in air \/ r \in heard \/ r = q)
      BY <1>2 DEF SendSegment
  <2>2. p = q => r = q
      BY <1>1, <2>1 DEF IInv, TypeOK, PduInv, Pdu, Segment
  <2>3. p \in air /\ r = q => p.seq < r.first
      BY <1>1 DEF IInv, TypeOK, PduInv, Pdu
  <2> QED BY <1>1, <2>1, <2>2, <2>3 DEF IInv, OrderInv
<1>6. ack' = NoAck
    BY DEF SendSegment
<1>7. UNCHANGED <<seqCache, slot, records, timers, heard, outcomes>>
    BY DEF SendSegment
<1> QED BY <1>3, <1>4, <1>5, <1>6, <1>7, NoAckInv, ReceiverUnchanged DEF IInv

\* A lost PDU.
LEMMA LosePduInv ==
    ASSUME IInv, NEW p \in air, LosePdu(p)
    PROVE  IInv'
<1>1. TypeOK'
  <2>1. ack' \in [to : Sources \union {NoSource}, first : Nat, block : SUBSET Segments]
      BY DEF LosePdu, NoAck
  <2> QED
      BY <2>1 DEF IInv, TypeOK, LosePdu, senders, slot, records, timers, outcomes, Assembled
<1>2. air' \subseteq air /\ UNCHANGED <<nextSeq, current, heard>>
    BY DEF LosePdu, senders
<1>3. PduInv'
    BY <1>2 DEF IInv, PduInv
<1>4. OrderInv'
    BY <1>2 DEF IInv, OrderInv
<1>5. ack' = NoAck
    BY DEF LosePdu
<1>6. UNCHANGED <<seqCache, slot, records, timers, heard, outcomes>>
    BY DEF LosePdu
<1> QED BY <1>1, <1>3, <1>4, <1>5, <1>6, NoAckInv, ReceiverUnchanged DEF IInv

-----------------------------------------------------------------------------
(* A PDU is received.                                                       *)

\* The part that all cases share: the PDU is heard, and no other way later.
LEMMA ReceptionInv ==
    ASSUME IInv, NEW p \in air, ReceivePdu(p)
    PROVE  /\ PduInv' /\ OrderInv'
           /\ heard' = heard \union {SegmentOf(p)}
           /\ air' \subseteq air
           /\ \A m : Arrived(m) => Arrived(m)'
           /\ \A m : AllArrived(m) => AllArrived(m)'
           /\ Arrived(MessageOf(p))'
           /\ seqCache' \in [Sources -> Nat]
           /\ seqCache'[p.src] = p.seq
           /\ \A s \in Sources : seqCache[s] <= seqCache'[s]
           /\ nextSeq' \in [Sources -> Nat] /\ current' \in [Sources -> Nat]
           /\ air' \subseteq Pdu /\ heard' \subseteq Segment
<1>1. /\ heard' = heard \union {SegmentOf(p)} /\ air' \subseteq air
      /\ UNCHANGED <<nextSeq, current>>
      /\ seqCache' = [seqCache EXCEPT ![p.src] = p.seq] /\ p.seq > seqCache[p.src]
    BY DEF ReceivePdu, senders
<1>2. /\ p \in Pdu /\ p.src \in Sources /\ p.first \in Nat /\ p.seq \in Nat
      /\ SegmentOf(p) \in Segment /\ MessageOf(SegmentOf(p)) = MessageOf(p)
    BY PduFacts DEF IInv
<1>3. PduInv'
  <2>1. SegmentOf(p).first = p.first /\ SegmentOf(p).src = p.src
      BY DEF SegmentOf
  <2>2. 1 <= p.first /\ p.first <= current[p.src]
      BY DEF IInv, PduInv
  <2> QED BY <1>1, <2>1, <2>2 DEF IInv, PduInv
<1>4. OrderInv'
  <2>1. SegmentOf(p).first = p.first /\ SegmentOf(p).src = p.src
      BY DEF SegmentOf
  <2> QED BY <1>1, <2>1 DEF IInv, OrderInv
<1>5. /\ \A m : Arrived(m) => Arrived(m)'
      /\ \A m : AllArrived(m) => AllArrived(m)'
      /\ Arrived(MessageOf(p))'
    BY <1>1, <1>2 DEF Arrived, AllArrived
<1>6. /\ seqCache' \in [Sources -> Nat]
      /\ seqCache'[p.src] = p.seq
      /\ \A s \in Sources : seqCache[s] <= seqCache'[s]
    BY <1>1, <1>2 DEF IInv, TypeOK
<1> QED BY <1>1, <1>2, <1>3, <1>4, <1>5, <1>6 DEF IInv, TypeOK

\* The seqCache and what has arrived only grow: what the fields say of the buffer
\* stays true when nothing but these changes.
LEMMA HeardMoreSlotInv ==
    ASSUME IInv, NEW p \in air, ReceivePdu(p), UNCHANGED <<slot, timers, Assembled>>
    PROVE  SlotInv'
<1>1. /\ buffer' = buffer /\ lastSegSrc' = lastSegSrc /\ lastSeqAuth' = lastSeqAuth
      /\ lastSegComplete' = lastSegComplete /\ ackTask' = ackTask /\ segTimer' = segTimer
      /\ Assembled' = Assembled /\ Last' = Last
    BY DEF slot, timers, Last
<1>2. lastSegSrc # NoSource => lastSeqAuth <= seqCache'[lastSegSrc]
  <2>1. lastSegSrc # NoSource => /\ lastSegSrc \in Sources
                                /\ lastSeqAuth <= seqCache[lastSegSrc]
                                /\ seqCache[lastSegSrc] \in Nat
                                /\ seqCache'[lastSegSrc] \in Nat
                                /\ lastSeqAuth \in Nat
      BY ReceptionInv DEF IInv, SlotInv, TypeOK
  <2> QED BY <2>1, ReceptionInv
<1>3. buffer' \subseteq heard'
    BY <1>1, ReceptionInv DEF IInv, SlotInv
<1>4. lastSegSrc # NoSource => Arrived(Last)'
    BY <1>1, ReceptionInv DEF IInv, SlotInv, Arrived
<1> QED BY <1>1, <1>2, <1>3, <1>4 DEF IInv, SlotInv, Whole

\* A message is refused: what was put together and not forgotten is the last
\* message or on record, and so not refused.
LEMMA RefuseSegmentInv ==
    ASSUME IInv, NEW p \in air, ReceivePdu(p), RefuseSegment(p)
    PROVE  IInv'
<1> DEFINE m == MessageOf(p)
<1>1. /\ p.src \in Sources /\ p.src # NoSource /\ p.first \in Nat /\ p.seq \in Nat
      /\ p.first # 0 /\ p.first <= p.seq /\ SeqAuth(p) = p.first
      /\ m = <<p.src, p.first>> /\ m \in Message
    BY PduFacts DEF IInv, MessageOf
<1>2. /\ busy' = [busy EXCEPT ![p.src] = p.first]
      /\ ack' = [to |-> p.src, first |-> p.first, block |-> {}]
      /\ refused' = refused \union {m}
      /\ UNCHANGED <<slot, completed, timers, delivered, unread, redelivered, passed, forgotten>>
    BY <1>1 DEF RefuseSegment, SendBusyAck
<1>3. p.seq > seqCache[p.src]
    BY DEF ReceivePdu
<1>4. TypeOK'
  <2>1. ack' \in [to : Sources \union {NoSource}, first : Nat, block : SUBSET Segments]
      BY <1>1, <1>2
  <2>2. busy' \in [Sources -> Nat] /\ refused' \subseteq Message
      BY <1>1, <1>2 DEF IInv, TypeOK
  <2> QED
      BY <1>2, <2>1, <2>2, ReceptionInv DEF IInv, TypeOK, slot, timers
<1>5. SlotInv'
    BY <1>2, HeardMoreSlotInv DEF Assembled
<1>6. RecordInv'
  <2>1. \A n \in Assembled' : AllArrived(n)'
      BY <1>2, ReceptionInv DEF IInv, RecordInv, AllArrived, Assembled
  <2>2. \A n \in refused' : Arrived(n)'
      BY <1>2, ReceptionInv DEF IInv, RecordInv, Arrived
  <2>3. \A s \in Sources : busy'[s] # 0 => <<s, busy'[s]>> \in refused'
      BY <1>1, <1>2 DEF IInv, RecordInv, TypeOK
  <2> QED BY <1>2, <2>1, <2>2, <2>3 DEF IInv, RecordInv, Assembled
<1>7. SinceClearInv'
  <2>1. ASSUME NEW n \in Message, OnRecord(n, completed)
        PROVE  OnRecord(n, completed)'
    <3>1. n[1] \in Sources /\ n[2] \in Nat
        BY DEF Message
    <3>2. completed'[n[1]] = completed[n[1]] /\ completed[n[1]] \in Nat
        BY <1>2, <3>1 DEF IInv, TypeOK
    <3>3. seqCache[n[1]] <= seqCache'[n[1]] /\ seqCache[n[1]] \in Nat /\ seqCache'[n[1]] \in Nat
        BY <3>1, ReceptionInv DEF IInv, TypeOK
    <3> QED BY <2>1, <3>1, <3>2, <3>3 DEF OnRecord
  <2>2. Assembled \subseteq Message /\ passed \subseteq Message /\ refused \subseteq Message
      BY DEF IInv, TypeOK, Assembled
  <2>3. ASSUME NEW n \in refused' \ forgotten'
        PROVE  OnRecord(n, busy)'
    <3>1. CASE n = m
        BY <1>1, <1>2, <3>1, ReceptionInv DEF OnRecord, IInv, TypeOK
    <3>2. CASE n # m
      <4>1. n \in refused \ forgotten /\ n \in Message
          BY <1>2, <2>2, <2>3, <3>2
      <4>2. n[1] \in Sources /\ n[2] \in Nat /\ n = <<n[1], n[2]>>
          BY <4>1 DEF Message
      <4>3. /\ OnRecord(n, busy) /\ busy[n[1]] \in Nat
            /\ seqCache[n[1]] \in Nat /\ seqCache'[n[1]] \in Nat
          BY <4>1, <4>2, ReceptionInv DEF IInv, SinceClearInv, TypeOK
      <4>4. n[2] <= seqCache[n[1]]
          BY <4>2, <4>3 DEF OnRecord
      <4>5. CASE n[1] = p.src
        <5>1. Arrived(<<p.src, n[2]>>)
            BY <4>1, <4>2, <4>5 DEF IInv, RecordInv
        <5>2. n[2] <= p.first
            BY <1>3, <4>2, <4>4, <4>5, <5>1, NotBefore DEF IInv
        <5> QED BY <1>1, <1>2, <4>5, <5>2, ReceptionInv DEF OnRecord, IInv, TypeOK
      <4>6. CASE n[1] # p.src
        <5>1. busy'[n[1]] = busy[n[1]]
            BY <1>2, <4>2, <4>6 DEF IInv, TypeOK
        <5>2. seqCache[n[1]] <= seqCache'[n[1]]
            BY <4>2, ReceptionInv
        <5> QED BY <4>2, <4>3, <5>1, <5>2 DEF OnRecord
      <4> QED BY <4>5, <4>6
    <3> QED BY <3>1, <3>2
  <2>4. /\ lastSegSrc' = lastSegSrc /\ lastSeqAuth' = lastSeqAuth
        /\ lastSegComplete' = lastSegComplete /\ Last' = Last
      BY <1>2 DEF slot, Last
  <2> QED BY <1>2, <2>1, <2>2, <2>3, <2>4 DEF IInv, SinceClearInv, Assembled
<1>8. OutcomeAgrees'
  <2>1. ASSUME m \in Assembled, m \notin forgotten
        PROVE  m \in refused
    <3>1. CASE Refused(p)
        BY <1>1, <3>1 DEF Refused, IInv, RecordInv
    <3>2. CASE ~Refused(p)
      <4>1. ~Completed(p) /\ ~Same(p)
          BY <3>2 DEF RefuseSegment
      <4>2. m # Last
          BY <1>1, <4>1 DEF Same, Last
      <4>3. OnRecord(m, completed)
          BY <2>1, <4>2 DEF IInv, SinceClearInv
      <4>4. completed[p.src] = SeqAuth(p)
          BY <1>1, <1>3, <4>3, RecordsArrived, RecordIsOfMessage DEF IInv, TypeOK
      <4> QED BY <4>1, <4>4 DEF Completed
    <3> QED BY <3>1, <3>2
  <2> QED BY <1>2, <2>1 DEF IInv, OutcomeAgrees, Assembled
<1>9. AckTruthful' /\ FullAckMeansDecrypted'
  <2>1. 0 \in Segments
      BY SegmentReceiverAssumption DEF Segments
  <2> QED BY <1>2, <2>1 DEF AckTruthful, FullAckMeansDecrypted, Assembled
<1>10. BufferHoldsOneMessage' /\ HeldBufferIsTimed'
    BY <1>2 DEF IInv, BufferHoldsOneMessage, HeldBufferIsTimed, slot, timers
<1> QED BY <1>4, <1>5, <1>6, <1>7, <1>8, <1>9, <1>10, ReceptionInv DEF IInv


\* A message on record stays on record while the record is the same.
LEMMA StaysOnRecord ==
    ASSUME IInv, NEW p \in air, ReceivePdu(p), NEW n \in Message,
           NEW r \in [Sources -> Nat], NEW rr \in [Sources -> Nat],
           rr[n[1]] = r[n[1]], OnRecord(n, r)
    PROVE  n[2] <= rr[n[1]] /\ rr[n[1]] <= seqCache'[n[1]]
<1>1. n[1] \in Sources /\ n[2] \in Nat
    BY DEF Message
<1>2. seqCache[n[1]] <= seqCache'[n[1]] /\ seqCache[n[1]] \in Nat /\ seqCache'[n[1]] \in Nat
    BY <1>1, ReceptionInv DEF IInv, TypeOK
<1>3. r[n[1]] \in Nat
    BY <1>1
<1> QED BY <1>1, <1>2, <1>3 DEF OnRecord

\* A message on record as completed is acknowledged in full: it was put together,
\* and so all of it has arrived.
LEMMA AcknowledgeCompletedInv ==
    ASSUME IInv, NEW p \in air, ReceivePdu(p), AcknowledgeCompleted(p)
    PROVE  IInv'
<1>1. /\ p.src \in Sources /\ p.first \in Nat /\ p.first # 0 /\ SeqAuth(p) = p.first
    BY PduFacts DEF IInv
<1>2. /\ ack' = [to |-> p.src, first |-> p.first, block |-> Segments]
      /\ UNCHANGED <<slot, records, timers, outcomes>>
    BY DEF AcknowledgeCompleted
<1>3. <<p.src, p.first>> \in Assembled
    BY <1>1 DEF AcknowledgeCompleted, Completed, IInv, RecordInv
<1>4. TypeOK'
  <2>1. ack' \in [to : Sources \union {NoSource}, first : Nat, block : SUBSET Segments]
      BY <1>1, <1>2
  <2> QED
      BY <1>2, <2>1, ReceptionInv DEF IInv, TypeOK, slot, records, timers, outcomes, Assembled
<1>5. SlotInv'
    BY <1>2, HeardMoreSlotInv DEF outcomes, Assembled
<1>6. RecordInv'
  <2>1. \A n \in Assembled' : AllArrived(n)'
      BY <1>2, ReceptionInv DEF IInv, RecordInv, AllArrived, outcomes, Assembled
  <2>2. \A n \in refused' : Arrived(n)'
      BY <1>2, ReceptionInv DEF IInv, RecordInv, Arrived, outcomes, Assembled
  <2> QED BY <1>2, <2>1, <2>2 DEF IInv, RecordInv, outcomes, Assembled, records
<1>7. SinceClearInv'
  <2>1. Assembled \subseteq Message /\ passed \subseteq Message /\ refused \subseteq Message
        /\ completed \in [Sources -> Nat] /\ busy \in [Sources -> Nat]
      BY DEF IInv, TypeOK, Assembled
  <2>2. \A n \in Message : OnRecord(n, completed) => OnRecord(n, completed)'
      BY <1>2, <2>1, StaysOnRecord DEF OnRecord, records
  <2>3. \A n \in Message : OnRecord(n, busy) => OnRecord(n, busy)'
      BY <1>2, <2>1, StaysOnRecord DEF OnRecord, records
  <2> QED BY <1>2, <2>1, <2>2, <2>3 DEF IInv, SinceClearInv, outcomes, Assembled, slot, Last
<1>8. AckTruthful' /\ FullAckMeansDecrypted'
  <2>1. AllArrived(<<p.src, p.first>>)'
      BY <1>2, <1>3, ReceptionInv DEF IInv, RecordInv, AllArrived
  <2> QED BY <1>2, <1>3, <2>1 DEF AckTruthful, FullAckMeansDecrypted, Assembled, AllArrived, outcomes
<1>9. BufferHoldsOneMessage' /\ HeldBufferIsTimed' /\ OutcomeAgrees'
    BY <1>2 DEF IInv, BufferHoldsOneMessage, HeldBufferIsTimed, OutcomeAgrees,
                slot, timers, outcomes, Assembled
<1> QED BY <1>4, <1>5, <1>6, <1>7, <1>8, <1>9, ReceptionInv DEF IInv

\* What accepting a segment comes to: the buffer holds segments of its message
\* only, and the message is put together exactly when it is whole.
LEMMA Reassembled ==
    ASSUME IInv, NEW p \in air, ReceivePdu(p), AcceptSegment(p)
    PROVE  /\ buffer' \in SUBSET Segment /\ buffer' \subseteq heard'
           /\ \A q \in buffer' : MessageOf(q) = MessageOf(p)
           /\ lastSegSrc' = p.src /\ lastSeqAuth' = p.first /\ Last' = MessageOf(p)
           /\ lastSegComplete' <=> Whole(buffer')
           /\ segTimer' = ~Whole(buffer') /\ ackTask' = p.src
           /\ Assembled' = IF Whole(buffer') THEN Assembled \union {MessageOf(p)}
                           ELSE Assembled
           /\ Same(p) <=> Last = MessageOf(p)
           /\ Same(p) /\ lastSegComplete => lastSegComplete'
           /\ ~Same(p) => lastSegComplete
<1> DEFINE old == IF Same(p) THEN buffer ELSE {}
<1>1. /\ p \in Pdu /\ p.src \in Sources /\ p.src # NoSource /\ SeqAuth(p) = p.first
      /\ MessageOf(p) = <<p.src, p.first>>
    BY PduFacts DEF IInv, MessageOf
<1>2. Same(p) <=> Last = MessageOf(p)
    BY <1>1 DEF Same, Last
<1>3. old \in SUBSET Segment /\ \A q \in old : MessageOf(q) = MessageOf(p)
    BY <1>1, <1>2 DEF Same, IInv, TypeOK, SlotInv
<1>4. buffer' = Put(old, p)
    BY DEF AcceptSegment, Collected
<1>5. /\ buffer' \in SUBSET Segment
      /\ \A q \in buffer' : MessageOf(q) = MessageOf(p)
      /\ buffer' \subseteq old \union {SegmentOf(p)}
      /\ Whole(old) => Whole(buffer')
    BY <1>1, <1>3, <1>4, PutKeepsMessage
<1>6. buffer' \subseteq heard'
    BY <1>5, ReceptionInv DEF IInv, SlotInv
<1>7. Cardinality(Collected(p)) = SegN + 1 <=> Whole(buffer')
    BY <1>4, <1>5, WholeIsCounted DEF Collected
<1>8. completed'[p.src] # SeqAuth(p)
  <2>1. completed[p.src] # SeqAuth(p)
      BY DEF AcceptSegment, Completed
  <2>2. CASE Same(p) \/ lastSegSrc = NoSource
      BY <2>1, <2>2 DEF AcceptSegment, RecordLast
  <2>3. CASE ~(Same(p) \/ lastSegSrc = NoSource)
    <3>1. completed' = [completed EXCEPT ![lastSegSrc] = lastSeqAuth]
        BY <2>3 DEF AcceptSegment, RecordLast
    <3>2. lastSegSrc = p.src => lastSeqAuth # SeqAuth(p)
        BY <2>3 DEF Same
    <3> QED BY <1>1, <2>1, <3>1, <3>2 DEF IInv, TypeOK
  <2> QED BY <2>2, <2>3
<1>9. /\ lastSegSrc' = p.src /\ lastSeqAuth' = p.first /\ ackTask' = p.src
      /\ segTimer' = ~Whole(buffer')
      /\ lastSegComplete' = (Whole(buffer') \/ (lastSegComplete /\ Same(p)))
      /\ Assembled' = IF Whole(buffer') THEN Assembled \union {MessageOf(p)} ELSE Assembled
      /\ ~Same(p) => lastSegComplete
  <2>1. /\ lastSegSrc' = p.src /\ ackTask' = p.src
        /\ ~Same(p) => lastSegComplete
      BY DEF AcceptSegment, CheckSegmentBlock
  <2>2. lastSeqAuth' = p.first
      BY <1>1, <1>8 DEF AcceptSegment
  <2>3. /\ segTimer' = ~(Cardinality(Collected(p)) = SegN + 1)
        /\ lastSegComplete' = (Cardinality(Collected(p)) = SegN + 1
                               \/ (lastSegComplete /\ Same(p)))
      BY DEF AcceptSegment, CheckSegmentBlock
  <2>4. Assembled' = IF Cardinality(Collected(p)) = SegN + 1
                     THEN Assembled \union {MessageOf(p)} ELSE Assembled
      BY <1>8 DEF AcceptSegment, Decrypt, Assembled
  <2> QED BY <1>7, <2>1, <2>2, <2>3, <2>4, Zenon
<1>10. Same(p) /\ lastSegComplete => Whole(old)
    BY <1>1 DEF Same, IInv, SlotInv
<1>11. Last' = MessageOf(p)
    BY <1>1, <1>9 DEF Last
<1> QED BY <1>2, <1>5, <1>6, <1>9, <1>10, <1>11, Zenon

\* The message before is put on record when another one starts.
LEMMA LastIsRecorded ==
    ASSUME IInv, NEW p \in air, ReceivePdu(p), AcceptSegment(p)
    PROVE  /\ completed' \in [Sources -> Nat]
           /\ \A s \in Sources :
                \/ completed'[s] = completed[s]
                \/ /\ s = lastSegSrc /\ completed'[s] = lastSeqAuth
                   /\ lastSegComplete /\ Last \in Assembled
           /\ ~Same(p) /\ lastSegSrc # NoSource => completed'[lastSegSrc] = lastSeqAuth
<1>1. lastSegSrc # NoSource => lastSegSrc \in Sources
    BY DEF IInv, TypeOK
<1>2. lastSeqAuth \in Nat /\ completed \in [Sources -> Nat]
    BY DEF IInv, TypeOK
<1>3. CASE Same(p) \/ lastSegSrc = NoSource
    BY <1>2, <1>3 DEF AcceptSegment, RecordLast
<1>4. CASE ~(Same(p) \/ lastSegSrc = NoSource)
  <2>1. completed' = [completed EXCEPT ![lastSegSrc] = lastSeqAuth]
      BY <1>4 DEF AcceptSegment, RecordLast
  <2>2. lastSegComplete /\ Last \in Assembled
      BY <1>4, Reassembled DEF IInv, SlotInv
  <2> QED BY <1>1, <1>2, <1>4, <2>1, <2>2
<1> QED BY <1>3, <1>4

\* What was put together since the last clear() is not of a message after p's, is
\* the last message until another one starts, and is on record from then on.
LEMMA AcceptSinceClear ==
    ASSUME IInv, NEW p \in air, ReceivePdu(p), AcceptSegment(p),
           NEW n \in Assembled \ forgotten
    PROVE  /\ n[1] = p.src => n[2] <= p.first
           /\ n = MessageOf(p) => Same(p) /\ lastSegComplete
           /\ n # MessageOf(p) => OnRecord(n, completed)'
           /\ ~Same(p) /\ n = Last => OnRecord(n, completed)'
<1>1. /\ n \in Message /\ n[1] \in Sources /\ n[2] \in Nat /\ n = <<n[1], n[2]>>
    BY DEF IInv, TypeOK, Message, Assembled
<1>2. /\ p.src \in Sources /\ p.src # NoSource /\ p.first \in Nat /\ SeqAuth(p) = p.first
      /\ p.seq > seqCache[p.src]
    BY PduFacts DEF IInv, ReceivePdu
<1>3. /\ n[1] = lastSegSrc => n[2] <= lastSeqAuth
      /\ (n = Last /\ lastSegComplete) \/ OnRecord(n, completed)
    BY DEF IInv, SinceClearInv
<1>4. /\ completed[n[1]] \in Nat /\ seqCache[n[1]] \in Nat /\ seqCache'[n[1]] \in Nat
      /\ seqCache[n[1]] <= seqCache'[n[1]]
      /\ lastSeqAuth \in Nat
    BY <1>1, ReceptionInv DEF IInv, TypeOK
<1>5. n[1] # NoSource
    BY <1>1, SegmentReceiverAssumption
<1>6. n[1] = lastSegSrc => lastSeqAuth <= seqCache[n[1]]
    BY <1>5 DEF IInv, SlotInv
<1>7. n = Last => n[1] = lastSegSrc /\ n[2] = lastSeqAuth
    BY DEF Last
<1>8. n[2] <= seqCache[n[1]]
  <2>1. OnRecord(n, completed) => n[2] <= completed[n[1]] /\ completed[n[1]] <= seqCache[n[1]]
      BY DEF OnRecord
  <2> QED BY <1>1, <1>3, <1>4, <1>6, <1>7, <2>1
<1>9. Arrived(n)
    BY RecordsArrived DEF IInv
<1>10. n[1] = p.src => n[2] <= p.first
    BY <1>1, <1>2, <1>8, <1>9, NotBefore DEF IInv
<1>11. n = MessageOf(p) => Same(p) /\ lastSegComplete
  <2>1. OnRecord(MessageOf(p), completed) => Completed(p)
      BY <1>2, RecordsArrived, RecordIsOfMessage DEF IInv, TypeOK, Completed
  <2>2. ~Completed(p)
      BY DEF AcceptSegment
  <2> QED BY <1>3, <2>1, <2>2, Reassembled
<1>12. ~Same(p) /\ n = Last => OnRecord(n, completed)'
  <2> SUFFICES ASSUME ~Same(p), n = Last PROVE OnRecord(n, completed)'
      OBVIOUS
  <2>1. completed'[n[1]] = n[2]
      BY <1>5, <1>7, LastIsRecorded
  <2> QED BY <1>1, <1>4, <1>8, <2>1 DEF OnRecord
<1>13. n # MessageOf(p) => OnRecord(n, completed)'
  <2> SUFFICES ASSUME n # MessageOf(p) PROVE OnRecord(n, completed)'
      OBVIOUS
  <2>1. CASE n = Last
      BY <1>12, <2>1, Reassembled
  <2>2. CASE n # Last
    <3>1. OnRecord(n, completed)
        BY <1>3, <2>2
    <3>2. CASE completed'[n[1]] = completed[n[1]]
        BY <1>1, <1>4, <3>1, <3>2 DEF OnRecord
    <3>3. CASE completed'[n[1]] # completed[n[1]]
      <4>1. n[1] = lastSegSrc /\ completed'[n[1]] = lastSeqAuth
          BY <1>1, <3>3, LastIsRecorded
      <4> QED BY <1>1, <1>3, <1>4, <1>6, <4>1 DEF OnRecord
    <3> QED BY <3>2, <3>3
  <2> QED BY <2>1, <2>2
<1> QED BY <1>10, <1>11, <1>12, <1>13

\* A segment goes into the buffer.
LEMMA AcceptSegmentInv ==
    ASSUME IInv, NEW p \in air, ReceivePdu(p), AcceptSegment(p)
    PROVE  IInv'
<1> DEFINE m == MessageOf(p)
<1>1. /\ p.src \in Sources /\ p.src # NoSource /\ p.first \in Nat /\ p.seq \in Nat
      /\ p.first <= p.seq /\ SeqAuth(p) = p.first
      /\ m = <<p.src, p.first>> /\ m \in Message
    BY PduFacts DEF IInv, MessageOf
<1>2. /\ ack' = NoAck
      /\ UNCHANGED <<busy, refused, forgotten>>
      /\ delivered' \subseteq delivered \union {m} /\ unread' \subseteq unread \union {m}
      /\ redelivered' \subseteq redelivered \union {m}
      /\ passed' = IF Same(p) THEN passed ELSE passed \union (Assembled \intersect {Last})
      /\ ~Refused(p)
    BY DEF AcceptSegment, Decrypt, Last
<1>3. Assembled \subseteq Assembled' /\ Assembled' \subseteq Assembled \union {m}
    BY Reassembled
<1>4. TypeOK'
  <2>1. ack' \in [to : Sources \union {NoSource}, first : Nat, block : SUBSET Segments]
      BY <1>2 DEF NoAck
  <2>2. /\ delivered' \subseteq Message /\ unread' \subseteq Message
        /\ redelivered' \subseteq Message /\ passed' \subseteq Message
      BY <1>1, <1>2 DEF IInv, TypeOK, Assembled
  <2>3. /\ buffer' \subseteq Segment /\ lastSegSrc' \in Sources \union {NoSource}
        /\ lastSeqAuth' \in Nat /\ ackTask' \in Sources \union {NoSource}
      BY <1>1, Reassembled
  <2>4. lastSegComplete' \in BOOLEAN /\ segTimer' \in BOOLEAN
      BY DEF AcceptSegment, CheckSegmentBlock
  <2>5. completed' \in [Sources -> Nat]
      BY LastIsRecorded
  <2> QED
      BY <1>2, <2>1, <2>2, <2>3, <2>4, <2>5, ReceptionInv DEF IInv, TypeOK
<1>5. SlotInv'
  <2>1. Arrived(Last)'
      BY Reassembled, ReceptionInv DEF Arrived
  <2>2. lastSeqAuth' <= seqCache'[lastSegSrc']
      BY <1>1, Reassembled, ReceptionInv
  <2>3. /\ \A q \in buffer' : MessageOf(q) = Last'
        /\ Whole(buffer)' <=> lastSegComplete'
        /\ lastSegComplete' => Last' \in Assembled' /\ ~segTimer'
      BY Reassembled DEF Whole
  <2> QED BY <1>1, <2>1, <2>2, <2>3, Reassembled DEF SlotInv
<1>6. RecordInv'
  <2>1. ASSUME NEW n \in Assembled'
        PROVE  AllArrived(n)'
    <3>1. CASE n \in Assembled
        BY <3>1, ReceptionInv DEF IInv, RecordInv, AllArrived
    <3>2. CASE n \notin Assembled
      <4>1. n = m /\ Whole(buffer')
          BY <2>1, <3>2, Reassembled
      <4> QED BY <4>1, Reassembled DEF AllArrived, Whole
    <3> QED BY <3>1, <3>2
  <2>2. \A n \in refused' : Arrived(n)'
      BY <1>2, ReceptionInv DEF IInv, RecordInv, Arrived
  <2>3. passed' \subseteq Assembled'
      BY <1>2, <1>3 DEF IInv, RecordInv
  <2>4. ASSUME NEW s \in Sources, completed'[s] # 0
        PROVE  <<s, completed'[s]>> \in Assembled'
      BY <1>3, <2>4, LastIsRecorded DEF IInv, RecordInv, Last
  <2> QED BY <1>2, <2>1, <2>2, <2>3, <2>4 DEF IInv, RecordInv
<1>7. SinceClearInv'
  <2>1. ASSUME NEW n \in Assembled' \ forgotten'
        PROVE  /\ n[1] = lastSegSrc' => n[2] <= lastSeqAuth'
               /\ (n = Last' /\ lastSegComplete') \/ OnRecord(n, completed)'
    <3>1. CASE n \in Assembled
        BY <1>2, <2>1, <3>1, AcceptSinceClear, Reassembled
    <3>2. CASE n \notin Assembled
      <4>1. n = m /\ lastSegComplete'
          BY <2>1, <3>2, Reassembled
      <4> QED BY <1>1, <4>1, Reassembled
    <3> QED BY <3>1, <3>2
  <2>2. ASSUME NEW n \in passed' \ forgotten'
        PROVE  OnRecord(n, completed)'
    <3>1. n \in Assembled \ forgotten
        BY <1>2, <2>2 DEF IInv, RecordInv
    <3>2. CASE n = Last /\ ~Same(p)
        BY <3>1, <3>2, AcceptSinceClear
    <3>3. CASE n # m
        BY <3>1, <3>3, AcceptSinceClear
    <3>4. CASE n = m /\ ~(n = Last /\ ~Same(p))
      <4>1. n \in passed
          BY <1>2, <2>2, <3>4
      <4>2. OnRecord(m, completed)
          BY <1>2, <2>2, <3>4, <4>1 DEF IInv, SinceClearInv
      <4>3. completed[p.src] = SeqAuth(p)
          BY <4>2, RecordsArrived, RecordIsOfMessage, <1>1 DEF IInv, TypeOK, ReceivePdu
      <4> QED BY <4>3 DEF AcceptSegment, Completed
    <3> QED BY <3>2, <3>3, <3>4
  <2>3. ASSUME NEW n \in refused' \ forgotten'
        PROVE  OnRecord(n, busy)'
    <3>1. /\ n \in Message /\ OnRecord(n, busy) /\ busy \in [Sources -> Nat]
          /\ busy' = busy
        BY <1>2, <2>3 DEF IInv, SinceClearInv, TypeOK
    <3> QED BY <3>1, StaysOnRecord DEF OnRecord
  <2> QED BY <2>1, <2>2, <2>3 DEF SinceClearInv
<1>8. OutcomeAgrees'
  <2>1. ASSUME m \in refused, m \notin forgotten
        PROVE  FALSE
    <3>1. OnRecord(m, busy)
        BY <2>1 DEF IInv, SinceClearInv
    <3>2. busy[p.src] = SeqAuth(p)
        BY <1>1, <3>1, RecordsArrived, RecordIsOfMessage DEF IInv, TypeOK, ReceivePdu
    <3> QED BY <1>2, <3>2 DEF Refused
  <2> QED BY <1>2, <1>3, <2>1 DEF IInv, OutcomeAgrees
<1>9. BufferHoldsOneMessage' /\ HeldBufferIsTimed'
    BY Reassembled DEF BufferHoldsOneMessage, HeldBufferIsTimed
<1> QED BY <1>2, <1>4, <1>5, <1>6, <1>7, <1>8, <1>9, ReceptionInv, NoAckInv DEF IInv

-----------------------------------------------------------------------------
(* The timers, and clear().                                                 *)

\* The acknowledgment task reads the buffer: it is of the message of the node the
\* task was posted for, and whole only when that was put together.
LEMMA SendSegmentBlockAckInv ==
    ASSUME IInv, SendSegmentBlockAck
    PROVE  IInv'
<1> DEFINE low == CHOOSE p \in buffer : \A q \in buffer : p.segO <= q.segO
<1>1. /\ ackTask # NoSource /\ ackTask' \in {ackTask, NoSource}
      /\ UNCHANGED <<senders, air, seqCache, slot, records, segTimer, heard, outcomes>>
      /\ ack' = IF buffer = {} THEN NoAck
                ELSE [to |-> ackTask, first |-> low.first, block |-> {p.segO : p \in buffer}]
    BY DEF SendSegmentBlockAck
<1>2. /\ ackTask = lastSegSrc /\ lastSegSrc # NoSource /\ lastSegSrc \in Sources
      /\ buffer \subseteq heard /\ buffer \subseteq Segment
      /\ \A q \in buffer : MessageOf(q) = Last
      /\ Whole(buffer) => Last \in Assembled
    BY <1>1 DEF IInv, SlotInv, TypeOK
<1>3. ASSUME buffer # {}
      PROVE  <<ack'.to, ack'.first>> = Last /\ ack'.first \in Nat
  <2>1. low \in buffer
      BY <1>2, <1>3, LowestInBuffer
  <2>2. MessageOf(low) = Last /\ low.first \in Nat
      BY <1>2, <2>1 DEF Segment
  <2> HIDE DEF low
  <2> QED BY <1>1, <1>2, <1>3, <2>2 DEF MessageOf, Last
<1>4. TypeOK'
  <2>1. ack' \in [to : Sources \union {NoSource}, first : Nat, block : SUBSET Segments]
    <3>1. CASE buffer = {}
        BY <1>1, <3>1 DEF NoAck
    <3>2. CASE buffer # {}
      <4>1. {p.segO : p \in buffer} \in SUBSET Segments
          BY <1>2 DEF Segment
      <4>2. ack'.first = low.first
          BY <1>1, <3>2
      <4> HIDE DEF low
      <4> QED BY <1>1, <1>2, <1>3, <3>2, <4>1, <4>2
    <3> QED BY <3>1, <3>2
  <2>2. ackTask' \in Sources \union {NoSource}
      BY <1>1 DEF IInv, TypeOK
  <2> QED
      BY <1>1, <2>1, <2>2 DEF IInv, TypeOK, senders, slot, records, outcomes, Assembled
<1>5. PduInv' /\ OrderInv'
    BY <1>1 DEF IInv, PduInv, OrderInv, senders
<1>6. SlotInv'
    BY <1>1 DEF IInv, SlotInv, slot, outcomes, Assembled, Last, Arrived, Whole
<1>7. RecordInv'
    BY <1>1 DEF IInv, RecordInv, records, outcomes, Assembled, Arrived, AllArrived
<1>8. SinceClearInv'
    BY <1>1 DEF IInv, SinceClearInv, slot, records, outcomes, Assembled, Last, OnRecord
<1>9. AckTruthful' /\ FullAckMeansDecrypted'
  <2>1. CASE buffer = {}
      BY <1>1, <2>1, NoAckInv
  <2>2. CASE buffer # {}
    <3>1. ack'.block = {p.segO : p \in buffer} /\ <<ack'.to, ack'.first>> = Last
        BY <1>1, <1>3, <2>2
    <3>2. \A segO \in ack'.block : \E h \in heard : MessageOf(h) = Last /\ h.segO = segO
        BY <1>2, <3>1
    <3>3. ack'.block = Segments => Last \in Assembled
        BY <1>2, <3>1 DEF Whole
    <3>4. heard' = heard /\ Assembled' = Assembled
        BY <1>1 DEF outcomes, Assembled
    <3>5. AckTruthful'
        BY <3>1, <3>2, <3>4 DEF AckTruthful
    <3>6. FullAckMeansDecrypted'
        BY <3>1, <3>3, <3>4 DEF FullAckMeansDecrypted, Assembled
    <3> QED BY <3>5, <3>6
  <2> QED BY <2>1, <2>2
<1>10. BufferHoldsOneMessage' /\ HeldBufferIsTimed' /\ OutcomeAgrees'
    BY <1>1 DEF IInv, BufferHoldsOneMessage, HeldBufferIsTimed, OutcomeAgrees,
                slot, outcomes, Assembled
<1> QED BY <1>4, <1>5, <1>6, <1>7, <1>8, <1>9, <1>10 DEF IInv

\* The timeout gives the message up.  It runs only while that is incomplete, so
\* nothing that was put together is given up without being put on record.
LEMMA SegmentTimeoutInv ==
    ASSUME IInv, SegmentTimeout
    PROVE  IInv'
<1>1. /\ segTimer' = FALSE /\ ackTask' = NoSource /\ lastSegComplete' = TRUE
      /\ lastSegSrc' = NoSource /\ lastSeqAuth' = 0 /\ ack' = NoAck
      /\ UNCHANGED <<senders, air, seqCache, buffer, records, heard, outcomes>>
    BY DEF SegmentTimeout
<1>2. TypeOK'
  <2>1. ack' \in [to : Sources \union {NoSource}, first : Nat, block : SUBSET Segments]
      BY <1>1 DEF NoAck
  <2> QED BY <1>1, <2>1 DEF IInv, TypeOK, senders, records, outcomes, Assembled
<1>3. PduInv' /\ OrderInv'
    BY <1>1 DEF IInv, PduInv, OrderInv, senders
<1>4. SlotInv'
    BY <1>1 DEF IInv, SlotInv
<1>5. RecordInv'
    BY <1>1 DEF IInv, RecordInv, records, outcomes, Assembled, Arrived, AllArrived
<1>6. SinceClearInv'
  <2>1. ASSUME NEW n \in Assembled \ forgotten
        PROVE  OnRecord(n, completed) /\ n[1] # NoSource
    <3>1. n[1] \in Sources /\ n[1] # NoSource
        BY SegmentReceiverAssumption DEF IInv, TypeOK, Message, Assembled
    <3>2. ~(n = Last /\ lastSegComplete)
        BY <3>1 DEF IInv, SlotInv, Last, SegmentTimeout
    <3> QED BY <3>1, <3>2 DEF IInv, SinceClearInv
  <2> QED BY <1>1, <2>1 DEF IInv, SinceClearInv, records, outcomes, Assembled, OnRecord
<1>7. BufferHoldsOneMessage' /\ HeldBufferIsTimed' /\ OutcomeAgrees'
    BY <1>1 DEF IInv, BufferHoldsOneMessage, HeldBufferIsTimed, OutcomeAgrees, outcomes, Assembled
<1> QED BY <1>1, <1>2, <1>3, <1>4, <1>5, <1>6, <1>7, NoAckInv DEF IInv

\* clear() empties the buffer and forgets what was received.
LEMMA ClearInv ==
    ASSUME IInv, Clear
    PROVE  IInv'
<1>1. /\ seqCache' = [s \in Sources |-> 0]
      /\ segTimer' = FALSE /\ ackTask' = NoSource /\ lastSegComplete' = TRUE
      /\ lastSegSrc' = NoSource /\ lastSeqAuth' = 0 /\ ack' = NoAck /\ buffer' = {}
      /\ forgotten' = forgotten \union Assembled \union refused
      /\ UNCHANGED <<senders, air, records, heard, delivered, unread, redelivered, passed, refused>>
    BY DEF Clear
<1>2. TypeOK'
  <2>1. ack' \in [to : Sources \union {NoSource}, first : Nat, block : SUBSET Segments]
      BY <1>1 DEF NoAck
  <2>2. seqCache' \in [Sources -> Nat] /\ forgotten' \subseteq Message
      BY <1>1 DEF IInv, TypeOK, Assembled
  <2> QED BY <1>1, <2>1, <2>2 DEF IInv, TypeOK, senders, records
<1>3. PduInv' /\ OrderInv'
    BY <1>1 DEF IInv, PduInv, OrderInv, senders
<1>4. SlotInv'
    BY <1>1 DEF IInv, SlotInv
<1>5. RecordInv'
    BY <1>1 DEF IInv, RecordInv, records, Arrived, AllArrived, Assembled
<1>6. SinceClearInv'
    BY <1>1 DEF IInv, RecordInv, SinceClearInv, Assembled
<1>7. BufferHoldsOneMessage' /\ HeldBufferIsTimed' /\ OutcomeAgrees'
    BY <1>1 DEF BufferHoldsOneMessage, HeldBufferIsTimed, OutcomeAgrees
<1> QED BY <1>1, <1>2, <1>3, <1>4, <1>5, <1>6, <1>7, NoAckInv DEF IInv

\* The invariant is inductive.
LEMMA StepInv == IInv /\ [Next]_vars => IInv'
<1> SUFFICES ASSUME IInv, [Next]_vars PROVE IInv'
    OBVIOUS
<1>1. CASE \E s \in Sources : StartMessage(s)
    BY <1>1, StartMessageInv
<1>2. CASE \E s \in Sources, segO \in Segments : SendSegment(s, segO)
    BY <1>2, SendSegmentInv
<1>3. CASE \E p \in air : LosePdu(p) \/ ReceivePdu(p)
  <2>1. PICK p \in air : LosePdu(p) \/ ReceivePdu(p)
      BY <1>3
  <2>2. CASE LosePdu(p)
      BY <2>2, LosePduInv
  <2>3. CASE ReceivePdu(p)
    <3>1. RefuseSegment(p) \/ AcknowledgeCompleted(p) \/ AcceptSegment(p)
        BY <2>3 DEF ReceivePdu
    <3> QED BY <2>3, <3>1, RefuseSegmentInv, AcknowledgeCompletedInv, AcceptSegmentInv
  <2> QED BY <2>1, <2>2, <2>3
<1>4. CASE SendSegmentBlockAck
    BY <1>4, SendSegmentBlockAckInv
<1>5. CASE SegmentTimeout
    BY <1>5, SegmentTimeoutInv
<1>6. CASE Clear
    BY <1>6, ClearInv
<1>7. CASE UNCHANGED vars
  <2>1. UNCHANGED <<seqCache, slot, records, timers, heard, outcomes>>
      BY <1>7 DEF vars, slot, records, timers, outcomes, Assembled
  <2>2. TypeOK'
      BY <1>7 DEF vars, IInv, TypeOK
  <2>3. PduInv' /\ OrderInv'
      BY <1>7 DEF vars, IInv, PduInv, OrderInv
  <2>4. AckTruthful' /\ FullAckMeansDecrypted'
      BY <1>7 DEF vars, IInv, AckTruthful, FullAckMeansDecrypted, Assembled
  <2> QED BY <2>1, <2>2, <2>3, <2>4, ReceiverUnchanged DEF IInv
<1> QED BY <1>1, <1>2, <1>3, <1>4, <1>5, <1>6, <1>7 DEF Next

-----------------------------------------------------------------------------
(* The results.                                                             *)

\* The invariant holds in every reachable state.
LEMMA Invariance == Spec => []IInv
    BY InitInv, StepInv, PTL DEF Spec

\* Every variable holds a value the code can give it.
THEOREM TypeCorrect == Spec => []TypeOK
<1>1. IInv => TypeOK
    BY DEF IInv
<1> QED BY <1>1, Invariance, PTL

\* The receiver acknowledges to a node only segments of that node's message that
\* have arrived.
THEOREM AcknowledgmentsTruthful == Spec => []AckTruthful
<1>1. IInv => AckTruthful
    BY DEF IInv
<1> QED BY <1>1, Invariance, PTL

\* A message acknowledged in full has been put together and given to the access
\* layer, unless it could not be decrypted.
THEOREM FullAckDecrypted == Spec => []FullAckMeansDecrypted
<1>1. IInv => FullAckMeansDecrypted
    BY DEF IInv
<1> QED BY <1>1, Invariance, PTL

\* The buffer never mixes two messages.
THEOREM OneMessageInBuffer == Spec => []BufferHoldsOneMessage
<1>1. IInv => BufferHoldsOneMessage
    BY DEF IInv
<1> QED BY <1>1, Invariance, PTL

\* While the buffer is held, the timer that frees it is posted.
THEOREM HeldBufferTimed == Spec => []HeldBufferIsTimed
<1>1. IInv => HeldBufferIsTimed
    BY DEF IInv
<1> QED BY <1>1, Invariance, PTL

\* Without a clear() in between, no message is both put together and refused.
THEOREM OutcomesAgree == Spec => []OutcomeAgrees
<1>1. IInv => OutcomeAgrees
    BY DEF IInv
<1> QED BY <1>1, Invariance, PTL

\* Only the acceptance of a segment delivers, and not a message on record.
LEMMA NotRedelivered ==
    ASSUME IInv, [Next]_vars, NEW m \in passed \ forgotten
    PROVE  /\ m \in delivered' => m \in delivered
           /\ m \in redelivered' => m \in redelivered
<1> SUFFICES ASSUME <<delivered, redelivered>>' # <<delivered, redelivered>>
             PROVE  /\ m \in delivered' => m \in delivered
                    /\ m \in redelivered' => m \in redelivered
    OBVIOUS
<1>1. ~UNCHANGED outcomes
    BY DEF outcomes, Assembled
<1>2. PICK p \in air : ReceivePdu(p) /\ AcceptSegment(p)
  <2>1. ~UNCHANGED vars
      BY DEF vars
  <2>2. \A s \in Sources : ~StartMessage(s)
      BY <1>1 DEF StartMessage
  <2>3. \A s \in Sources, segO \in Segments : ~SendSegment(s, segO)
      BY <1>1 DEF SendSegment
  <2>4. \A p \in air : ~LosePdu(p)
      BY <1>1 DEF LosePdu
  <2>5. ~SendSegmentBlockAck /\ ~SegmentTimeout
      BY <1>1 DEF SendSegmentBlockAck, SegmentTimeout
  <2>6. ~Clear
      BY DEF Clear
  <2>7. PICK p \in air : ReceivePdu(p)
      BY <2>1, <2>2, <2>3, <2>4, <2>5, <2>6 DEF Next
  <2>8. ~AcknowledgeCompleted(p)
      BY <1>1 DEF AcknowledgeCompleted
  <2>9. ~RefuseSegment(p)
      BY DEF RefuseSegment, SendBusyAck
  <2> QED BY <2>7, <2>8, <2>9 DEF ReceivePdu
<1>3. m # MessageOf(p)
  <2> SUFFICES ASSUME m = MessageOf(p) PROVE FALSE
      OBVIOUS
  <2>1. OnRecord(m, completed)
      BY DEF IInv, SinceClearInv
  <2>2. p.src \in Sources /\ p.seq > seqCache[p.src]
      BY <1>2, PduFacts DEF IInv, ReceivePdu
  <2>3. completed[p.src] = SeqAuth(p)
      BY <1>2, <2>1, <2>2, RecordsArrived, RecordIsOfMessage DEF IInv, TypeOK
  <2> QED BY <1>2, <2>3 DEF AcceptSegment, Completed
<1>4. /\ delivered' \subseteq delivered \union {MessageOf(p)}
      /\ redelivered' \subseteq redelivered \union {MessageOf(p)}
    BY <1>2 DEF AcceptSegment, Decrypt
<1> QED BY <1>3, <1>4

\* Once another message has begun, the receiver does not deliver the one before
\* again, nor at all if it could not be decrypted, unless a clear() came in between.
THEOREM MovedOn == Spec => MovedOnNotRedelivered
<1>1. IInv /\ [Next]_vars
        => [\A m \in passed \ forgotten :
              /\ m \in delivered' => m \in delivered
              /\ m \in redelivered' => m \in redelivered]_vars
    BY NotRedelivered
<1> QED BY <1>1, Invariance, PTL DEF Spec, MovedOnNotRedelivered
=============================================================================
