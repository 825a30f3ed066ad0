--------------------------- MODULE SequenceIvProofs ---------------------------
(***************************************************************************)
(* Proofs about SequenceIv, for every value of its constants: the type     *)
(* invariant, the freshness of nonces within a session and across          *)
(* restarts, and that the controller does not run ahead of the network.    *)
(***************************************************************************)
EXTENDS SequenceIv, TLAPS

-----------------------------------------------------------------------------
(* Multiples of Step, the numbers that are saved. *)

\* Division with remainder by Step.
LEMMA DivisionByStep ==
    ASSUME NEW m \in Nat
    PROVE  /\ m = Step * (m \div Step) + (m % Step)
           /\ m \div Step \in Nat
           /\ m % Step \in 0 .. Step - 1
  BY SequenceIvAssumption, SMT

\* A multiple of Step is a product.
LEMMA MultipleIsProduct ==
    ASSUME NEW m \in Nat, m % Step = 0
    PROVE  m = Step * (m \div Step)
<1>1. m = Step * (m \div Step) + (m % Step) /\ m \div Step \in Nat
  BY DivisionByStep
<1>2. Step * (m \div Step) \in Nat
  BY <1>1, SequenceIvAssumption, SMT
<1>3. QED
  BY <1>1, <1>2

\* Different multiples of Step are at least Step apart.
LEMMA ProductsApart ==
    ASSUME NEW a \in Nat, NEW b \in Nat, a < b
    PROVE  Step * a + Step <= Step * b
<1>1. PICK d \in Nat : b = a + 1 + d
  <2>1. b - a - 1 \in Nat
    OBVIOUS
  <2>2. QED
    BY <2>1, b = a + 1 + (b - a - 1)
<1>2. Step * b = Step * a + Step + Step * d
  BY <1>1, SequenceIvAssumption, SMT
<1>3. Step * d \in Nat
  BY <1>1, SequenceIvAssumption, SMT
<1>4. QED
  BY <1>2, <1>3, SequenceIvAssumption, SMT

\* The next saved value lies Step above the last one.
LEMMA NextMultiple ==
    ASSUME NEW m \in Nat, m % Step = 0,
           NEW k \in Nat, k % Step = 0, k > m
    PROVE  k >= m + Step
<1>1. m = Step * (m \div Step) /\ k = Step * (k \div Step)
  BY MultipleIsProduct
<1>2. m \div Step \in Nat /\ k \div Step \in Nat
  BY DivisionByStep
<1>3. m \div Step < k \div Step
  <2>1. ASSUME k \div Step <= m \div Step
        PROVE  FALSE
    <3>1. Step * (k \div Step) <= Step * (m \div Step)
      <4>1. CASE k \div Step = m \div Step
        BY <4>1, <1>1, SMT
      <4>2. CASE k \div Step < m \div Step
        BY <4>2, <1>2, <1>1, ProductsApart, SequenceIvAssumption
      <4>3. QED
        BY <2>1, <4>1, <4>2, <1>2
    <3>2. QED
      BY <3>1, <1>1
  <2>2. QED
    BY <2>1, <1>2
<1>4. Step * (m \div Step) + Step <= Step * (k \div Step)
  BY <1>2, <1>3, ProductsApart
<1>5. QED
  BY <1>1, <1>4

\* setup() skips exactly one multiple of Step when it starts from a saved value.
LEMMA SkipOneStep ==
    ASSUME NEW m \in Nat, m % Step = 0
    PROVE  /\ InitSequenceNumber(m) = m + Step
           /\ InitSequenceNumber(m) \in Nat
           /\ InitSequenceNumber(m) % Step = 0
<1> DEFINE q == m \div Step
<1>1. m = Step * q /\ q \in Nat
  BY DivisionByStep, MultipleIsProduct
<1> HIDE DEF q
<1>2. InitSequenceNumber(m) = (q + 1) * Step
  BY DEF InitSequenceNumber, q
<1>3. (q + 1) * Step = m + Step
  BY <1>1, SequenceIvAssumption, SMT
<1>4. (m + Step) % Step = 0
  <2> DEFINE r == m + Step
             p == r \div Step
             e == r % Step
  <2>1. r \in Nat
    BY SequenceIvAssumption
  <2> HIDE DEF r
  <2>2. r = Step * p + e /\ p \in Nat /\ e \in 0 .. Step - 1
    BY <2>1, DivisionByStep
  <2>3. r = Step * (q + 1)
    BY <1>1, SequenceIvAssumption, SMT DEF r
  <2> HIDE DEF p, e
  <2>4. CASE p < q + 1
    <3>1. Step * p + Step <= Step * (q + 1)
      BY <2>4, <2>2, <1>1, ProductsApart
    <3>2. QED
      BY <3>1, <2>2, <2>3, SequenceIvAssumption, SMT
  <2>5. CASE p > q + 1
    <3>1. Step * (q + 1) + Step <= Step * p
      BY <2>5, <2>2, <1>1, ProductsApart
    <3>2. QED
      BY <3>1, <2>2, <2>3, SequenceIvAssumption, SMT
  <2>6. CASE p = q + 1
    BY <2>6, <2>2, <2>3, SequenceIvAssumption, SMT DEF e, r
  <2>7. QED
    BY <2>4, <2>5, <2>6, <2>2, <1>1
<1>5. QED
  BY <1>2, <1>3, <1>4, SequenceIvAssumption

-----------------------------------------------------------------------------
(* What the invariant says of the IV index that is transmitted. *)

\* While the IV index is known, it is the initial one or the one before.
LEMMA TransmitIvKnown ==
    ASSUME IInv, Known
    PROVE  /\ TransmitIv = IF isIvUpdating THEN ivIndex - 1 ELSE ivIndex
           /\ TransmitIv \in 0 .. IvMissing - 1
           /\ "clear" \notin aborted => TransmitIv <= initIvIndex
  BY SequenceIvAssumption
     DEF IInv, TypeOK, WindowInv, FreshInv, Known, TransmitIv, Narrow

\* While it is unknown, an IV index that no node uses.
LEMMA TransmitIvUnknown ==
    ASSUME IInv, ~Known, "clear" \notin aborted
    PROVE  TransmitIv = IvMissing
  BY SequenceIvAssumption
     DEF IInv, TypeOK, WindowInv, FreshInv, Known, TransmitIv, Narrow

LEMMA InitInv == Init => IInv
<1> SUFFICES ASSUME Init PROVE IInv
  OBVIOUS
<1>1. /\ 0 \in Nat /\ 0 % Step = 0
  BY SequenceIvAssumption, SMT
<1>2. storedSeq = Step /\ storedSeq % Step = 0
  BY <1>1, SkipOneStep, SequenceIvAssumption DEF Init
<1>3. TypeOK
  <2>1. lastNonce \in Int \X Int /\ aborted \in SUBSET {"clear", "setup"}
    BY DEF Init
  <2>2. isIvUpdating \in BOOLEAN /\ netUpdating \in BOOLEAN
    BY DEF Init
  <2>3. netIv \in 0 .. MaxIv /\ storedIv \in 0 .. IvMissing
    BY SequenceIvAssumption DEF Init
  <2>4. storedSeq \in 0 .. MaxSeq
    BY <1>2, SequenceIvAssumption
  <2>5. seq = storedSeq /\ ivIndex = storedIv /\ initIvIndex = storedIv
    BY DEF Init
  <2>6. QED
    BY <2>1, <2>2, <2>3, <2>4, <2>5, SequenceIvAssumption DEF TypeOK
<1>4. StepInv
  BY <1>2, SequenceIvAssumption DEF Init, StepInv
<1>5. WindowInv
  BY <1>2, SequenceIvAssumption DEF Init, WindowInv, Known
<1>6. FreshInv
  BY <1>2, SequenceIvAssumption DEF Init, FreshInv, Known, Before, TransmitIv, Narrow
<1>7. ReachedInv
  BY SequenceIvAssumption DEF Init, ReachedInv, Known
<1>8. QED
  BY <1>3, <1>4, <1>5, <1>6, <1>7 DEF IInv

\* Creating PDUs: at most one multiple of Step is passed, and it is saved.
LEMMA CreateNetworkPdusInv ==
    ASSUME IInv, NEW n \in 1 .. MaxPdus, CreateNetworkPdus(n)
    PROVE  IInv'
<1> DEFINE saved == {m \in seq + 1 .. seq + n : m % Step = 0}
<1> USE SequenceIvAssumption
<1>1. /\ n \in Nat /\ seq' = seq + n /\ seq + n <= MaxSeq /\ seq \in Nat /\ storedSeq \in Nat
      /\ storedSeq % Step = 0 /\ storedSeq <= seq /\ seq < storedSeq + Step
  BY DEF CreateNetworkPdus, IInv, TypeOK, StepInv
<1>2. \/ saved = {} /\ UNCHANGED storage
      \/ \E m \in saved : storedSeq' = m /\ storedIv' = Narrow(ivIndex)
  <2>1. IF saved = {} THEN UNCHANGED storage
                      ELSE Save(CHOOSE m \in saved : TRUE, ivIndex)
    BY DEF CreateNetworkPdus
  <2> HIDE DEF saved
  <2>2. QED
    BY <2>1 DEF Save
<1>3. /\ storedSeq' \in Nat /\ storedSeq' % Step = 0 /\ storedSeq' <= seq'
      /\ seq' < storedSeq' + Step
      /\ storedSeq' >= storedSeq
      /\ \/ UNCHANGED storage
         \/ storedSeq' > seq /\ storedIv' = Narrow(ivIndex)
  <2>1. CASE saved = {} /\ UNCHANGED storage
    <3>1. InitSequenceNumber(storedSeq) = storedSeq + Step
      BY <1>1, SkipOneStep
    <3>2. (storedSeq + Step) % Step = 0
      BY <1>1, SkipOneStep
    <3>3. storedSeq + Step \notin seq + 1 .. seq + n
      BY <2>1, <3>2
    <3>4. QED
      BY <2>1, <3>3, <1>1 DEF storage
  <2>2. CASE \E m \in saved : storedSeq' = m /\ storedIv' = Narrow(ivIndex)
    <3>1. PICK m \in saved : storedSeq' = m /\ storedIv' = Narrow(ivIndex)
      BY <2>2
    <3>2. m \in Nat /\ m > seq /\ m <= seq + n /\ m % Step = 0
      BY <1>1
    <3>3. m >= storedSeq + Step
      <4>1. m \in Nat /\ storedSeq \in Nat /\ m > storedSeq
        BY <3>2, <1>1
      <4>2. QED
        BY <4>1, <3>2, <1>1, NextMultiple
    <3>4. QED
      BY <3>1, <3>2, <3>3, <1>1
  <2>3. QED
    BY <2>1, <2>2, <1>2
<1>4. UNCHANGED <<ivIndex, initIvIndex, isIvUpdating, netIv, netUpdating, aborted>>
  BY DEF CreateNetworkPdus, network
<1>5. TransmitIv' = TransmitIv
  BY <1>4 DEF TransmitIv
<1>6. lastNonce' = IF TransmitIv = IvMissing THEN lastNonce
                                             ELSE <<TransmitIv, seq + n - 1>>
  BY DEF CreateNetworkPdus
<1>7. TypeOK'
  <2>1. TransmitIv \in Int
    BY DEF IInv, TypeOK, TransmitIv, Narrow
  <2>2. lastNonce' \in Int \X Int
    BY <2>1, <1>1, <1>6 DEF IInv, TypeOK
  <2>3. storedIv' \in 0 .. IvMissing
    BY <1>3 DEF IInv, TypeOK, Narrow, storage
  <2>4. QED
    BY <2>2, <2>3, <1>1, <1>3, <1>4 DEF IInv, TypeOK
<1>8. StepInv'
  BY <1>1, <1>3 DEF StepInv
<1>9. WindowInv'
  <2>1. CASE Known
    BY <2>1, <1>1, <1>3, <1>4 DEF IInv, TypeOK, WindowInv, Known, Narrow, storage
  <2>2. CASE ~Known
    BY <2>2, <1>1, <1>3, <1>4 DEF IInv, TypeOK, WindowInv, Known, Narrow, storage
  <2>3. QED
    BY <2>1, <2>2
<1>10. FreshInv'
  <2>1. CASE Known
    <3>1. TransmitIv \in 0 .. IvMissing - 1
      BY <2>1, TransmitIvKnown
    <3>2. lastNonce' = <<TransmitIv, seq + n - 1>>
      BY <3>1, <1>6
    <3>3. Before(lastNonce', <<TransmitIv, seq + n>>)
      BY <3>1, <3>2, <1>1 DEF Before
    <3>4. "clear" \notin aborted /\ ~isIvUpdating => storedIv' = initIvIndex
      BY <2>1, <1>3 DEF IInv, FreshInv, TypeOK, WindowInv, Known, Narrow, storage
    <3>5. QED
      BY <2>1, <3>3, <3>4, <1>1, <1>4, <1>5 DEF IInv, FreshInv, Known
  <2>2. CASE ~Known
    BY <2>2, <1>4, <1>6, TransmitIvUnknown DEF IInv, FreshInv, Known
  <2>3. QED
    BY <2>1, <2>2
<1>11. ReachedInv'
  BY <1>4 DEF IInv, ReachedInv, Known
<1>12. QED
  BY <1>7, <1>8, <1>9, <1>10, <1>11 DEF IInv

\* setup(): the saved values are taken over, one Step further.
LEMMA SetupInv ==
    ASSUME IInv, Setup
    PROVE  IInv'
<1> USE SequenceIvAssumption
<1>1. /\ storedSeq \in Nat /\ storedSeq % Step = 0
      /\ seq \in Nat /\ storedSeq <= seq /\ seq < storedSeq + Step
  BY DEF IInv, TypeOK, StepInv
<1>2. /\ seq' = storedSeq + Step /\ storedSeq' = seq' /\ seq' <= MaxSeq
      /\ seq' % Step = 0
  BY <1>1, SkipOneStep DEF Setup, Save
<1>3. /\ storedIv' = storedIv /\ initIvIndex' = storedIv /\ ivIndex' = storedIv
      /\ isIvUpdating' = FALSE
  BY DEF Setup, Save, IInv, TypeOK, Narrow
<1>4. /\ UNCHANGED <<netIv, netUpdating, lastNonce>>
      /\ aborted' = IF isIvUpdating THEN aborted \union {"setup"} ELSE aborted
  BY DEF Setup, network
<1>5. TypeOK'
  <2>1. aborted' \in SUBSET {"clear", "setup"}
    BY <1>4 DEF IInv, TypeOK
  <2>2. seq' \in 0 .. MaxSeq /\ storedSeq' \in 0 .. MaxSeq
    BY <1>1, <1>2
  <2>3. /\ storedIv' \in 0 .. IvMissing /\ initIvIndex' \in 0 .. IvMissing
        /\ ivIndex' \in 0 .. IvMissing + 1
    BY <1>3 DEF IInv, TypeOK
  <2>4. isIvUpdating' \in BOOLEAN
    BY <1>3
  <2>5. QED
    BY <2>1, <2>2, <2>3, <2>4, <1>4 DEF IInv, TypeOK
<1>6. StepInv'
  BY <1>1, <1>2 DEF StepInv
<1>7. WindowInv'
  BY <1>1, <1>2, <1>3 DEF IInv, TypeOK, WindowInv, Known
<1>8. FreshInv'
  <2>1. SUFFICES ASSUME "clear" \notin aborted
                 PROVE  FreshInv'
    BY <1>4 DEF FreshInv
  <2>2. storedIv # IvMissing => TransmitIv' = storedIv
    BY <1>3 DEF TransmitIv, Narrow, IInv, TypeOK
  <2>3. CASE Known
    <3>1. TransmitIv \in Nat /\ TransmitIv <= initIvIndex /\ initIvIndex <= storedIv
      BY <2>1, <2>3, TransmitIvKnown DEF IInv, TypeOK, WindowInv, Known
    <3>2. Before(lastNonce, <<TransmitIv, seq>>)
      BY <2>1, <2>3 DEF IInv, FreshInv
    <3>3. storedIv # IvMissing => Before(lastNonce, <<storedIv, seq'>>)
      BY <3>1, <3>2, <1>1, <1>2 DEF Before, IInv, TypeOK
    <3>4. storedIv # IvMissing
      BY <2>3, <1>1 DEF IInv, TypeOK, WindowInv
    <3>5. QED
      BY <3>3, <3>4, <2>2, <1>3, <1>4 DEF FreshInv, Known
  <2>4. CASE ~Known
    <3>1. lastNonce[1] = -1
      BY <2>1, <2>4 DEF IInv, FreshInv
    <3>2. Before(lastNonce, <<storedIv, seq'>>)
      BY <3>1 DEF Before, IInv, TypeOK
    <3>3. QED
      BY <3>1, <3>2, <2>2, <1>3, <1>4 DEF FreshInv, Known
  <2>5. QED
    BY <2>3, <2>4
<1>9. ReachedInv'
  BY <1>3, <1>4 DEF IInv, TypeOK, ReachedInv, FreshInv, WindowInv, Known
<1>10. QED
  BY <1>5, <1>6, <1>7, <1>8, <1>9 DEF IInv

\* clear(): outside an IV update it changes nothing the invariant is about.
LEMMA ClearInv ==
    ASSUME IInv, Clear
    PROVE  IInv'
<1> USE SequenceIvAssumption
<1>1. /\ UNCHANGED <<seq, ivIndex, initIvIndex, storedSeq, storedIv, netIv,
                     netUpdating, lastNonce>>
      /\ isIvUpdating' = FALSE
      /\ aborted' = IF isIvUpdating THEN aborted \union {"clear"} ELSE aborted
  BY DEF Clear, storage, network
<1>2. "clear" \notin aborted' => UNCHANGED <<isIvUpdating, aborted>>
  BY <1>1 DEF IInv, TypeOK
<1>3. TypeOK' /\ StepInv' /\ WindowInv'
  BY <1>1 DEF IInv, TypeOK, StepInv, WindowInv, Known
<1>4. FreshInv'
  BY <1>1, <1>2 DEF IInv, FreshInv, Known, TransmitIv
<1>5. ReachedInv'
  BY <1>1 DEF IInv, ReachedInv, Known
<1>6. QED
  BY <1>3, <1>4, <1>5 DEF IInv

\* checkSequenceNumber(): the update it starts does not change the transmit IV
\* index.
LEMMA CheckSequenceNumberInv ==
    ASSUME IInv, CheckSequenceNumber
    PROVE  IInv'
<1> USE SequenceIvAssumption
<1>1. /\ UNCHANGED <<seq, initIvIndex, storedSeq, storedIv, netIv,
                     netUpdating, lastNonce, aborted>>
      /\ ~isIvUpdating
      /\ isIvUpdating' \in BOOLEAN
      /\ IF isIvUpdating' THEN ivIndex' = initIvIndex + 1 ELSE ivIndex' = ivIndex
  <2>1. /\ UNCHANGED <<seq, initIvIndex, storedSeq, storedIv, netIv,
                       netUpdating, lastNonce, aborted>>
        /\ ~isIvUpdating
        /\ isIvUpdating' = (seq >= Threshold)
        /\ ivIndex' = IF seq >= Threshold THEN initIvIndex + 1 ELSE ivIndex
    BY DEF CheckSequenceNumber, storage, network, history
  <2>2. CASE seq >= Threshold
    <3>1. isIvUpdating' = TRUE
      BY <2>1, <2>2
    <3>2. ivIndex' = initIvIndex + 1
      BY <2>1, <2>2
    <3>3. QED
      BY <2>1, <3>1, <3>2
  <2>3. CASE ~(seq >= Threshold)
    <3>1. isIvUpdating' = FALSE
      <4>1. (seq >= Threshold) = FALSE
        BY <2>3 DEF IInv, TypeOK
      <4>2. QED
        BY <2>1, <4>1, Zenon
    <3>2. ivIndex' = ivIndex
      BY <2>1, <2>3
    <3>3. QED
      BY <2>1, <3>1, <3>2
  <2>4. QED
    BY <2>2, <2>3
<1>2. TypeOK' /\ StepInv'
  BY <1>1 DEF IInv, TypeOK, StepInv
<1>3. WindowInv'
  BY <1>1 DEF IInv, TypeOK, WindowInv, Known
<1>4. FreshInv'
  <2>1. CASE Known /\ "clear" \notin aborted
    <3>1. TransmitIv' = TransmitIv
      BY <1>1, <2>1 DEF IInv, TypeOK, WindowInv, FreshInv, Known, TransmitIv, Narrow
    <3>2. QED
      BY <3>1, <2>1, <1>1 DEF IInv, FreshInv, Known
  <2>2. CASE ~Known /\ "clear" \notin aborted
    BY <2>2, <1>1 DEF IInv, TypeOK, WindowInv, FreshInv, Known
  <2>3. QED
    BY <2>1, <2>2, <1>1 DEF FreshInv
<1>5. ReachedInv'
  BY <1>1 DEF IInv, ReachedInv, Known
<1>6. QED
  BY <1>2, <1>3, <1>4, <1>5 DEF IInv

\* onIvUpdated(newIvIndex), where the new IV index is a known one, not below
\* the initial one: afterwards the initial and, if it moved, the saved one are
\* the new one.
LEMMA OnIvUpdatedEffect ==
    ASSUME IInv, NEW new \in 0 .. MaxIv, OnIvUpdated(new),
           Known => initIvIndex <= new
    PROVE  /\ initIvIndex' = new
           /\ \/ ~Known /\ seq' = 0 /\ storedSeq' = 0 /\ storedIv' = new
              \/ initIvIndex < new /\ seq' = 0 /\ storedSeq' = 0 /\ storedIv' = new
              \/ initIvIndex = new /\ UNCHANGED <<seq, storedSeq, storedIv>>
<1> USE SequenceIvAssumption
<1>1. Narrow(new) = new
  BY DEF Narrow
<1>2. CASE new > initIvIndex \/ initIvIndex = IvMissing
  BY <1>1, <1>2 DEF OnIvUpdated, Save, IInv, TypeOK, Known
<1>3. CASE ~(new > initIvIndex \/ initIvIndex = IvMissing)
  <2>1. initIvIndex = new
    BY <1>3 DEF Known, IInv, TypeOK
  <2>2. QED
    BY <1>3, <2>1 DEF OnIvUpdated, storage
<1>4. QED
  BY <1>2, <1>3

\* The parts of the invariant that hold after any beacon that was taken.
LEMMA OnIvUpdatedInv ==
    ASSUME IInv, NEW new \in 0 .. MaxIv, OnIvUpdated(new),
           Known => initIvIndex <= new /\ ivIndex <= new,
           ivIndex' \in {new, new + 1}, isIvUpdating' \in BOOLEAN,
           isIvUpdating' => ivIndex' > 0,
           UNCHANGED <<netIv, netUpdating, lastNonce, aborted>>
    PROVE  TypeOK' /\ StepInv' /\ WindowInv'
<1> USE SequenceIvAssumption
<1>1. /\ initIvIndex' = new
      /\ \/ ~Known /\ seq' = 0 /\ storedSeq' = 0 /\ storedIv' = new
         \/ initIvIndex < new /\ seq' = 0 /\ storedSeq' = 0 /\ storedIv' = new
         \/ initIvIndex = new /\ UNCHANGED <<seq, storedSeq, storedIv>>
  BY OnIvUpdatedEffect
<1>2. TypeOK'
  BY <1>1 DEF IInv, TypeOK
<1>3. StepInv'
  <2>1. 0 % Step = 0
    BY SMT
  <2>2. QED
    BY <2>1, <1>1 DEF IInv, TypeOK, StepInv
<1>4. WindowInv'
  <2>1. Known'
    BY <1>1 DEF Known
  <2>2. initIvIndex = new => Known
    BY DEF Known
  <2>3. QED
    BY <1>1, <2>1, <2>2 DEF IInv, TypeOK, WindowInv
<1>5. QED
  BY <1>2, <1>3, <1>4

\* A beacon: following it, completing an update or adopting its IV index.
LEMMA OnIvIndexReceivedInv ==
    ASSUME IInv, NEW remote \in 0 .. MaxIv, NEW updating \in BOOLEAN,
           OnIvIndexReceived(remote, updating)
    PROVE  IInv'
<1> USE SequenceIvAssumption
<1>1. /\ UNCHANGED <<netIv, netUpdating, lastNonce, aborted>>
      /\ remote \in 0 .. netIv /\ (updating => remote > 0)
  BY DEF OnIvIndexReceived, SentBeacon, network, history
<1>2. CASE AdoptIv(remote, updating)
  <2>1. /\ ~Known /\ ivIndex = IvMissing
        /\ isIvUpdating' = updating /\ ivIndex' = remote /\ OnIvUpdated(remote)
    BY <1>2 DEF AdoptIv, IInv, TypeOK, WindowInv, Known
  <2>2. TypeOK' /\ StepInv' /\ WindowInv'
    BY <2>1, <1>1, OnIvUpdatedInv
  <2>3. /\ initIvIndex' = remote /\ seq' = 0 /\ storedIv' = remote
    BY <2>1, OnIvUpdatedEffect DEF Known
  <2>4. FreshInv'
    <3>1. SUFFICES ASSUME "clear" \notin aborted
                   PROVE  FreshInv'
      BY <1>1 DEF FreshInv
    <3>2. lastNonce[1] = -1
      BY <3>1, <2>1 DEF IInv, FreshInv
    <3>3. TransmitIv' = IF updating THEN remote - 1 ELSE remote
      BY <2>1 DEF TransmitIv, Narrow
    <3>4. Before(lastNonce', <<TransmitIv', seq'>>)
      BY <3>2, <3>3, <1>1 DEF Before
    <3>5. Known'
      BY <2>3 DEF Known
    <3>6. QED
      BY <3>4, <3>5, <2>1, <2>3 DEF FreshInv
  <2>5. ReachedInv'
    BY <2>3, <1>1 DEF ReachedInv
  <2>6. QED
    BY <2>2, <2>4, <2>5 DEF IInv
<1>3. CASE CompleteIvUpdate(remote, updating)
  <2>1. /\ Known /\ remote = ivIndex /\ isIvUpdating /\ isIvUpdating' = FALSE
        /\ ivIndex' = remote /\ OnIvUpdated(remote) /\ initIvIndex <= remote
        /\ ivIndex <= remote
    BY <1>3 DEF CompleteIvUpdate, IInv, TypeOK, WindowInv, Known
  <2>2. TypeOK' /\ StepInv' /\ WindowInv'
    BY <2>1, <1>1, OnIvUpdatedInv
  <2>3. /\ initIvIndex' = remote
        /\ storedIv' = remote \/ (initIvIndex = remote /\ storedIv' = storedIv)
        /\ seq' \in Nat
        /\ initIvIndex = remote => seq' = seq
    BY <2>1, OnIvUpdatedEffect DEF IInv, TypeOK
  <2>4. FreshInv'
    <3>1. SUFFICES ASSUME "clear" \notin aborted
                   PROVE  FreshInv'
      BY <1>1 DEF FreshInv
    <3>2. TransmitIv = remote - 1 /\ TransmitIv' = remote
      BY <2>1 DEF TransmitIv, Narrow, IInv, TypeOK
    <3>3. Before(lastNonce, <<TransmitIv, seq>>)
      BY <3>1, <2>1 DEF IInv, FreshInv
    <3>4. Before(lastNonce', <<TransmitIv', seq'>>)
      BY <3>2, <3>3, <1>1 DEF Before, IInv, TypeOK
    <3>5. Known' /\ storedIv' = remote
      BY <2>1, <2>3 DEF Known, IInv, TypeOK, WindowInv
    <3>6. QED
      BY <3>4, <3>5, <2>1, <2>3 DEF FreshInv
  <2>5. ReachedInv'
    BY <2>3, <1>1 DEF ReachedInv
  <2>6. QED
    BY <2>2, <2>4, <2>5 DEF IInv
<1>4. CASE FollowIv(remote, updating)
  <2> DEFINE new == IF updating THEN remote - 1 ELSE remote
  <2>1. /\ Known /\ remote > ivIndex
        /\ isIvUpdating' = updating /\ ivIndex' = remote /\ OnIvUpdated(new)
    BY <1>4 DEF FollowIv, IInv, TypeOK, WindowInv, Known
  <2>2. /\ new \in 0 .. MaxIv /\ initIvIndex <= new /\ ivIndex <= new
        /\ remote \in {new, new + 1}
    BY <2>1, <1>1 DEF IInv, TypeOK, WindowInv
  <2> HIDE DEF new
  <2>3. TypeOK' /\ StepInv' /\ WindowInv'
    BY <2>1, <2>2, <1>1, OnIvUpdatedInv
  <2>4. /\ initIvIndex' = new
        /\ \/ initIvIndex < new /\ seq' = 0 /\ storedIv' = new
           \/ initIvIndex = new /\ seq' = seq /\ storedIv' = storedIv
    BY <2>1, <2>2, OnIvUpdatedEffect
  <2>5. FreshInv'
    <3>1. SUFFICES ASSUME "clear" \notin aborted
                   PROVE  FreshInv'
      BY <1>1 DEF FreshInv
    <3>2. TransmitIv' = new
      BY <2>1, <2>2 DEF TransmitIv, Narrow, new
    <3>3. TransmitIv \in Nat /\ TransmitIv <= initIvIndex
      BY <3>1, <2>1, TransmitIvKnown
    <3>4. Before(lastNonce, <<TransmitIv, seq>>)
      BY <3>1, <2>1 DEF IInv, FreshInv
    <3>5. Before(lastNonce, <<new, seq'>>)
      BY <3>3, <3>4, <2>2, <2>4 DEF Before, IInv, TypeOK
    <3>6. ~updating => ivIndex' = new /\ storedIv' = new
      BY <2>1, <2>2, <2>4 DEF new, IInv, TypeOK, WindowInv
    <3>7. Known'
      BY <2>2, <2>4 DEF Known
    <3>8. QED
      BY <3>2, <3>5, <3>6, <3>7, <2>1, <2>4, <1>1 DEF FreshInv
  <2>6. ReachedInv'
    BY <2>2, <2>4, <1>1, <2>1 DEF ReachedInv, IInv, TypeOK
  <2>7. QED
    BY <2>3, <2>5, <2>6 DEF IInv
<1>5. QED
  BY <1>2, <1>3, <1>4 DEF OnIvIndexReceived

LEMMA NextInv == IInv /\ [Next]_vars => IInv'
<1> SUFFICES ASSUME IInv, [Next]_vars PROVE IInv'
  OBVIOUS
<1>1. ASSUME NEW n \in 1 .. MaxPdus, CreateNetworkPdus(n)
      PROVE  IInv'
  BY <1>1, CreateNetworkPdusInv
<1>2. CASE Setup
  BY <1>2, SetupInv
<1>3. CASE Clear
  BY <1>3, ClearInv
<1>4. CASE CheckSequenceNumber
  BY <1>4, CheckSequenceNumberInv
<1>5. ASSUME NEW remote \in 0 .. MaxIv, NEW updating \in BOOLEAN,
             OnIvIndexReceived(remote, updating)
      PROVE  IInv'
  BY <1>5, OnIvIndexReceivedInv
<1>6. ASSUME NetworkStartsIvUpdate \/ NetworkEndsIvUpdate
      PROVE  IInv'
  <2>1. /\ UNCHANGED <<seq, ivIndex, initIvIndex, isIvUpdating, storedSeq,
                       storedIv, lastNonce, aborted>>
        /\ netIv' \in 0 .. MaxIv /\ netIv' >= netIv
    <3>1. CASE NetworkStartsIvUpdate
      BY <3>1, SequenceIvAssumption
         DEF NetworkStartsIvUpdate, controller, storage, history, IInv, TypeOK
    <3>2. CASE NetworkEndsIvUpdate
      BY <3>2 DEF NetworkEndsIvUpdate, controller, storage, history, IInv, TypeOK
    <3>3. QED
      BY <1>6, <3>1, <3>2
  <2>2. netUpdating' \in BOOLEAN
    BY <1>6 DEF NetworkStartsIvUpdate, NetworkEndsIvUpdate
  <2>3. TypeOK' /\ StepInv' /\ WindowInv'
    BY <2>1, <2>2 DEF IInv, TypeOK, StepInv, WindowInv, Known
  <2>4. FreshInv' /\ ReachedInv'
    BY <2>1, SequenceIvAssumption
       DEF IInv, TypeOK, FreshInv, ReachedInv, Known, TransmitIv
  <2>5. QED
    BY <2>3, <2>4 DEF IInv
<1>7. CASE UNCHANGED vars
  BY <1>7 DEF vars, IInv, TypeOK, StepInv, WindowInv, FreshInv, ReachedInv,
              Known, TransmitIv
<1>8. QED
  BY <1>1, <1>2, <1>3, <1>4, <1>5, <1>6, <1>7 DEF Next

-----------------------------------------------------------------------------
\* The inductive invariant holds in every state of every behaviour.
THEOREM Invariance == Spec => []IInv
<1>1. Init => IInv
  BY InitInv
<1>2. IInv /\ [Next]_vars => IInv'
  BY NextInv
<1>3. QED
  BY <1>1, <1>2, PTL DEF Spec

\* Type correctness of the counters, the IV indexes and what is saved.
THEOREM TypeCorrect == Spec => []TypeOK
<1>1. IInv => TypeOK
  BY DEF IInv
<1>2. QED
  BY <1>1, Invariance, PTL

\* Unless clear() has cut an IV update short, no nonce is used twice: each one
\* lies above all earlier ones, over restarts, beacons and IV updates.
THEOREM NonceFreshness == Spec => []NonceFreshUnlessCleared
<1>1. IInv => NonceFreshUnlessCleared
  BY TransmitIvUnknown DEF IInv, FreshInv, NonceFreshUnlessCleared
<1>2. QED
  BY <1>1, Invariance, PTL

\* The same for the first nonce after a restart at any moment: what is saved is
\* always enough to skip every number in use.
THEOREM RestartNonceFreshness == Spec => []RestartNonceFreshUnlessCleared
<1>1. IInv => RestartNonceFreshUnlessCleared
  <2> SUFFICES ASSUME IInv, "clear" \notin aborted, storedIv # IvMissing
               PROVE  Before(lastNonce, <<storedIv, InitSequenceNumber(storedSeq)>>)
    BY DEF RestartNonceFreshUnlessCleared
  <2>1. InitSequenceNumber(storedSeq) = storedSeq + Step
    BY SkipOneStep DEF IInv, TypeOK, StepInv
  <2>2. storedSeq + Step > seq /\ storedSeq + Step \in Nat
    BY SequenceIvAssumption DEF IInv, TypeOK, StepInv
  <2>3. CASE Known
    <3>1. /\ TransmitIv \in Nat /\ TransmitIv <= storedIv
          /\ Before(lastNonce, <<TransmitIv, seq>>)
      BY <2>3, TransmitIvKnown DEF IInv, TypeOK, WindowInv, FreshInv
    <3>2. QED
      BY <2>1, <2>2, <3>1 DEF Before, IInv, TypeOK
  <2>4. CASE ~Known
    BY <2>1, <2>4 DEF Before, IInv, TypeOK, FreshInv
  <2>5. QED
    BY <2>3, <2>4
<1>2. QED
  BY <1>1, Invariance, PTL

\* Unless an IV update was cut short, by clear() or by a restart, PDUs are never
\* sent with an IV index the network has yet to reach.
THEOREM TransmitIvIsReached == Spec => []TransmitIvReached
<1>1. IInv => TransmitIvReached
  BY TransmitIvKnown, TransmitIvUnknown
     DEF IInv, TypeOK, ReachedInv, TransmitIvReached
<1>2. QED
  BY <1>1, Invariance, PTL
=============================================================================
