------------------------- MODULE BlobTransferProofs -------------------------
(***************************************************************************)
(* BlobTransfer, for any number of nodes, blocks and chunks, and any       *)
(* bounds: types; that a node keeps the blocks it has completed; and, as   *)
(* long as the transfer is Regular, that chunks are stored in their block, *)
(* that the targets have the client's block while chunks are sent, and     *)
(* that a success has delivered the whole BLOB.                            *)
(*                                                                         *)
(* The types need more than types: that the place in the list of targets   *)
(* and that in the list of missing chunks stay within them is because no   *)
(* list has an element twice (ListInv), because the command under way is   *)
(* to a target whose turn is now or later (SlotInv), and because an answer *)
(* that says that some chunks are missing names one (AnswerInv).           *)
(*                                                                         *)
(* The other three rest on one invariant, RegularInv, whose parts need     *)
(* each other: the block of the nodes on the order of the answers, the     *)
(* answers on the loops of the client, the loops on the answers.           *)
(***************************************************************************)
EXTENDS BlobTransfer, FiniteSetTheorems, WellFoundedInduction, TLAPS

-----------------------------------------------------------------------------
(* Lists.                                                                   *)

\* A set of natural numbers has a least one.
LEMMA HasLeast ==
    ASSUME NEW S \in SUBSET Nat, S # {}
    PROVE  \E m \in S : \A k \in S : m <= k
<1>1. PICK n : n \in S
    OBVIOUS
<1>2. PICK m \in S : \A k \in S : <<k, m>> \notin OpToRel(<, Nat)
    BY <1>1, WFMin, NatLessThanWellFounded, Zenon
<1>3. \A k \in S : ~(k < m)
    BY <1>2, Zenon DEF OpToRel
<1> QED BY <1>3

\* What a list has at its places.
LEMMA RangeFacts ==
    ASSUME NEW T, NEW s \in Seq(T)
    PROVE  /\ \A i \in 1 .. Len(s) : s[i] \in Range(s)
           /\ \A x \in Range(s) : \E i \in 1 .. Len(s) : x = s[i]
           /\ Range(s) \subseteq T
    BY DEF Range

\* One element more.
LEMMA AppendFacts ==
    ASSUME NEW T, NEW s \in Seq(T), NEW x \in T
    PROVE  /\ Append(s, x) \in Seq(T)
           /\ Range(Append(s, x)) = Range(s) \union {x}
           /\ IsInjective(s) /\ x \notin Range(s) => IsInjective(Append(s, x))
<1> DEFINE t == Append(s, x)
<1>1. /\ t \in Seq(T) /\ Len(t) = Len(s) + 1 /\ Len(s) \in Nat
      /\ t[Len(s) + 1] = x
      /\ \A i \in 1 .. Len(s) : t[i] = s[i]
    OBVIOUS
<1> HIDE DEF t
<1>2. DOMAIN t = 1 .. Len(s) + 1 /\ DOMAIN s = 1 .. Len(s)
    BY <1>1
<1>3. Range(t) = Range(s) \union {x}
  <2>1. ASSUME NEW y \in Range(t) PROVE y \in Range(s) \union {x}
    <3>1. PICK i \in 1 .. Len(s) + 1 : y = t[i]
        BY <1>2 DEF Range
    <3>2. i \in 1 .. Len(s) \/ i = Len(s) + 1
        BY <1>1
    <3> QED BY <3>1, <3>2, <1>1, <1>2 DEF Range
  <2>2. ASSUME NEW y \in Range(s) PROVE y \in Range(t)
    <3>1. PICK i \in 1 .. Len(s) : y = s[i]
        BY <1>2 DEF Range
    <3>2. y = t[i] /\ i \in DOMAIN t
        BY <3>1, <1>1, <1>2
    <3> QED BY <3>2 DEF Range
  <2>3. x \in Range(t)
      BY <1>1, <1>2 DEF Range
  <2> QED BY <2>1, <2>2, <2>3
<1>4. ASSUME IsInjective(s), x \notin Range(s) PROVE IsInjective(t)
  <2> SUFFICES ASSUME NEW a \in 1 .. Len(s) + 1, NEW b \in 1 .. Len(s) + 1, t[a] = t[b]
               PROVE  a = b
      BY <1>2 DEF IsInjective
  <2>1. \A i \in 1 .. Len(s) : s[i] # x
      BY <1>4, RangeFacts
  <2>2. (a \in 1 .. Len(s) \/ a = Len(s) + 1) /\ (b \in 1 .. Len(s) \/ b = Len(s) + 1)
      BY <1>1
  <2>3. \A i, j \in 1 .. Len(s) : s[i] = s[j] => i = j
      BY <1>4, <1>2 DEF IsInjective
  <2> QED BY <2>1, <2>2, <2>3, <1>1
<1> QED BY <1>1, <1>3, <1>4 DEF t

\* F holds what is left of each beginning of s up to n.
Filters(F, s, S, n) ==
    F = [i \in 0 .. n |-> IF i = 0 THEN <<>>
                          ELSE IF s[i] \in S THEN F[i - 1] ELSE Append(F[i - 1], s[i])]

\* Such a function exists for every beginning: the next place follows from the last.
LEMMA FilterExists ==
    ASSUME NEW s, NEW S, NEW n \in Nat
    PROVE  \E F : Filters(F, s, S, n)
<1> DEFINE R == {k \in Nat : ~ \E F : Filters(F, s, S, k)}
<1>1. Filters([i \in 0 .. 0 |-> <<>>], s, S, 0)
    BY DEF Filters
<1>2. ASSUME NEW k \in Nat, NEW F, Filters(F, s, S, k)
      PROVE  \E G : Filters(G, s, S, k + 1)
  <2> DEFINE G == [i \in 0 .. k + 1 |-> IF i = k + 1
                                        THEN IF s[i] \in S THEN F[k] ELSE Append(F[k], s[i])
                                        ELSE F[i]]
  <2>1. \A i \in 0 .. k : G[i] = F[i] /\ (i + 1) - 1 = i
      OBVIOUS
  <2>2. \A i \in 0 .. k : F[i] = IF i = 0 THEN <<>>
                                 ELSE IF s[i] \in S THEN F[i - 1] ELSE Append(F[i - 1], s[i])
      BY <1>2 DEF Filters
  <2>3. ASSUME NEW i \in 0 .. k + 1
        PROVE  G[i] = IF i = 0 THEN <<>>
                      ELSE IF s[i] \in S THEN G[i - 1] ELSE Append(G[i - 1], s[i])
    <3>1. CASE i = 0
        BY <3>1, <2>2, k + 1 # 0
    <3>2. CASE i \in 1 .. k
      <4>1. G[i] = F[i] /\ G[i - 1] = F[i - 1] /\ i # 0
          BY <3>2
      <4> QED BY <4>1, <2>2, <3>2
    <3>3. CASE i = k + 1
      <4>1. G[i - 1] = F[k] /\ i # 0
          BY <3>3
      <4>2. G[i] = IF s[i] \in S THEN F[k] ELSE Append(F[k], s[i])
          BY <3>3
      <4> QED BY <4>1, <4>2
    <3> QED BY <3>1, <3>2, <3>3
  <2>4. G = [i \in 0 .. k + 1 |->
               IF i = 0 THEN <<>>
               ELSE IF s[i] \in S THEN G[i - 1] ELSE Append(G[i - 1], s[i])]
    <3>1. G = [i \in 0 .. k + 1 |-> G[i]]
        OBVIOUS
    <3> QED BY <2>3, <3>1
  <2> QED BY <2>4 DEF Filters
<1>3. R = {}
  <2> SUFFICES ASSUME R # {} PROVE FALSE
      OBVIOUS
  <2>1. PICK m \in R : \A k \in R : m <= k
      BY HasLeast
  <2>2. CASE m = 0
      BY <2>2, <1>1
  <2>3. CASE m # 0
    <3>1. m - 1 \in Nat /\ m - 1 \notin R
        BY <2>1, <2>3
    <3>2. PICK F : Filters(F, s, S, m - 1)
        BY <3>1
    <3>3. \E G : Filters(G, s, S, (m - 1) + 1)
        BY <1>2, <3>1, <3>2
    <3>4. (m - 1) + 1 = m
        OBVIOUS
    <3> QED BY <3>3, <3>4
  <2> QED BY <2>2, <2>3
<1> QED BY <1>3

\* Without is such a function's last value.
LEMMA WithoutSteps ==
    ASSUME NEW s, NEW S, Len(s) \in Nat
    PROVE  \E F : Filters(F, s, S, Len(s)) /\ Without(s, S) = F[Len(s)]
<1> DEFINE F == CHOOSE F : Filters(F, s, S, Len(s))
<1>1. Filters(F, s, S, Len(s))
    BY FilterExists
<1>2. Without(s, S) = F[Len(s)]
    BY DEF Without, Filters
<1> QED BY <1>1, <1>2

\* What is left of a list has the elements not in S, each as often, and its first
\* element when that one is not in S.
LEMMA WithoutFacts ==
    ASSUME NEW T, NEW s \in Seq(T), NEW S
    PROVE  /\ Without(s, S) \in Seq(T)
           /\ Range(Without(s, S)) = Range(s) \ S
           /\ IsInjective(s) => IsInjective(Without(s, S))
           /\ s # <<>> /\ s[1] \notin S => Without(s, S) # <<>> /\ Without(s, S)[1] = s[1]
<1> DEFINE n == Len(s)
           Before(i) == {s[j] : j \in 1 .. i}
<1>1. n \in Nat /\ \A i \in 1 .. n : s[i] \in T
    OBVIOUS
<1>2. PICK F : Filters(F, s, S, n) /\ Without(s, S) = F[n]
    BY <1>1, WithoutSteps
<1>3. \A i \in 0 .. n : F[i] = IF i = 0 THEN <<>>
                               ELSE IF s[i] \in S THEN F[i - 1] ELSE Append(F[i - 1], s[i])
    BY <1>2 DEF Filters
<1> DEFINE Good(i) == /\ F[i] \in Seq(T)
                      /\ Range(F[i]) = Before(i) \ S
                      /\ IsInjective(s) => IsInjective(F[i])
                      /\ i # 0 /\ s[1] \notin S => F[i] # <<>> /\ F[i][1] = s[1]
           R == {i \in 0 .. n : ~Good(i)}
<1> HIDE DEF n
<1>4. Good(0)
  <2>1. F[0] = <<>>
      BY <1>1, <1>3
  <2>2. <<>> \in Seq(T) /\ Range(<<>>) = {} /\ IsInjective(<<>>)
      BY DEF Range, IsInjective
  <2> QED BY <2>1, <2>2
<1>5. ASSUME NEW i \in 1 .. n, Good(i - 1)
      PROVE  Good(i)
  <2>1. Before(i) = Before(i - 1) \union {s[i]}
    <3>1. 1 .. i = (1 .. i - 1) \union {i}
        BY <1>1
    <3> QED BY <3>1
  <2>2. CASE s[i] \in S
    <3>1. F[i] = F[i - 1] /\ i # 0
        BY <2>2, <1>3, <1>1
    <3>2. Range(F[i]) = Before(i) \ S
        BY <3>1, <2>1, <2>2, <1>5
    <3>3. s[1] \notin S => i # 1 /\ i - 1 # 0
        BY <2>2
    <3> QED BY <3>1, <3>2, <3>3, <1>5
  <2>3. CASE s[i] \notin S
    <3>1. F[i] = Append(F[i - 1], s[i]) /\ i # 0 /\ s[i] \in T
      <4>1. i \in 0 .. n /\ i # 0 /\ s[i] \in T
          BY <1>1
      <4> QED BY <4>1, <2>3, <1>3
    <3>2. F[i] \in Seq(T) /\ Range(F[i]) = Range(F[i - 1]) \union {s[i]}
        BY <3>1, <1>5, AppendFacts
    <3>3. Range(F[i]) = Before(i) \ S
        BY <3>2, <2>1, <2>3, <1>5
    <3>4. ASSUME IsInjective(s) PROVE IsInjective(F[i])
      <4>1. \A j \in 1 .. i - 1 : s[j] # s[i]
          BY <3>4, <1>1 DEF IsInjective, n
      <4>2. s[i] \notin Range(F[i - 1])
          BY <4>1, <1>5
      <4> QED BY <4>2, <3>1, <3>4, <1>5, AppendFacts
    <3>5. ASSUME s[1] \notin S PROVE F[i] # <<>> /\ F[i][1] = s[1]
      <4>1. CASE i = 1
        <5>1. F[i - 1] = <<>>
            BY <4>1, <1>3, <1>1
        <5>2. F[i] = Append(<<>>, s[1])
            BY <5>1, <4>1, <3>1
        <5>3. Append(<<>>, s[1]) = <<s[1]>>
            OBVIOUS
        <5> QED BY <5>2, <5>3
      <4>2. CASE i # 1
        <5>1. F[i - 1] \in Seq(T) /\ F[i - 1] # <<>> /\ F[i - 1][1] = s[1]
            BY <4>2, <3>5, <1>5
        <5> QED BY <5>1, <3>1
      <4> QED BY <4>1, <4>2
    <3> QED BY <3>2, <3>3, <3>4, <3>5
  <2> QED BY <2>2, <2>3
<1>6. R = {}
  <2> SUFFICES ASSUME R # {} PROVE FALSE
      OBVIOUS
  <2>1. PICK m \in R : \A k \in R : m <= k
    <3>1. R \in SUBSET Nat
        BY <1>1
    <3> HIDE DEF R
    <3> QED BY <3>1, HasLeast
  <2>2. m # 0
      BY <1>4, <2>1
  <2> HIDE DEF Good
  <2>3. m \in 1 .. n /\ m - 1 \in 0 .. n /\ m - 1 \notin R
    <3>1. m \in 0 .. n
        BY <2>1
    <3>2. m \in 1 .. n /\ m - 1 \in 0 .. n /\ ~(m <= m - 1)
        BY <3>1, <2>2, <1>1
    <3> HIDE DEF R
    <3> QED BY <3>2, <2>1
  <2>4. Good(m - 1)
      BY <2>3
  <2>5. Good(m)
      BY <2>3, <2>4, <1>5
  <2> QED BY <2>5, <2>1
<1>7. Good(n)
  <2>1. n \in 0 .. n
      BY <1>1
  <2> HIDE DEF Good
  <2> QED BY <1>6, <2>1
<1>8. Range(s) = Before(n)
    BY DEF Range, n
<1>9. s # <<>> => n # 0
    BY DEF n
<1> QED BY <1>2, <1>7, <1>8, <1>9

\* A list without repetitions is no longer than the set is large.
LEMMA LengthBound ==
    ASSUME NEW T, IsFiniteSet(T), NEW s \in Seq(T), IsInjective(s)
    PROVE  Len(s) <= Cardinality(T)
<1>1. s \in Injection(1 .. Len(s), T)
    BY DEF Injection, IsInjective
<1>2. Len(s) \in Nat /\ Cardinality(1 .. Len(s)) = Len(s)
  <2>1. Len(s) \in Nat /\ 1 \in Int /\ Len(s) \in Int
      OBVIOUS
  <2>2. Cardinality(1 .. Len(s)) = IF 1 > Len(s) THEN 0 ELSE Len(s) - 1 + 1
      BY <2>1, FS_Interval
  <2> QED BY <2>1, <2>2
<1> QED BY <1>1, <1>2, FS_Injection

\* One list after another.
LEMMA ConcatFacts ==
    ASSUME NEW T, NEW s \in Seq(T), NEW t \in Seq(T)
    PROVE  /\ s \o t \in Seq(T)
           /\ Range(s \o t) = Range(s) \union Range(t)
           /\ IsInjective(s) /\ IsInjective(t) /\ Range(s) \cap Range(t) = {}
                => IsInjective(s \o t)
<1> DEFINE u == s \o t
           m == Len(s)
           n == Len(t)
<1>1. /\ u \in Seq(T) /\ m \in Nat /\ n \in Nat /\ Len(u) = m + n
      /\ \A i \in 1 .. m : u[i] = s[i]
      /\ \A i \in 1 .. n : u[m + i] = t[i]
    OBVIOUS
<1>2. DOMAIN u = 1 .. m + n /\ DOMAIN s = 1 .. m /\ DOMAIN t = 1 .. n
    BY <1>1
<1> HIDE DEF u, m, n
<1>3. ASSUME NEW i \in 1 .. m + n
      PROVE  i \in 1 .. m \/ \E j \in 1 .. n : i = m + j
  <2>1. i > m => i - m \in 1 .. n /\ i = m + (i - m)
      BY <1>1
  <2> QED BY <2>1, <1>1
<1>4. Range(u) = Range(s) \union Range(t)
  <2>1. ASSUME NEW x \in Range(u) PROVE x \in Range(s) \union Range(t)
    <3>1. PICK i \in 1 .. m + n : x = u[i]
        BY <1>2 DEF Range
    <3> QED BY <3>1, <1>3, <1>1, <1>2 DEF Range
  <2>2. ASSUME NEW x \in Range(s) PROVE x \in Range(u)
    <3>1. PICK i \in 1 .. m : x = s[i]
        BY <1>2 DEF Range
    <3>2. i \in 1 .. m + n /\ x = u[i]
        BY <3>1, <1>1
    <3> QED BY <3>2, <1>2 DEF Range
  <2>3. ASSUME NEW x \in Range(t) PROVE x \in Range(u)
    <3>1. PICK i \in 1 .. n : x = t[i]
        BY <1>2 DEF Range
    <3>2. m + i \in 1 .. m + n /\ x = u[m + i]
        BY <3>1, <1>1
    <3> QED BY <3>2, <1>2 DEF Range
  <2> QED BY <2>1, <2>2, <2>3
<1>5. ASSUME IsInjective(s), IsInjective(t), Range(s) \cap Range(t) = {}
      PROVE  IsInjective(u)
  <2> SUFFICES ASSUME NEW a \in 1 .. m + n, NEW b \in 1 .. m + n, u[a] = u[b]
               PROVE  a = b
      BY <1>2 DEF IsInjective
  <2>1. /\ \A i, j \in 1 .. m : s[i] = s[j] => i = j
        /\ \A i, j \in 1 .. n : t[i] = t[j] => i = j
        /\ \A i \in 1 .. m, j \in 1 .. n : s[i] # t[j]
      BY <1>5, <1>2 DEF IsInjective, Range
  <2>2. CASE a \in 1 .. m /\ b \in 1 .. m
      BY <2>1, <2>2, <1>1
  <2>3. CASE \E i, j \in 1 .. n : a = m + i /\ b = m + j
    <3>1. PICK i, j \in 1 .. n : a = m + i /\ b = m + j
        BY <2>3
    <3>2. t[i] = t[j]
        BY <3>1, <1>1
    <3> QED BY <3>1, <3>2, <2>1
  <2>4. CASE a \in 1 .. m /\ \E j \in 1 .. n : b = m + j
    <3>1. PICK j \in 1 .. n : b = m + j
        BY <2>4
    <3>2. s[a] = t[j]
        BY <3>1, <2>4, <1>1
    <3> QED BY <3>2, <2>1, <2>4
  <2>5. CASE b \in 1 .. m /\ \E j \in 1 .. n : a = m + j
    <3>1. PICK j \in 1 .. n : a = m + j
        BY <2>5
    <3>2. s[b] = t[j]
        BY <3>1, <2>5, <1>1
    <3> QED BY <3>2, <2>1, <2>5
  <2> QED BY <2>2, <2>3, <2>4, <2>5, <1>3
<1> QED BY <1>1, <1>4, <1>5 DEF u

-----------------------------------------------------------------------------
(* The nodes.                                                               *)

\* A block has been opened.
Opened(r) == r.busy /\ (r.ok \/ r.phase = "nextChunk")

\* A received block misses nothing, an open one something, and only before the
\* first one is no block received or open.
ReceiverInv(r) ==
    /\ r.ok => r.busy /\ r.phase # "nextChunk" /\ r.miss = {}
    /\ r.phase = "nextChunk" => r.busy /\ r.miss # {}
    /\ r.blk > 0 /\ ~r.ok => r.phase = "nextChunk"

\* What no message takes back.
Onward(r, s) ==
    /\ r.blk <= s.blk
    /\ RxOkCount(r) <= RxOkCount(s)
    /\ Opened(r) => Opened(s)
    /\ \A b \in 0 .. RxOkCount(r) - 1, c \in Chunks : <<b, c>> \in r.got => <<b, c>> \in s.got

\* The fields of a receiver.
LEMMA ReceiverFields ==
    ASSUME NEW r \in Receivers
    PROVE  /\ r.busy \in BOOLEAN /\ r.phase \in Phases /\ r.blk \in Blocks /\ r.ok \in BOOLEAN
           /\ r.miss \subseteq Chunks /\ r.got \subseteq Blocks \X Chunks
           /\ r.blk \in Nat /\ r.blk < BlockNum /\ RxOkCount(r) \in Nat
           /\ BlockNum \in Nat /\ ChunkNum \in Nat
           /\ r.blk <= RxOkCount(r) /\ RxOkCount(r) <= r.blk + 1
<1>1. /\ r.busy \in BOOLEAN /\ r.phase \in Phases /\ r.blk \in Blocks /\ r.ok \in BOOLEAN
      /\ r.miss \subseteq Chunks /\ r.got \subseteq Blocks \X Chunks
    BY DEF Receivers
<1>2. BlockNum \in Nat /\ ChunkNum \in Nat
    BY BlobReceiverAssumption
<1> QED BY <1>1, <1>2 DEF Blocks, RxOkCount

\* A state goes on from itself.
LEMMA OnwardSame ==
    ASSUME NEW r \in Receivers
    PROVE  Onward(r, r)
    BY ReceiverFields DEF Onward

\* mesh_cmd_sig_fw_update_start
LEMMA StartedFacts ==
    /\ Started \in Receivers /\ ReceiverInv(Started)
    /\ Started.blk = 0 /\ ~Started.ok /\ ~Started.busy /\ ~Opened(Started)
<1>1. 0 \in Blocks
    BY BlobReceiverAssumption DEF Blocks
<1> QED BY <1>1 DEF Started, Receivers, Phases, ReceiverInv, Opened

\* BLOB Transfer Start
LEMMA TransferStartFacts ==
    ASSUME NEW r \in Receivers, ReceiverInv(r)
    PROVE  LET s == OnTransferStart(r)
           IN  /\ s \in Receivers /\ ReceiverInv(s)
               /\ s.blk = r.blk /\ s.ok = r.ok /\ s.miss = r.miss /\ s.got = r.got
               /\ s.phase = "nextChunk" <=> r.phase = "nextChunk"
               /\ Onward(r, s)
<1> DEFINE s == OnTransferStart(r)
<1>1. /\ s.busy = TRUE /\ s.blk = r.blk /\ s.ok = r.ok /\ s.miss = r.miss /\ s.got = r.got
      /\ s.phase = IF r.phase \in {"nextChunk", "complete"} THEN r.phase ELSE "nextBlock"
      /\ s \in Receivers
    BY ReceiverFields DEF OnTransferStart, Receivers, Phases
<1> HIDE DEF s
<1>2. ReceiverInv(s)
    BY <1>1, ReceiverFields DEF ReceiverInv
<1>3. Onward(r, s)
    BY <1>1, ReceiverFields DEF Onward, Opened, RxOkCount
<1> QED BY <1>1, <1>2, <1>3 DEF s

\* BLOB Block Start
LEMMA BlockStartFacts ==
    ASSUME NEW r \in Receivers, ReceiverInv(r), NEW b \in Blocks \union {-1}
    PROVE  LET s == OnBlockStart(r, b)
           IN  /\ s \in Receivers /\ ReceiverInv(s)
               /\ s.got = r.got
               /\ \/ s = r
                  \/ /\ r.busy /\ b = RxOkCount(r)
                     /\ s.blk = b /\ ~s.ok /\ s.miss = Chunks /\ Opened(s)
               /\ Onward(r, s)
<1> DEFINE s == OnBlockStart(r, b)
<1>1. CASE ~(BlockStartOk(r, b) /\ b = RxOkCount(r))
    BY <1>1, OnwardSame DEF OnBlockStart
<1>2. CASE BlockStartOk(r, b) /\ b = RxOkCount(r)
  <2>1. b \in Blocks /\ r.busy
      BY <1>2, ReceiverFields DEF BlockStartOk
  <2>2. /\ s.busy = r.busy /\ s.blk = b /\ s.ok = FALSE /\ s.miss = Chunks /\ s.got = r.got
        /\ s.phase = "nextChunk"
        /\ s \in Receivers
      BY <1>2, <2>1, ReceiverFields DEF OnBlockStart, Receivers, Phases
  <2>3. Chunks # {}
      BY BlobReceiverAssumption DEF Chunks
  <2> HIDE DEF s
  <2>4. ReceiverInv(s) /\ Opened(s) /\ Onward(r, s)
      BY <2>1, <2>2, <2>3, <1>2, ReceiverFields DEF ReceiverInv, Onward, Opened, RxOkCount
  <2> QED BY <2>1, <2>2, <2>4, <1>2 DEF s
<1> QED BY <1>1, <1>2

\* set_phase_block_all_chunk_rx_ok
LEMMA AllReceivedFacts ==
    ASSUME NEW r \in Receivers, r.busy, r.miss = {}
    PROVE  LET s == AllChunksReceived(r)
           IN  /\ s \in Receivers /\ ReceiverInv(s) /\ Opened(s) /\ s.ok
               /\ s.busy = r.busy /\ s.blk = r.blk /\ s.miss = r.miss /\ s.got = r.got
<1> DEFINE s == AllChunksReceived(r)
<1>1. /\ s.busy = r.busy /\ s.blk = r.blk /\ s.miss = r.miss /\ s.got = r.got
      /\ s.ok = TRUE
      /\ s.phase = IF r.blk + 1 = BlockNum THEN "complete" ELSE "nextBlock"
      /\ s \in Receivers
    BY ReceiverFields DEF AllChunksReceived, Receivers, Phases
<1> HIDE DEF s
<1>2. ReceiverInv(s) /\ Opened(s)
    BY <1>1, ReceiverFields DEF ReceiverInv, Opened
<1> QED BY <1>1, <1>2 DEF s

\* BLOB Block Get
LEMMA BlockGetFacts ==
    ASSUME NEW r \in Receivers, ReceiverInv(r)
    PROVE  LET s == OnBlockGet(r)
           IN  /\ s \in Receivers /\ ReceiverInv(s)
               /\ s.blk = r.blk /\ s.miss = r.miss /\ s.got = r.got
               /\ r.ok => s.ok
               /\ r.busy /\ r.miss = {} => s.ok
               /\ s.ok => r.ok \/ (r.busy /\ r.miss = {})
               /\ Onward(r, s)
<1> DEFINE s == OnBlockGet(r)
<1>1. CASE ~(r.busy /\ r.miss = {})
    BY <1>1, OnwardSame DEF OnBlockGet
<1>2. CASE r.busy /\ r.miss = {}
  <2>1. /\ s \in Receivers /\ ReceiverInv(s) /\ Opened(s) /\ s.ok
        /\ s.blk = r.blk /\ s.miss = r.miss /\ s.got = r.got
      BY <1>2, AllReceivedFacts DEF OnBlockGet
  <2> HIDE DEF s
  <2>2. Onward(r, s)
      BY <2>1, ReceiverFields DEF Onward, RxOkCount
  <2> QED BY <2>1, <2>2, <1>2 DEF s
<1> QED BY <1>1, <1>2

\* BLOB Chunk Transfer, of the client's block b.
LEMMA ChunkFacts ==
    ASSUME NEW r \in Receivers, ReceiverInv(r), NEW b \in Blocks \union {-1}, NEW c \in Chunks
    PROVE  LET s == OnChunk(r, b, c)
           IN  /\ s \in Receivers /\ ReceiverInv(s)
               /\ s.blk = r.blk /\ s.miss \subseteq r.miss
               /\ r.ok => s.ok
               /\ r.blk = b /\ (Opened(r) => \A d \in Chunks \ r.miss : <<r.blk, d>> \in r.got)
                    => /\ r.got \subseteq s.got
                       /\ Opened(s) => \A d \in Chunks \ s.miss : <<s.blk, d>> \in s.got
                       /\ s.ok => Opened(r)
               /\ Onward(r, s)
<1> DEFINE s == OnChunk(r, b, c)
<1>1. CASE ~(r.busy /\ r.phase = "nextChunk" /\ c \in r.miss)
  <2>1. s = r
      BY <1>1 DEF OnChunk
  <2>2. r.ok => Opened(r)
      BY DEF ReceiverInv, Opened
  <2> QED BY <2>1, <2>2, OnwardSame
<1>2. CASE r.busy /\ r.phase = "nextChunk" /\ c \in r.miss
  <2> DEFINE q == [r EXCEPT !.miss = @ \ {c},
                            !.got  = IF b = r.blk THEN @ \union {<<r.blk, c>>}
                                                  ELSE @ \ {<<r.blk, c>>}]
  <2>1. /\ q.busy = r.busy /\ q.phase = r.phase /\ q.blk = r.blk /\ q.ok = r.ok
        /\ q.miss = r.miss \ {c}
        /\ q.got = IF b = r.blk THEN r.got \union {<<r.blk, c>>} ELSE r.got \ {<<r.blk, c>>}
        /\ q \in Receivers
    <3> DEFINE g == IF b = r.blk THEN r.got \union {<<r.blk, c>>} ELSE r.got \ {<<r.blk, c>>}
               m == r.miss \ {c}
    <3>1. g \subseteq Blocks \X Chunks /\ m \subseteq Chunks
        BY ReceiverFields
    <3>2. q = [r EXCEPT !.miss = m, !.got = g]
        BY DEF Receivers
    <3> HIDE DEF g, m, q
    <3>3. /\ q.busy = r.busy /\ q.phase = r.phase /\ q.blk = r.blk /\ q.ok = r.ok
          /\ q.miss = m /\ q.got = g /\ q \in Receivers
        BY <3>1, <3>2 DEF Receivers
    <3> QED BY <3>3 DEF g, m
  <2>2. s = IF q.miss = {} THEN AllChunksReceived(q) ELSE q
      BY <1>2 DEF OnChunk
  <2> HIDE DEF q
  <2>3. /\ s \in Receivers /\ ReceiverInv(s) /\ Opened(s)
        /\ s.blk = q.blk /\ s.miss = q.miss /\ s.got = q.got
    <3>1. CASE q.miss = {}
        BY <3>1, <2>1, <2>2, <1>2, AllReceivedFacts
    <3>2. CASE q.miss # {}
      <4>1. s = q
          BY <3>2, <2>2
      <4>2. ~r.ok
          BY <1>2 DEF ReceiverInv
      <4> QED BY <4>1, <4>2, <3>2, <2>1, <1>2, ReceiverFields DEF ReceiverInv, Opened
    <3> QED BY <3>1, <3>2
  <2>4. ~r.ok /\ RxOkCount(r) = r.blk /\ Opened(r)
      BY <1>2 DEF ReceiverInv, RxOkCount, Opened
  <2> HIDE DEF s
  <2>5. Onward(r, s)
    <3>1. \A x \in 0 .. RxOkCount(r) - 1, d \in Chunks :
              <<x, d>> \in r.got => <<x, d>> \in s.got
      <4>1. \A x \in 0 .. RxOkCount(r) - 1 : x # r.blk
          BY <2>4, ReceiverFields
      <4> QED BY <4>1, <2>1, <2>3
    <3>2. s.blk = r.blk /\ RxOkCount(r) <= RxOkCount(s)
        BY <2>1, <2>3, <2>4, ReceiverFields DEF RxOkCount
    <3> QED BY <3>1, <3>2, <2>3, ReceiverFields DEF Onward
  <2>6. ASSUME r.blk = b, \A d \in Chunks \ r.miss : <<r.blk, d>> \in r.got
        PROVE  r.got \subseteq s.got /\ \A d \in Chunks \ s.miss : <<s.blk, d>> \in s.got
      BY <2>6, <2>1, <2>3
  <2> QED BY <2>1, <2>3, <2>4, <2>5, <2>6 DEF s
<1> QED BY <1>1, <1>2

-----------------------------------------------------------------------------
(* Steps, commands and constants.                                           *)

\* The steps and their order.
LEMMA StepFacts ==
    /\ Steps = {"transferGet", "getInfo", "transferStart", "blockStart", "chunkSending",
                "getBlock", "idle"}
    /\ NextStep("transferGet") = "getInfo"
    /\ NextStep("getInfo") = "transferStart"
    /\ NextStep("transferStart") = "blockStart"
    /\ NextStep("blockStart") = "chunkSending"
    /\ NextStep("chunkSending") = "getBlock"
<1>1. /\ Len(StepOrder) = 6 /\ DOMAIN StepOrder = 1 .. 6
      /\ StepOrder[1] = "transferGet" /\ StepOrder[2] = "getInfo"
      /\ StepOrder[3] = "transferStart" /\ StepOrder[4] = "blockStart"
      /\ StepOrder[5] = "chunkSending" /\ StepOrder[6] = "getBlock"
    BY DEF StepOrder
<1>2. \A i \in 1 .. 6 : i = 1 \/ i = 2 \/ i = 3 \/ i = 4 \/ i = 5 \/ i = 6
    OBVIOUS
<1>3. Range(StepOrder) = {"transferGet", "getInfo", "transferStart", "blockStart",
                          "chunkSending", "getBlock"}
    BY <1>1, <1>2 DEF Range
<1>4. ASSUME NEW k \in 1 .. 5
      PROVE  NextStep(StepOrder[k]) = StepOrder[k + 1]
  <2>1. \A i \in 1 .. 5 : StepOrder[i] = StepOrder[k] => i = k
      BY <1>1, <1>2
  <2>2. (CHOOSE i \in 1 .. 5 : StepOrder[i] = StepOrder[k]) = k
      BY <2>1
  <2>3. 1 .. Len(StepOrder) - 1 = 1 .. 5 /\ 1 + k = k + 1
      BY <1>1
  <2> QED BY <2>2, <2>3 DEF NextStep
<1>5. /\ NextStep(StepOrder[1]) = StepOrder[2] /\ NextStep(StepOrder[2]) = StepOrder[3]
      /\ NextStep(StepOrder[3]) = StepOrder[4] /\ NextStep(StepOrder[4]) = StepOrder[5]
      /\ NextStep(StepOrder[5]) = StepOrder[6]
  <2>1. /\ 1 \in 1 .. 5 /\ 2 \in 1 .. 5 /\ 3 \in 1 .. 5 /\ 4 \in 1 .. 5 /\ 5 \in 1 .. 5
        /\ 1 + 1 = 2 /\ 2 + 1 = 3 /\ 3 + 1 = 4 /\ 4 + 1 = 5 /\ 5 + 1 = 6
      OBVIOUS
  <2> QED BY <1>4, <2>1
<1> QED BY <1>1, <1>3, <1>5 DEF Steps

\* The fields of a command.
LEMMA CommandFields ==
    ASSUME NEW cmd \in Commands
    PROVE  /\ cmd.op \in {"transferGet", "getInfo", "transferStart", "blockStart", "getBlock"}
           /\ cmd.dst \in Nodes
           /\ cmd.block \in Blocks \union {-1}
           /\ cmd = [op |-> cmd.op, dst |-> cmd.dst, block |-> cmd.block]
    BY StepFacts DEF Commands

\* The nodes are finitely many, the numbers are numbers.
LEMMA ConstantFacts ==
    /\ IsFiniteSet(Nodes) /\ Cardinality(Nodes) \in Nat
    /\ BlockNum \in Nat \ {0} /\ ChunkNum \in Nat \ {0}
    /\ RetryCnt \in Nat /\ MaxLoss \in Nat /\ MaxLate \in Nat /\ MaxHold \in Nat
    /\ InitConfig \in Seq(Nodes) /\ Range(InitConfig) = Nodes /\ IsInjective(InitConfig)
    /\ IsFiniteSet(Chunks) /\ Cardinality(Chunks) = ChunkNum
<1>1. InitConfig \in Surjection(1 .. Len(InitConfig), Nodes)
    BY BlobTransferAssumption DEF Surjection, Range
<1>2. Len(InitConfig) \in Nat
    BY BlobTransferAssumption
<1>3. IsFiniteSet(1 .. Len(InitConfig))
    BY <1>2, FS_Interval
<1>4. IsFiniteSet(Nodes) /\ Cardinality(Nodes) \in Nat
    BY <1>1, <1>3, FS_Surjection, FS_CardinalityType
<1>5. IsFiniteSet(Chunks) /\ Cardinality(Chunks) = ChunkNum
  <2>1. 0 \in Int /\ ChunkNum - 1 \in Int /\ ChunkNum \in Nat /\ ChunkNum > 0
      BY BlobReceiverAssumption
  <2>2. /\ IsFiniteSet(0 .. ChunkNum - 1)
        /\ Cardinality(0 .. ChunkNum - 1)
             = IF 0 > ChunkNum - 1 THEN 0 ELSE (ChunkNum - 1) - 0 + 1
      BY <2>1, FS_Interval
  <2> QED BY <2>1, <2>2 DEF Chunks
<1> QED BY <1>4, <1>5, BlobTransferAssumption, BlobReceiverAssumption

-----------------------------------------------------------------------------
(* The network.                                                             *)

\* An answer is of the node that sends it, and when it says that some chunks are
\* missing it names one.
AnswerInv(n, s) ==
    /\ s.to.dst = n
    /\ s.to.op = "getBlock" /\ s.format = "some" => s.miss # {}

\* The nodes and their answers have their types.
NetInv ==
    /\ node \in [Nodes -> Receivers]
    /\ \A n \in Nodes : ReceiverInv(node[n])
    /\ late \in [Nodes -> Seq(Statuses)]
    /\ \A n \in Nodes : Len(late[n]) <= MaxLate
    /\ \A n \in Nodes : \A i \in 1 .. Len(late[n]) : AnswerInv(n, late[n][i])

\* What a command does to a node.
LEMMA HandleFacts ==
    ASSUME NEW r \in Receivers, ReceiverInv(r), NEW cmd \in Commands
    PROVE  LET s == Handle(r, cmd)
           IN  /\ s \in Receivers /\ ReceiverInv(s) /\ Onward(r, s) /\ s.got = r.got
               /\ cmd.op \in {"transferGet", "getInfo", "transferStart"} =>
                     s.blk = r.blk /\ s.ok = r.ok /\ s.miss = r.miss
               /\ cmd.op = "blockStart" => s = OnBlockStart(r, cmd.block)
               /\ cmd.op = "getBlock" => s = OnBlockGet(r)
<1>1. CASE cmd.op = "transferStart"
    BY <1>1, TransferStartFacts DEF Handle
<1>2. CASE cmd.op = "blockStart"
    BY <1>2, BlockStartFacts, CommandFields DEF Handle
<1>3. CASE cmd.op = "getBlock"
    BY <1>3, BlockGetFacts DEF Handle
<1>4. CASE cmd.op \in {"transferGet", "getInfo"}
    BY <1>4, OnwardSame DEF Handle
<1> QED BY <1>1, <1>2, <1>3, <1>4, CommandFields

\* What it answers.
LEMMA StatusFacts ==
    ASSUME NEW r \in Receivers, ReceiverInv(r), NEW cmd \in Commands
    PROVE  LET s == StatusOf(r, cmd)
           IN  /\ s \in Statuses /\ AnswerInv(cmd.dst, s)
               /\ s.to = cmd /\ s.op = Answer(cmd.op)
               /\ cmd.op = "blockStart" => s.ok = BlockStartOk(r, cmd.block)
               /\ cmd.op = "getBlock" => s.ok = r.busy /\ s.format = MissingFormat(r)
<1> DEFINE s == StatusOf(r, cmd)
<1>1. /\ s.to = cmd /\ s.op = Answer(cmd.op)
      /\ s.ok = CASE cmd.op = "blockStart" -> BlockStartOk(r, cmd.block)
                  [] cmd.op = "getBlock"   -> r.busy
                  [] OTHER                 -> TRUE
      /\ s.format = IF cmd.op = "getBlock" THEN MissingFormat(r)
                    ELSE IF cmd.op = "blockStart" /\ cmd.block >= RxOkCount(Handle(r, cmd))
                         THEN "all" ELSE "none"
      /\ s.miss = IF cmd.op = "getBlock" /\ MissingFormat(r) = "some" THEN r.miss ELSE {}
      /\ s = [op |-> s.op, ok |-> s.ok, format |-> s.format, miss |-> s.miss, to |-> s.to]
    BY DEF StatusOf
<1>2. MissingFormat(r) \in {"none", "all", "some"}
    BY DEF MissingFormat
<1>3. MissingFormat(r) = "some" => r.miss # {}
    BY DEF MissingFormat
<1>4. Answer(cmd.op) \in {"transferStatus", "blockStatus", "infoStatus"}
    BY DEF Answer
<1>5. BlockStartOk(r, cmd.block) \in BOOLEAN
    BY ReceiverFields DEF BlockStartOk
<1> HIDE DEF s
<1>6. s.ok \in BOOLEAN
    BY <1>1, <1>5, ReceiverFields
<1>7. s.format \in {"none", "all", "some"} /\ s.miss \subseteq Chunks
    BY <1>1, <1>2, ReceiverFields
<1>8. s \in Statuses
    BY <1>1, <1>4, <1>6, <1>7 DEF Statuses
<1>9. AnswerInv(cmd.dst, s)
    BY <1>1, <1>3 DEF AnswerInv
<1> QED BY <1>1, <1>8, <1>9 DEF s

\* One element more at the end, one less at the beginning.
LEMMA QueueFacts ==
    ASSUME NEW T, NEW q \in Seq(T)
    PROVE  /\ \A x \in T : /\ Append(q, x) \in Seq(T) /\ Len(Append(q, x)) = Len(q) + 1
                           /\ \A i \in 1 .. Len(q) : Append(q, x)[i] = q[i]
                           /\ Append(q, x)[Len(q) + 1] = x
                           /\ \A i \in 1 .. Len(q) + 1 : i \in 1 .. Len(q) \/ i = Len(q) + 1
           /\ q # <<>> => /\ Head(q) = q[1] /\ Tail(q) \in Seq(T) /\ 1 \in 1 .. Len(q)
                          /\ Len(Tail(q)) = Len(q) - 1
                          /\ \A i \in 1 .. Len(Tail(q)) :
                                 Tail(q)[i] = q[i + 1] /\ i + 1 \in 1 .. Len(q)
           /\ Len(q) \in Nat
           /\ \A i \in 1 .. Len(q) : q[i] \in T
    OBVIOUS

\* A command is lost, or received and answered.
LEMMA TransmitFacts ==
    ASSUME NetInv, NEW cmd \in Commands, Transmit(cmd)
    PROVE  /\ NetInv'
           /\ \A n \in Nodes : \/ node'[n] = node[n] /\ late'[n] = late[n]
                               \/ /\ n = cmd.dst /\ node'[n] = Handle(node[n], cmd)
                                  /\ \/ late'[n] = late[n]
                                     \/ late'[n] = Append(late[n], StatusOf(node[n], cmd))
<1> DEFINE d == cmd.dst
           s == StatusOf(node[d], cmd)
<1>1. d \in Nodes /\ node[d] \in Receivers /\ ReceiverInv(node[d])
    BY CommandFields DEF NetInv
<1>2. s \in Statuses /\ AnswerInv(d, s)
    BY <1>1, StatusFacts
<1>3. Handle(node[d], cmd) \in Receivers /\ ReceiverInv(Handle(node[d], cmd))
    BY <1>1, HandleFacts
<1>4. CASE UNCHANGED network
    BY <1>4 DEF NetInv, network
<1>5. CASE /\ node' = [node EXCEPT ![d] = Handle(@, cmd)]
           /\ late' = late
    BY <1>5, <1>1, <1>3 DEF NetInv
<1>6. CASE /\ node' = [node EXCEPT ![d] = Handle(@, cmd)]
           /\ Len(late[d]) < MaxLate
           /\ late' = [late EXCEPT ![d] = Append(@, s)]
  <2> HIDE DEF s, d
  <2>1. late[d] \in Seq(Statuses) /\ Append(late[d], s) \in Seq(Statuses)
      BY <1>1, <1>2 DEF NetInv
  <2>2. Len(Append(late[d], s)) <= MaxLate
      BY <2>1, <1>2, <1>6, QueueFacts, ConstantFacts
  <2>3. \A i \in 1 .. Len(Append(late[d], s)) : AnswerInv(d, Append(late[d], s)[i])
      BY <2>1, <1>1, <1>2, QueueFacts DEF NetInv
  <2>4. \A n \in Nodes : /\ late'[n] = IF n = d THEN Append(late[d], s) ELSE late[n]
                         /\ node'[n] = IF n = d THEN Handle(node[d], cmd) ELSE node[n]
      BY <1>6 DEF NetInv
  <2>5. late' \in [Nodes -> Seq(Statuses)] /\ node' \in [Nodes -> Receivers]
      BY <1>6, <1>1, <1>3, <2>1 DEF NetInv
  <2>6. NetInv'
      BY <2>2, <2>3, <2>4, <2>5, <1>3 DEF NetInv
  <2> QED BY <2>4, <2>6 DEF s, d
<1> QED BY <1>4, <1>5, <1>6 DEF Transmit

\* A chunk reaches some of the nodes.
LEMMA BroadcastFacts ==
    ASSUME NetInv, block \in Blocks \union {-1}, losses \in 0 .. MaxLoss,
           NEW c \in Chunks, Broadcast(c), late' = late
    PROVE  /\ NetInv' /\ losses' \in 0 .. MaxLoss
           /\ \A n \in Nodes : node'[n] \in {node[n], OnChunk(node[n], block, c)}
<1>1. PICK lost \in SUBSET Nodes :
        /\ losses + Cardinality(lost) <= MaxLoss
        /\ losses' = losses + Cardinality(lost)
        /\ node' = [n \in Nodes |-> IF n \in lost THEN node[n] ELSE OnChunk(node[n], block, c)]
    BY DEF Broadcast
<1>2. Cardinality(lost) \in Nat
    BY ConstantFacts, FS_Subset, FS_CardinalityType
<1>3. losses' \in 0 .. MaxLoss
    BY <1>1, <1>2, ConstantFacts
<1>4. \A n \in Nodes : /\ OnChunk(node[n], block, c) \in Receivers
                       /\ ReceiverInv(OnChunk(node[n], block, c))
    BY ChunkFacts DEF NetInv
<1>5. NetInv'
    BY <1>1, <1>4 DEF NetInv
<1> QED BY <1>1, <1>3, <1>5

\* An answer arrives, or all are lost with the connection.
LEMMA AnswersGone ==
    ASSUME NetInv, node' = node,
           \/ \E n \in Nodes : late[n] # <<>> /\ late' = [late EXCEPT ![n] = Tail(@)]
           \/ late' = [n \in Nodes |-> <<>>]
    PROVE  NetInv'
<1>1. ASSUME NEW n \in Nodes, late[n] # <<>>, late' = [late EXCEPT ![n] = Tail(@)]
      PROVE  NetInv'
  <2>1. /\ late[n] \in Seq(Statuses) /\ Tail(late[n]) \in Seq(Statuses)
        /\ Len(Tail(late[n])) = Len(late[n]) - 1
        /\ \A i \in 1 .. Len(Tail(late[n])) :
               Tail(late[n])[i] = late[n][i + 1] /\ i + 1 \in 1 .. Len(late[n])
        /\ Len(late[n]) \in Nat
      BY <1>1, QueueFacts DEF NetInv
  <2>2. \A i \in 1 .. Len(Tail(late[n])) : AnswerInv(n, Tail(late[n])[i])
      BY <2>1 DEF NetInv
  <2>3. Len(Tail(late[n])) <= MaxLate
      BY <2>1, ConstantFacts DEF NetInv
  <2>4. \A m \in Nodes : late'[m] = IF m = n THEN Tail(late[n]) ELSE late[m]
      BY <1>1 DEF NetInv
  <2>5. late' \in [Nodes -> Seq(Statuses)]
      BY <1>1, <2>1 DEF NetInv
  <2> QED BY <2>2, <2>3, <2>4, <2>5 DEF NetInv
<1>2. CASE late' = [n \in Nodes |-> <<>>]
  <2>1. <<>> \in Seq(Statuses) /\ Len(<<>>) = 0 /\ 0 <= MaxLate
      BY ConstantFacts
  <2> QED BY <1>2, <2>1 DEF NetInv
<1> QED BY <1>1, <1>2

-----------------------------------------------------------------------------
(* Types, and what holds whatever answers are misread.                      *)

Early == {"transferGet", "getInfo", "transferStart"}
BlockSteps == {"blockStart", "chunkSending", "getBlock"}

\* The fields of the client have their types.
ClientTypes ==
    /\ step \in Steps
    /\ nodeIndex \in 0 .. Cardinality(Nodes)
    /\ targets \in Seq(Nodes)
    /\ failed \subseteq Nodes /\ reported \subseteq Nodes
    /\ block \in Blocks \union {-1} /\ chunk \in Chunks \union {-1}
    /\ mixFormat \in {"unknown", "none", "all", "some"}
    /\ missing \in Seq(Chunks) /\ missingIdx \in 0 .. ChunkNum
    /\ tasks \subseteq Tasks
    /\ outcome \in {"pending", "success", "failure"}
    /\ misread \in BOOLEAN /\ derailed \in BOOLEAN

\* So have those of the connection and the counters.
SessionTypes ==
    /\ config \in Seq(Nodes)
    /\ link \in {"up", "lost", "held", "asking"}
    /\ direct \in Nodes \union {Proxy}
    /\ slot \in Commands \union {NoCommand} /\ retries \in 0 .. RetryCnt
    /\ losses \in 0 .. MaxLoss /\ holds \in 0 .. MaxHold

\* No list has an element twice; no node leaves the configuration.
ListInv ==
    /\ IsInjective(targets)
    /\ IsInjective(config) /\ Range(config) = Nodes
    /\ IsInjective(missing)
    /\ "missing" \in tasks => missingIdx < ChunkNum

\* What the connection took with it stays away until it is back.
LinkInv ==
    /\ link # "up" => slot = NoCommand /\ \A n \in Nodes : late[n] = <<>>
    /\ link \in {"held", "asking"} => outcome = "pending" /\ tasks = {}

\* A transfer under way is in a step, and chunks come after its start.
StepInv ==
    /\ outcome = "pending" \/ "action" \in tasks => step # "idle"
    /\ "chunk" \in tasks \/ "missing" \in tasks => step \notin Early

\* The reliable message is to a target whose turn is now or later, and of this
\* step or of another one of the blocks.
SlotInv ==
    slot # NoCommand /\ outcome = "pending" =>
        /\ \E i \in 1 .. Len(targets) : i > nodeIndex /\ slot.dst = targets[i]
        /\ slot.op = step \/ (slot.op \in BlockSteps /\ step \in BlockSteps)

BaseInv ==
    NetInv /\ ClientTypes /\ SessionTypes /\ ListInv /\ LinkInv /\ StepInv /\ SlotInv

\* In the initial state.
LEMMA InitBase == Init => BaseInv
<1> SUFFICES ASSUME Init PROVE BaseInv
    OBVIOUS
<1>1. <<>> \in Seq(Statuses) /\ Len(<<>>) = 0 /\ 0 <= MaxLate
    BY ConstantFacts
<1>2. NetInv
    BY <1>1, StartedFacts DEF Init, NetInv
<1>3. <<>> \in Seq(Chunks) /\ IsInjective(<<>>)
    BY DEF IsInjective
<1>4. ClientTypes
  <2>1. "transferGet" \in Steps /\ {"action"} \subseteq Tasks
      BY StepFacts DEF Tasks
  <2>2. 0 \in 0 .. Cardinality(Nodes) /\ 0 \in 0 .. ChunkNum
      BY ConstantFacts
  <2> QED BY <1>3, <2>1, <2>2, ConstantFacts DEF Init, ClientTypes
<1>5. SessionTypes
    BY ConstantFacts DEF Init, SessionTypes
<1>6. ListInv /\ LinkInv /\ StepInv /\ SlotInv
    BY <1>3, ConstantFacts DEF Init, ListInv, LinkInv, StepInv, SlotInv
<1> QED BY <1>2, <1>4, <1>5, <1>6 DEF BaseInv

\* The target whose turn it is.
LEMMA TargetFacts ==
    ASSUME ClientTypes, IsInjective(targets), Targeted
    PROVE  /\ Target \in Nodes /\ nodeIndex + 1 \in 1 .. Len(targets) /\ nodeIndex \in Nat
           /\ nodeIndex + 1 <= Cardinality(Nodes)
           /\ \A i \in 1 .. Len(targets) : i > nodeIndex /\ targets[i] # Target => i > nodeIndex + 1
<1>1. nodeIndex + 1 \in 1 .. Len(targets) /\ nodeIndex \in Nat
    BY ConstantFacts DEF ClientTypes, Targeted
<1>2. Target \in Nodes
    BY <1>1 DEF ClientTypes, Target
<1>3. Len(targets) <= Cardinality(Nodes)
    BY LengthBound, ConstantFacts DEF ClientTypes
<1>4. nodeIndex + 1 <= Cardinality(Nodes)
    BY <1>1, <1>3, ConstantFacts DEF ClientTypes
<1>5. \A i \in 1 .. Len(targets) : i > nodeIndex /\ targets[i] # Target => i > nodeIndex + 1
    BY <1>1 DEF Target
<1> QED BY <1>1, <1>2, <1>4, <1>5

\* Once completed, a transfer stays so.
LEMMA CompletedStays ==
    ASSUME LinkInv, [Next]_vars, outcome # "pending"
    PROVE  outcome' = outcome
<1> USE DEF vars, OnTransferComplete
<1>1. ASSUME NEW n \in Nodes, ReceiveStatus(n) PROVE outcome' = outcome
    BY <1>1 DEF ReceiveStatus
<1>2. ASSUME NEW n \in Nodes \union {Proxy}, Reconnect(n) PROVE outcome' = outcome
    BY <1>2 DEF Reconnect
<1>3. CASE StepComplete
    BY <1>3 DEF StepComplete, OnGetBlobBlockComplete, SendChunk
<1>4. CASE StartSending
    BY <1>4 DEF StartSending, SendChunks, SendChunk, CheckMissingChunks
<1>5. CASE ChunkTask
    BY <1>5 DEF ChunkTask, SendChunks, SendChunk, CheckMissingChunks
<1>6. CASE MissingChunkTask
    BY <1>6 DEF MissingChunkTask, SendMissingChunks, SendChunk, CheckMissingChunks
<1>7. CASE SendToTarget \/ StartBlock \/ Retry \/ CommandFail
    BY <1>7 DEF SendToTarget, StartBlock, Retry, CommandFail
<1>8. CASE AllBlocksSent
    BY <1>8 DEF AllBlocksSent
<1>9. CASE LoseConnection \/ Hold
    BY <1>9 DEF LoseConnection, Hold
<1>10. CASE ContinueAnswered
    BY <1>10 DEF ContinueAnswered, LinkInv
<1>11. CASE UNCHANGED vars
    BY <1>11
<1> QED
  BY <1>1, <1>2, <1>3, <1>4, <1>5, <1>6, <1>7, <1>8, <1>9, <1>10, <1>11 DEF Next

\* onTransferMessagePrepared for a command.
LEMMA SendCommandFacts ==
    ASSUME BaseInv, Targeted, NEW cmd \in Commands, SendCommand(cmd)
    PROVE  /\ NetInv'
           /\ \/ /\ link = "up" /\ slot = NoCommand /\ slot' = cmd /\ retries' = RetryCnt
                 /\ failed' = failed /\ reported' = reported
                 /\ Transmit(cmd)
              \/ /\ ~(link = "up" /\ slot = NoCommand)
                 /\ failed' = failed \union {Target} /\ reported' = reported \union {Target}
                 /\ slot' = slot /\ retries' = retries /\ node' = node /\ late' = late
<1>1. CASE /\ link = "up" /\ slot = NoCommand
           /\ slot' = cmd /\ retries' = RetryCnt
           /\ Transmit(cmd) /\ UNCHANGED failures
    BY <1>1, TransmitFacts DEF BaseInv, failures
<1>2. CASE /\ ~(link = "up" /\ slot = NoCommand)
           /\ DeviceFail /\ UNCHANGED <<service, network>>
    BY <1>2 DEF DeviceFail, service, network, BaseInv, NetInv
<1> QED BY <1>1, <1>2 DEF SendCommand

\* onTransferMessagePrepared for a chunk.
LEMMA SendChunkFacts ==
    ASSUME BaseInv, NEW c \in Chunks, NEW task, NEW rest, SendChunk(c, task, rest), late' = late
    PROVE  /\ NetInv' /\ losses' \in 0 .. MaxLoss
           /\ \/ /\ link = "up" /\ tasks' = rest \union {task} /\ step' = step
                 /\ outcome' = outcome
                 /\ \A n \in Nodes : node'[n] \in {node[n], OnChunk(node[n], block, c)}
              \/ /\ link # "up" /\ step' = "idle" /\ tasks' = {task}
                 /\ outcome' = IF outcome = "pending" THEN "failure" ELSE outcome
                 /\ node' = node /\ losses' = losses
<1>1. CASE link = "up" /\ Broadcast(c) /\ tasks' = rest \union {task} /\ UNCHANGED <<step, outcome>>
    BY <1>1, BroadcastFacts DEF BaseInv, ClientTypes, SessionTypes
<1>2. CASE link # "up" /\ OnTransferComplete("failure", {task}) /\ UNCHANGED <<node, losses>>
    BY <1>2 DEF OnTransferComplete, BaseInv, NetInv, SessionTypes
<1> QED BY <1>1, <1>2 DEF SendChunk

\* StepComplete
LEMMA BaseStepComplete ==
    ASSUME BaseInv, StepComplete
    PROVE  BaseInv'
<1>1. /\ targets' \in Seq(Nodes) /\ IsInjective(targets')
    BY WithoutFacts DEF BaseInv, ClientTypes, ListInv, StepComplete, RemainingTargets
<1>2. slot = NoCommand \/ outcome # "pending"
  <2>1. \A i \in 1 .. Len(targets) : ~(i > nodeIndex)
    <3>1. Len(targets) \in Nat /\ nodeIndex \in Nat /\ ~(nodeIndex < Len(targets))
        BY ConstantFacts DEF BaseInv, ClientTypes, StepComplete, Targeted
    <3> QED BY <3>1
  <2> QED BY <2>1 DEF BaseInv, SlotInv
<1>3. /\ step # "idle" /\ link \notin {"held", "asking"}
      /\ slot' = slot /\ retries' = retries /\ late' = late /\ config' = config
      /\ link' = link /\ direct' = direct /\ holds' = holds
      /\ failed' = {} /\ reported' = reported /\ block' = block
      /\ misread' = misread /\ derailed' = derailed
    BY DEF BaseInv, StepInv, LinkInv, StepComplete, session, service
<1>4. 0 \in 0 .. Cardinality(Nodes) /\ -1 \in Chunks \union {-1} /\ 0 \in 0 .. ChunkNum
      /\ 0 < ChunkNum
    BY ConstantFacts
<1> DEFINE rest == tasks \ {"action"}
<1>5. rest \subseteq Tasks /\ rest \union {"action"} \subseteq Tasks
      /\ rest \union {"missing"} \subseteq Tasks /\ {"missing"} \subseteq Tasks
    BY DEF BaseInv, ClientTypes, Tasks
<1>6. /\ SlotInv' \/ outcome' = "pending"
      /\ outcome' = "pending" => outcome = "pending"
      /\ outcome' = "pending" => slot' = NoCommand
      /\ SlotInv'
  <2>1. outcome # "pending" => outcome' # "pending"
      BY CompletedStays DEF BaseInv, Next
  <2> QED BY <1>2, <1>3, <2>1 DEF SlotInv
<1>7. CASE /\ targets' = <<>> /\ OnTransferComplete("failure", {})
           /\ UNCHANGED <<nodeIndex, chunk, report, node, losses>>
  <2>1. /\ step' = "idle" /\ tasks' = {}
        /\ outcome' = IF outcome = "pending" THEN "failure" ELSE outcome
        /\ nodeIndex' = nodeIndex /\ chunk' = chunk /\ mixFormat' = mixFormat
        /\ missing' = missing /\ missingIdx' = missingIdx /\ node' = node /\ losses' = losses
      BY <1>7 DEF OnTransferComplete, report
  <2>2. NetInv'
      BY <2>1, <1>3 DEF BaseInv, NetInv
  <2>3. ClientTypes'
      BY <2>1, <1>1, <1>3, StepFacts DEF BaseInv, ClientTypes
  <2>4. SessionTypes' /\ ListInv' /\ LinkInv' /\ StepInv'
      BY <2>1, <1>1, <1>3 DEF BaseInv, SessionTypes, ListInv, LinkInv, StepInv, Early
  <2> QED BY <2>2, <2>3, <2>4, <1>6 DEF BaseInv
<1>8. CASE /\ step = "getBlock" /\ BlockComplete
           /\ step' = "blockStart" /\ nodeIndex' = 0 /\ tasks' = rest \union {"action"}
           /\ UNCHANGED <<chunk, report, outcome, node, losses>>
  <2> HIDE DEF rest
  <2>1. /\ chunk' = chunk /\ mixFormat' = mixFormat /\ outcome' = outcome
        /\ missing' = missing /\ missingIdx' = missingIdx /\ node' = node /\ losses' = losses
      BY <1>8 DEF report
  <2>2. NetInv'
      BY <2>1, <1>3 DEF BaseInv, NetInv
  <2>3. ClientTypes'
      BY <2>1, <1>1, <1>3, <1>4, <1>5, <1>8, StepFacts DEF BaseInv, ClientTypes
  <2>4. SessionTypes' /\ ListInv' /\ LinkInv' /\ StepInv'
      BY <2>1, <1>1, <1>3, <1>8 DEF BaseInv, SessionTypes, ListInv, LinkInv, StepInv, Early, rest
  <2> QED BY <2>2, <2>3, <2>4, <1>6 DEF BaseInv
<1>9. CASE /\ step = "getBlock" /\ mixFormat = "all"
           /\ step' = "chunkSending" /\ nodeIndex' = 0 /\ chunk' = -1
           /\ tasks' = rest \union {"action"}
           /\ UNCHANGED <<report, outcome, node, losses>>
  <2> HIDE DEF rest
  <2>1. /\ mixFormat' = mixFormat /\ outcome' = outcome
        /\ missing' = missing /\ missingIdx' = missingIdx /\ node' = node /\ losses' = losses
      BY <1>9 DEF report
  <2>2. NetInv'
      BY <2>1, <1>3 DEF BaseInv, NetInv
  <2>3. ClientTypes'
      BY <2>1, <1>1, <1>3, <1>4, <1>5, <1>9, StepFacts DEF BaseInv, ClientTypes
  <2>4. SessionTypes' /\ ListInv' /\ LinkInv' /\ StepInv'
      BY <2>1, <1>1, <1>3, <1>9 DEF BaseInv, SessionTypes, ListInv, LinkInv, StepInv, Early, rest
  <2> QED BY <2>2, <2>3, <2>4, <1>6 DEF BaseInv
<1>10. CASE /\ step = "getBlock" /\ mixFormat = "some" /\ missing # <<>>
            /\ nodeIndex' = 0 /\ missingIdx' = 0
            /\ SendChunk(missing[1], "missing", rest)
            /\ UNCHANGED <<chunk, mixFormat, missing>>
  <2>1. missing[1] \in Chunks
      BY <1>10 DEF BaseInv, ClientTypes
  <2>2. /\ NetInv' /\ losses' \in 0 .. MaxLoss
        /\ \/ /\ tasks' = rest \union {"missing"} /\ step' = step /\ outcome' = outcome
           \/ /\ link # "up" /\ step' = "idle" /\ tasks' = {"missing"}
              /\ outcome' = IF outcome = "pending" THEN "failure" ELSE outcome
      BY <2>1, <1>10, <1>3, SendChunkFacts
  <2> HIDE DEF rest
  <2>3. ClientTypes'
      BY <2>2, <1>1, <1>3, <1>4, <1>5, <1>10, StepFacts DEF BaseInv, ClientTypes
  <2>4. SessionTypes' /\ ListInv'
      BY <2>2, <1>1, <1>3, <1>4, <1>10 DEF BaseInv, SessionTypes, ListInv
  <2>5. LinkInv' /\ StepInv'
      BY <2>2, <1>3, <1>10 DEF BaseInv, LinkInv, StepInv, Early, rest
  <2> QED BY <2>2, <2>3, <2>4, <2>5, <1>6 DEF BaseInv
<1>11. CASE /\ step = "getBlock" /\ mixFormat = "unknown"
            /\ nodeIndex' = 0 /\ tasks' = rest
            /\ UNCHANGED <<step, chunk, report, outcome, node, losses>>
  <2> HIDE DEF rest
  <2>1. /\ chunk' = chunk /\ mixFormat' = mixFormat /\ outcome' = outcome /\ step' = step
        /\ missing' = missing /\ missingIdx' = missingIdx /\ node' = node /\ losses' = losses
      BY <1>11 DEF report
  <2>2. NetInv'
      BY <2>1, <1>3 DEF BaseInv, NetInv
  <2>3. ClientTypes'
      BY <2>1, <1>1, <1>3, <1>4, <1>5, <1>11 DEF BaseInv, ClientTypes
  <2>4. SessionTypes' /\ ListInv' /\ LinkInv' /\ StepInv'
      BY <2>1, <1>1, <1>3, <1>11 DEF BaseInv, SessionTypes, ListInv, LinkInv, StepInv, Early, rest
  <2> QED BY <2>2, <2>3, <2>4, <1>6 DEF BaseInv
<1>12. CASE /\ step # "getBlock"
            /\ step' = NextStep(step) /\ nodeIndex' = 0
            /\ UNCHANGED <<chunk, report, tasks, outcome, node, losses>>
  <2>1. /\ chunk' = chunk /\ mixFormat' = mixFormat /\ outcome' = outcome /\ tasks' = tasks
        /\ missing' = missing /\ missingIdx' = missingIdx /\ node' = node /\ losses' = losses
      BY <1>12 DEF report
  <2>2. /\ step' \in Steps /\ step' # "idle"
        /\ step' \in Early => step \in Early
      BY <1>12, <1>3, StepFacts DEF BaseInv, ClientTypes, Early
  <2>3. NetInv'
      BY <2>1, <1>3 DEF BaseInv, NetInv
  <2>4. ClientTypes'
      BY <2>1, <2>2, <1>1, <1>3, <1>4, <1>12 DEF BaseInv, ClientTypes
  <2>5. SessionTypes' /\ ListInv' /\ LinkInv' /\ StepInv'
      BY <2>1, <2>2, <1>1, <1>3, <1>12 DEF BaseInv, SessionTypes, ListInv, LinkInv, StepInv
  <2> QED BY <2>3, <2>4, <2>5, <1>6 DEF BaseInv
<1> QED BY <1>7, <1>8, <1>9, <1>10, <1>11, <1>12 DEF StepComplete, OnGetBlobBlockComplete

\* SendToTarget
LEMMA BaseSendToTarget ==
    ASSUME BaseInv, SendToTarget
    PROVE  BaseInv'
<1> DEFINE cmd == [op |-> step, dst |-> Target, block |-> block]
<1>1. /\ step' = step /\ nodeIndex' = nodeIndex /\ targets' = targets /\ block' = block
      /\ chunk' = chunk /\ mixFormat' = mixFormat /\ missing' = missing
      /\ missingIdx' = missingIdx /\ config' = config /\ link' = link /\ direct' = direct
      /\ outcome' = outcome /\ misread' = misread /\ losses' = losses /\ holds' = holds
      /\ derailed' = derailed /\ tasks' = tasks \ {"action"} /\ "action" \in tasks
    BY DEF SendToTarget, report, session
<1>2. /\ Target \in Nodes /\ nodeIndex + 1 \in 1 .. Len(targets) /\ nodeIndex \in Nat
      /\ Target = targets[nodeIndex + 1]
    BY TargetFacts DEF BaseInv, ListInv, SendToTarget, Target
<1>3. cmd \in Commands /\ cmd.op = step /\ cmd.dst = Target
    BY <1>2, StepFacts DEF SendToTarget, Commands, BaseInv, ClientTypes
<1>4. /\ NetInv'
      /\ \/ /\ link = "up" /\ slot' = cmd /\ retries' = RetryCnt
            /\ failed' = failed /\ reported' = reported
         \/ /\ failed' = failed \union {Target} /\ reported' = reported \union {Target}
            /\ slot' = slot /\ retries' = retries /\ node' = node /\ late' = late
    BY <1>3, SendCommandFacts DEF SendToTarget
<1> HIDE DEF cmd
<1>5. ClientTypes'
    BY <1>1, <1>2, <1>4 DEF BaseInv, ClientTypes
<1>6. SessionTypes'
    BY <1>1, <1>3, <1>4, ConstantFacts DEF BaseInv, SessionTypes
<1>7. ListInv' /\ LinkInv' /\ StepInv'
    BY <1>1, <1>4 DEF BaseInv, ListInv, LinkInv, StepInv
<1>8. SlotInv'
  <2>1. nodeIndex + 1 > nodeIndex
      BY <1>2
  <2>2. CASE slot' = cmd
      BY <1>1, <1>2, <1>3, <2>1, <2>2 DEF SlotInv
  <2>3. CASE slot' = slot
      BY <1>1, <2>3 DEF BaseInv, SlotInv
  <2> QED BY <1>4, <2>2, <2>3
<1> QED BY <1>4, <1>5, <1>6, <1>7, <1>8 DEF BaseInv

\* StartBlock
LEMMA BaseStartBlock ==
    ASSUME BaseInv, StartBlock
    PROVE  BaseInv'
<1> DEFINE cmd == [op |-> step, dst |-> Target, block |-> block']
<1>1. /\ step' = step /\ nodeIndex' = nodeIndex /\ targets' = targets
      /\ mixFormat' = mixFormat /\ missing' = missing
      /\ missingIdx' = missingIdx /\ config' = config /\ link' = link /\ direct' = direct
      /\ outcome' = outcome /\ misread' = misread /\ losses' = losses /\ holds' = holds
      /\ derailed' \in BOOLEAN
      /\ tasks' = tasks \ {"action"} /\ "action" \in tasks /\ step = "blockStart"
    BY DEF StartBlock, report, session, BaseInv, ClientTypes, FirstOfBlock
<1>2. /\ Target \in Nodes /\ nodeIndex + 1 \in 1 .. Len(targets) /\ nodeIndex \in Nat
      /\ Target = targets[nodeIndex + 1]
    BY TargetFacts DEF BaseInv, ListInv, StartBlock, Target
<1>3. /\ block' \in Blocks \union {-1} /\ chunk' \in Chunks \union {-1}
  <2>1. FirstOfBlock => block + 1 \in Blocks
      BY ConstantFacts DEF StartBlock, HasNextBlock, Blocks, BaseInv, ClientTypes
  <2> QED BY <2>1 DEF StartBlock, BaseInv, ClientTypes
<1>4. cmd \in Commands /\ cmd.op = step /\ cmd.dst = Target
    BY <1>1, <1>2, <1>3, StepFacts DEF Commands
<1>5. /\ NetInv'
      /\ \/ /\ link = "up" /\ slot' = cmd /\ retries' = RetryCnt
            /\ failed' = failed /\ reported' = reported
         \/ /\ failed' = failed \union {Target} /\ reported' = reported \union {Target}
            /\ slot' = slot /\ retries' = retries /\ node' = node /\ late' = late
    BY <1>4, SendCommandFacts DEF StartBlock
<1> HIDE DEF cmd
<1>6. ClientTypes'
    BY <1>1, <1>2, <1>3, <1>5 DEF BaseInv, ClientTypes
<1>7. SessionTypes'
    BY <1>1, <1>4, <1>5, ConstantFacts DEF BaseInv, SessionTypes
<1>8. ListInv' /\ LinkInv' /\ StepInv'
    BY <1>1, <1>5 DEF BaseInv, ListInv, LinkInv, StepInv
<1>9. SlotInv'
  <2>1. nodeIndex + 1 > nodeIndex
      BY <1>2
  <2>2. CASE slot' = cmd
      BY <1>1, <1>2, <1>4, <2>1, <2>2 DEF SlotInv
  <2>3. CASE slot' = slot
      BY <1>1, <2>3 DEF BaseInv, SlotInv
  <2> QED BY <1>5, <2>2, <2>3
<1> QED BY <1>5, <1>6, <1>7, <1>8, <1>9 DEF BaseInv

\* AllBlocksSent
LEMMA BaseAllBlocksSent ==
    ASSUME BaseInv, AllBlocksSent
    PROVE  BaseInv'
<1>1. /\ step' = "idle" /\ tasks' = {} /\ "action" \in tasks
      /\ outcome' = IF outcome = "pending" THEN "success" ELSE outcome
      /\ nodeIndex' = nodeIndex /\ targets' = targets /\ block' = block
      /\ failed' = failed /\ reported' = reported
      /\ chunk' = chunk /\ mixFormat' = mixFormat /\ missing' = missing
      /\ missingIdx' = missingIdx /\ config' = config /\ link' = link /\ direct' = direct
      /\ misread' = misread /\ losses' = losses /\ holds' = holds
      /\ derailed' = derailed /\ slot' = slot /\ retries' = retries
      /\ node' = node /\ late' = late
    BY DEF AllBlocksSent, report, session, failures, service, network, OnTransferComplete
<1>2. NetInv' /\ ClientTypes'
    BY <1>1, StepFacts DEF BaseInv, NetInv, ClientTypes
<1>3. SessionTypes' /\ ListInv'
    BY <1>1 DEF BaseInv, SessionTypes, ListInv
<1>4. LinkInv' /\ StepInv' /\ SlotInv'
    BY <1>1 DEF BaseInv, LinkInv, StepInv, SlotInv, Early
<1> QED BY <1>2, <1>3, <1>4 DEF BaseInv

\* What a step of one of the two chunk loops leaves alone.
ChunkLoop ==
    /\ targets' = targets /\ failed' = failed /\ reported' = reported /\ block' = block
    /\ config' = config /\ link' = link /\ direct' = direct /\ slot' = slot
    /\ retries' = retries /\ late' = late /\ misread' = misread /\ holds' = holds
    /\ derailed' = derailed

\* Chunk c is sent and task is to go on, or the transfer is completed.
ChunkStep(c, task, rest) ==
    /\ SendChunk(c, task, rest)
    /\ nodeIndex' = nodeIndex /\ mixFormat' = mixFormat /\ missing' = missing

\* A loop sends a chunk.
LEMMA BaseChunkStep ==
    ASSUME BaseInv, ChunkLoop, NEW c \in Chunks, NEW task \in {"chunk", "missing"},
           NEW rest \in SUBSET tasks, ChunkStep(c, task, rest),
           tasks # {}, step \notin Early, step # "idle" \/ ~("action" \in rest),
           chunk' \in Chunks \union {-1}, missingIdx' \in 0 .. ChunkNum,
           "missing" \in rest \union {task} => missingIdx' < ChunkNum
    PROVE  BaseInv'
<1>1. /\ NetInv' /\ losses' \in 0 .. MaxLoss
      /\ \/ /\ link = "up" /\ tasks' = rest \union {task} /\ step' = step /\ outcome' = outcome
         \/ /\ link # "up" /\ step' = "idle" /\ tasks' = {task}
            /\ outcome' = IF outcome = "pending" THEN "failure" ELSE outcome
    BY SendChunkFacts DEF ChunkStep, ChunkLoop
<1>2. rest \union {task} \subseteq Tasks /\ {task} \subseteq Tasks
    BY DEF BaseInv, ClientTypes, Tasks
<1>3. ClientTypes'
    BY <1>1, <1>2, StepFacts DEF BaseInv, ClientTypes, ChunkLoop, ChunkStep
<1>4. SessionTypes' /\ ListInv'
    BY <1>1 DEF BaseInv, SessionTypes, ListInv, ChunkLoop, ChunkStep
<1>5. LinkInv'
    BY <1>1 DEF BaseInv, LinkInv, ChunkLoop
<1>6. StepInv'
    BY <1>1 DEF BaseInv, StepInv, Early
<1>7. SlotInv'
    BY <1>1 DEF BaseInv, SlotInv, ChunkLoop, ChunkStep
<1> QED BY <1>1, <1>3, <1>4, <1>5, <1>6, <1>7 DEF BaseInv

\* A loop is through and asks the targets what they miss.
LEMMA BaseCheck ==
    ASSUME BaseInv, ChunkLoop, NEW rest \in SUBSET tasks, CheckMissingChunks(rest),
           tasks # {}, step \in BlockSteps \/ outcome # "pending",
           chunk' \in Chunks \union {-1}, missingIdx' \in 0 .. ChunkNum,
           "missing" \in rest => missingIdx' < ChunkNum
    PROVE  BaseInv'
<1>1. /\ missing' = <<>> /\ mixFormat' = "unknown" /\ step' = "getBlock" /\ nodeIndex' = 0
      /\ tasks' = rest \union {"action"}
      /\ outcome' = outcome /\ node' = node /\ losses' = losses
    BY DEF CheckMissingChunks
<1>2. rest \union {"action"} \subseteq Tasks /\ <<>> \in Seq(Chunks) /\ IsInjective(<<>>)
      /\ 0 \in 0 .. Cardinality(Nodes)
    BY ConstantFacts DEF BaseInv, ClientTypes, Tasks, IsInjective
<1>3. ClientTypes'
    BY <1>1, <1>2, StepFacts DEF BaseInv, ClientTypes, ChunkLoop
<1>4. SessionTypes' /\ ListInv'
    BY <1>1, <1>2 DEF BaseInv, SessionTypes, ListInv, ChunkLoop
<1>5. NetInv'
    BY <1>1 DEF BaseInv, NetInv, ChunkLoop
<1>6. LinkInv'
    BY <1>1 DEF BaseInv, LinkInv, ChunkLoop
<1>7. StepInv'
    BY <1>1 DEF BaseInv, StepInv, Early
<1>8. SlotInv'
  <2> SUFFICES ASSUME slot # NoCommand, outcome = "pending"
               PROVE  SlotInv'
      BY <1>1 DEF SlotInv, ChunkLoop
  <2>1. PICK i \in 1 .. Len(targets) : i > nodeIndex /\ slot.dst = targets[i]
      BY DEF BaseInv, SlotInv
  <2>2. i > 0
      BY <2>1
  <2>3. slot.op \in BlockSteps /\ "getBlock" \in BlockSteps
      BY DEF BaseInv, SlotInv, BlockSteps
  <2> QED BY <1>1, <2>1, <2>2, <2>3 DEF SlotInv, ChunkLoop
<1> QED BY <1>3, <1>4, <1>5, <1>6, <1>7, <1>8 DEF BaseInv

\* StartSending, the task of chunkSending's first step, and chunkSendingTask.
LEMMA BaseSendChunks ==
    ASSUME BaseInv, StartSending \/ ChunkTask
    PROVE  BaseInv'
<1>1. PICK rest \in SUBSET tasks :
        /\ SendChunks(rest)
        /\ \/ "action" \in tasks /\ step = "chunkSending"
           \/ "chunk" \in tasks
    BY DEF StartSending, ChunkTask
<1>2. ChunkLoop /\ missingIdx' = missingIdx /\ tasks # {}
    BY <1>1 DEF ChunkLoop, StartSending, ChunkTask, failures, session, service
<1>3. /\ step \notin Early /\ (step # "idle" \/ ~("action" \in rest))
      /\ (step \in BlockSteps \/ outcome # "pending")
      /\ "missing" \in rest => missingIdx' < ChunkNum
    BY <1>1, <1>2, StepFacts
    DEF BaseInv, StepInv, ClientTypes, ListInv, Early, BlockSteps
<1>4. missingIdx' \in 0 .. ChunkNum
    BY <1>2 DEF BaseInv, ClientTypes
<1>5. CASE /\ chunk + 1 < ChunkNum /\ chunk' = chunk + 1
           /\ SendChunk(chunk + 1, "chunk", rest)
           /\ UNCHANGED <<nodeIndex, mixFormat, missing>>
  <2>1. chunk + 1 \in Chunks
      BY <1>5, ConstantFacts DEF BaseInv, ClientTypes, Chunks
  <2>2. ChunkStep(chunk + 1, "chunk", rest) /\ chunk' \in Chunks \union {-1}
      BY <1>5, <2>1 DEF ChunkStep
  <2> HIDE DEF ChunkLoop
  <2> QED BY <2>1, <2>2, <1>2, <1>3, <1>4, BaseChunkStep
<1>6. CASE chunk + 1 >= ChunkNum /\ CheckMissingChunks(rest) /\ UNCHANGED chunk
  <2>1. chunk' \in Chunks \union {-1}
      BY <1>6 DEF BaseInv, ClientTypes
  <2> QED BY <2>1, <1>6, <1>2, <1>3, <1>4, BaseCheck
<1> QED BY <1>1, <1>5, <1>6 DEF SendChunks

\* MissingChunkTask
LEMMA BaseMissingChunkTask ==
    ASSUME BaseInv, MissingChunkTask
    PROVE  BaseInv'
<1> DEFINE rest == tasks \ {"missing"}
<1>1. /\ SendMissingChunks(rest) /\ missingIdx' = missingIdx + 1 /\ chunk' = chunk
      /\ "missing" \in tasks /\ tasks # {}
    BY DEF MissingChunkTask
<1>2. ChunkLoop
    BY DEF ChunkLoop, MissingChunkTask, failures, session, service
<1>3. /\ step \notin Early /\ (step # "idle" \/ ~("action" \in rest))
      /\ (step \in BlockSteps \/ outcome # "pending")
      /\ "missing" \notin rest
      /\ chunk' \in Chunks \union {-1}
    BY <1>1, StepFacts DEF BaseInv, StepInv, ClientTypes, Early, BlockSteps
<1>4. missingIdx' \in 0 .. ChunkNum /\ missingIdx' \in Nat
    BY <1>1, ConstantFacts DEF BaseInv, ClientTypes, ListInv
<1>5. Len(missing) <= ChunkNum /\ Len(missing) \in Nat
    BY LengthBound, ConstantFacts DEF BaseInv, ClientTypes, ListInv
<1>6. CASE /\ missingIdx' < Len(missing)
           /\ SendChunk(missing[missingIdx' + 1], "missing", rest)
           /\ UNCHANGED <<nodeIndex, mixFormat, missing>>
  <2> DEFINE i == missingIdx'
  <2>0. i < Len(missing)
      BY <1>6
  <2>1. missingIdx' + 1 \in 1 .. Len(missing)
    <3>1. i \in Nat
        BY <1>4
    <3> HIDE DEF i
    <3>2. i + 1 \in 1 .. Len(missing)
        BY <3>1, <2>0, <1>5
    <3> QED BY <3>2 DEF i
  <2>2. missing[missingIdx' + 1] \in Chunks
      BY <2>1 DEF BaseInv, ClientTypes
  <2>3. ChunkStep(missing[missingIdx' + 1], "missing", rest)
      BY <1>6 DEF ChunkStep
  <2>4. missingIdx' < ChunkNum
      BY <1>4, <1>5, <1>6, ConstantFacts
  <2> DEFINE c == missing[missingIdx' + 1]
  <2> HIDE DEF c
  <2>5. c \in Chunks /\ ChunkStep(c, "missing", rest) /\ rest \in SUBSET tasks
      BY <2>2, <2>3 DEF c
  <2> HIDE DEF rest
  <2> QED BY <2>4, <2>5, <1>1, <1>2, <1>3, <1>4, BaseChunkStep
<1>7. CASE missingIdx' >= Len(missing) /\ CheckMissingChunks(rest)
  <2>1. rest \in SUBSET tasks
      OBVIOUS
  <2> HIDE DEF rest
  <2> QED BY <2>1, <1>7, <1>1, <1>2, <1>3, <1>4, BaseCheck
<1> QED BY <1>1, <1>6, <1>7 DEF SendMissingChunks

\* The chunks of a block as a list.
LEMMA ChunkSeqFacts == ChunkSeq \in Seq(Chunks) /\ Range(ChunkSeq) = Chunks /\ IsInjective(ChunkSeq)
<1>1. /\ DOMAIN ChunkSeq = 1 .. ChunkNum
      /\ \A i \in 1 .. ChunkNum : ChunkSeq[i] = i - 1 /\ i - 1 \in Chunks
      /\ \A c \in Chunks : c + 1 \in 1 .. ChunkNum /\ (c + 1) - 1 = c
    BY ConstantFacts DEF ChunkSeq, Chunks
<1>2. ChunkSeq \in Seq(Chunks)
    BY <1>1, ConstantFacts DEF ChunkSeq
<1>3. Range(ChunkSeq) = Chunks
  <2>1. \A c \in Chunks : c = ChunkSeq[c + 1]
      BY <1>1
  <2> QED BY <2>1, <1>1 DEF Range
<1>4. IsInjective(ChunkSeq)
    BY <1>1 DEF IsInjective
<1> QED BY <1>2, <1>3, <1>4

\* mixMissingChunks adds chunks that are not in the list; when some are missing at
\* a node, none is left only if the list is not empty.
LEMMA MixFacts ==
    ASSUME ClientTypes, IsInjective(missing), NEW s \in Statuses
    PROVE  /\ Mix(s.format) \in {"none", "all", "some"} \union {mixFormat}
           /\ MixMissing(s) \in Seq(Chunks) /\ IsInjective(MixMissing(s))
           /\ missing # <<>> => MixMissing(s) # <<>>
           /\ s.miss # {} /\ Mix(s.format) # "all" => MixMissing(s) # <<>>
<1> DEFINE w == Without(ChunkSeq, Range(missing) \union (Chunks \ s.miss))
<1>1. s.format \in {"none", "all", "some"} /\ s.miss \subseteq Chunks
    BY DEF Statuses
<1>2. missing \in Seq(Chunks) /\ Range(missing) \subseteq Chunks
    BY RangeFacts DEF ClientTypes
<1>3. /\ w \in Seq(Chunks) /\ IsInjective(w)
      /\ Range(w) = Chunks \ (Range(missing) \union (Chunks \ s.miss))
    BY WithoutFacts, ChunkSeqFacts
<1> HIDE DEF w
<1>4. /\ missing \o w \in Seq(Chunks) /\ IsInjective(missing \o w)
      /\ Range(missing \o w) = Range(missing) \union Range(w)
  <2>1. Range(missing) \cap Range(w) = {}
      BY <1>3
  <2> QED BY <2>1, <1>2, <1>3, ConcatFacts
<1>5. /\ missing # <<>> => missing \o w # <<>>
      /\ s.miss # {} => missing \o w # <<>>
  <2>1. \A q \in Seq(Chunks) : q = <<>> <=> Range(q) = {}
    <3>1. ASSUME NEW q \in Seq(Chunks), q # <<>> PROVE q[1] \in Range(q)
        BY <3>1 DEF Range
    <3>2. Range(<<>>) = {}
        BY DEF Range
    <3> QED BY <3>1, <3>2
  <2>2. s.miss \subseteq Range(missing \o w)
      BY <1>1, <1>3, <1>4
  <2> QED BY <2>1, <2>2, <1>2, <1>4
<1>6. MixMissing(s) = IF Mix(s.format) = "all" THEN missing ELSE missing \o w
    BY DEF MixMissing, w
<1>7. Mix(s.format) \in {"none", "all", "some"} \union {mixFormat}
    BY <1>1 DEF Mix
<1> QED BY <1>2, <1>4, <1>5, <1>6, <1>7

\* ReceiveStatus
LEMMA BaseReceiveStatus ==
    ASSUME BaseInv, NEW n \in Nodes, ReceiveStatus(n)
    PROVE  BaseInv'
<1> DEFINE s == Head(late[n])
           answered == slot # NoCommand /\ slot.dst = n /\ Answer(slot.op) = s.op
<1>1. late[n] # <<>> /\ late[n] \in Seq(Statuses) /\ s \in Statuses
  <2>1. late[n] # <<>> /\ late[n] \in Seq(Statuses)
      BY DEF BaseInv, NetInv, ReceiveStatus
  <2> QED BY <2>1, QueueFacts
<1>2. /\ step' = step /\ targets' = targets /\ missingIdx' = missingIdx
      /\ config' = config /\ link' = link /\ direct' = direct /\ retries' = retries
      /\ node' = node /\ outcome' = outcome /\ losses' = losses /\ holds' = holds
      /\ derailed' = derailed
      /\ late' = [late EXCEPT ![n] = Tail(@)]
      /\ slot' = IF answered THEN NoCommand ELSE slot
    BY DEF ReceiveStatus, session
<1>3. link = "up"
    BY <1>1 DEF BaseInv, LinkInv
<1>4. NetInv'
    BY <1>1, <1>2, AnswersGone DEF BaseInv
<1>5. CASE ~Accepts(s, n)
  <2>1. /\ nodeIndex' = nodeIndex /\ tasks' = tasks /\ failed' = failed
        /\ reported' = reported /\ mixFormat' = mixFormat /\ missing' = missing
        /\ block' = block /\ chunk' = chunk /\ misread' = misread
      BY <1>5 DEF ReceiveStatus, failures
  <2> HIDE DEF s
  <2>2. ClientTypes' /\ SessionTypes'
      BY <2>1, <1>2 DEF BaseInv, ClientTypes, SessionTypes
  <2>3. ListInv' /\ LinkInv' /\ StepInv'
      BY <2>1, <1>2, <1>3 DEF BaseInv, ListInv, LinkInv, StepInv
  <2>4. SlotInv'
      BY <2>1, <1>2 DEF BaseInv, SlotInv
  <2> QED BY <2>2, <2>3, <2>4, <1>4 DEF BaseInv
<1>6. CASE Accepts(s, n)
  <2>1. /\ nodeIndex' = nodeIndex + 1 /\ tasks' = tasks \union {"action"}
        /\ \/ failed' = failed /\ reported' = reported
           \/ failed' = failed \union {Target} /\ reported' = reported \union {Target}
        /\ \/ mixFormat' = mixFormat /\ missing' = missing
           \/ mixFormat' = Mix(s.format) /\ missing' = MixMissing(s)
        /\ \/ block' = block /\ chunk' = chunk
           \/ block' = -1 /\ chunk' = -1
        /\ misread' \in BOOLEAN
      BY <1>6 DEF ReceiveStatus, OnStatus, NextTarget, DeviceFail, failures, BaseInv, ClientTypes
  <2>2. /\ outcome = "pending" /\ Targeted /\ Target = n
        /\ step \notin {"idle", "chunkSending"} /\ s.op = Answer(step)
      BY <1>6 DEF Accepts
  <2>3. /\ Target \in Nodes /\ nodeIndex + 1 \in 0 .. Cardinality(Nodes)
        /\ nodeIndex + 1 \in 1 .. Len(targets) /\ nodeIndex \in Nat
        /\ \A i \in 1 .. Len(targets) :
               i > nodeIndex /\ targets[i] # Target => i > nodeIndex + 1
      BY <2>2, TargetFacts, ConstantFacts DEF BaseInv, ListInv
  <2>4. /\ mixFormat' \in {"unknown", "none", "all", "some"}
        /\ missing' \in Seq(Chunks) /\ IsInjective(missing')
      BY <2>1, <1>1, MixFacts DEF BaseInv, ListInv, ClientTypes
  <2>5. tasks \union {"action"} \subseteq Tasks
      BY DEF BaseInv, ClientTypes, Tasks
  <2>6. slot # NoCommand /\ slot.dst = n => answered
    <3>1. SUFFICES ASSUME slot # NoCommand, slot.dst = n PROVE Answer(slot.op) = s.op
        OBVIOUS
    <3>2. slot.op = step \/ (slot.op \in BlockSteps /\ step \in BlockSteps)
        BY <3>1, <2>2 DEF BaseInv, SlotInv
    <3>3. slot \in Commands
        BY <3>1 DEF BaseInv, SessionTypes
    <3>4. slot.op # "chunkSending"
        BY <3>3, CommandFields
    <3>5. Answer("blockStart") = Answer("getBlock")
        BY DEF Answer
    <3> QED BY <3>2, <3>4, <3>5, <2>2 DEF BlockSteps
  <2> HIDE DEF s, answered
  <2>7. ClientTypes'
      BY <2>1, <2>3, <2>4, <2>5, <1>2 DEF BaseInv, ClientTypes
  <2>8. SessionTypes' /\ ListInv'
      BY <2>1, <2>4, <1>2 DEF BaseInv, ClientTypes, SessionTypes, ListInv
  <2>9. LinkInv'
      BY <1>2, <1>3 DEF LinkInv
  <2>10. StepInv'
      BY <2>1, <2>2, <1>2 DEF BaseInv, StepInv
  <2>11. SlotInv'
    <3> SUFFICES ASSUME slot # NoCommand, slot.dst # n
                 PROVE  SlotInv'
        BY <2>6, <1>2 DEF SlotInv
    <3>1. slot' \in {slot, NoCommand}
        BY <1>2
    <3>2. PICK i \in 1 .. Len(targets) : i > nodeIndex /\ slot.dst = targets[i]
        BY <2>2 DEF BaseInv, SlotInv
    <3>3. i > nodeIndex + 1
        BY <3>2, <2>2, <2>3
    <3>4. slot.op = step \/ (slot.op \in BlockSteps /\ step \in BlockSteps)
        BY <2>2 DEF BaseInv, SlotInv
    <3> QED BY <3>1, <3>2, <3>3, <3>4, <2>1, <1>2 DEF SlotInv
  <2> QED BY <2>7, <2>8, <2>9, <2>10, <2>11, <1>4 DEF BaseInv
<1> QED BY <1>5, <1>6

\* Retry
LEMMA BaseRetry ==
    ASSUME BaseInv, Retry
    PROVE  BaseInv'
<1>1. /\ slot # NoCommand /\ retries > 0 /\ retries' = retries - 1 /\ Transmit(slot)
      /\ step' = step /\ nodeIndex' = nodeIndex /\ targets' = targets
      /\ failed' = failed /\ reported' = reported /\ block' = block /\ chunk' = chunk
      /\ mixFormat' = mixFormat /\ missing' = missing /\ missingIdx' = missingIdx
      /\ tasks' = tasks /\ config' = config /\ link' = link /\ direct' = direct
      /\ slot' = slot /\ outcome' = outcome /\ misread' = misread /\ losses' = losses
      /\ holds' = holds /\ derailed' = derailed
    BY DEF Retry, report, session, failures
<1>2. NetInv'
    BY <1>1, TransmitFacts DEF BaseInv, SessionTypes
<1>3. ClientTypes'
    BY <1>1 DEF BaseInv, ClientTypes
<1>4. SessionTypes' /\ ListInv'
    BY <1>1, ConstantFacts DEF BaseInv, SessionTypes, ListInv
<1>5. LinkInv' /\ StepInv' /\ SlotInv'
    BY <1>1 DEF BaseInv, LinkInv, StepInv, SlotInv
<1> QED BY <1>2, <1>3, <1>4, <1>5 DEF BaseInv

\* CommandFail
LEMMA BaseCommandFail ==
    ASSUME BaseInv, CommandFail
    PROVE  BaseInv'
<1>1. /\ slot # NoCommand /\ slot' = NoCommand
      /\ step' = step /\ targets' = targets /\ block' = block /\ chunk' = chunk
      /\ mixFormat' = mixFormat /\ missing' = missing /\ missingIdx' = missingIdx
      /\ config' = config /\ link' = link /\ direct' = direct /\ retries' = retries
      /\ node' = node /\ late' = late
      /\ outcome' = outcome /\ misread' = misread /\ losses' = losses
      /\ holds' = holds /\ derailed' = derailed
    BY DEF CommandFail, report, session, network
<1>2. link = "up"
    BY <1>1 DEF BaseInv, LinkInv
<1>3. \/ /\ nodeIndex' = nodeIndex /\ tasks' = tasks /\ failed' = failed /\ reported' = reported
      \/ /\ outcome = "pending"
         /\ nodeIndex' = nodeIndex + 1 /\ tasks' = tasks \union {"action"}
         /\ failed' = failed \union {Target} /\ reported' = reported \union {Target}
    BY DEF CommandFail, NextTarget, DeviceFail, failures
<1>4. outcome = "pending" => Targeted
  <2> SUFFICES ASSUME outcome = "pending" PROVE Targeted
      OBVIOUS
  <2>1. PICK i \in 1 .. Len(targets) : i > nodeIndex
      BY <1>1 DEF BaseInv, SlotInv
  <2>2. nodeIndex \in Nat /\ Len(targets) \in Nat
      BY ConstantFacts DEF BaseInv, ClientTypes
  <2> QED BY <2>1, <2>2 DEF Targeted
<1>5. outcome = "pending" => Target \in Nodes /\ nodeIndex + 1 \in 0 .. Cardinality(Nodes)
    BY <1>4, TargetFacts, ConstantFacts DEF BaseInv, ListInv
<1>6. tasks \union {"action"} \subseteq Tasks
    BY DEF BaseInv, ClientTypes, Tasks
<1>7. NetInv'
    BY <1>1 DEF BaseInv, NetInv
<1>8. ClientTypes'
    BY <1>1, <1>3, <1>5, <1>6 DEF BaseInv, ClientTypes
<1>9. SessionTypes' /\ ListInv'
    BY <1>1, <1>3 DEF BaseInv, SessionTypes, ListInv, ClientTypes
<1>10. LinkInv' /\ SlotInv'
    BY <1>1, <1>2 DEF LinkInv, SlotInv
<1>11. StepInv'
    BY <1>1, <1>3 DEF BaseInv, StepInv
<1> QED BY <1>7, <1>8, <1>9, <1>10, <1>11 DEF BaseInv

\* LoseConnection and Hold
LEMMA BaseConnectionLost ==
    ASSUME BaseInv, LoseConnection \/ Hold
    PROVE  BaseInv'
<1>1. /\ step' = step /\ nodeIndex' = nodeIndex /\ targets' = targets
      /\ failed' = failed /\ reported' = reported /\ block' = block /\ chunk' = chunk
      /\ mixFormat' = mixFormat /\ missing' = missing /\ missingIdx' = missingIdx
      /\ config' = config /\ direct' = direct /\ retries' = retries /\ node' = node
      /\ outcome' = outcome /\ outcome = "pending" /\ misread' = misread /\ losses' = losses
    BY DEF LoseConnection, Hold, report, session, failures, service, network
<1>2. \/ /\ link' = "lost" /\ holds < MaxHold /\ holds' = holds + 1 /\ slot' = NoCommand
         /\ late' = [n \in Nodes |-> <<>>] /\ tasks' = tasks /\ derailed' \in BOOLEAN
      \/ /\ link = "lost" /\ link' = "held" /\ holds' = holds /\ slot' = slot /\ late' = late
         /\ tasks' = {} /\ derailed' = derailed
    BY DEF LoseConnection, Hold, service, network, BaseInv, ClientTypes, FirstOfBlock
<1>3. NetInv'
    BY <1>1, <1>2, AnswersGone DEF BaseInv, NetInv
<1>4. ClientTypes'
    BY <1>1, <1>2 DEF BaseInv, ClientTypes
<1>5. SessionTypes' /\ ListInv'
    BY <1>1, <1>2, ConstantFacts DEF BaseInv, SessionTypes, ListInv
<1>6. LinkInv' /\ StepInv' /\ SlotInv'
    BY <1>1, <1>2 DEF BaseInv, LinkInv, StepInv, SlotInv
<1> QED BY <1>3, <1>4, <1>5, <1>6 DEF BaseInv

\* Reconnect
LEMMA BaseReconnect ==
    ASSUME BaseInv, NEW n \in Nodes \union {Proxy}, Reconnect(n)
    PROVE  BaseInv'
<1>1. /\ step' = step /\ nodeIndex' = nodeIndex /\ failed' = {} /\ reported' = reported
      /\ block' = block /\ chunk' = chunk /\ mixFormat' = mixFormat /\ missing' = missing
      /\ missingIdx' = missingIdx /\ tasks' = tasks /\ retries' = retries /\ slot' = slot
      /\ node' = node /\ late' = late /\ outcome' = outcome /\ misread' = misread
      /\ losses' = losses /\ holds' = holds /\ link = "held" /\ link' = "asking" /\ direct' = n
      /\ targets' = config' /\ derailed' \in BOOLEAN
    BY DEF Reconnect, report, service, network, BaseInv, ClientTypes
<1> DEFINE w == Without(config, {n})
           l == IF n \in Nodes THEN <<n>> ELSE <<>>
<1>2. config' = w \o l
    BY DEF Reconnect
<1>3. /\ w \in Seq(Nodes) /\ Range(w) = Nodes \ {n} /\ IsInjective(w)
    BY WithoutFacts DEF BaseInv, SessionTypes, ListInv
<1>4. l \in Seq(Nodes) /\ Range(l) = Nodes \cap {n} /\ IsInjective(l)
  <2>1. CASE n \in Nodes
    <3>1. l = <<n>> /\ DOMAIN <<n>> = {1} /\ <<n>>[1] = n
        BY <2>1
    <3> QED BY <3>1, <2>1 DEF Range, IsInjective
  <2>2. CASE n \notin Nodes
    <3>1. l = <<>> /\ DOMAIN <<>> = {}
        BY <2>2
    <3> QED BY <3>1, <2>2 DEF Range, IsInjective
  <2> QED BY <2>1, <2>2
<1> HIDE DEF w, l
<1>5. config' \in Seq(Nodes) /\ Range(config') = Nodes /\ IsInjective(config')
  <2>1. Range(w) \cap Range(l) = {} /\ Range(w) \union Range(l) = Nodes
      BY <1>3, <1>4
  <2>2. /\ w \o l \in Seq(Nodes)
        /\ Range(w \o l) = Range(w) \union Range(l)
        /\ IsInjective(w \o l)
      BY <2>1, <1>3, <1>4, ConcatFacts
  <2> QED BY <2>1, <2>2, <1>2
<1>6. NetInv'
    BY <1>1 DEF BaseInv, NetInv
<1>7. ClientTypes'
    BY <1>1, <1>5 DEF BaseInv, ClientTypes
<1>8. SessionTypes' /\ ListInv'
    BY <1>1, <1>5 DEF BaseInv, SessionTypes, ListInv
<1>9. LinkInv' /\ StepInv'
    BY <1>1 DEF BaseInv, LinkInv, StepInv
<1>10. SlotInv'
    BY <1>1 DEF BaseInv, LinkInv, SlotInv
<1> QED BY <1>6, <1>7, <1>8, <1>9, <1>10 DEF BaseInv

\* ContinueAnswered
LEMMA BaseContinue ==
    ASSUME BaseInv, ContinueAnswered
    PROVE  BaseInv'
<1>1. /\ step' = step /\ nodeIndex' = nodeIndex /\ targets' = targets
      /\ failed' = failed /\ reported' = reported /\ block' = block /\ chunk' = chunk
      /\ mixFormat' = mixFormat /\ missing' = missing /\ missingIdx' = missingIdx
      /\ config' = config /\ direct' = direct /\ retries' = retries /\ slot' = slot
      /\ node' = node /\ late' = late /\ misread' = misread /\ losses' = losses
      /\ holds' = holds /\ derailed' = derailed /\ link = "asking" /\ link' = "up"
      /\ \/ tasks' = tasks \union {"action"} /\ outcome' = outcome
         \/ tasks' = tasks /\ outcome' = "failure"
    BY DEF ContinueAnswered, report, failures, service, network
<1>2. NetInv'
    BY <1>1 DEF BaseInv, NetInv
<1>3. tasks \union {"action"} \subseteq Tasks
    BY DEF BaseInv, ClientTypes, Tasks
<1>4. ClientTypes'
    BY <1>1, <1>3 DEF BaseInv, ClientTypes
<1>5. SessionTypes' /\ ListInv'
    BY <1>1 DEF BaseInv, SessionTypes, ListInv
<1>6. LinkInv' /\ StepInv' /\ SlotInv'
    BY <1>1 DEF BaseInv, LinkInv, StepInv, SlotInv
<1> QED BY <1>2, <1>4, <1>5, <1>6 DEF BaseInv

\* Every step keeps the types.
LEMMA BaseStep == BaseInv /\ [Next]_vars => BaseInv'
<1> SUFFICES ASSUME BaseInv, [Next]_vars PROVE BaseInv'
    OBVIOUS
<1>1. CASE UNCHANGED vars
  <2>1. NetInv' /\ ClientTypes'
      BY <1>1 DEF vars, BaseInv, NetInv, ClientTypes
  <2>2. SessionTypes' /\ ListInv' /\ LinkInv' /\ StepInv' /\ SlotInv'
      BY <1>1 DEF vars, BaseInv, SessionTypes, ListInv, LinkInv, StepInv, SlotInv
  <2> QED BY <2>1, <2>2 DEF BaseInv
<1> QED
  BY <1>1, BaseStepComplete, BaseSendToTarget, BaseStartBlock, BaseAllBlocksSent,
     BaseSendChunks, BaseMissingChunkTask, BaseReceiveStatus, BaseRetry, BaseCommandFail,
     BaseConnectionLost, BaseReconnect, BaseContinue
  DEF Next

\* In every state the fields have their types.
LEMMA BaseInvariance == Spec => []BaseInv
    BY InitBase, BaseStep, PTL DEF Spec

\* The fields of the client, of the connection and of the nodes keep their types; in
\* particular nodeIndex stays among the targets, and the chunks asked for among those
\* of the block.
THEOREM TypeCorrect == Spec => []TypeOK
<1>1. BaseInv => TypeOK
    BY DEF BaseInv, NetInv, ClientTypes, SessionTypes, TypeOK
<1> QED BY <1>1, BaseInvariance, PTL

-----------------------------------------------------------------------------
(* What a step does to the nodes.                                           *)

\* A command is sent, for the first time or again.
Sends(cmd) ==
    /\ slot' = cmd /\ link = "up" /\ step' = step
    /\ Transmit(cmd)
    /\ \/ slot = cmd /\ slot # NoCommand /\ block' = block
       \/ slot = NoCommand /\ cmd.op = step /\ cmd.block = block' /\ "action" \in tasks
          /\ Targeted /\ cmd.dst = Target

\* A chunk is sent.
SendsChunk(c) ==
    /\ link = "up" /\ step' = step /\ late' = late /\ block' = block /\ slot' = slot
    /\ outcome' = outcome
    /\ \/ "action" \in tasks /\ step \in {"chunkSending", "getBlock"}
       \/ "chunk" \in tasks \/ "missing" \in tasks
    /\ \A n \in Nodes : node'[n] \in {node[n], OnChunk(node[n], block, c)}

\* Nothing is sent.
SendsNothing ==
    /\ node' = node
    /\ \/ late' = late
       \/ \E n \in Nodes : late[n] # <<>> /\ late' = [late EXCEPT ![n] = Tail(@)]
       \/ late' = [n \in Nodes |-> <<>>]

\* Every step is one of these.
LEMMA NetworkMoves ==
    ASSUME BaseInv, [Next]_vars
    PROVE  \/ \E cmd \in Commands : Sends(cmd)
           \/ \E c \in Chunks : SendsChunk(c)
           \/ SendsNothing
<1>1. CASE StepComplete
  <2>1. CASE UNCHANGED node
      BY <2>1, <1>1 DEF StepComplete, SendsNothing
  <2>2. CASE /\ step = "getBlock" /\ missing # <<>>
             /\ SendChunk(missing[1], "missing", tasks \ {"action"})
    <3>1. missing[1] \in Chunks
        BY <2>2 DEF BaseInv, ClientTypes
    <3>2. \/ node' = node
          \/ /\ link = "up" /\ step' = step /\ outcome' = outcome
             /\ \A n \in Nodes : node'[n] \in {node[n], OnChunk(node[n], block, missing[1])}
        BY <3>1, <2>2, <1>1, SendChunkFacts DEF StepComplete
    <3> QED BY <3>1, <3>2, <2>2, <1>1 DEF StepComplete, SendsNothing, SendsChunk, service
  <2> QED BY <2>1, <2>2, <1>1 DEF StepComplete, OnGetBlobBlockComplete
<1>2. CASE SendToTarget
  <2> DEFINE cmd == [op |-> step, dst |-> Target, block |-> block]
  <2>1. Target \in Nodes
      BY <1>2, TargetFacts DEF BaseInv, ListInv, SendToTarget
  <2>2. cmd \in Commands /\ cmd.op = step /\ cmd.dst = Target /\ cmd.block = block
      BY <1>2, <2>1, StepFacts DEF SendToTarget, Commands, BaseInv, ClientTypes
  <2>3. SendCommand(cmd) /\ Targeted /\ step' = step /\ block' = block /\ "action" \in tasks
      BY <1>2 DEF SendToTarget
  <2> HIDE DEF cmd
  <2> QED BY <2>2, <2>3, SendCommandFacts DEF Sends, SendsNothing
<1>3. CASE StartBlock
  <2> DEFINE cmd == [op |-> step, dst |-> Target, block |-> block']
  <2>1. Target \in Nodes
      BY <1>3, TargetFacts DEF BaseInv, ListInv, StartBlock
  <2>2. block' \in Blocks \union {-1}
    <3>1. BaseInv'
        BY <1>3, BaseStartBlock
    <3> QED BY <3>1 DEF BaseInv, ClientTypes
  <2>3. cmd \in Commands /\ cmd.op = step /\ cmd.dst = Target /\ cmd.block = block'
      BY <1>3, <2>1, <2>2, StepFacts DEF StartBlock, Commands
  <2>4. SendCommand(cmd) /\ Targeted /\ step' = step /\ "action" \in tasks
      BY <1>3 DEF StartBlock
  <2> HIDE DEF cmd
  <2> QED BY <2>3, <2>4, SendCommandFacts DEF Sends, SendsNothing
<1>4. CASE StartSending \/ ChunkTask
  <2>1. PICK rest :
          /\ SendChunks(rest)
          /\ \/ "action" \in tasks /\ step = "chunkSending"
             \/ "chunk" \in tasks
      BY <1>4 DEF StartSending, ChunkTask
  <2>2. late' = late /\ block' = block /\ slot' = slot
      BY <1>4 DEF StartSending, ChunkTask, service
  <2>3. CASE chunk + 1 < ChunkNum /\ SendChunk(chunk + 1, "chunk", rest)
    <3>1. chunk + 1 \in Chunks
        BY <2>3, ConstantFacts DEF BaseInv, ClientTypes, Chunks
    <3>2. \/ node' = node
          \/ /\ link = "up" /\ step' = step /\ outcome' = outcome
             /\ \A n \in Nodes : node'[n] \in {node[n], OnChunk(node[n], block, chunk + 1)}
        BY <3>1, <2>2, <2>3, SendChunkFacts
    <3> QED BY <3>1, <3>2, <2>1, <2>2 DEF SendsNothing, SendsChunk
  <2>4. CASE CheckMissingChunks(rest)
      BY <2>2, <2>4 DEF CheckMissingChunks, SendsNothing
  <2> QED BY <2>1, <2>3, <2>4 DEF SendChunks
<1>5. CASE MissingChunkTask
  <2> DEFINE rest == tasks \ {"missing"}
  <2>1. /\ SendMissingChunks(rest) /\ "missing" \in tasks
        /\ late' = late /\ block' = block /\ slot' = slot
      BY <1>5 DEF MissingChunkTask, service
  <2>2. CASE /\ missingIdx' < Len(missing)
             /\ SendChunk(missing[missingIdx' + 1], "missing", rest)
    <3> DEFINE i == missingIdx' + 1
               c == missing[i]
    <3>1. missing[missingIdx' + 1] \in Chunks
      <4>1. missingIdx' = missingIdx + 1 /\ missingIdx \in Nat
          BY <1>5, ConstantFacts DEF MissingChunkTask, BaseInv, ClientTypes
      <4>2. missingIdx + 1 < Len(missing) /\ Len(missing) \in Nat
          BY <4>1, <2>2 DEF BaseInv, ClientTypes
      <4>3. missing[(missingIdx + 1) + 1] \in Chunks
          BY <4>1, <4>2 DEF BaseInv, ClientTypes
      <4> QED BY <4>1, <4>3
    <3>2. c \in Chunks /\ SendChunk(c, "missing", rest)
        BY <3>1, <2>2
    <3> HIDE DEF c, rest
    <3>3. \/ node' = node
          \/ /\ link = "up" /\ step' = step /\ outcome' = outcome
             /\ \A n \in Nodes : node'[n] \in {node[n], OnChunk(node[n], block, c)}
        BY <3>2, <2>1, SendChunkFacts
    <3> QED BY <3>2, <3>3, <2>1 DEF SendsNothing, SendsChunk
  <2>3. CASE CheckMissingChunks(rest)
      BY <2>1, <2>3 DEF CheckMissingChunks, SendsNothing
  <2> QED BY <2>1, <2>2, <2>3 DEF SendMissingChunks
<1>6. CASE Retry
  <2>1. slot \in Commands /\ link = "up" /\ slot # NoCommand
      BY <1>6 DEF Retry, BaseInv, SessionTypes, LinkInv
  <2> QED BY <2>1, <1>6 DEF Retry, Sends
<1>7. ASSUME NEW n \in Nodes, ReceiveStatus(n) PROVE SendsNothing
    BY <1>7 DEF ReceiveStatus, SendsNothing
<1>8. CASE LoseConnection
    BY <1>8 DEF LoseConnection, SendsNothing
<1>9. ASSUME NEW n \in Nodes \union {Proxy}, Reconnect(n) PROVE SendsNothing
    BY <1>9 DEF Reconnect, SendsNothing, network
<1>10. CASE AllBlocksSent \/ CommandFail \/ Hold \/ ContinueAnswered \/ UNCHANGED vars
    BY <1>10 DEF AllBlocksSent, CommandFail, Hold, ContinueAnswered, vars, network, SendsNothing
<1> QED
    BY <1>1, <1>2, <1>3, <1>4, <1>5, <1>6, <1>7, <1>8, <1>9, <1>10 DEF Next

\* No step takes back what a node has.
LEMMA NodesGoOn ==
    ASSUME BaseInv, [Next]_vars
    PROVE  \A n \in Nodes : Onward(node[n], node'[n])
<1> SUFFICES ASSUME NEW n \in Nodes PROVE Onward(node[n], node'[n])
    OBVIOUS
<1>1. node[n] \in Receivers /\ ReceiverInv(node[n])
    BY DEF BaseInv, NetInv
<1>2. ASSUME NEW cmd \in Commands, Sends(cmd) PROVE Onward(node[n], node'[n])
  <2>1. node'[n] = node[n] \/ node'[n] = Handle(node[n], cmd)
      BY <1>2, TransmitFacts DEF Sends, BaseInv
  <2> QED BY <2>1, <1>1, HandleFacts, OnwardSame
<1>3. ASSUME NEW c \in Chunks, SendsChunk(c) PROVE Onward(node[n], node'[n])
  <2>1. node'[n] = node[n] \/ node'[n] = OnChunk(node[n], block, c)
      BY <1>3 DEF SendsChunk
  <2>2. block \in Blocks \union {-1}
      BY DEF BaseInv, ClientTypes
  <2> QED BY <2>1, <2>2, <1>1, ChunkFacts, OnwardSame
<1>4. ASSUME SendsNothing PROVE Onward(node[n], node'[n])
    BY <1>4, <1>1, OnwardSame DEF SendsNothing
<1> QED BY <1>2, <1>3, <1>4, NetworkMoves

\* What a node has received of the blocks it has completed, it keeps, whatever is
\* repeated, late or lost: for any number of nodes, blocks and chunks.
THEOREM BlocksKept == Spec => CompletedBlocksKept
<1>1. ASSUME BaseInv, [Next]_vars, NEW n \in Nodes
      PROVE  /\ RxOkCount(node'[n]) >= RxOkCount(node[n])
             /\ \A b \in 0 .. RxOkCount(node[n]) - 1, c \in Chunks :
                  <<b, c>> \in node[n].got => <<b, c>> \in node'[n].got
  <2>1. BaseInv' /\ Onward(node[n], node'[n])
      BY <1>1, BaseStep, NodesGoOn
  <2>2. node[n] \in Receivers /\ node'[n] \in Receivers
      BY <1>1, <2>1 DEF BaseInv, NetInv
  <2>3. RxOkCount(node[n]) \in Nat /\ RxOkCount(node'[n]) \in Nat
      BY <2>2, ReceiverFields
  <2> QED BY <2>1, <2>3 DEF Onward
<1>2. BaseInv /\ [Next]_vars =>
        [\A n \in Nodes :
           /\ RxOkCount(node'[n]) >= RxOkCount(node[n])
           /\ \A b \in 0 .. RxOkCount(node[n]) - 1, c \in Chunks :
                <<b, c>> \in node[n].got => <<b, c>> \in node'[n].got]_vars
    BY <1>1
<1> QED BY <1>2, BaseInvariance, PTL DEF Spec, CompletedBlocksKept


-----------------------------------------------------------------------------
(* What holds as long as no answer is misread and no continuation goes another *)
(* way.  Outside getBlock at most one loop of the client runs (SlotRegular,    *)
(* TasksRegular), so the client and the nodes agree on the block (NodesInv).   *)
(* The answers of a node arrive in order (OrderInv), so none to the Block      *)
(* Start is left when a block is checked (StartedInv).  In getBlock two loops  *)
(* may run; LoopInv says why the second never sends whole blocks.              *)

\* Answers to the Block Get and to the Block Start of the client's block.
OfGet(s)   == s.to.op = "getBlock" /\ s.to.block = block
OfStart(s) == s.to.op = "blockStart" /\ s.to.block = block

\* The next block has not been begun.
NotStarted == step = "blockStart" /\ nodeIndex = 0 /\ slot = NoCommand

\* Chunks are sent and asked for.
Chunking == step \in {"chunkSending", "getBlock"}

\* A live node stays a target.
TargetsInv == Live \subseteq Range(targets) /\ failed \subseteq reported

\* A completed transfer sends nothing more.
DoneInv ==
    outcome # "pending" => slot = NoCommand /\ (link = "up" => tasks = {})

\* What a node counts as received is in its place.
Stored(r) ==
    /\ Opened(r) => \A c \in Chunks \ r.miss : <<r.blk, c>> \in r.got
    /\ \A b \in 0 .. RxOkCount(r) - 1, c \in Chunks : <<b, c>> \in r.got

StoredInv == \A n \in Live : Stored(node[n])

\* The reliable message is that of the step and the block; outside getBlock
\* nothing else runs.
SlotRegular ==
    slot # NoCommand =>
        /\ slot.op = step /\ slot.block = block
        /\ step # "getBlock" => tasks = {} /\ Targeted /\ slot.dst = Target

\* Chunks of the whole block are sent by one loop alone, missing ones after a
\* round of answers that miss some.
TasksRegular ==
    /\ "chunk" \in tasks => step = "chunkSending" /\ tasks = {"chunk"}
    /\ "missing" \in tasks => step = "getBlock" /\ mixFormat = "some"
    /\ step = "chunkSending" => nodeIndex = 0

\* The client's block and the nodes'.
NodesInv ==
    /\ step \in Early => block = -1 /\ \A n \in Nodes : node[n].blk = 0 /\ ~node[n].ok
    /\ step \in BlockSteps /\ ~NotStarted => 0 <= block
    /\ step = "blockStart" =>
         \A n \in Live : RxOkCount(node[n]) = IF NotStarted THEN block + 1 ELSE block
    /\ Chunking => \A n \in Live : Opened(node[n]) /\ node[n].blk = block

\* An answer of node n is to a command sent, and still true of what it says is
\* opened or received.
LateFact(n, s) ==
    /\ s.to.op \in {"blockStart", "getBlock"} => 0 <= s.to.block /\ s.to.block <= block
    /\ s.to.op = "blockStart" /\ s.ok => Opened(node[n]) /\ s.to.block <= node[n].blk
    /\ s.to.op = "getBlock" /\ s.ok /\ s.format = "none" /\ n \in Live =>
          s.to.block + 1 <= RxOkCount(node[n])

LateInv ==
    \A n \in Nodes : \A i \in 1 .. Len(late[n]) :
        /\ LateFact(n, late[n][i])
        /\ OfGet(late[n][i]) => Chunking \/ NotStarted

\* The targets that have had their turn have done the step.
AnsweredInv ==
    /\ step = "blockStart" =>
         \A i \in 1 .. nodeIndex : i <= Len(targets) /\ targets[i] \in Live =>
            Opened(node[targets[i]]) /\ node[targets[i]].blk = block
    /\ step = "getBlock" =>
         /\ mixFormat = "some" => missing # <<>>
         /\ \A i \in 1 .. nodeIndex : i <= Len(targets) /\ targets[i] \in Live =>
               /\ mixFormat # "unknown"
               /\ mixFormat = "none" => RxOkCount(node[targets[i]]) = block + 1

\* Answers arrive in order: after one to the Block Get none to the Block Start,
\* and after one that does not miss all chunks none that does.
OrderInv ==
    \A n \in Nodes : \A i, j \in 1 .. Len(late[n]) :
        OfGet(late[n][i]) /\ i <= j =>
            /\ ~OfStart(late[n][j])
            /\ Chunking /\ late[n][i].format # "all" =>
                  /\ node[n].miss # Chunks
                  /\ OfGet(late[n][j]) => late[n][j].format # "all"

\* No answer to the Block Start of this block will come from the targets that have
\* answered to its Block Get.
StartsGone(n) == \A i \in 1 .. Len(late[n]) : ~OfStart(late[n][i])

StartedInv ==
    /\ step = "getBlock" =>
         \A i \in 1 .. nodeIndex : i <= Len(targets) /\ targets[i] \notin failed =>
            StartsGone(targets[i])
    /\ NotStarted => \A i \in 1 .. Len(targets) : StartsGone(targets[i])

\* A node has chunks of the block, and no answer will say otherwise.
HasSome(n) ==
    /\ node[n].miss # Chunks
    /\ \A i \in 1 .. Len(late[n]) : OfGet(late[n][i]) => late[n][i].format # "all"

\* No answer to a Block Get of the block will come from the first target.
FirstSilent ==
    /\ targets # <<>> /\ targets[1] \notin failed
    /\ \A i \in 1 .. Len(late[targets[1]]) : ~OfGet(late[targets[1]][i])
    /\ slot # NoCommand => slot.dst # targets[1]

\* Of the two loops that may run in getBlock, the round of answers will not send
\* the client back to sending whole blocks beside the other.
LoopInv ==
    step = "getBlock" =>
        /\ \/ nodeIndex > 0 /\ FirstSilent
           \/ \A i \in 1 .. nodeIndex : i <= Len(targets) /\ targets[i] \notin failed =>
                 mixFormat # "unknown" /\ (mixFormat # "all" => HasSome(targets[i]))
        /\ "missing" \in tasks =>
             \/ \A i \in 1 .. Len(targets) : HasSome(targets[i])
             \/ FirstSilent /\ nodeIndex = 0 /\ "action" \notin tasks /\ slot = NoCommand

\* While the transfer is under way.
PendingInv ==
    /\ SlotRegular /\ TasksRegular /\ NodesInv /\ LateInv /\ OrderInv
    /\ AnsweredInv /\ StartedInv /\ LoopInv

\* At any time.
DeliveryInv ==
    /\ StoredInv /\ DoneInv
    /\ outcome = "pending" => PendingInv
    /\ outcome = "success" => \A n \in Live : HoldsBlob(node[n])

RegularInv == TargetsInv /\ DeliveryInv

-----------------------------------------------------------------------------
(* What a step that keeps the step and the block does to these facts.        *)

\* The fields of an answer.
LEMMA StatusFields ==
    ASSUME NEW s \in Statuses
    PROVE  /\ s.ok \in BOOLEAN /\ s.format \in {"none", "all", "some"}
           /\ s.to \in Commands /\ s.to.block \in Int
<1>1. s.ok \in BOOLEAN /\ s.format \in {"none", "all", "some"} /\ s.to \in Commands
    BY DEF Statuses
<1>2. s.to.block \in Blocks \union {-1}
    BY <1>1, CommandFields
<1> QED BY <1>1, <1>2, ConstantFacts DEF Blocks

\* What an answer says of the node that gives it.
LEMMA AnswerFacts ==
    ASSUME NEW r \in Receivers, ReceiverInv(r), NEW cmd \in Commands
    PROVE  LET s == StatusOf(r, cmd)
               q == Handle(r, cmd)
           IN  /\ cmd.op = "blockStart" /\ s.ok /\ 0 <= cmd.block =>
                     Opened(q) /\ cmd.block <= q.blk
               /\ cmd.op = "getBlock" =>
                     /\ q.miss = r.miss /\ q.blk = r.blk
                     /\ s.format = "all" <=> r.miss = Chunks
                     /\ s.ok /\ s.format = "none" => q.ok
<1> DEFINE s == StatusOf(r, cmd)
           q == Handle(r, cmd)
<1>1. s.ok = BlockStartOk(r, cmd.block) \/ cmd.op # "blockStart"
    BY StatusFacts
<1>2. cmd.op = "getBlock" => s.ok = r.busy /\ s.format = MissingFormat(r)
    BY StatusFacts
<1>3. /\ q \in Receivers /\ ReceiverInv(q) /\ Onward(r, q)
      /\ cmd.op = "blockStart" => q = OnBlockStart(r, cmd.block)
      /\ cmd.op = "getBlock" => q = OnBlockGet(r)
    BY HandleFacts
<1>4. cmd.block \in Blocks \union {-1} /\ cmd.block \in Int
    BY CommandFields, ConstantFacts DEF Blocks
<1> HIDE DEF s, q
<1>5. ASSUME cmd.op = "blockStart", s.ok, 0 <= cmd.block
      PROVE  Opened(q) /\ cmd.block <= q.blk
  <2>1. r.busy /\ cmd.block <= RxOkCount(r)
      BY <1>1, <1>5 DEF BlockStartOk
  <2>2. CASE cmd.block = RxOkCount(r)
    <3>1. q.blk = cmd.block /\ q.phase = "nextChunk" /\ q.busy
        BY <2>1, <2>2, <1>3, <1>5, ReceiverFields DEF OnBlockStart, BlockStartOk, Receivers
    <3> QED BY <3>1, <1>4 DEF Opened
  <2>3. CASE cmd.block # RxOkCount(r)
    <3>1. q = r
        BY <2>3, <1>3, <1>5 DEF OnBlockStart
    <3>2. cmd.block <= r.blk /\ Opened(r)
        BY <2>1, <2>3, <1>4, <1>5, ReceiverFields DEF ReceiverInv, RxOkCount, Opened
    <3> QED BY <3>1, <3>2
  <2> QED BY <2>2, <2>3
<1>6. ASSUME cmd.op = "getBlock"
      PROVE  /\ q.miss = r.miss /\ q.blk = r.blk
             /\ s.format = "all" <=> r.miss = Chunks
             /\ s.ok /\ s.format = "none" => q.ok
  <2>1. Chunks # {}
      BY ConstantFacts DEF Chunks
  <2>2. /\ s.format = "all" <=> r.miss = Chunks
        /\ s.format = "none" => r.miss = {}
      BY <2>1, <1>2, <1>6 DEF MissingFormat
  <2>3. q.miss = r.miss /\ q.blk = r.blk /\ (r.busy /\ r.miss = {} => q.ok)
      BY <1>3, <1>6, BlockGetFacts
  <2> QED BY <2>2, <2>3, <1>2, <1>6
<1> QED BY <1>5, <1>6 DEF s, q

\* A command does not make a node count what it has not got.
LEMMA StoredKept ==
    ASSUME NEW r \in Receivers, ReceiverInv(r), NEW cmd \in Commands, Stored(r),
           cmd.op = "getBlock" => Opened(r)
    PROVE  Stored(Handle(r, cmd))
<1> DEFINE q == Handle(r, cmd)
<1>1. CASE cmd.op = "transferStart"
  <2>1. /\ q.blk = r.blk /\ q.ok = r.ok /\ q.miss = r.miss /\ q.got = r.got
        /\ q.phase = "nextChunk" <=> r.phase = "nextChunk"
      BY <1>1, TransferStartFacts DEF Handle
  <2> HIDE DEF q
  <2>2. Opened(q) => Opened(r)
      BY <2>1 DEF ReceiverInv, Opened
  <2>3. RxOkCount(q) = RxOkCount(r)
      BY <2>1 DEF RxOkCount
  <2>4. Stored(q)
      BY <2>1, <2>2, <2>3 DEF Stored
  <2> QED BY <2>4 DEF q
<1>2. CASE cmd.op = "blockStart"
  <2>1. /\ q.got = r.got
        /\ \/ q = r
           \/ q.blk = RxOkCount(r) /\ ~q.ok /\ q.miss = Chunks
      BY <1>2, BlockStartFacts, CommandFields DEF Handle
  <2> HIDE DEF q
  <2>2. Stored(q)
    <3>1. CASE q = r
        BY <3>1
    <3>2. CASE q.blk = RxOkCount(r) /\ ~q.ok /\ q.miss = Chunks
      <4>1. RxOkCount(q) = RxOkCount(r)
          BY <3>2 DEF RxOkCount
      <4> QED BY <4>1, <3>2, <2>1 DEF Stored
    <3> QED BY <3>1, <3>2, <2>1
  <2> QED BY <2>2 DEF q
<1>3. CASE cmd.op = "getBlock"
  <2>1. /\ q.blk = r.blk /\ q.miss = r.miss /\ q.got = r.got
        /\ q.ok => r.ok \/ r.miss = {}
        /\ r.ok => q.ok
      BY <1>3, BlockGetFacts DEF Handle
  <2> HIDE DEF q
  <2>2. \A c \in Chunks \ q.miss : <<q.blk, c>> \in q.got
      BY <2>1, <1>3 DEF Stored
  <2>3. \A b \in 0 .. RxOkCount(q) - 1, c \in Chunks : <<b, c>> \in q.got
    <3>1. CASE q.ok <=> r.ok
        BY <3>1, <2>1 DEF Stored, RxOkCount
    <3>2. CASE q.ok /\ ~r.ok
      <4>1. \A b \in 0 .. RxOkCount(q) - 1 : b \in 0 .. RxOkCount(r) - 1 \/ b = q.blk
          BY <3>2, <2>1, ReceiverFields DEF RxOkCount
      <4>2. q.miss = {}
          BY <3>2, <2>1
      <4> QED BY <4>1, <4>2, <2>1, <2>2 DEF Stored
    <3> QED BY <3>1, <3>2, <2>1
  <2>4. Stored(q)
      BY <2>2, <2>3 DEF Stored
  <2> QED BY <2>4 DEF q
<1>4. CASE cmd.op \in {"transferGet", "getInfo"}
    BY <1>4 DEF Handle
<1> QED BY <1>1, <1>2, <1>3, <1>4, CommandFields

\* Nor does a chunk of the block that the node has open.
LEMMA StoredChunk ==
    ASSUME NEW r \in Receivers, ReceiverInv(r), NEW c \in Chunks,
           Stored(r), Opened(r)
    PROVE  Stored(OnChunk(r, r.blk, c))
<1> DEFINE q == OnChunk(r, r.blk, c)
<1>1. /\ q \in Receivers /\ ReceiverInv(q) /\ q.blk = r.blk /\ r.got \subseteq q.got
      /\ Opened(q) => \A d \in Chunks \ q.miss : <<q.blk, d>> \in q.got
      /\ r.ok => q.ok
    BY ChunkFacts, ReceiverFields DEF Stored
<1> HIDE DEF q
<1>2. \A b \in 0 .. RxOkCount(q) - 1, d \in Chunks : <<b, d>> \in q.got
  <2>1. CASE q.ok <=> r.ok
      BY <2>1, <1>1 DEF Stored, RxOkCount
  <2>2. CASE q.ok /\ ~r.ok
    <3>1. \A b \in 0 .. RxOkCount(q) - 1 : b \in 0 .. RxOkCount(r) - 1 \/ b = q.blk
        BY <2>2, <1>1, ReceiverFields DEF RxOkCount
    <3>2. q.miss = {} /\ Opened(q)
        BY <2>2, <1>1 DEF ReceiverInv, Opened
    <3> QED BY <3>1, <3>2, <1>1 DEF Stored
  <2> QED BY <2>1, <2>2, <1>1
<1>3. Stored(q)
    BY <1>1, <1>2 DEF Stored
<1> QED BY <1>3 DEF q

\* Where the answers on their way come from when a command is sent.
LEMMA SentPlaces ==
    ASSUME NetInv, NEW cmd \in Commands, Transmit(cmd), NEW n \in Nodes,
           NEW i \in 1 .. Len(late'[n])
    PROVE  \/ i \in 1 .. Len(late[n]) /\ late'[n][i] = late[n][i]
           \/ /\ n = cmd.dst /\ i = Len(late[n]) + 1
              /\ late'[n][i] = StatusOf(node[n], cmd) /\ node'[n] = Handle(node[n], cmd)
<1>1. late[n] \in Seq(Statuses)
    BY DEF NetInv
<1>2. \/ late'[n] = late[n]
      \/ /\ n = cmd.dst /\ node'[n] = Handle(node[n], cmd)
         /\ late'[n] = Append(late[n], StatusOf(node[n], cmd))
    BY TransmitFacts
<1>3. StatusOf(node[n], cmd) \in Statuses
    BY StatusFacts DEF NetInv
<1> QED BY <1>1, <1>2, <1>3, QueueFacts

\* What is known of the nodes and of the answers on their way.
AnswersInv == StoredInv /\ NodesInv /\ LateInv /\ OrderInv

\* Nodes and answers have their types, whatever step is taken.
LEMMA PlaceTypes ==
    ASSUME NetInv, NEW n \in Nodes
    PROVE  /\ node[n] \in Receivers /\ ReceiverInv(node[n])
           /\ Len(late[n]) \in Nat
           /\ \A i \in 1 .. Len(late[n]) : late[n][i] \in Statuses /\ AnswerInv(n, late[n][i])
    BY QueueFacts DEF NetInv

\* What an answer says stays true.
LEMMA LateFactKept ==
    ASSUME NetInv, NetInv', NEW n \in Nodes, NEW s \in Statuses, LateFact(n, s),
           Onward(node[n], node'[n]), Live' \subseteq Live,
           block \in Int, block' \in Int, block <= block'
    PROVE  LateFact(n, s)'
<1>1. s.to.block \in Int
    BY StatusFields
<1>2. node[n] \in Receivers /\ node'[n] \in Receivers
    BY PlaceTypes DEF NetInv
<1>3. /\ node[n].blk \in Int /\ node'[n].blk \in Int /\ node[n].blk <= node'[n].blk
      /\ RxOkCount(node[n]) \in Int /\ RxOkCount(node'[n]) \in Int
      /\ RxOkCount(node[n]) <= RxOkCount(node'[n])
      /\ Opened(node[n]) => Opened(node'[n])
    BY <1>2, ReceiverFields DEF Onward
<1> DEFINE b == s.to.block
<1>4. /\ s.to.op \in {"blockStart", "getBlock"} => 0 <= s.to.block /\ s.to.block <= block'
    BY <1>1 DEF LateFact
<1>5. s.to.op = "blockStart" /\ s.ok => Opened(node'[n]) /\ s.to.block <= node'[n].blk
    BY <1>1, <1>3 DEF LateFact
<1>6. s.to.op = "getBlock" /\ s.ok /\ s.format = "none" /\ n \in Live' =>
          s.to.block + 1 <= RxOkCount(node'[n])
    BY <1>1, <1>3 DEF LateFact
<1> QED BY <1>4, <1>5, <1>6 DEF LateFact

\* A command of the step and the block is sent to a node, for the first time or
\* again, in the middle of the step.
MidSend(cmd) ==
    /\ cmd \in Commands /\ cmd.op = step /\ cmd.block = block
    /\ Transmit(cmd)
    /\ step' = step /\ block' = block /\ reported \subseteq reported'
    /\ ~NotStarted /\ ~NotStarted'

\* The nodes after it.
LEMMA MidSendNodes ==
    ASSUME BaseInv, BaseInv', AnswersInv, NEW cmd, MidSend(cmd)
    PROVE  StoredInv' /\ NodesInv' /\ \A n \in Nodes : Onward(node[n], node'[n])
<1> DEFINE Same(n) == node'[n] = node[n] \/ (n = cmd.dst /\ node'[n] = Handle(node[n], cmd))
<1>1. /\ \A n \in Nodes : Same(n)
      /\ cmd \in Commands /\ cmd.op = step /\ cmd.block = block
    BY TransmitFacts DEF MidSend, BaseInv
<1>2. /\ step' = step /\ block' = block /\ reported \subseteq reported' /\ Live' \subseteq Live
      /\ ~NotStarted /\ ~NotStarted'
    BY DEF MidSend, Live
<1>3. \A n \in Nodes : /\ node[n] \in Receivers /\ ReceiverInv(node[n])
                       /\ node'[n] \in Receivers /\ ReceiverInv(node'[n])
    BY PlaceTypes DEF BaseInv, NetInv
<1>4. ASSUME NEW n \in Nodes PROVE Onward(node[n], node'[n])
    BY <1>1, <1>3, HandleFacts, OnwardSame
<1>5. StoredInv'
  <2>1. ASSUME NEW n \in Live' PROVE Stored(node'[n])
    <3>1. n \in Live /\ n \in Nodes
        BY <1>2 DEF Live
    <3>2. Stored(node[n])
        BY <3>1 DEF AnswersInv, StoredInv
    <3>3. step = "getBlock" => Opened(node[n])
        BY <3>1 DEF AnswersInv, NodesInv, Chunking
    <3> QED BY <3>1, <3>2, <3>3, <1>1, <1>3, StoredKept
  <2> QED BY <2>1 DEF StoredInv
<1>6. ASSUME step \in Early
      PROVE  block = -1 /\ \A n \in Nodes : node'[n].blk = 0 /\ ~node'[n].ok
  <2>1. block = -1 /\ \A n \in Nodes : node[n].blk = 0 /\ ~node[n].ok
      BY <1>6 DEF AnswersInv, NodesInv
  <2>2. cmd.op \in {"transferGet", "getInfo", "transferStart"}
      BY <1>1, <1>6 DEF Early
  <2> QED BY <2>1, <2>2, <1>1, <1>3, HandleFacts
<1>7. ASSUME step = "blockStart", NEW n \in Live'
      PROVE  RxOkCount(node'[n]) = block
  <2>1. n \in Live /\ n \in Nodes /\ RxOkCount(node[n]) = block
      BY <1>2, <1>7 DEF AnswersInv, NodesInv, Live
  <2>2. node'[n] = node[n] \/ node'[n] = OnBlockStart(node[n], block)
      BY <2>1, <1>1, <1>3, <1>7, HandleFacts
  <2>3. block \in Blocks \union {-1}
      BY <1>1, CommandFields
  <2>4. \/ node'[n] = node[n]
        \/ block = RxOkCount(node[n]) /\ node'[n].blk = block /\ ~node'[n].ok
      BY <2>1, <2>2, <2>3, <1>3, BlockStartFacts
  <2> QED BY <2>1, <2>4 DEF RxOkCount
<1>8. ASSUME Chunking, NEW n \in Live'
      PROVE  Opened(node'[n]) /\ node'[n].blk = block
  <2>1. n \in Live /\ n \in Nodes /\ Opened(node[n]) /\ node[n].blk = block
      BY <1>2, <1>8 DEF AnswersInv, NodesInv, Live
  <2>2. cmd.op = "getBlock"
      BY <1>1, <1>8, CommandFields DEF Chunking
  <2>3. node'[n].blk = node[n].blk
      BY <2>1, <2>2, <1>1, <1>3, AnswerFacts
  <2> QED BY <2>1, <2>3, <1>4 DEF Onward
<1>9. NodesInv'
    BY <1>2, <1>6, <1>7, <1>8 DEF AnswersInv, NodesInv, Chunking
<1> QED BY <1>4, <1>5, <1>9

\* The answers on their way after it.
LEMMA MidSendAnswers ==
    ASSUME BaseInv, BaseInv', AnswersInv, NEW cmd, MidSend(cmd)
    PROVE  /\ LateInv' /\ OrderInv'
           /\ step = "getBlock" => \A n \in Nodes : /\ HasSome(n) => HasSome(n)'
                                                    /\ StartsGone(n) => StartsGone(n)'
<1>1. /\ cmd \in Commands /\ cmd.op = step /\ cmd.block = block /\ Transmit(cmd)
      /\ step' = step /\ block' = block /\ Live' \subseteq Live
      /\ ~NotStarted /\ ~NotStarted' /\ block \in Int
    BY ConstantFacts DEF MidSend, Live, BaseInv, ClientTypes, Blocks
<1>2. ASSUME NEW n \in Nodes, NEW i \in 1 .. Len(late'[n])
      PROVE  \/ i \in 1 .. Len(late[n]) /\ late'[n][i] = late[n][i]
             \/ /\ n = cmd.dst /\ i = Len(late[n]) + 1
                /\ late'[n][i] = StatusOf(node[n], cmd) /\ node'[n] = Handle(node[n], cmd)
    BY <1>1, SentPlaces DEF BaseInv
<1>3. ASSUME NEW n \in Nodes
      PROVE  /\ node[n] \in Receivers /\ ReceiverInv(node[n]) /\ node'[n] \in Receivers
             /\ ReceiverInv(node'[n])
             /\ Len(late[n]) \in Nat /\ Len(late'[n]) \in Nat
             /\ \A i \in 1 .. Len(late[n]) : late[n][i] \in Statuses
             /\ Onward(node[n], node'[n])
    BY MidSendNodes, PlaceTypes DEF BaseInv, NetInv
<1>4. ASSUME NEW n \in Nodes
      PROVE  \/ node'[n] = node[n]
             \/ /\ n = cmd.dst /\ node'[n] = Handle(node[n], cmd)
    BY <1>1, TransmitFacts DEF BaseInv
<1>5. ASSUME NEW n \in Nodes
      PROVE  /\ StatusOf(node[n], cmd).to = cmd
             /\ cmd.op = "blockStart" /\ StatusOf(node[n], cmd).ok /\ 0 <= cmd.block =>
                   /\ Opened(Handle(node[n], cmd)) /\ cmd.block <= Handle(node[n], cmd).blk
             /\ cmd.op = "getBlock" =>
                   /\ Handle(node[n], cmd).miss = node[n].miss
                   /\ Handle(node[n], cmd).blk = node[n].blk
                   /\ StatusOf(node[n], cmd).format = "all" <=> node[n].miss = Chunks
                   /\ StatusOf(node[n], cmd).ok /\ StatusOf(node[n], cmd).format = "none"
                        => Handle(node[n], cmd).ok
    BY <1>1, <1>3, StatusFacts, AnswerFacts
<1>6. step \in {"blockStart", "getBlock"} => 0 <= block
    BY <1>1 DEF AnswersInv, NodesInv, BlockSteps
<1>7. ASSUME NEW n \in Nodes, NEW i \in 1 .. Len(late'[n]), NEW s, s = late'[n][i]
      PROVE  LateFact(n, s)' /\ (OfGet(s) => Chunking)
  <2>1. CASE i \in 1 .. Len(late[n]) /\ s = late[n][i]
    <3>1. LateFact(n, late[n][i]) /\ (OfGet(late[n][i]) => Chunking) /\ late[n][i] \in Statuses
        BY <2>1, <1>1, <1>3 DEF AnswersInv, LateInv
    <3>2. LateFact(n, s) /\ (OfGet(s) => Chunking) /\ s \in Statuses
        BY <3>1, <2>1
    <3>3. block' \in Int /\ block <= block'
        BY <1>1
    <3>4. LateFact(n, s)'
        BY <3>2, <3>3, <1>1, <1>3, LateFactKept DEF BaseInv
    <3> QED BY <3>2, <3>4
  <2>2. CASE n = cmd.dst /\ s = StatusOf(node[n], cmd) /\ node'[n] = Handle(node[n], cmd)
    <3>1. s.to = cmd /\ s.to.op = step /\ s.to.block = block
        BY <2>2, <1>1, <1>5
    <3>2. step = "blockStart" /\ s.ok => Opened(node'[n]) /\ block <= node'[n].blk
        BY <2>2, <1>1, <1>5, <1>6
    <3>3. step = "getBlock" /\ s.ok /\ s.format = "none" /\ n \in Live'
             => block + 1 <= RxOkCount(node'[n])
      <4>1. SUFFICES ASSUME step = "getBlock", s.ok, s.format = "none", n \in Live'
                     PROVE  block + 1 <= RxOkCount(node'[n])
          OBVIOUS
      <4>2. node'[n].ok /\ node'[n].blk = node[n].blk
          BY <4>1, <2>2, <1>1, <1>5
      <4>3. node[n].blk = block
          BY <4>1, <1>1 DEF AnswersInv, NodesInv, Chunking
      <4> QED BY <4>2, <4>3, <1>1 DEF RxOkCount
    <3>4. LateFact(n, s)'
        BY <3>1, <3>2, <3>3, <1>1, <1>6 DEF LateFact
    <3>5. OfGet(s) => Chunking
        BY <3>1, <1>1 DEF OfGet, Chunking
    <3> QED BY <3>4, <3>5
  <2> QED BY <1>2, <2>1, <2>2, <1>7
<1>8. LateInv'
  <2> SUFFICES ASSUME NEW n \in Nodes, NEW i \in 1 .. Len(late'[n])
               PROVE  LateFact(n, late[n][i])' /\ (OfGet(late[n][i])' => Chunking')
      BY DEF LateInv
  <2>1. PICK s : s = late'[n][i]
      OBVIOUS
  <2>2. LateFact(n, s)' /\ (OfGet(s) => Chunking)
      BY <2>1, <1>7
  <2>3. LateFact(n, late[n][i])'
      BY <2>1, <2>2 DEF LateFact
  <2> QED BY <2>1, <2>2, <2>3, <1>1 DEF OfGet, Chunking
<1>9. ASSUME NEW n \in Nodes, step = "getBlock"
      PROVE  /\ node'[n].miss = node[n].miss
             /\ \A i \in 1 .. Len(late'[n]) :
                  \/ i \in 1 .. Len(late[n]) /\ late'[n][i] = late[n][i]
                  \/ /\ i = Len(late[n]) + 1 /\ late'[n][i].to.op = "getBlock"
                     /\ late'[n][i].format = "all" <=> node[n].miss = Chunks
  <2>1. cmd.op = "getBlock"
      BY <1>1, <1>9
  <2>2. node'[n].miss = node[n].miss
      BY <2>1, <1>4, <1>5
  <2> QED BY <2>1, <2>2, <1>2, <1>5
<1>10. ASSUME NEW n \in Nodes, step = "getBlock"
       PROVE  HasSome(n) => HasSome(n)'
    BY <1>9, <1>10, <1>1 DEF HasSome, OfGet
<1>11. ASSUME NEW n \in Nodes, step = "getBlock"
       PROVE  StartsGone(n) => StartsGone(n)'
    BY <1>9, <1>11, <1>1 DEF StartsGone, OfStart
<1>12. OrderInv'
  <2> SUFFICES ASSUME NEW n \in Nodes, NEW i \in 1 .. Len(late'[n]),
                      NEW j \in 1 .. Len(late'[n]),
                      NEW s, s = late'[n][i], NEW t, t = late'[n][j], OfGet(s), i <= j
               PROVE  /\ ~OfStart(t)
                      /\ s.format # "all" =>
                            /\ node'[n].miss # Chunks
                            /\ OfGet(t) => t.format # "all"
    <3>1. ASSUME NEW n \in Nodes, NEW i \in 1 .. Len(late'[n]),
                 NEW j \in 1 .. Len(late'[n]), OfGet(late[n][i])', i <= j
          PROVE  /\ ~OfStart(late[n][j])'
                 /\ late'[n][i].format # "all" =>
                       /\ node'[n].miss # Chunks
                       /\ OfGet(late[n][j])' => late'[n][j].format # "all"
      <4>1. PICK s, t : s = late'[n][i] /\ t = late'[n][j]
          OBVIOUS
      <4>2. OfGet(s) <=> OfGet(late[n][i])'
          BY <4>1, <1>1 DEF OfGet
      <4>3. OfGet(t) <=> OfGet(late[n][j])'
          BY <4>1, <1>1 DEF OfGet
      <4>4. OfStart(t) <=> OfStart(late[n][j])'
          BY <4>1, <1>1 DEF OfStart
      <4> QED BY <3>1, <4>1, <4>2, <4>3, <4>4
    <3> QED BY <3>1 DEF OrderInv
  <2>1. step = "getBlock"
    <3>1. Chunking
        BY <1>7, <1>1 DEF Chunking
    <3>2. step # "chunkSending"
        BY <1>1, CommandFields
    <3> QED BY <3>1, <3>2 DEF Chunking
  <2>2. Len(late[n]) \in Nat /\ Chunking
      BY <1>3, <2>1 DEF Chunking
  <2>3. CASE i \in 1 .. Len(late[n]) /\ s = late[n][i]
    <3>1. CASE j \in 1 .. Len(late[n]) /\ t = late[n][j]
      <4>1. /\ ~OfStart(late[n][j])
            /\ late[n][i].format # "all" =>
                  /\ node[n].miss # Chunks
                  /\ OfGet(late[n][j]) => late[n][j].format # "all"
          BY <2>2, <2>3, <3>1 DEF AnswersInv, OrderInv
      <4> QED BY <4>1, <2>1, <2>3, <3>1, <1>9
    <3>2. CASE t.to.op = "getBlock" /\ (t.format = "all" <=> node[n].miss = Chunks)
      <4>1. late[n][i].format # "all" => node[n].miss # Chunks
          BY <2>2, <2>3 DEF AnswersInv, OrderInv
      <4> QED BY <4>1, <2>1, <2>3, <3>2, <1>9 DEF OfStart
    <3> QED BY <3>1, <3>2, <2>1, <1>9
  <2>4. CASE /\ i = Len(late[n]) + 1 /\ s.to.op = "getBlock"
             /\ s.format = "all" <=> node[n].miss = Chunks
    <3>1. j = i
        BY <2>1, <2>2, <2>4, <1>9
    <3>2. t = s
        BY <3>1
    <3> QED BY <3>2, <2>1, <2>4, <1>9 DEF OfStart
  <2> QED BY <2>1, <2>3, <2>4, <1>9
<1> QED BY <1>8, <1>10, <1>11, <1>12

\* The next block is begun at the first target: every live node has all before it.
FirstSend(cmd) ==
    /\ cmd \in Commands /\ cmd.op = "blockStart" /\ cmd.block = block'
    /\ Transmit(cmd)
    /\ step' = step /\ block' = block + 1 /\ reported' = reported
    /\ NotStarted /\ ~NotStarted'

\* Every answer on its way is then to an earlier command.
LEMMA FirstSendKeeps ==
    ASSUME BaseInv, BaseInv', AnswersInv, NEW cmd, FirstSend(cmd)
    PROVE  AnswersInv'
<1>1. /\ cmd \in Commands /\ cmd.op = "blockStart" /\ cmd.block = block' /\ Transmit(cmd)
      /\ step = "blockStart" /\ step' = "blockStart" /\ block' = block + 1 /\ Live' = Live
      /\ block \in Int /\ -1 <= block /\ block' \in Int /\ 0 <= block' /\ block < block'
      /\ ~NotStarted'
  <2>1. block \in Blocks \union {-1}
      BY DEF BaseInv, ClientTypes
  <2>2. block \in Int /\ -1 <= block
      BY <2>1, ConstantFacts DEF Blocks
  <2> QED BY <2>2 DEF FirstSend, NotStarted, Live
<1>2. ASSUME NEW n \in Nodes
      PROVE  /\ node[n] \in Receivers /\ ReceiverInv(node[n]) /\ node'[n] \in Receivers
             /\ ReceiverInv(node'[n])
             /\ \A i \in 1 .. Len(late[n]) : late[n][i] \in Statuses
             /\ node'[n] = node[n] \/ (n = cmd.dst /\ node'[n] = Handle(node[n], cmd))
    BY <1>1, TransmitFacts, PlaceTypes DEF BaseInv, NetInv
<1>3. ASSUME NEW n \in Nodes PROVE Onward(node[n], node'[n])
    BY <1>1, <1>2, HandleFacts, OnwardSame
<1>4. StoredInv'
  <2>1. ASSUME NEW n \in Live' PROVE Stored(node'[n])
    <3>1. n \in Nodes /\ Stored(node[n])
        BY <1>1 DEF AnswersInv, StoredInv, Live
    <3> QED BY <3>1, <1>1, <1>2, StoredKept
  <2> QED BY <2>1 DEF StoredInv
<1>5. NodesInv'
  <2>1. ASSUME NEW n \in Live' PROVE RxOkCount(node'[n]) = block'
    <3>1. n \in Nodes /\ RxOkCount(node[n]) = block'
        BY <1>1 DEF AnswersInv, NodesInv, Live, FirstSend
    <3>2. node'[n] = node[n] \/ node'[n] = OnBlockStart(node[n], block')
        BY <3>1, <1>1, <1>2, HandleFacts
    <3>3. block' \in Blocks \union {-1}
        BY <1>1, CommandFields
    <3> DEFINE b == block'
    <3>4. \/ node'[n] = node[n]
          \/ b = RxOkCount(node[n]) /\ node'[n].blk = b /\ ~node'[n].ok
        BY <3>1, <3>2, <3>3, <1>2, BlockStartFacts
    <3> QED BY <3>1, <3>4 DEF RxOkCount
  <2> QED BY <2>1, <1>1 DEF NodesInv, Chunking, Early
<1>6. ASSUME NEW n \in Nodes, NEW i \in 1 .. Len(late'[n]), NEW s, s = late'[n][i]
      PROVE  LateFact(n, s)' /\ ~OfGet(s)'
  <2>1. CASE i \in 1 .. Len(late[n]) /\ s = late[n][i]
    <3>1. LateFact(n, late[n][i]) /\ late[n][i] \in Statuses
        BY <2>1, <1>2 DEF AnswersInv, LateInv
    <3>2. LateFact(n, s) /\ s \in Statuses
        BY <3>1, <2>1
    <3>3. block <= block'
        BY <1>1
    <3>4. LateFact(n, s)'
        BY <3>2, <3>3, <1>1, <1>2, <1>3, LateFactKept DEF BaseInv
    <3>5. s.to.block \in Int
        BY <3>2, StatusFields
    <3>6. s.to.op = "getBlock" => s.to.block # block'
        BY <3>2, <3>5, <1>1 DEF LateFact
    <3> QED BY <3>4, <3>6 DEF OfGet
  <2>2. CASE n = cmd.dst /\ s = StatusOf(node[n], cmd) /\ node'[n] = Handle(node[n], cmd)
    <3>1. s.to = cmd /\ (s.ok => Opened(node'[n]) /\ cmd.block <= node'[n].blk)
        BY <2>2, <1>1, <1>2, StatusFacts, AnswerFacts
    <3> QED BY <3>1, <1>1 DEF LateFact, OfGet
  <2> QED BY <1>1, <1>6, <2>1, <2>2, SentPlaces DEF BaseInv
<1>7. LateInv' /\ OrderInv'
  <2>1. ASSUME NEW n \in Nodes, NEW i \in 1 .. Len(late'[n])
        PROVE  LateFact(n, late[n][i])' /\ ~OfGet(late[n][i])'
    <3>1. PICK s : s = late'[n][i]
        OBVIOUS
    <3>2. LateFact(n, s)' /\ ~OfGet(s)'
        BY <3>1, <1>6
    <3> QED BY <3>1, <3>2 DEF LateFact, OfGet
  <2> QED BY <2>1 DEF LateInv, OrderInv
<1> QED BY <1>4, <1>5, <1>7 DEF AnswersInv

\* Answers arrive, or are lost with the connection; nothing is sent.
Shrinks ==
    /\ node' = node
    /\ \A n \in Nodes : \E d \in {0, 1} :
          \A i \in 1 .. Len(late'[n]) : i + d \in 1 .. Len(late[n]) /\ late'[n][i] = late[n][i + d]

\* So they do.
LEMMA ShrinksFacts ==
    ASSUME NetInv, node' = node,
           \/ late' = late
           \/ \E n \in Nodes : late[n] # <<>> /\ late' = [late EXCEPT ![n] = Tail(@)]
           \/ late' = [n \in Nodes |-> <<>>]
    PROVE  Shrinks
<1>1. ASSUME NEW n \in Nodes
      PROVE  /\ late[n] \in Seq(Statuses) /\ Len(late[n]) \in Nat
             /\ late[n] # <<>> => \A i \in 1 .. Len(Tail(late[n])) :
                      i + 1 \in 1 .. Len(late[n]) /\ Tail(late[n])[i] = late[n][i + 1]
             /\ \A i \in 1 .. Len(late[n]) : i + 0 = i
    BY QueueFacts DEF NetInv
<1>2. ASSUME NEW n \in Nodes
      PROVE  \E d \in {0, 1} : \A i \in 1 .. Len(late'[n]) :
                i + d \in 1 .. Len(late[n]) /\ late'[n][i] = late[n][i + d]
  <2>1. \/ late'[n] = late[n]
        \/ late[n] # <<>> /\ late'[n] = Tail(late[n])
        \/ late'[n] = <<>>
      BY DEF NetInv
  <2>2. CASE late'[n] = late[n]
      BY <2>2, <1>1
  <2>3. CASE late[n] # <<>> /\ late'[n] = Tail(late[n])
      BY <2>3, <1>1
  <2>4. CASE late'[n] = <<>>
    <3>1. 1 .. Len(late'[n]) = {}
        BY <2>4
    <3> QED BY <3>1
  <2> QED BY <2>1, <2>2, <2>3, <2>4
<1> QED BY <1>2 DEF Shrinks

\* What is left on the way is no worse.
LEMMA ShrinksKeeps ==
    ASSUME BaseInv, BaseInv', AnswersInv, Shrinks,
           step' = step, block' = block, reported \subseteq reported', NotStarted <=> NotStarted'
    PROVE  /\ AnswersInv'
           /\ \A n \in Nodes : /\ HasSome(n) => HasSome(n)'
                               /\ StartsGone(n) => StartsGone(n)'
<1>1. Live' \subseteq Live /\ node' = node
    BY DEF Live, Shrinks
<1>2. StoredInv'
    BY <1>1 DEF AnswersInv, StoredInv
<1>3. NodesInv'
    BY <1>1 DEF AnswersInv, NodesInv, Chunking
<1>4. ASSUME NEW n \in Nodes
      PROVE  /\ \A i \in 1 .. Len(late'[n]) :
                  LateFact(n, late[n][i])' /\ (OfGet(late[n][i])' => Chunking \/ NotStarted)
             /\ HasSome(n) => HasSome(n)'
             /\ StartsGone(n) => StartsGone(n)'
             /\ \A i, j \in 1 .. Len(late'[n]) :
                  OfGet(late[n][i])' /\ i <= j =>
                     /\ ~OfStart(late[n][j])'
                     /\ Chunking /\ late'[n][i].format # "all" =>
                           /\ node[n].miss # Chunks
                           /\ OfGet(late[n][j])' => late'[n][j].format # "all"
  <2>1. PICK d \in {0, 1} : \A i \in 1 .. Len(late'[n]) :
                i + d \in 1 .. Len(late[n]) /\ late'[n][i] = late[n][i + d]
      BY DEF Shrinks
  <2>2. ASSUME NEW i \in 1 .. Len(late'[n])
        PROVE  /\ OfGet(late[n][i])' <=> OfGet(late[n][i + d])
               /\ OfStart(late[n][i])' <=> OfStart(late[n][i + d])
      BY <2>1 DEF OfGet, OfStart
  <2>3. ASSUME NEW i \in 1 .. Len(late'[n]) PROVE LateFact(n, late[n][i])'
    <3>1. LateFact(n, late[n][i + d])
        BY <2>1 DEF AnswersInv, LateInv
    <3> QED BY <3>1, <2>1, <1>1 DEF LateFact
  <2>4. ASSUME NEW i \in 1 .. Len(late'[n]), OfGet(late[n][i])' PROVE Chunking \/ NotStarted
      BY <2>1, <2>2, <2>4 DEF AnswersInv, LateInv
  <2>5. HasSome(n) => HasSome(n)'
      BY <1>1, <2>1, <2>2 DEF HasSome
  <2>6. StartsGone(n) => StartsGone(n)'
      BY <1>1, <2>1, <2>2 DEF StartsGone
  <2>7. ASSUME NEW i \in 1 .. Len(late'[n]), NEW j \in 1 .. Len(late'[n]),
               OfGet(late[n][i])', i <= j
        PROVE  /\ ~OfStart(late[n][j])'
               /\ Chunking /\ late'[n][i].format # "all" =>
                     /\ node[n].miss # Chunks
                     /\ OfGet(late[n][j])' => late'[n][j].format # "all"
    <3>1. /\ i + d \in 1 .. Len(late[n]) /\ j + d \in 1 .. Len(late[n]) /\ i + d <= j + d
          /\ OfGet(late[n][i + d])
        BY <2>1, <2>2, <2>7
    <3>2. /\ ~OfStart(late[n][j + d])
          /\ Chunking /\ late[n][i + d].format # "all" =>
                /\ node[n].miss # Chunks
                /\ OfGet(late[n][j + d]) => late[n][j + d].format # "all"
        BY <3>1 DEF AnswersInv, OrderInv
    <3> QED BY <3>2, <2>1, <2>2
  <2> QED BY <2>3, <2>4, <2>5, <2>6, <2>7
<1>5. LateInv'
    BY <1>4 DEF LateInv, Chunking
<1>6. OrderInv'
    BY <1>1, <1>4 DEF OrderInv, Chunking
<1> QED BY <1>2, <1>3, <1>4, <1>5, <1>6 DEF AnswersInv

\* A chunk of the client's block is sent.
MidChunk ==
    /\ Chunking /\ step' = step /\ block' = block /\ reported' = reported /\ late' = late
    /\ \E c \in Chunks : \A n \in Nodes : node'[n] \in {node[n], OnChunk(node[n], block, c)}

\* Chunks go into the block that all targets have open, and take nothing away.
LEMMA MidChunkKeeps ==
    ASSUME BaseInv, BaseInv', AnswersInv, MidChunk
    PROVE  /\ AnswersInv'
           /\ \A n \in Nodes : /\ HasSome(n) => HasSome(n)'
                               /\ StartsGone(n) => StartsGone(n)'
                               /\ Onward(node[n], node'[n])
<1>1. /\ Chunking /\ step' = step /\ block' = block /\ Live' = Live /\ late' = late
      /\ Chunking' /\ ~NotStarted /\ step \notin Early /\ step # "blockStart"
    BY DEF MidChunk, Live, Chunking, NotStarted, Early
<1>2. PICK c \in Chunks : \A n \in Nodes : node'[n] \in {node[n], OnChunk(node[n], block, c)}
    BY DEF MidChunk
<1>3. block \in Blocks \union {-1} /\ block' \in Int /\ block \in Int /\ block <= block'
    BY <1>1, ConstantFacts DEF BaseInv, ClientTypes, Blocks
<1>4. ASSUME NEW n \in Nodes
      PROVE  /\ node[n] \in Receivers /\ ReceiverInv(node[n]) /\ node'[n] \in Receivers
             /\ \A i \in 1 .. Len(late[n]) : late[n][i] \in Statuses
             /\ Onward(node[n], node'[n])
             /\ node'[n].blk = node[n].blk /\ node'[n].miss \subseteq node[n].miss
             /\ node[n].miss \subseteq Chunks
  <2>1. /\ node[n] \in Receivers /\ ReceiverInv(node[n]) /\ node'[n] \in Receivers
        /\ \A i \in 1 .. Len(late[n]) : late[n][i] \in Statuses
      BY PlaceTypes DEF BaseInv, NetInv
  <2>2. node'[n] = node[n] \/ node'[n] = OnChunk(node[n], block, c)
      BY <1>2
  <2>3. CASE node'[n] = node[n]
      BY <2>1, <2>3, OnwardSame, ReceiverFields
  <2>4. CASE node'[n] = OnChunk(node[n], block, c)
    <3>1. /\ Onward(node[n], node'[n])
          /\ node'[n].blk = node[n].blk /\ node'[n].miss \subseteq node[n].miss
        BY <2>1, <2>4, <1>3, ChunkFacts
    <3> QED BY <3>1, <2>1, ReceiverFields
  <2> QED BY <2>2, <2>3, <2>4
<1>5. ASSUME NEW n \in Live'
      PROVE  Stored(node'[n]) /\ Opened(node'[n]) /\ node'[n].blk = block
  <2>1. n \in Nodes /\ Stored(node[n]) /\ Opened(node[n]) /\ node[n].blk = block
      BY <1>1 DEF AnswersInv, StoredInv, NodesInv, Live
  <2>2. Stored(node'[n])
      BY <2>1, <1>2, <1>4, StoredChunk
  <2> QED BY <2>1, <2>2, <1>4 DEF Onward
<1>6. StoredInv' /\ NodesInv'
  <2>1. 0 <= block
      BY <1>1 DEF AnswersInv, NodesInv, Chunking, BlockSteps
  <2> QED BY <2>1, <1>1, <1>5 DEF StoredInv, NodesInv, Chunking
<1>7. ASSUME NEW n \in Nodes, NEW i \in 1 .. Len(late[n])
      PROVE  LateFact(n, late[n][i])'
  <2>1. PICK s \in Statuses : s = late[n][i]
      BY <1>4
  <2>2. LateFact(n, s)
      BY <2>1 DEF AnswersInv, LateInv
  <2>3. LateFact(n, s)'
      BY <2>2, <1>1, <1>3, <1>4, LateFactKept DEF BaseInv
  <2> QED BY <2>1, <2>3, <1>1 DEF LateFact
<1>8. LateInv'
    BY <1>1, <1>7 DEF LateInv
<1>9. ASSUME NEW n \in Nodes
      PROVE  node[n].miss # Chunks => node'[n].miss # Chunks
    BY <1>4
<1>10. OrderInv'
    BY <1>1, <1>9 DEF AnswersInv, OrderInv, OfGet, OfStart
<1>11. ASSUME NEW n \in Nodes
       PROVE  (HasSome(n) => HasSome(n)') /\ (StartsGone(n) => StartsGone(n)')
    BY <1>1, <1>9 DEF HasSome, StartsGone, OfGet, OfStart
<1> QED BY <1>4, <1>6, <1>8, <1>10, <1>11 DEF AnswersInv

-----------------------------------------------------------------------------
(* Regular steps.                                                            *)

\* What was misread or went another way stays so.
LEMMA RegularStays ==
    ASSUME BaseInv, [Next]_vars, Regular'
    PROVE  Regular
<1> USE DEF Regular
<1>0. misread \in BOOLEAN /\ derailed \in BOOLEAN
    BY DEF BaseInv, ClientTypes
<1>1. ASSUME NEW n \in Nodes, ReceiveStatus(n) PROVE Regular
    BY <1>0, <1>1 DEF ReceiveStatus, OnStatus
<1>2. ASSUME NEW n \in Nodes \union {Proxy}, Reconnect(n) PROVE Regular
    BY <1>0, <1>2 DEF Reconnect
<1>3. CASE StepComplete \/ SendToTarget
    BY <1>3 DEF StepComplete, SendToTarget
<1>4. CASE StartBlock \/ AllBlocksSent
    BY <1>0, <1>4 DEF StartBlock, AllBlocksSent
<1>5. CASE StartSending \/ ChunkTask \/ MissingChunkTask
    BY <1>5 DEF StartSending, ChunkTask, MissingChunkTask
<1>6. CASE Retry \/ CommandFail
    BY <1>6 DEF Retry, CommandFail
<1>7. CASE LoseConnection \/ Hold \/ ContinueAnswered
    BY <1>0, <1>7 DEF LoseConnection, Hold, ContinueAnswered
<1>8. CASE UNCHANGED vars
    BY <1>8 DEF vars
<1> QED BY <1>1, <1>2, <1>3, <1>4, <1>5, <1>6, <1>7, <1>8 DEF Next

\* A node that has failed has been reported, and the others stay targets.
LEMMA TargetsStep ==
    ASSUME BaseInv, BaseInv', TargetsInv, [Next]_vars, Regular'
    PROVE  TargetsInv' /\ reported \subseteq reported'
<1> DEFINE Failing == \/ failed' = failed /\ reported' = reported
                      \/ /\ failed' = failed \union {Target}
                         /\ reported' = reported \union {Target}
<1>1. ASSUME targets' = targets, Failing PROVE TargetsInv' /\ reported \subseteq reported'
    BY <1>1 DEF TargetsInv, Live
<1>2. ASSUME NEW n \in Nodes, ReceiveStatus(n) PROVE targets' = targets /\ Failing
    BY <1>2 DEF ReceiveStatus, OnStatus, DeviceFail, failures
<1>3. ASSUME NEW n \in Nodes \union {Proxy}, Reconnect(n)
      PROVE  TargetsInv' /\ reported \subseteq reported'
    BY <1>3 DEF Reconnect, BaseInv, ListInv, TargetsInv, Live, Regular
<1>4. CASE StepComplete
  <2>1. targets \in Seq(Nodes)
      BY DEF BaseInv, ClientTypes
  <2>2. Range(targets') = Range(targets) \ failed /\ failed' = {} /\ reported' = reported
      BY <2>1, <1>4, WithoutFacts DEF StepComplete, RemainingTargets
  <2> QED BY <2>2 DEF TargetsInv, Live
<1>5. CASE SendToTarget \/ StartBlock
    BY <1>1, <1>5 DEF SendToTarget, StartBlock, SendCommand, DeviceFail, failures
<1>6. CASE AllBlocksSent \/ StartSending \/ ChunkTask \/ MissingChunkTask
    BY <1>1, <1>6 DEF AllBlocksSent, StartSending, ChunkTask, MissingChunkTask, failures
<1>7. CASE Retry \/ CommandFail
    BY <1>1, <1>7 DEF Retry, CommandFail, DeviceFail, failures
<1>8. CASE LoseConnection \/ Hold \/ ContinueAnswered
    BY <1>1, <1>8 DEF LoseConnection, Hold, ContinueAnswered, failures
<1>9. CASE UNCHANGED vars
    BY <1>1, <1>9 DEF vars
<1> QED BY <1>1, <1>2, <1>3, <1>4, <1>5, <1>6, <1>7, <1>8, <1>9 DEF Next

\* Once completed, the transfer leaves the nodes alone.
LEMMA DoneStep ==
    ASSUME BaseInv, DeliveryInv, [Next]_vars, reported \subseteq reported', outcome # "pending"
    PROVE  DeliveryInv'
<1>1. outcome' = outcome
    BY CompletedStays DEF BaseInv
<1>2. slot = NoCommand /\ (link = "up" => tasks = {})
    BY DEF DeliveryInv, DoneInv
<1>3. node' = node
  <2>1. ASSUME NEW cmd \in Commands, Sends(cmd) PROVE FALSE
      BY <2>1, <1>2 DEF Sends
  <2>2. ASSUME NEW c \in Chunks, SendsChunk(c) PROVE FALSE
      BY <2>2, <1>2 DEF SendsChunk
  <2> QED BY <2>1, <2>2, NetworkMoves DEF SendsNothing
<1>4. slot' = NoCommand /\ (link' = "up" => tasks' = {})
  <2>1. link \notin {"held", "asking"}
      BY DEF BaseInv, LinkInv
  <2>2. CASE link = "up"
    <3>1. tasks = {}
        BY <2>2, <1>2
    <3>2. ASSUME NEW n \in Nodes, ReceiveStatus(n)
          PROVE  slot' = NoCommand /\ (link' = "up" => tasks' = {})
        BY <3>1, <3>2, <1>2 DEF ReceiveStatus, Accepts
    <3>3. ASSUME NEW n \in Nodes \union {Proxy}, Reconnect(n) PROVE FALSE
        BY <3>3, <2>2 DEF Reconnect
    <3>4. ~(\/ StepComplete \/ SendToTarget \/ StartBlock \/ AllBlocksSent \/ StartSending
            \/ ChunkTask \/ MissingChunkTask)
        BY <3>1 DEF StepComplete, SendToTarget, StartBlock, AllBlocksSent, StartSending,
                    ChunkTask, MissingChunkTask
    <3>5. ~(Retry \/ CommandFail \/ LoseConnection \/ Hold \/ ContinueAnswered)
        BY <2>2, <1>2 DEF Retry, CommandFail, LoseConnection, Hold, ContinueAnswered
    <3>6. CASE UNCHANGED vars
        BY <3>1, <3>6, <1>2 DEF vars
    <3> QED BY <3>2, <3>3, <3>4, <3>5, <3>6 DEF Next
  <2>3. CASE link # "up"
    <3>1. ASSUME NEW n \in Nodes, ReceiveStatus(n) PROVE slot' = NoCommand /\ link' = link
        BY <3>1, <1>2 DEF ReceiveStatus, session
    <3>2. ASSUME NEW n \in Nodes \union {Proxy}, Reconnect(n) PROVE FALSE
        BY <3>2, <2>1 DEF Reconnect
    <3>3. CASE SendToTarget \/ StartBlock
        BY <3>3, <2>3, <1>2 DEF SendToTarget, StartBlock, SendCommand, session, service
    <3>4. CASE StepComplete \/ AllBlocksSent \/ StartSending \/ ChunkTask \/ MissingChunkTask
        BY <3>4, <2>3, <1>2
        DEF StepComplete, AllBlocksSent, StartSending, ChunkTask, MissingChunkTask, session,
            service
    <3>5. ~(Retry \/ CommandFail \/ LoseConnection \/ Hold \/ ContinueAnswered)
        BY <2>1, <2>3, <1>2 DEF Retry, CommandFail, LoseConnection, Hold, ContinueAnswered
    <3>6. CASE UNCHANGED vars
        BY <3>6, <2>3, <1>2 DEF vars
    <3> QED BY <3>1, <3>2, <3>3, <3>4, <3>5, <3>6, <2>3 DEF Next
  <2> QED BY <2>2, <2>3
<1>5. Live' \subseteq Live
    BY DEF Live
<1> QED BY <1>1, <1>3, <1>4, <1>5 DEF DeliveryInv, DoneInv, StoredInv

\* A regular step of a transfer under way.
RegularStep ==
    /\ BaseInv /\ BaseInv' /\ TargetsInv /\ TargetsInv' /\ DeliveryInv
    /\ reported \subseteq reported' /\ outcome = "pending" /\ Regular /\ Regular'

\* What is known before it.
LEMMA RegularStepFacts ==
    ASSUME RegularStep
    PROVE  /\ BaseInv /\ BaseInv' /\ NetInv /\ PendingInv /\ AnswersInv
           /\ AnsweredInv /\ StartedInv /\ LoopInv /\ SlotRegular /\ TasksRegular
           /\ Live' \subseteq Live
           /\ nodeIndex \in Nat /\ nodeIndex' \in Nat
           /\ Len(targets) \in Nat /\ targets \in Seq(Nodes) /\ IsInjective(targets)
           /\ \A i \in 1 .. Len(targets) : targets[i] \in Nodes
           /\ block \in Int /\ -1 <= block /\ block < BlockNum
           /\ slot # NoCommand => link = "up" /\ Targeted
           /\ step \in Early \union BlockSteps
<1>1. /\ BaseInv /\ BaseInv' /\ NetInv /\ PendingInv /\ AnswersInv
      /\ AnsweredInv /\ StartedInv /\ LoopInv /\ SlotRegular /\ TasksRegular
    BY DEF RegularStep, DeliveryInv, PendingInv, AnswersInv, BaseInv
<1>2. Live' \subseteq Live
    BY DEF RegularStep, Live
<1>3. /\ nodeIndex \in Nat /\ nodeIndex' \in Nat
      /\ Len(targets) \in Nat /\ targets \in Seq(Nodes) /\ IsInjective(targets)
      /\ \A i \in 1 .. Len(targets) : targets[i] \in Nodes
    BY <1>1, ConstantFacts DEF BaseInv, ClientTypes, ListInv
<1>4. block \in Int /\ -1 <= block /\ block < BlockNum
    BY <1>1, ConstantFacts DEF BaseInv, ClientTypes, Blocks
<1>5. ASSUME slot # NoCommand PROVE link = "up" /\ Targeted
  <2>1. PICK i \in 1 .. Len(targets) : i > nodeIndex
      BY <1>1, <1>5 DEF BaseInv, SlotInv, RegularStep
  <2> QED BY <2>1, <1>1, <1>3, <1>5 DEF BaseInv, LinkInv, Targeted
<1>6. step \in Early \union BlockSteps
    BY <1>1, StepFacts DEF BaseInv, StepInv, ClientTypes, RegularStep, Early, BlockSteps
<1> QED BY <1>1, <1>2, <1>3, <1>4, <1>5, <1>6

\* A step that leaves the round of targets where it is.
SameRound ==
    /\ step' = step /\ block' = block /\ nodeIndex' = nodeIndex /\ targets' = targets
    /\ mixFormat' = mixFormat /\ missing' = missing /\ failed \subseteq failed'
    /\ \A n \in Nodes : Onward(node[n], node'[n])
    /\ step = "getBlock" => \A n \in Nodes : /\ HasSome(n) => HasSome(n)'
                                             /\ StartsGone(n) => StartsGone(n)'
    /\ NotStarted' => NotStarted /\ \A n \in Nodes : StartsGone(n) => StartsGone(n)'
    /\ step = "getBlock" /\ FirstSilent /\ nodeIndex > 0 => FirstSilent'
    /\ "missing" \in tasks' =>
          /\ "missing" \in tasks
          /\ FirstSilent /\ nodeIndex = 0 /\ "action" \notin tasks /\ slot = NoCommand =>
                FirstSilent' /\ "action" \notin tasks' /\ slot' = NoCommand

\* Such a step leaves the facts about the targets that have had their turn.
LEMMA SameRoundKeeps ==
    ASSUME RegularStep, AnswersInv', SameRound
    PROVE  AnsweredInv' /\ StartedInv' /\ LoopInv'
<1>1. /\ NetInv /\ NetInv' /\ AnsweredInv /\ StartedInv /\ LoopInv
      /\ Live' \subseteq Live /\ nodeIndex \in Nat
      /\ \A i \in 1 .. Len(targets) : targets[i] \in Nodes
      /\ block \in Int
    BY RegularStepFacts DEF BaseInv
<1>2. /\ step' = step /\ block' = block /\ nodeIndex' = nodeIndex /\ targets' = targets
      /\ mixFormat' = mixFormat /\ missing' = missing /\ failed \subseteq failed'
      /\ \A n \in Nodes : Onward(node[n], node'[n])
      /\ step = "getBlock" => \A n \in Nodes : /\ HasSome(n) => HasSome(n)'
                                               /\ StartsGone(n) => StartsGone(n)'
    BY DEF SameRound
<1>3. Live' \subseteq Nodes
    BY DEF Live
<1>4. ASSUME NEW n \in Live'
      PROVE  /\ node[n] \in Receivers /\ node'[n] \in Receivers
             /\ node[n].blk \in Nat /\ node'[n].blk \in Nat /\ node[n].blk <= node'[n].blk
             /\ RxOkCount(node[n]) \in Nat /\ RxOkCount(node'[n]) \in Nat
             /\ RxOkCount(node[n]) <= RxOkCount(node'[n])
             /\ node'[n].blk <= RxOkCount(node'[n])
             /\ RxOkCount(node'[n]) <= node'[n].blk + 1
             /\ Opened(node[n]) => Opened(node'[n])
    BY <1>1, <1>2, <1>3, PlaceTypes, ReceiverFields DEF NetInv, Onward
<1>5. AnsweredInv'
  <2>1. ASSUME step = "blockStart", NEW i \in 1 .. nodeIndex, i <= Len(targets),
               targets[i] \in Live'
        PROVE  Opened(node'[targets[i]]) /\ node'[targets[i]].blk = block
    <3> DEFINE n == targets[i]
    <3>1. Opened(node[n]) /\ node[n].blk = block /\ n \in Live'
        BY <2>1, <1>1 DEF AnsweredInv
    <3>2. ~NotStarted'
        BY <2>1, <1>1, <1>2 DEF NotStarted
    <3>3. RxOkCount(node'[n]) = block
        BY <3>1, <3>2, <2>1, <1>2 DEF AnswersInv, NodesInv
    <3> HIDE DEF n
    <3>4. Opened(node'[n]) /\ node'[n].blk = block
        BY <3>1, <3>3, <1>1, <1>4
    <3> QED BY <3>4 DEF n
  <2>2. ASSUME step = "getBlock", NEW i \in 1 .. nodeIndex, i <= Len(targets),
               targets[i] \in Live'
        PROVE  /\ mixFormat # "unknown"
               /\ mixFormat = "none" => RxOkCount(node'[targets[i]]) = block + 1
    <3> DEFINE n == targets[i]
    <3>1. mixFormat # "unknown" /\ (mixFormat = "none" => RxOkCount(node[n]) = block + 1)
          /\ n \in Live'
        BY <2>2, <1>1 DEF AnsweredInv
    <3>2. node'[n].blk = block
        BY <3>1, <2>2, <1>2 DEF AnswersInv, NodesInv, Chunking
    <3> HIDE DEF n
    <3>3. mixFormat # "unknown" /\ (mixFormat = "none" => RxOkCount(node'[n]) = block + 1)
        BY <3>1, <3>2, <1>1, <1>4
    <3> QED BY <3>3 DEF n
  <2> QED BY <2>1, <2>2, <1>1, <1>2 DEF AnsweredInv
<1>6. StartedInv'
  <2>1. ASSUME step = "getBlock", NEW i \in 1 .. nodeIndex, i <= Len(targets),
               targets[i] \notin failed'
        PROVE  StartsGone(targets[i])'
    <3>1. i \in 1 .. Len(targets)
        BY <2>1, <1>1
    <3>2. PICK n \in Nodes : n = targets[i]
        BY <3>1, <1>1
    <3>3. StartsGone(n)
        BY <2>1, <3>2, <1>1, <1>2 DEF StartedInv
    <3>4. StartsGone(n)'
        BY <3>3, <2>1, <1>2
    <3> QED BY <3>2, <3>4, <1>2 DEF StartsGone
  <2>2. ASSUME NotStarted', NEW i \in 1 .. Len(targets)
        PROVE  StartsGone(targets[i])'
    <3>1. PICK n \in Nodes : n = targets[i]
        BY <1>1
    <3>2. NotStarted /\ (StartsGone(n) => StartsGone(n)')
        BY <2>2 DEF SameRound
    <3>3. StartsGone(n)
        BY <3>1, <3>2, <1>1 DEF StartedInv
    <3> QED BY <3>1, <3>2, <3>3, <1>2 DEF StartsGone
  <2> QED BY <2>1, <2>2, <1>2 DEF StartedInv
<1>7. LoopInv'
  <2> SUFFICES ASSUME step = "getBlock" PROVE LoopInv'
      BY <1>2 DEF LoopInv
  <2>1. ASSUME NEW i \in 1 .. Len(targets), HasSome(targets[i])
        PROVE  HasSome(targets[i])'
    <3>1. PICK n \in Nodes : n = targets[i]
        BY <1>1
    <3>2. HasSome(n)'
        BY <3>1, <2>1, <1>2
    <3> QED BY <3>1, <3>2, <1>2 DEF HasSome
  <2>2. \/ nodeIndex' > 0 /\ FirstSilent'
        \/ \A i \in 1 .. nodeIndex' : i <= Len(targets') /\ targets'[i] \notin failed' =>
              mixFormat' # "unknown" /\ (mixFormat' # "all" => HasSome(targets[i])')
    <3>1. CASE nodeIndex > 0 /\ FirstSilent
        BY <3>1, <1>2 DEF SameRound
    <3>2. CASE \A i \in 1 .. nodeIndex : i <= Len(targets) /\ targets[i] \notin failed =>
                 mixFormat # "unknown" /\ (mixFormat # "all" => HasSome(targets[i]))
      <4>1. ASSUME NEW i \in 1 .. nodeIndex, i <= Len(targets), targets[i] \notin failed'
            PROVE  mixFormat # "unknown" /\ (mixFormat # "all" => HasSome(targets[i])')
        <5>1. i \in 1 .. Len(targets)
            BY <4>1, <1>1
        <5>2. mixFormat # "unknown" /\ (mixFormat # "all" => HasSome(targets[i]))
            BY <4>1, <3>2, <1>2
        <5> QED BY <5>1, <5>2, <2>1
      <4> QED BY <4>1, <1>2
    <3> QED BY <3>1, <3>2, <1>1 DEF LoopInv
  <2>3. ASSUME "missing" \in tasks'
        PROVE  \/ \A i \in 1 .. Len(targets') : HasSome(targets[i])'
               \/ FirstSilent' /\ nodeIndex' = 0 /\ "action" \notin tasks' /\ slot' = NoCommand
    <3>1. CASE \A i \in 1 .. Len(targets) : HasSome(targets[i])
        BY <3>1, <2>1, <1>2
    <3>2. CASE FirstSilent /\ nodeIndex = 0 /\ "action" \notin tasks /\ slot = NoCommand
        BY <3>2, <2>3, <1>2 DEF SameRound
    <3> QED BY <3>1, <3>2, <2>3, <1>1 DEF LoopInv, SameRound
  <2> QED BY <2>2, <2>3, <1>2 DEF LoopInv
<1> QED BY <1>5, <1>6, <1>7

\* The first target stays silent when nothing is sent.
LEMMA SilentShrinks ==
    ASSUME Shrinks, FirstSilent, Range(targets) \subseteq Nodes, targets \in Seq(Nodes),
           block' = block, targets' = targets, slot' \in {slot, NoCommand},
           targets[1] \notin failed'
    PROVE  FirstSilent'
<1> DEFINE n == targets[1]
<1>1. n \in Nodes /\ targets # <<>>
    BY DEF FirstSilent
<1>2. PICK d \in {0, 1} : \A i \in 1 .. Len(late'[n]) :
            i + d \in 1 .. Len(late[n]) /\ late'[n][i] = late[n][i + d]
    BY <1>1 DEF Shrinks
<1>3. \A i \in 1 .. Len(late'[n]) : ~OfGet(late[n][i + d])
    BY <1>2 DEF FirstSilent
<1>4. \A i \in 1 .. Len(late'[n]) :
          ~(late'[n][i].to.op = "getBlock" /\ late'[n][i].to.block = block)
    BY <1>2, <1>3 DEF OfGet
<1>5. slot' # NoCommand => slot'.dst # n
    BY DEF FirstSilent
<1> QED BY <1>1, <1>4, <1>5 DEF FirstSilent, OfGet

\* The next target's turn: the one before has failed or done the step.
NextRound ==
    /\ step' = step /\ block' = block /\ nodeIndex' = nodeIndex + 1 /\ targets' = targets
    /\ tasks' = tasks \union {"action"} /\ outcome' = "pending"
    /\ Targeted /\ Shrinks /\ step # "chunkSending" /\ ~NotStarted
    /\ slot' \in {slot, NoCommand} /\ (step # "getBlock" => slot' = NoCommand)
    /\ failed \subseteq failed' /\ failed' \subseteq failed \union {Target}
    /\ mixFormat # "unknown" => mixFormat' # "unknown"
    /\ mixFormat' = "none" => mixFormat \in {"none", "unknown"}
    /\ mixFormat = "all" => mixFormat' = "all"
    /\ Target \in Live' /\ step = "blockStart" =>
          Opened(node[Target]) /\ node[Target].blk = block
    /\ step = "getBlock" =>
          /\ mixFormat' = "some" => missing' # <<>>
          /\ Target \in Live' =>
                /\ mixFormat' # "unknown"
                /\ mixFormat' = "none" => RxOkCount(node[Target]) = block + 1
          /\ Target \notin failed' => mixFormat' # "unknown"
          /\ \A n \in Nodes \ failed' : n = Target =>
                StartsGone(n)' /\ (mixFormat' # "all" => HasSome(n)')
          /\ "missing" \in tasks =>
                mixFormat' = "some" /\ \A i \in 1 .. Len(targets) : HasSome(targets[i])

\* So what holds of the targets that have had their turn holds of one more.
LEMMA NextRoundKeeps ==
    ASSUME RegularStep, NextRound
    PROVE  DeliveryInv'
<1>1. /\ AnswersInv /\ AnsweredInv /\ StartedInv /\ LoopInv /\ SlotRegular /\ TasksRegular
      /\ BaseInv /\ BaseInv'
      /\ Live' \subseteq Live /\ nodeIndex \in Nat /\ Len(targets) \in Nat
      /\ \A i \in 1 .. Len(targets) : targets[i] \in Nodes
      /\ targets \in Seq(Nodes) /\ IsInjective(targets) /\ block \in Int
    BY RegularStepFacts
<1>2. /\ step' = step /\ block' = block /\ nodeIndex' = nodeIndex + 1 /\ targets' = targets
      /\ tasks' = tasks \union {"action"} /\ outcome' = "pending"
      /\ Targeted /\ Shrinks /\ step # "chunkSending" /\ ~NotStarted
      /\ slot' \in {slot, NoCommand} /\ (step # "getBlock" => slot' = NoCommand)
      /\ failed \subseteq failed' /\ failed' \subseteq failed \union {Target}
      /\ node' = node
    BY DEF NextRound, Shrinks
<1> DEFINE k == nodeIndex + 1
<1>3. /\ k \in 1 .. Len(targets) /\ Target = targets[k] /\ Target \in Nodes
      /\ \A i \in 1 .. k : i \in 1 .. nodeIndex \/ i = k
    BY <1>1, <1>2 DEF Target, Targeted
<1>4. ~NotStarted' /\ k # 0
    BY <1>1, <1>2 DEF NotStarted
<1>5. /\ AnswersInv'
      /\ \A n \in Nodes : (HasSome(n) => HasSome(n)') /\ (StartsGone(n) => StartsGone(n)')
    BY <1>1, <1>2, <1>4, ShrinksKeeps DEF RegularStep
<1>6. SlotRegular'
    BY <1>1, <1>2 DEF SlotRegular
<1>7. TasksRegular'
  <2>1. "chunk" \notin tasks'
      BY <1>1, <1>2 DEF TasksRegular
  <2>2. "missing" \in tasks' => step' = "getBlock" /\ mixFormat' = "some"
      BY <1>1, <1>2 DEF TasksRegular, NextRound
  <2> QED BY <2>1, <2>2, <1>2 DEF TasksRegular
<1>8. AnsweredInv'
  <2>1. ASSUME step = "blockStart", NEW i \in 1 .. k, targets[i] \in Live'
        PROVE  Opened(node[targets[i]]) /\ node[targets[i]].blk = block
    <3>1. CASE i \in 1 .. nodeIndex
        BY <3>1, <2>1, <1>1, <1>3 DEF AnsweredInv
    <3>2. CASE i = k
        BY <3>2, <2>1, <1>3 DEF NextRound
    <3> QED BY <3>1, <3>2, <1>3
  <2>2. ASSUME step = "getBlock", NEW i \in 1 .. k, targets[i] \in Live'
        PROVE  /\ mixFormat' # "unknown"
               /\ mixFormat' = "none" => RxOkCount(node[targets[i]]) = block + 1
    <3>1. CASE i \in 1 .. nodeIndex
      <4>1. i \in 1 .. nodeIndex /\ i <= Len(targets) /\ targets[i] \in Live
          BY <3>1, <2>2, <1>1, <1>3
      <4>2. /\ mixFormat # "unknown"
            /\ mixFormat = "none" => RxOkCount(node[targets[i]]) = block + 1
          BY <4>1, <2>2, <1>1 DEF AnsweredInv
      <4> QED BY <4>2 DEF NextRound
    <3>2. CASE i = k
        BY <3>2, <2>2, <1>3 DEF NextRound
    <3> QED BY <3>1, <3>2, <1>3
  <2> QED BY <2>1, <2>2, <1>2 DEF AnsweredInv, NextRound
<1>9. StartedInv'
  <2>1. ASSUME step = "getBlock", NEW i \in 1 .. k, targets[i] \notin failed'
        PROVE  StartsGone(targets[i])'
    <3>1. CASE i \in 1 .. nodeIndex
      <4>1. i \in 1 .. Len(targets)
          BY <3>1, <1>1, <1>3
      <4>2. PICK n \in Nodes : n = targets[i]
          BY <4>1, <1>1
      <4>3. StartsGone(n)
          BY <3>1, <4>1, <4>2, <2>1, <1>1, <1>2 DEF StartedInv
      <4>4. StartsGone(n)'
          BY <4>3, <1>5
      <4> QED BY <4>2, <4>4, <1>2 DEF StartsGone
    <3>2. CASE i = k
      <4>1. PICK n \in Nodes \ failed' : n = targets[i] /\ n = Target
          BY <3>2, <2>1, <1>3
      <4>2. StartsGone(n)'
          BY <4>1, <2>1 DEF NextRound
      <4> QED BY <4>1, <4>2, <1>2 DEF StartsGone
    <3> QED BY <3>1, <3>2, <1>3
  <2> QED BY <2>1, <1>2, <1>4 DEF StartedInv
<1>10. LoopInv'
  <2> SUFFICES ASSUME step = "getBlock" PROVE LoopInv'
      BY <1>2 DEF LoopInv
  <2>1. ASSUME NEW i \in 1 .. Len(targets), HasSome(targets[i])
        PROVE  HasSome(targets[i])'
    <3>1. PICK n \in Nodes : n = targets[i]
        BY <1>1
    <3>2. HasSome(n)'
        BY <3>1, <2>1, <1>5
    <3> QED BY <3>1, <3>2, <1>2 DEF HasSome
  <2>2. \/ nodeIndex' > 0 /\ FirstSilent'
        \/ \A i \in 1 .. nodeIndex' : i <= Len(targets') /\ targets'[i] \notin failed' =>
              mixFormat' # "unknown" /\ (mixFormat' # "all" => HasSome(targets[i])')
    <3>1. CASE nodeIndex > 0 /\ FirstSilent
      <4>1. 1 \in 1 .. Len(targets) /\ k # 1
          BY <3>1, <1>1, <1>3
      <4>2. targets[1] # Target
          BY <4>1, <1>1, <1>3 DEF IsInjective
      <4>3. targets[1] \notin failed'
          BY <4>2, <3>1, <1>2 DEF FirstSilent
      <4>4. FirstSilent'
          BY <4>3, <3>1, <1>1, <1>2, SilentShrinks, RangeFacts
      <4> QED BY <4>4, <1>1, <1>2
    <3>2. CASE \A i \in 1 .. nodeIndex : i <= Len(targets) /\ targets[i] \notin failed =>
                 mixFormat # "unknown" /\ (mixFormat # "all" => HasSome(targets[i]))
      <4>1. ASSUME NEW i \in 1 .. k, targets[i] \notin failed'
            PROVE  mixFormat' # "unknown" /\ (mixFormat' # "all" => HasSome(targets[i])')
        <5>1. CASE i \in 1 .. nodeIndex
          <6>1. i \in 1 .. Len(targets) /\ targets[i] \notin failed
              BY <5>1, <4>1, <1>1, <1>2, <1>3
          <6>2. mixFormat # "unknown" /\ (mixFormat # "all" => HasSome(targets[i]))
              BY <6>1, <5>1, <3>2
          <6> QED BY <6>1, <6>2, <2>1 DEF NextRound
        <5>2. CASE i = k
          <6>1. PICK n \in Nodes \ failed' : n = targets[i] /\ n = Target
              BY <5>2, <4>1, <1>3
          <6>2. mixFormat' # "unknown" /\ (mixFormat' # "all" => HasSome(n)')
              BY <6>1 DEF NextRound
          <6> QED BY <6>1, <6>2, <1>2 DEF HasSome
        <5> QED BY <5>1, <5>2, <1>3
      <4> QED BY <4>1, <1>2
    <3> QED BY <3>1, <3>2, <1>1 DEF LoopInv
  <2>3. "missing" \in tasks' => \A i \in 1 .. Len(targets') : HasSome(targets[i])'
      BY <2>1, <1>2 DEF NextRound
  <2> QED BY <2>2, <2>3, <1>2 DEF LoopInv
<1> QED
  BY <1>2, <1>5, <1>6, <1>7, <1>8, <1>9, <1>10
  DEF DeliveryInv, DoneInv, PendingInv, AnswersInv

\* A step after which the round of targets is where it was.
LEMMA SameRoundDelivers ==
    ASSUME RegularStep, AnswersInv', SameRound, SlotRegular', TasksRegular', outcome' = "pending"
    PROVE  DeliveryInv'
    BY SameRoundKeeps DEF DeliveryInv, DoneInv, PendingInv, AnswersInv

\* A step that completes the transfer as a failure.
LEMMA FailureDelivers ==
    ASSUME RegularStep, outcome' = "failure", node' = node, slot' = NoCommand,
           link' = "up" => tasks' = {}
    PROVE  DeliveryInv'
    BY RegularStepFacts DEF DeliveryInv, DoneInv, AnswersInv, StoredInv

\* A step in which nothing is sent, the client takes nothing for an answer, and no
\* chunk loop begins.
LEMMA QuietStep ==
    ASSUME RegularStep, Shrinks, outcome' = "pending", step' = step, block' = block,
           nodeIndex' = nodeIndex, targets' = targets, failed' = failed, mixFormat' = mixFormat,
           missing' = missing, tasks' \subseteq tasks \/ (tasks' = {"action"} /\ slot = NoCommand),
           slot' \in {slot, NoCommand}, NotStarted <=> NotStarted'
    PROVE  DeliveryInv'
<1>1. /\ BaseInv /\ BaseInv' /\ AnswersInv /\ SlotRegular /\ TasksRegular
      /\ targets \in Seq(Nodes) /\ reported \subseteq reported'
    BY RegularStepFacts DEF RegularStep
<1>2. /\ AnswersInv'
      /\ \A n \in Nodes : (HasSome(n) => HasSome(n)') /\ (StartsGone(n) => StartsGone(n)')
    BY <1>1, ShrinksKeeps
<1>3. \A n \in Nodes : Onward(node[n], node'[n])
  <2>1. node' = node
      BY DEF Shrinks
  <2> QED BY <2>1, OnwardSame, <1>1, PlaceTypes DEF BaseInv
<1>4. FirstSilent => FirstSilent'
    BY <1>1, SilentShrinks, RangeFacts DEF FirstSilent
<1>5. SameRound
    BY <1>2, <1>3, <1>4 DEF SameRound
<1>6. SlotRegular' /\ TasksRegular'
  <2>1. Targeted' = Targeted /\ Target' = Target
      BY DEF Targeted, Target
  <2> QED BY <1>1, <2>1 DEF SlotRegular, TasksRegular
<1> QED BY <1>2, <1>5, <1>6, SameRoundDelivers

\* A status that is taken for the answer to the command of the step is that answer,
\* and after it the next target has its turn.
LEMMA AcceptedAnswer ==
    ASSUME RegularStep, NEW n \in Nodes, ReceiveStatus(n), Accepts(Head(late[n]), n)
    PROVE  NextRound
<1>1. /\ BaseInv /\ BaseInv' /\ NetInv /\ AnswersInv /\ AnsweredInv /\ StartedInv /\ LoopInv
      /\ SlotRegular /\ TasksRegular /\ block \in Int /\ nodeIndex \in Nat
      /\ targets \in Seq(Nodes) /\ ClientTypes /\ IsInjective(missing)
    BY RegularStepFacts DEF BaseInv, ListInv
<1>2. PICK s \in Statuses : /\ s = Head(late[n]) /\ s = late[n][1] /\ 1 \in 1 .. Len(late[n])
                            /\ AnswerInv(n, s) /\ LateFact(n, s)
                            /\ \A i \in 1 .. Len(Tail(late[n])) :
                                 Tail(late[n])[i] = late[n][i + 1] /\ i + 1 \in 1 .. Len(late[n])
  <2>1. late[n] \in Seq(Statuses) /\ late[n] # <<>>
      BY <1>1 DEF NetInv, ReceiveStatus
  <2>2. /\ Head(late[n]) = late[n][1] /\ 1 \in 1 .. Len(late[n])
        /\ late[n][1] \in Statuses
        /\ \A i \in 1 .. Len(Tail(late[n])) :
             Tail(late[n])[i] = late[n][i + 1] /\ i + 1 \in 1 .. Len(late[n])
      BY <2>1, QueueFacts
  <2> QED BY <2>2, <1>1 DEF NetInv, AnswersInv, LateInv
<1>3. /\ OnStatus(s) /\ late' = [late EXCEPT ![n] = Tail(@)] /\ late[n] # <<>>
      /\ slot' = IF slot # NoCommand /\ slot.dst = n /\ Answer(slot.op) = s.op
                 THEN NoCommand ELSE slot
      /\ step' = step /\ targets' = targets /\ node' = node /\ outcome' = "pending"
      /\ Targeted /\ Target = n /\ step \in Steps \ {"idle", "chunkSending"}
      /\ s.op = Answer(step)
    BY <1>2 DEF ReceiveStatus, Accepts
<1>4. s.to = [op |-> step, dst |-> Target, block |-> block]
    BY <1>3 DEF OnStatus, RegularStep, Regular
<1>5. s.to.op = step /\ s.to.block = block
    BY <1>4
<1>6. ~NotStarted
  <2>1. SUFFICES ASSUME NotStarted PROVE FALSE
      OBVIOUS
  <2>2. OfStart(late[n][1]) /\ 1 \in 1 .. Len(targets) /\ targets[1] = n
      BY <2>1, <1>1, <1>2, <1>3, <1>5 DEF OfStart, NotStarted, Targeted, Target
  <2> QED BY <2>1, <2>2, <1>1, <1>2 DEF StartedInv, StartsGone
<1>7. block' = block
    BY <1>1, <1>3 DEF OnStatus, AnswersInv, NodesInv, Early
<1>8. Shrinks
    BY <1>1, <1>3, ShrinksFacts
<1>9. slot' \in {slot, NoCommand} /\ (step # "getBlock" => slot' = NoCommand)
    BY <1>1, <1>3 DEF SlotRegular
<1>10. /\ nodeIndex' = nodeIndex + 1 /\ tasks' = tasks \union {"action"}
       /\ \/ s.ok /\ failed' = failed /\ reported' = reported
          \/ ~s.ok /\ failed' = failed \union {Target} /\ reported' = reported \union {Target}
       /\ \/ s.ok /\ step = "getBlock" /\ mixFormat' = Mix(s.format) /\ missing' = MixMissing(s)
          \/ ~(s.ok /\ step = "getBlock") /\ mixFormat' = mixFormat /\ missing' = missing
    BY <1>3 DEF OnStatus, NextTarget, DeviceFail, failures
<1>11. s.ok \in BOOLEAN /\ s.format \in {"none", "all", "some"}
    BY StatusFields
<1>12. /\ mixFormat # "unknown" => mixFormat' # "unknown"
       /\ mixFormat' = "none" => mixFormat \in {"none", "unknown"}
       /\ mixFormat = "all" => mixFormat' = "all"
    BY <1>10, <1>11 DEF Mix
<1>13. Target \in Live' => Target \in Live /\ s.ok
    BY <1>10 DEF Live, RegularStep
<1>14. ASSUME Target \in Live', step = "blockStart"
       PROVE  Opened(node[Target]) /\ node[Target].blk = block
  <2>1. Opened(node[n]) /\ block <= node[n].blk /\ RxOkCount(node[n]) = block
      BY <1>14, <1>1, <1>2, <1>3, <1>5, <1>6, <1>13 DEF LateFact, AnswersInv, NodesInv
  <2>2. node[n].blk \in Nat /\ node[n].blk <= RxOkCount(node[n])
      BY <1>1, PlaceTypes, ReceiverFields
  <2> QED BY <2>1, <2>2, <1>1, <1>3
<1> DEFINE Getting == step = "getBlock"
<1>15. ASSUME Getting, mixFormat' = "some" PROVE missing' # <<>>
  <2>1. mixFormat = "some" => missing # <<>>
      BY <1>15, <1>1 DEF AnsweredInv
  <2>2. s.format = "some" => s.miss # {}
      BY <1>15, <1>2, <1>5 DEF AnswerInv
  <2>3. CASE s.ok
    <3>1. mixFormat' = Mix(s.format) /\ missing' = MixMissing(s)
        BY <2>3, <1>10, <1>15
    <3>2. mixFormat = "some" \/ s.format = "some"
        BY <3>1, <1>15 DEF Mix
    <3>3. /\ missing # <<>> => MixMissing(s) # <<>>
          /\ s.miss # {} /\ Mix(s.format) # "all" => MixMissing(s) # <<>>
        BY <1>1, MixFacts
    <3> QED BY <3>1, <3>2, <3>3, <2>1, <2>2, <1>15
  <2>4. CASE ~s.ok
      BY <2>1, <2>4, <1>10, <1>15
  <2> QED BY <2>3, <2>4
<1>16. ASSUME Getting, Target \in Live'
       PROVE  /\ mixFormat' # "unknown"
              /\ mixFormat' = "none" => RxOkCount(node[Target]) = block + 1
  <2>1. s.ok /\ mixFormat' = Mix(s.format)
      BY <1>10, <1>13, <1>16
  <2>2. mixFormat' # "unknown" /\ (mixFormat' = "none" => s.format = "none")
      BY <2>1, <1>11 DEF Mix
  <2>3. s.format = "none" => block + 1 <= RxOkCount(node[n])
      BY <2>1, <1>2, <1>3, <1>5, <1>13, <1>16 DEF LateFact
  <2>4. node[n].blk = block
      BY <1>1, <1>3, <1>13, <1>16 DEF AnswersInv, NodesInv, Chunking
  <2>5. RxOkCount(node[n]) \in Nat /\ RxOkCount(node[n]) <= node[n].blk + 1
      BY <1>1, PlaceTypes, ReceiverFields
  <2>6. s.format = "none" => RxOkCount(node[n]) = block + 1
      BY <2>3, <2>4, <2>5, <1>1
  <2> QED BY <2>2, <2>6, <1>3
<1>17. ASSUME Getting, Target \notin failed'
       PROVE  /\ mixFormat' # "unknown" /\ StartsGone(n)'
              /\ mixFormat' # "all" => HasSome(n)'
  <2>1. s.ok /\ mixFormat' = Mix(s.format)
      BY <1>10, <1>17
  <2>2. mixFormat' # "unknown" /\ (mixFormat' # "all" => s.format # "all")
      BY <2>1, <1>11 DEF Mix
  <2>3. OfGet(late[n][1]) /\ Chunking
      BY <1>2, <1>5, <1>17 DEF OfGet, Chunking
  <2>4. /\ s.format # "all" => node[n].miss # Chunks
        /\ \A j \in 1 .. Len(late[n]) :
             /\ ~OfStart(late[n][j])
             /\ s.format # "all" => (OfGet(late[n][j]) => late[n][j].format # "all")
    <3>1. \A j \in 1 .. Len(late[n]) : 1 <= j
        OBVIOUS
    <3> QED BY <3>1, <2>3, <1>1, <1>2 DEF AnswersInv, OrderInv
  <2>5. late'[n] = Tail(late[n])
      BY <1>1, <1>3 DEF NetInv
  <2>6. \A i \in 1 .. Len(late'[n]) : late'[n][i] = late[n][i + 1] /\ i + 1 \in 1 .. Len(late[n])
      BY <2>5, <1>2
  <2>7. StartsGone(n)'
      BY <2>4, <2>6, <1>3, <1>7 DEF StartsGone, OfStart
  <2>8. s.format # "all" => HasSome(n)'
      BY <2>4, <2>6, <1>3, <1>7 DEF HasSome, OfGet
  <2> QED BY <2>2, <2>7, <2>8
<1>18. ASSUME Getting, "missing" \in tasks
       PROVE  mixFormat' = "some" /\ \A i \in 1 .. Len(targets) : HasSome(targets[i])
  <2>1. OfGet(late[n][1]) /\ Chunking
      BY <1>2, <1>5, <1>18 DEF OfGet, Chunking
  <2>2. ~(FirstSilent /\ nodeIndex = 0)
      BY <2>1, <1>2, <1>3 DEF FirstSilent, Target
  <2>3. \A i \in 1 .. Len(targets) : HasSome(targets[i])
      BY <2>2, <1>1, <1>18 DEF LoopInv
  <2>4. HasSome(n)
      BY <2>3, <1>1, <1>3 DEF Target, Targeted
  <2>5. s.format # "all" /\ mixFormat = "some"
      BY <2>1, <2>4, <1>1, <1>2, <1>18 DEF HasSome, TasksRegular
  <2>6. mixFormat' = "some"
      BY <2>5, <1>10, <1>11 DEF Mix
  <2> QED BY <2>3, <2>6
<1> HIDE DEF Getting
<1>19. /\ step # "chunkSending"
       /\ failed \subseteq failed' /\ failed' \subseteq failed \union {Target}
    BY <1>3, <1>10
<1>20. step = "getBlock" => Getting
    BY DEF Getting
<1> QED
  BY <1>3, <1>6, <1>7, <1>8, <1>9, <1>10, <1>12, <1>14, <1>15, <1>16, <1>17, <1>18, <1>19, <1>20
  DEF NextRound

\* ReceiveStatus
LEMMA RegularReceiveStatus ==
    ASSUME RegularStep, NEW n \in Nodes, ReceiveStatus(n)
    PROVE  DeliveryInv'
<1>1. CASE Accepts(Head(late[n]), n)
    BY <1>1, AcceptedAnswer, NextRoundKeeps
<1>2. CASE ~Accepts(Head(late[n]), n)
  <2>1. /\ late' = [late EXCEPT ![n] = Tail(@)] /\ late[n] # <<>>
        /\ slot' = IF slot # NoCommand /\ slot.dst = n /\ Answer(slot.op) = Head(late[n]).op
                   THEN NoCommand ELSE slot
        /\ step' = step /\ targets' = targets /\ node' = node /\ outcome' = "pending"
        /\ nodeIndex' = nodeIndex /\ tasks' = tasks /\ failed' = failed
        /\ mixFormat' = mixFormat /\ missing' = missing /\ block' = block
      BY <1>2 DEF ReceiveStatus, RegularStep, failures
  <2>2. Shrinks
      BY <2>1, RegularStepFacts, ShrinksFacts
  <2>3. NotStarted <=> NotStarted'
    <3>1. ASSUME step = "blockStart", slot # NoCommand PROVE slot' # NoCommand
      <4>1. slot.op = step /\ Targeted /\ slot.dst = Target /\ link = "up"
          BY <3>1, RegularStepFacts DEF SlotRegular
      <4>2. step \in Steps \ {"idle", "chunkSending"}
          BY <3>1, StepFacts
      <4> QED BY <4>1, <4>2, <3>1, <2>1, <1>2 DEF Accepts, RegularStep
    <3> QED BY <3>1, <2>1 DEF NotStarted
  <2> QED BY <2>1, <2>2, <2>3, QuietStep
<1> QED BY <1>1, <1>2

\* The first target stays silent when a command is sent to another one.
LEMMA SilentSend ==
    ASSUME NetInv, FirstSilent, targets \in Seq(Nodes), NEW cmd \in Commands, Transmit(cmd),
           cmd.dst # targets[1], block' = block, targets' = targets,
           slot' \in {slot, cmd}, targets[1] \notin failed'
    PROVE  FirstSilent'
<1> DEFINE n == targets[1]
<1>1. n \in Nodes /\ targets # <<>>
    BY DEF FirstSilent
<1>2. late'[n] = late[n]
    BY <1>1, TransmitFacts
<1>3. slot' # NoCommand => slot'.dst # n
    BY DEF FirstSilent
<1> QED BY <1>1, <1>2, <1>3 DEF FirstSilent, OfGet

\* A command of the step is sent to its target, in the middle of the step.
LEMMA CommandSent ==
    ASSUME RegularStep, "action" \in tasks, Targeted, ~NotStarted, step # "chunkSending",
           SendCommand([op |-> step, dst |-> Target, block |-> block]),
           tasks' = tasks \ {"action"}, step' = step, nodeIndex' = nodeIndex,
           targets' = targets, block' = block, mixFormat' = mixFormat, missing' = missing,
           outcome' = outcome
    PROVE  DeliveryInv'
<1> DEFINE cmd == [op |-> step, dst |-> Target, block |-> block]
<1>1. /\ BaseInv /\ BaseInv' /\ NetInv /\ AnswersInv /\ SlotRegular /\ TasksRegular
      /\ targets \in Seq(Nodes) /\ IsInjective(targets) /\ nodeIndex \in Nat
      /\ Len(targets) \in Nat
      /\ reported \subseteq reported' /\ outcome' = "pending"
      /\ targets \in Seq(Nodes)
      /\ tasks \subseteq Tasks
    BY RegularStepFacts DEF RegularStep, BaseInv, ClientTypes
<1>2. Target \in Nodes /\ step \in Steps \ {"idle", "chunkSending"}
    BY <1>1, TargetFacts, RegularStepFacts, StepFacts
    DEF BaseInv, ListInv, Early, BlockSteps
<1>3. /\ cmd \in Commands /\ cmd.op = step /\ cmd.dst = Target /\ cmd.block = block
      /\ SendCommand(cmd)
    BY <1>1, <1>2 DEF Commands, BaseInv, ClientTypes
<1> HIDE DEF cmd
<1>4. /\ Targeted' = Targeted /\ Target' = Target
      /\ nodeIndex > 0 => targets[1] # Target
  <2>1. nodeIndex > 0 => 1 \in 1 .. Len(targets) /\ nodeIndex + 1 \in 1 .. Len(targets)
                         /\ nodeIndex + 1 # 1
      BY <1>1 DEF Targeted
  <2> QED BY <2>1, <1>1 DEF Targeted, Target, IsInjective
<1>5. step = "blockStart" => slot = NoCommand /\ nodeIndex # 0
    BY <1>1 DEF SlotRegular, NotStarted
<1>6. ~NotStarted'
    BY <1>5 DEF NotStarted
<1>7. /\ step # "getBlock" => tasks' = {}
      /\ "missing" \in tasks' => "missing" \in tasks
    BY <1>1 DEF TasksRegular, Tasks
<1>8. TasksRegular'
    BY <1>1, <1>7 DEF TasksRegular
<1>9. CASE /\ link = "up" /\ slot = NoCommand /\ slot' = cmd
           /\ failed' = failed /\ reported' = reported /\ Transmit(cmd)
  <2>1. MidSend(cmd)
      BY <1>1, <1>3, <1>6, <1>9 DEF MidSend
  <2>2. AnswersInv' /\ \A n \in Nodes : Onward(node[n], node'[n])
      BY <2>1, <1>1, MidSendNodes, MidSendAnswers DEF AnswersInv
  <2>3. step = "getBlock" => \A n \in Nodes : /\ HasSome(n) => HasSome(n)'
                                              /\ StartsGone(n) => StartsGone(n)'
      BY <2>1, <1>1, MidSendAnswers
  <2>4. nodeIndex > 0 /\ FirstSilent => FirstSilent'
      BY <1>1, <1>3, <1>4, <1>9, SilentSend DEF FirstSilent
  <2>5. SameRound
      BY <2>2, <2>3, <2>4, <1>6, <1>7, <1>9 DEF SameRound
  <2>6. SlotRegular'
      BY <1>3, <1>4, <1>7, <1>9 DEF SlotRegular
  <2> QED BY <2>2, <2>5, <2>6, <1>1, <1>8, SameRoundDelivers
<1>10. CASE /\ ~(link = "up" /\ slot = NoCommand)
            /\ failed' = failed \union {Target} /\ reported' = reported \union {Target}
            /\ slot' = slot /\ node' = node /\ late' = late
  <2>1. Shrinks
      BY <1>1, <1>10, ShrinksFacts
  <2>2. /\ AnswersInv'
        /\ \A n \in Nodes : (HasSome(n) => HasSome(n)') /\ (StartsGone(n) => StartsGone(n)')
      BY <2>1, <1>1, <1>6, ShrinksKeeps
  <2>3. \A n \in Nodes : Onward(node[n], node'[n])
      BY <1>1, <1>10, OnwardSame, PlaceTypes
  <2>4. nodeIndex > 0 /\ FirstSilent => FirstSilent'
    <3>1. ASSUME nodeIndex > 0, FirstSilent PROVE FirstSilent'
      <4>1. targets[1] \notin failed'
          BY <3>1, <1>4, <1>10 DEF FirstSilent
      <4> QED BY <4>1, <3>1, <2>1, <1>1, <1>10, SilentShrinks, RangeFacts
    <3> QED BY <3>1
  <2>5. SameRound
      BY <2>2, <2>3, <2>4, <1>6, <1>7, <1>10 DEF SameRound
  <2>6. SlotRegular'
      BY <1>1, <1>4, <1>7, <1>10 DEF SlotRegular
  <2> QED BY <2>2, <2>5, <2>6, <1>1, <1>8, SameRoundDelivers
<1> QED BY <1>1, <1>3, <1>9, <1>10, SendCommandFacts

\* CommandFail
LEMMA RegularCommandFail ==
    ASSUME RegularStep, CommandFail
    PROVE  DeliveryInv'
<1>1. /\ NetInv /\ AnsweredInv /\ LoopInv /\ SlotRegular /\ TasksRegular
      /\ slot # NoCommand /\ Targeted /\ slot \in Commands
    BY RegularStepFacts DEF CommandFail, BaseInv, SessionTypes
<1>2. slot.op = step /\ step # "chunkSending" /\ ~NotStarted
    BY <1>1, CommandFields DEF SlotRegular, NotStarted
<1>3. /\ step' = step /\ block' = block /\ nodeIndex' = nodeIndex + 1 /\ targets' = targets
      /\ tasks' = tasks \union {"action"} /\ outcome' = "pending"
      /\ failed' = failed \union {Target} /\ reported' = reported \union {Target}
      /\ mixFormat' = mixFormat /\ missing' = missing /\ node' = node /\ late' = late
      /\ slot' = NoCommand
    BY <1>2 DEF CommandFail, NextTarget, DeviceFail, RegularStep, report, network
<1>4. Shrinks
    BY <1>1, <1>3, ShrinksFacts
<1>5. Target \notin Live'
    BY <1>3 DEF Live
<1>6. step = "getBlock" =>
        /\ mixFormat' = "some" => missing' # <<>>
        /\ "missing" \in tasks =>
              mixFormat' = "some" /\ \A i \in 1 .. Len(targets) : HasSome(targets[i])
    BY <1>1, <1>3 DEF AnsweredInv, LoopInv, TasksRegular
<1>7. NextRound
    BY <1>1, <1>2, <1>3, <1>4, <1>5, <1>6 DEF NextRound
<1> QED BY <1>7, NextRoundKeeps

\* Retry
LEMMA RegularRetry ==
    ASSUME RegularStep, Retry
    PROVE  DeliveryInv'
<1>1. /\ BaseInv /\ BaseInv' /\ NetInv /\ AnswersInv /\ SlotRegular /\ TasksRegular
      /\ slot # NoCommand /\ slot \in Commands /\ targets \in Seq(Nodes)
      /\ reported \subseteq reported'
    BY RegularStepFacts DEF Retry, BaseInv, SessionTypes, RegularStep
<1>2. /\ step' = step /\ block' = block /\ nodeIndex' = nodeIndex /\ targets' = targets
      /\ tasks' = tasks /\ outcome' = "pending" /\ failed' = failed /\ slot' = slot
      /\ mixFormat' = mixFormat /\ missing' = missing /\ Transmit(slot)
    BY DEF Retry, RegularStep, failures, report
<1>3. MidSend(slot)
    BY <1>1, <1>2 DEF MidSend, SlotRegular, NotStarted
<1>4. AnswersInv' /\ \A n \in Nodes : Onward(node[n], node'[n])
    BY <1>1, <1>3, MidSendNodes, MidSendAnswers DEF AnswersInv
<1>5. step = "getBlock" => \A n \in Nodes : /\ HasSome(n) => HasSome(n)'
                                            /\ StartsGone(n) => StartsGone(n)'
    BY <1>1, <1>3, MidSendAnswers
<1>6. FirstSilent => FirstSilent'
    BY <1>1, <1>2, SilentSend DEF FirstSilent
<1>7. SameRound
    BY <1>1, <1>2, <1>3, <1>4, <1>5, <1>6 DEF SameRound, MidSend
<1>8. SlotRegular' /\ TasksRegular'
  <2>1. Targeted' = Targeted /\ Target' = Target
      BY <1>2 DEF Targeted, Target
  <2> QED BY <2>1, <1>1, <1>2 DEF SlotRegular, TasksRegular
<1> QED BY <1>2, <1>4, <1>7, <1>8, SameRoundDelivers

\* SendToTarget
LEMMA RegularSendToTarget ==
    ASSUME RegularStep, SendToTarget
    PROVE  DeliveryInv'
<1>1. ~NotStarted /\ step # "chunkSending"
    BY DEF SendToTarget, NotStarted
<1> QED BY <1>1, CommandSent DEF SendToTarget, report

\* StartBlock: the next block is begun at the first target, and opened at the others.
LEMMA RegularStartBlock ==
    ASSUME RegularStep, StartBlock
    PROVE  DeliveryInv'
<1>1. /\ BaseInv /\ BaseInv' /\ NetInv /\ AnswersInv /\ SlotRegular /\ TasksRegular
      /\ block \in Int /\ nodeIndex \in Nat /\ tasks \subseteq Tasks /\ ListInv
    BY RegularStepFacts DEF BaseInv, ClientTypes
<1>2. /\ "action" \in tasks /\ Targeted /\ step = "blockStart" /\ step' = step
      /\ nodeIndex' = nodeIndex /\ targets' = targets /\ outcome' = outcome
      /\ mixFormat' = mixFormat /\ missing' = missing /\ tasks' = tasks \ {"action"}
      /\ SendCommand([op |-> step, dst |-> Target, block |-> block'])
    BY DEF StartBlock, report
<1>3. slot = NoCommand /\ tasks' = {}
    BY <1>1, <1>2 DEF SlotRegular, TasksRegular, Tasks
<1>4. CASE nodeIndex # 0
  <2>1. block' = block
      BY <1>4 DEF StartBlock, FirstOfBlock
  <2>2. ~NotStarted
      BY <1>4 DEF NotStarted
  <2> QED BY <2>1, <2>2, <1>2, CommandSent
<1>5. CASE nodeIndex = 0
  <2> DEFINE cmd == [op |-> step, dst |-> Target, block |-> block']
  <2>1. block' = block + 1 /\ link = "up"
      BY <1>2, <1>5 DEF StartBlock, FirstOfBlock, RegularStep, Regular
  <2>2. Target \in Nodes
      BY <1>1, <1>2, TargetFacts DEF ListInv, BaseInv
  <2>3. /\ cmd \in Commands /\ cmd.op = "blockStart" /\ cmd.dst = Target /\ cmd.block = block'
        /\ SendCommand(cmd)
    <3>1. block' \in Blocks \union {-1}
        BY <1>1 DEF BaseInv, ClientTypes
    <3> QED BY <3>1, <2>2, <1>2, StepFacts DEF Commands
  <2> HIDE DEF cmd
  <2>4. slot' = cmd /\ reported' = reported /\ Transmit(cmd)
      BY <2>1, <2>3, <1>1, <1>2, <1>3, SendCommandFacts
  <2>5. NotStarted /\ ~NotStarted'
      BY <2>3, <2>4, <1>2, <1>3, <1>5, NoCommandAssumption DEF NotStarted
  <2>6. AnswersInv'
      BY <2>1, <2>3, <2>4, <2>5, <1>1, <1>2, FirstSendKeeps DEF FirstSend
  <2>7. AnsweredInv' /\ StartedInv' /\ LoopInv'
      BY <2>5, <1>2, <1>5 DEF AnsweredInv, StartedInv, LoopInv
  <2>8. SlotRegular' /\ TasksRegular'
    <3>1. Targeted' = Targeted /\ Target' = Target
        BY <1>2 DEF Targeted, Target
    <3> QED BY <3>1, <2>3, <2>4, <1>2, <1>3 DEF SlotRegular, TasksRegular
  <2>9. outcome' = "pending"
      BY <1>2 DEF RegularStep
  <2> QED BY <2>6, <2>7, <2>8, <2>9 DEF DeliveryInv, DoneInv, PendingInv, AnswersInv
<1> QED BY <1>4, <1>5

\* AllBlocksSent: each live node has received the last block, and so the whole BLOB.
LEMMA RegularAllBlocksSent ==
    ASSUME RegularStep, AllBlocksSent
    PROVE  DeliveryInv'
<1>1. /\ BaseInv /\ NetInv /\ AnswersInv /\ SlotRegular /\ Live' \subseteq Live
      /\ block \in Int /\ block < BlockNum
    BY RegularStepFacts
<1>2. /\ "action" \in tasks /\ step = "blockStart" /\ nodeIndex = 0
      /\ ~(block + 1 < BlockNum) /\ outcome' = "success" /\ tasks' = {} /\ node' = node
      /\ slot' = slot
    BY DEF AllBlocksSent, FirstOfBlock, HasNextBlock, OnTransferComplete, RegularStep, service,
           network
<1>3. slot = NoCommand
    BY <1>1, <1>2 DEF SlotRegular
<1>4. block + 1 = BlockNum
    BY <1>1, <1>2, ConstantFacts
<1>5. ASSUME NEW n \in Live' PROVE HoldsBlob(node[n])
  <2>1. n \in Nodes /\ n \in Live
      BY <1>1 DEF Live
  <2>2. RxOkCount(node[n]) = BlockNum
      BY <2>1, <1>1, <1>2, <1>3, <1>4 DEF AnswersInv, NodesInv, NotStarted
  <2>3. /\ node[n] \in Receivers /\ node[n].blk \in Nat /\ node[n].blk < BlockNum
        /\ BlockNum \in Nat /\ node[n].got \subseteq Blocks \X Chunks
      BY <2>1, <1>1, PlaceTypes, ReceiverFields
  <2>4. node[n].ok /\ node[n].blk = BlockNum - 1
      BY <2>2, <2>3 DEF RxOkCount
  <2>5. \A b \in 0 .. BlockNum - 1, c \in Chunks : <<b, c>> \in node[n].got
      BY <2>1, <2>2, <1>1 DEF AnswersInv, StoredInv, Stored
  <2>6. node[n].got = Blocks \X Chunks
      BY <2>3, <2>5 DEF Blocks
  <2> QED BY <2>4, <2>6 DEF HoldsBlob
<1>6. StoredInv'
    BY <1>1, <1>2 DEF AnswersInv, StoredInv
<1> QED BY <1>2, <1>3, <1>5, <1>6 DEF DeliveryInv, DoneInv

\* A chunk is sent and the loop goes on, or the transfer has failed.
LEMMA ChunkDelivers ==
    ASSUME RegularStep, Chunking, NEW c \in Chunks, NEW task, NEW rest, SendChunk(c, task, rest),
           \/ rest \union {task} = tasks
           \/ step = "chunkSending" /\ rest = {} /\ task = "chunk",
           block' = block, nodeIndex' = nodeIndex, targets' = targets, failed' = failed,
           reported' = reported, mixFormat' = mixFormat, missing' = missing, slot' = slot,
           link' = link, late' = late
    PROVE  DeliveryInv'
<1>1. /\ BaseInv /\ BaseInv' /\ AnswersInv /\ SlotRegular /\ TasksRegular
      /\ slot # NoCommand => link = "up" /\ step # "chunkSending"
    BY RegularStepFacts, CommandFields DEF BaseInv, SessionTypes, SlotRegular
<1>2. CASE /\ link = "up" /\ tasks' = rest \union {task} /\ step' = step /\ outcome' = outcome
           /\ \A n \in Nodes : node'[n] \in {node[n], OnChunk(node[n], block, c)}
  <2>1. MidChunk
      BY <1>2 DEF MidChunk
  <2>2. /\ AnswersInv'
        /\ \A n \in Nodes : /\ HasSome(n) => HasSome(n)'
                            /\ StartsGone(n) => StartsGone(n)'
                            /\ Onward(node[n], node'[n])
      BY <2>1, <1>1, MidChunkKeeps
  <2>3. FirstSilent => FirstSilent'
      BY DEF FirstSilent, OfGet
  <2>4. "missing" \in tasks' => tasks' = tasks
      BY <1>2
  <2>5. ~NotStarted'
      BY <1>2 DEF NotStarted, Chunking
  <2>6. SameRound
      BY <2>2, <2>3, <2>4, <2>5, <1>2 DEF SameRound
  <2>7. SlotRegular' /\ TasksRegular'
    <3>1. CASE tasks' = tasks
      <4>1. Targeted' = Targeted /\ Target' = Target
          BY DEF Targeted, Target
      <4> QED BY <4>1, <3>1, <1>1, <1>2 DEF SlotRegular, TasksRegular
    <3>2. CASE step = "chunkSending" /\ tasks' = {"chunk"}
        BY <3>2, <1>1, <1>2 DEF SlotRegular, TasksRegular
    <3> QED BY <3>1, <3>2, <1>2
  <2> QED BY <2>2, <2>6, <2>7, <1>2, SameRoundDelivers DEF RegularStep
<1>3. CASE /\ link # "up" /\ node' = node
           /\ outcome' = IF outcome = "pending" THEN "failure" ELSE outcome
    BY <1>1, <1>3, FailureDelivers DEF RegularStep
<1> QED BY <1>1, <1>2, <1>3, SendChunkFacts

\* A loop has sent its chunks, and the targets are asked what they miss.
LEMMA CheckDelivers ==
    ASSUME RegularStep, Chunking, NEW rest \in SUBSET tasks, CheckMissingChunks(rest),
           "missing" \notin rest, "chunk" \notin rest,
           block' = block, targets' = targets, reported' = reported, slot' = slot, late' = late
    PROVE  DeliveryInv'
<1>1. /\ AnswersInv /\ SlotRegular /\ TasksRegular
      /\ step = "chunkSending" => slot = NoCommand
    BY RegularStepFacts, CommandFields DEF BaseInv, SessionTypes, SlotRegular
<1>2. /\ missing' = <<>> /\ mixFormat' = "unknown" /\ step' = "getBlock" /\ nodeIndex' = 0
      /\ tasks' = rest \union {"action"} /\ outcome' = "pending" /\ node' = node
    BY DEF CheckMissingChunks, RegularStep
<1>3. Chunking /\ Chunking' /\ ~NotStarted' /\ ~NotStarted /\ Live' = Live
    BY <1>2 DEF Chunking, NotStarted, Live
<1>4. AnswersInv'
  <2>1. StoredInv'
      BY <1>1, <1>2, <1>3 DEF AnswersInv, StoredInv
  <2>2. 0 <= block
      BY <1>1, <1>3 DEF AnswersInv, NodesInv, Chunking, BlockSteps
  <2>3. NodesInv'
      BY <2>2, <1>1, <1>2, <1>3 DEF AnswersInv, NodesInv, Early
  <2>4. LateInv'
      BY <1>1, <1>2, <1>3 DEF AnswersInv, LateInv, LateFact, OfGet
  <2>5. OrderInv'
      BY <1>1, <1>2, <1>3 DEF AnswersInv, OrderInv, OfGet, OfStart
  <2> QED BY <2>1, <2>3, <2>4, <2>5 DEF AnswersInv
<1>5. AnsweredInv' /\ StartedInv' /\ LoopInv'
    BY <1>2, <1>3 DEF AnsweredInv, StartedInv, LoopInv
<1>6. SlotRegular' /\ TasksRegular'
    BY <1>1, <1>2, <1>3 DEF SlotRegular, TasksRegular, Chunking
<1> QED BY <1>2, <1>4, <1>5, <1>6 DEF DeliveryInv, DoneInv, PendingInv, AnswersInv

\* SendChunks
LEMMA RegularSendChunks ==
    ASSUME RegularStep, StartSending \/ ChunkTask
    PROVE  DeliveryInv'
<1>1. /\ BaseInv /\ SlotRegular /\ TasksRegular /\ tasks \subseteq Tasks
      /\ chunk \in Chunks \union {-1}
    BY RegularStepFacts DEF BaseInv, ClientTypes
<1>2. step = "chunkSending" /\ Chunking
    BY <1>1 DEF StartSending, ChunkTask, TasksRegular, Chunking
<1>3. /\ SendChunks({})
      /\ targets' = targets /\ failed' = failed /\ reported' = reported /\ block' = block
      /\ link' = link /\ slot' = slot /\ late' = late
  <2>1. CASE StartSending
    <3>1. tasks \ {"action"} = {}
        BY <2>1, <1>1, <1>2 DEF StartSending, TasksRegular, Tasks
    <3> QED BY <2>1, <3>1 DEF StartSending, failures, session, service
  <2>2. CASE ChunkTask
    <3>1. tasks \ {"chunk"} = {}
        BY <2>2, <1>1 DEF ChunkTask, TasksRegular
    <3> QED BY <2>2, <3>1 DEF ChunkTask, failures, session, service
  <2> QED BY <2>1, <2>2
<1>4. CASE CheckMissingChunks({})
    BY <1>2, <1>3, <1>4, CheckDelivers
<1>5. CASE chunk + 1 < ChunkNum /\ SendChunk(chunk + 1, "chunk", {})
           /\ nodeIndex' = nodeIndex /\ mixFormat' = mixFormat /\ missing' = missing
  <2>1. chunk + 1 \in Chunks
      BY <1>1, <1>5, ConstantFacts DEF Chunks
  <2> QED BY <2>1, <1>2, <1>3, <1>5, ChunkDelivers
<1> QED BY <1>3, <1>4, <1>5 DEF SendChunks

\* MissingChunkTask
LEMMA RegularMissingChunkTask ==
    ASSUME RegularStep, MissingChunkTask
    PROVE  DeliveryInv'
<1>1. /\ BaseInv /\ TasksRegular /\ missing \in Seq(Chunks) /\ missingIdx \in 0 .. ChunkNum
    BY RegularStepFacts DEF BaseInv, ClientTypes
<1>2. /\ "missing" \in tasks /\ step = "getBlock" /\ Chunking /\ "chunk" \notin tasks
      /\ missingIdx' = missingIdx + 1 /\ SendMissingChunks(tasks \ {"missing"})
      /\ targets' = targets /\ failed' = failed /\ reported' = reported /\ block' = block
      /\ link' = link /\ slot' = slot /\ late' = late
    BY <1>1 DEF MissingChunkTask, TasksRegular, Chunking, failures, session, service
<1>3. CASE CheckMissingChunks(tasks \ {"missing"})
  <2> DEFINE rest == tasks \ {"missing"}
  <2>1. rest \in SUBSET tasks /\ "missing" \notin rest /\ "chunk" \notin rest
      BY <1>2
  <2> QED BY <2>1, <1>2, <1>3, CheckDelivers
<1>4. CASE /\ missingIdx' < Len(missing)
           /\ SendChunk(missing[missingIdx' + 1], "missing", tasks \ {"missing"})
           /\ nodeIndex' = nodeIndex /\ mixFormat' = mixFormat /\ missing' = missing
  <2>1. missing[missingIdx' + 1] \in Chunks
    <3>1. missingIdx' + 1 \in 1 .. Len(missing)
        BY <1>1, <1>2, <1>4, ConstantFacts
    <3> QED BY <3>1, <1>1
  <2>2. (tasks \ {"missing"}) \union {"missing"} = tasks
      BY <1>2
  <2> QED BY <2>1, <2>2, <1>2, <1>4, ChunkDelivers
<1> QED BY <1>2, <1>3, <1>4 DEF SendMissingChunks

\* What StepComplete does before it goes on: the failed targets are removed.
LEMMA TargetsLeft ==
    ASSUME RegularStep, StepComplete
    PROVE  /\ slot = NoCommand /\ slot' = NoCommand /\ failed' = {} /\ reported' = reported
           /\ block' = block /\ late' = late /\ link' = link /\ Live' = Live
           /\ \A i \in 1 .. Len(targets) : i \in 1 .. nodeIndex
           /\ \A n \in Live : \E i \in 1 .. Len(targets) : n = targets[i]
           /\ targets' # <<>> => nodeIndex > 0 /\ targets # <<>>
           /\ \A j \in 1 .. Len(targets') : \E i \in 1 .. Len(targets) :
                 targets'[j] = targets[i] /\ targets[i] \notin failed
           /\ targets # <<>> /\ targets[1] \notin failed =>
                 targets' # <<>> /\ targets'[1] = targets[1]
<1>1. /\ targets \in Seq(Nodes) /\ Len(targets) \in Nat /\ nodeIndex \in Nat
      /\ slot # NoCommand => Targeted
    BY RegularStepFacts
<1>2. /\ targets' = Without(targets, failed) /\ ~Targeted /\ failed' = {}
      /\ reported' = reported /\ block' = block /\ late' = late /\ link' = link /\ slot' = slot
    BY DEF StepComplete, RemainingTargets, session, service
<1>3. /\ targets' \in Seq(Nodes) /\ Range(targets') = Range(targets) \ failed
      /\ targets # <<>> /\ targets[1] \notin failed => targets' # <<>> /\ targets'[1] = targets[1]
    BY <1>1, <1>2, WithoutFacts
<1>4. \A i \in 1 .. Len(targets) : i \in 1 .. nodeIndex
    BY <1>1, <1>2 DEF Targeted
<1>5. \A n \in Live : \E i \in 1 .. Len(targets) : n = targets[i]
    BY <1>1, RangeFacts DEF RegularStep, TargetsInv
<1>6. \A j \in 1 .. Len(targets') : \E i \in 1 .. Len(targets) :
          targets'[j] = targets[i] /\ targets[i] \notin failed
  <2>1. \A j \in 1 .. Len(targets') : targets'[j] \in Range(targets')
      BY <1>3, RangeFacts
  <2>2. \A x \in Range(targets) : \E i \in 1 .. Len(targets) : x = targets[i]
      BY <1>1, RangeFacts
  <2> QED BY <2>1, <2>2, <1>3
<1>7. ASSUME targets' # <<>> PROVE nodeIndex > 0 /\ targets # <<>>
  <2>1. 1 \in 1 .. Len(targets')
      BY <1>7, <1>3
  <2>2. PICK i \in 1 .. Len(targets) : targets'[1] = targets[i]
      BY <2>1, <1>6
  <2> QED BY <2>2, <1>1, <1>4
<1> QED BY <1>1, <1>2, <1>3, <1>4, <1>5, <1>6, <1>7 DEF Live

\* StepComplete before the rounds of Block Get.
LEMMA RegularStepForward ==
    ASSUME RegularStep, StepComplete, targets' # <<>>, step # "getBlock"
    PROVE  DeliveryInv'
<1>1. /\ AnswersInv /\ AnsweredInv /\ TasksRegular /\ step \in Early \union BlockSteps
      /\ block \in Int /\ NetInv
    BY RegularStepFacts
<1>2. /\ slot = NoCommand /\ slot' = NoCommand /\ failed' = {} /\ reported' = reported
      /\ block' = block /\ late' = late /\ Live' = Live /\ nodeIndex > 0
      /\ \A i \in 1 .. Len(targets) : i \in 1 .. nodeIndex
      /\ \A n \in Live : \E i \in 1 .. Len(targets) : n = targets[i]
      /\ \A j \in 1 .. Len(targets') : \E i \in 1 .. Len(targets) :
            targets'[j] = targets[i] /\ targets[i] \notin failed
    BY TargetsLeft
<1>3. /\ step' = NextStep(step) /\ nodeIndex' = 0 /\ tasks' = tasks /\ node' = node
      /\ outcome' = "pending"
    BY DEF StepComplete, RegularStep
<1>4. nodeIndex \in Nat /\ nodeIndex # 0 /\ step # "chunkSending"
    BY <1>1, <1>2, RegularStepFacts DEF TasksRegular
<1>5. \/ step = "transferGet" /\ step' = "getInfo"
      \/ step = "getInfo" /\ step' = "transferStart"
      \/ step = "transferStart" /\ step' = "blockStart"
      \/ step = "blockStart" /\ step' = "chunkSending"
    BY <1>1, <1>3, <1>4, StepFacts DEF Early, BlockSteps
<1>6. ~NotStarted /\ ~Chunking
    BY <1>4, <1>5 DEF NotStarted, Chunking
<1>7. ASSUME NEW n \in Nodes, NEW i \in 1 .. Len(late[n])
      PROVE  ~OfGet(late[n][i]) /\ LateFact(n, late[n][i])
    BY <1>1, <1>6 DEF AnswersInv, LateInv
<1>8. StoredInv'
    BY <1>1, <1>2, <1>3 DEF AnswersInv, StoredInv
<1>9. NodesInv'
  <2>1. CASE step \in Early
    <3>1. /\ block = -1 /\ \A n \in Nodes : node[n].blk = 0 /\ ~node[n].ok
          /\ \A n \in Nodes : RxOkCount(node[n]) = 0
        BY <2>1, <1>1 DEF AnswersInv, NodesInv, RxOkCount
    <3>2. step' = "blockStart" => NotStarted'
        BY <1>2, <1>3 DEF NotStarted
    <3> QED BY <3>1, <3>2, <2>1, <1>2, <1>3, <1>5
        DEF NodesInv, Early, BlockSteps, Chunking, Live
  <2>2. CASE step = "blockStart"
    <3>1. 0 <= block
        BY <2>2, <1>1, <1>6 DEF AnswersInv, NodesInv, BlockSteps
    <3>2. \A n \in Live : Opened(node[n]) /\ node[n].blk = block
        BY <2>2, <1>1, <1>2 DEF AnsweredInv
    <3> QED BY <3>1, <3>2, <2>2, <1>2, <1>3, <1>5 DEF NodesInv, Early
  <2> QED BY <2>1, <2>2, <1>5 DEF Early
<1>10. LateInv' /\ OrderInv'
    BY <1>2, <1>3, <1>7 DEF LateInv, OrderInv, LateFact, OfGet
<1>11. AnsweredInv' /\ LoopInv'
    BY <1>3, <1>5 DEF AnsweredInv, LoopInv
<1>12. StartedInv'
  <2>1. ASSUME NotStarted', NEW n \in Nodes PROVE StartsGone(n)'
    <3>1. step \in Early /\ block = -1
        BY <2>1, <1>1, <1>5 DEF NotStarted, AnswersInv, NodesInv, Early
    <3>2. \A i \in 1 .. Len(late[n]) : ~OfStart(late[n][i])
        BY <3>1, <1>7 DEF OfStart, LateFact
    <3> QED BY <3>2, <1>2 DEF StartsGone, OfStart
  <2>2. \A j \in 1 .. Len(targets') : targets'[j] \in Nodes
      BY <1>2, RegularStepFacts
  <2>3. ASSUME NotStarted', NEW j \in 1 .. Len(targets') PROVE StartsGone(targets[j])'
    <3>1. PICK n \in Nodes : n = targets'[j]
        BY <2>2
    <3> QED BY <3>1, <2>1, <2>3 DEF StartsGone
  <2> QED BY <2>3, <1>5 DEF StartedInv
<1>13. SlotRegular' /\ TasksRegular'
    BY <1>1, <1>2, <1>3, <1>4, <1>5 DEF SlotRegular, TasksRegular
<1> QED
  BY <1>3, <1>8, <1>9, <1>10, <1>11, <1>12, <1>13
  DEF DeliveryInv, DoneInv, PendingInv

\* StepComplete after a round of Block Get.
LEMMA RegularRoundComplete ==
    ASSUME RegularStep, StepComplete, targets' # <<>>, step = "getBlock"
    PROVE  DeliveryInv'
<1>1. /\ BaseInv /\ BaseInv' /\ AnswersInv /\ AnsweredInv /\ StartedInv /\ LoopInv
      /\ TasksRegular /\ ClientTypes
    BY RegularStepFacts DEF BaseInv
<1>2. /\ slot = NoCommand /\ slot' = NoCommand /\ failed' = {} /\ reported' = reported
      /\ block' = block /\ late' = late /\ link' = link /\ Live' = Live /\ nodeIndex > 0
      /\ \A i \in 1 .. Len(targets) : i \in 1 .. nodeIndex
      /\ \A n \in Live : \E i \in 1 .. Len(targets) : n = targets[i]
      /\ \A j \in 1 .. Len(targets') : \E i \in 1 .. Len(targets) :
            targets'[j] = targets[i] /\ targets[i] \notin failed
      /\ targets # <<>> /\ targets[1] \notin failed => targets' # <<>> /\ targets'[1] = targets[1]
    BY TargetsLeft
<1>3. /\ OnGetBlobBlockComplete(tasks \ {"action"}) /\ "action" \in tasks
      /\ outcome = "pending" /\ nodeIndex \in Nat
    BY RegularStepFacts DEF StepComplete, RegularStep
<1>4. /\ Chunking /\ ~NotStarted /\ "chunk" \notin tasks
      /\ mixFormat = "some" => missing # <<>>
    BY <1>1 DEF Chunking, NotStarted, TasksRegular, AnsweredInv
<1>5. "missing" \in tasks => mixFormat = "some"
    BY <1>1 DEF TasksRegular
<1> DEFINE rest == tasks \ {"action"}
<1>6. rest \union {"action"} = tasks /\ "action" \notin rest /\ rest \subseteq tasks
    BY <1>3
<1> HIDE DEF rest
<1>7. ASSUME NEW n \in Nodes, NEW i \in 1 .. Len(late[n])
      PROVE  LateFact(n, late[n][i])
    BY <1>1 DEF AnswersInv, LateInv
<1>8. CASE /\ BlockComplete
           /\ step' = "blockStart" /\ nodeIndex' = 0 /\ tasks' = rest \union {"action"}
           /\ UNCHANGED <<chunk, report, outcome, node, losses>>
  <2>1. /\ mixFormat = "none" /\ node' = node /\ outcome' = "pending" /\ tasks' = tasks
        /\ "missing" \notin tasks
      BY <1>3, <1>4, <1>5, <1>6, <1>8 DEF BlockComplete
  <2>2. NotStarted' /\ ~Chunking' /\ step' \notin Early
      BY <1>2, <1>8 DEF NotStarted, Chunking, Early
  <2>3. StoredInv'
      BY <2>1, <1>1, <1>2 DEF AnswersInv, StoredInv
  <2>4. NodesInv'
    <3>1. \A n \in Live : RxOkCount(node[n]) = block + 1
        BY <2>1, <1>1, <1>2 DEF AnsweredInv
    <3> QED BY <3>1, <2>1, <2>2, <1>2 DEF NodesInv
  <2>5. LateInv'
      BY <2>1, <2>2, <1>2, <1>7 DEF LateInv, LateFact
  <2>6. OrderInv'
      BY <2>1, <2>2, <1>1, <1>2 DEF AnswersInv, OrderInv, OfGet, OfStart
  <2>7. AnsweredInv' /\ LoopInv'
      BY <1>8 DEF AnsweredInv, LoopInv
  <2>8. StartedInv'
    <3>1. ASSUME NEW j \in 1 .. Len(targets') PROVE StartsGone(targets[j])'
      <4>1. PICK i \in 1 .. Len(targets) : targets'[j] = targets[i] /\ targets[i] \notin failed
          BY <1>2
      <4>2. StartsGone(targets[i])
          BY <4>1, <1>1, <1>2 DEF StartedInv
      <4> QED BY <4>1, <4>2, <1>2 DEF StartsGone, OfStart
    <3> QED BY <3>1, <1>8 DEF StartedInv
  <2>9. SlotRegular' /\ TasksRegular'
      BY <2>1, <1>2, <1>4, <1>8 DEF SlotRegular, TasksRegular
  <2> QED BY <2>1, <2>3, <2>4, <2>5, <2>6, <2>7, <2>8, <2>9
      DEF DeliveryInv, DoneInv, PendingInv
<1>9. CASE /\ mixFormat = "all"
           /\ step' = "chunkSending" /\ nodeIndex' = 0 /\ tasks' = rest \union {"action"}
           /\ UNCHANGED <<report, outcome, node, losses>>
  <2>1. /\ node' = node /\ outcome' = "pending" /\ tasks' = tasks /\ "missing" \notin tasks
      BY <1>3, <1>5, <1>6, <1>9
  <2>2. ~NotStarted' /\ Chunking' /\ step' \notin Early
      BY <1>9 DEF NotStarted, Chunking, Early
  <2>3. StoredInv'
      BY <2>1, <1>1, <1>2 DEF AnswersInv, StoredInv
  <2>4. NodesInv'
    <3>1. 0 <= block
        BY <1>1, <1>4 DEF AnswersInv, NodesInv, Chunking, BlockSteps
    <3> QED BY <3>1, <2>1, <2>2, <1>1, <1>2, <1>4, <1>9 DEF AnswersInv, NodesInv
  <2>5. LateInv'
      BY <2>1, <2>2, <1>2, <1>7 DEF LateInv, LateFact
  <2>6. OrderInv'
      BY <2>1, <2>2, <1>1, <1>2, <1>4 DEF AnswersInv, OrderInv, OfGet, OfStart
  <2>7. AnsweredInv' /\ LoopInv' /\ StartedInv'
      BY <2>2, <1>9 DEF AnsweredInv, LoopInv, StartedInv
  <2>8. SlotRegular' /\ TasksRegular'
      BY <2>1, <1>2, <1>4, <1>9 DEF SlotRegular, TasksRegular
  <2> QED BY <2>1, <2>3, <2>4, <2>5, <2>6, <2>7, <2>8
      DEF DeliveryInv, DoneInv, PendingInv
<1>10. CASE /\ mixFormat = "some" /\ missing # <<>>
            /\ nodeIndex' = 0 /\ missingIdx' = 0
            /\ SendChunk(missing[1], "missing", rest)
            /\ UNCHANGED <<chunk, mixFormat, missing>>
  <2>1. missing[1] \in Chunks
      BY <1>1, <1>10 DEF ClientTypes
  <2>2. CASE /\ link = "up" /\ tasks' = rest \union {"missing"} /\ step' = step
             /\ outcome' = outcome
             /\ \A n \in Nodes : node'[n] \in {node[n], OnChunk(node[n], block, missing[1])}
    <3>1. MidChunk
        BY <2>1, <2>2, <1>2, <1>4 DEF MidChunk
    <3>2. AnswersInv' /\ \A n \in Nodes : HasSome(n) => HasSome(n)'
        BY <3>1, <1>1, MidChunkKeeps
    <3>3. AnsweredInv' /\ StartedInv'
        BY <2>2, <1>10 DEF AnsweredInv, StartedInv, NotStarted
    <3>4. "action" \notin tasks' /\ "chunk" \notin tasks' /\ step' = "getBlock"
        BY <2>2, <1>4, <1>6
    <3>5. \/ \A j \in 1 .. Len(targets') : HasSome(targets[j])'
          \/ FirstSilent'
      <4>1. CASE FirstSilent
          BY <4>1, <1>2 DEF FirstSilent, OfGet
      <4>2. CASE \A i \in 1 .. nodeIndex : i <= Len(targets) /\ targets[i] \notin failed =>
                   mixFormat # "unknown" /\ (mixFormat # "all" => HasSome(targets[i]))
        <5>1. ASSUME NEW j \in 1 .. Len(targets') PROVE HasSome(targets[j])'
          <6>1. PICK i \in 1 .. Len(targets) : targets'[j] = targets[i] /\ targets[i] \notin failed
              BY <1>2
          <6>2. PICK n \in Nodes : n = targets'[j]
              BY <6>1, RegularStepFacts
          <6>3. i \in 1 .. nodeIndex /\ i <= Len(targets)
              BY <1>2, RegularStepFacts
          <6>4. HasSome(n)
              BY <6>1, <6>2, <6>3, <4>2, <1>10
          <6>5. HasSome(n)'
              BY <6>4, <3>2
          <6> QED BY <6>2, <6>5 DEF HasSome
        <5> QED BY <5>1
      <4> QED BY <4>1, <4>2, <1>1 DEF LoopInv
    <3>6. LoopInv'
      <4>1. \A i \in 1 .. nodeIndex' : FALSE
          BY <1>10
      <4> QED BY <4>1, <3>4, <3>5, <1>2, <1>10 DEF LoopInv
    <3>7. SlotRegular' /\ TasksRegular'
        BY <3>4, <1>2, <1>10 DEF SlotRegular, TasksRegular
    <3>8. outcome' = "pending"
        BY <2>2, <1>3
    <3> QED BY <3>2, <3>3, <3>6, <3>7, <3>8
        DEF DeliveryInv, DoneInv, PendingInv, AnswersInv
  <2>3. CASE /\ link # "up" /\ node' = node
             /\ outcome' = IF outcome = "pending" THEN "failure" ELSE outcome
      BY <2>3, <1>2, <1>3, FailureDelivers
  <2> QED BY <2>1, <2>2, <2>3, <1>1, <1>2, <1>10, SendChunkFacts
<1>11. CASE /\ mixFormat = "unknown"
            /\ nodeIndex' = 0 /\ tasks' = rest
            /\ UNCHANGED <<step, chunk, report, outcome, node, losses>>
  <2>1. /\ node' = node /\ outcome' = "pending" /\ "missing" \notin tasks'
        /\ step' = step /\ mixFormat' = mixFormat /\ missing' = missing /\ "chunk" \notin tasks'
      BY <1>3, <1>4, <1>5, <1>6, <1>11 DEF report
  <2>2. ~NotStarted' /\ Chunking'
      BY <2>1, <1>4 DEF NotStarted, Chunking
  <2>3. StoredInv' /\ NodesInv'
      BY <2>1, <2>2, <1>1, <1>2, <1>4 DEF AnswersInv, StoredInv, NodesInv
  <2>4. LateInv'
      BY <2>1, <2>2, <1>2, <1>7 DEF LateInv, LateFact
  <2>5. OrderInv'
      BY <2>1, <2>2, <1>1, <1>2, <1>4 DEF AnswersInv, OrderInv, OfGet, OfStart
  <2>6. AnsweredInv' /\ StartedInv' /\ LoopInv'
      BY <2>1, <2>2, <1>11 DEF AnsweredInv, StartedInv, LoopInv
  <2>7. SlotRegular' /\ TasksRegular'
      BY <2>1, <1>2 DEF SlotRegular, TasksRegular
  <2> QED BY <2>1, <2>3, <2>4, <2>5, <2>6, <2>7 DEF DeliveryInv, DoneInv, PendingInv
<1> QED BY <1>3, <1>8, <1>9, <1>10, <1>11 DEF OnGetBlobBlockComplete, rest

\* StepComplete
LEMMA RegularStepComplete ==
    ASSUME RegularStep, StepComplete
    PROVE  DeliveryInv'
<1>1. CASE targets' = <<>>
  <2>1. /\ outcome' = "failure" /\ node' = node /\ tasks' = {}
      BY <1>1 DEF StepComplete, OnTransferComplete, RegularStep
  <2> QED BY <2>1, TargetsLeft, FailureDelivers
<1> QED BY <1>1, RegularStepForward, RegularRoundComplete

\* LoseConnection
LEMMA RegularConnectionLost ==
    ASSUME RegularStep, LoseConnection
    PROVE  DeliveryInv'
<1>1. /\ late' = [n \in Nodes |-> <<>>] /\ slot' = NoCommand /\ node' = node
      /\ step' = step /\ nodeIndex' = nodeIndex /\ targets' = targets /\ failed' = failed
      /\ block' = block /\ tasks' = tasks /\ mixFormat' = mixFormat /\ missing' = missing
      /\ outcome' = "pending"
    BY DEF LoseConnection, failures, report, RegularStep
<1>2. Shrinks
    BY <1>1, RegularStepFacts, ShrinksFacts
<1>3. NotStarted <=> NotStarted'
    BY <1>1 DEF NotStarted, LoseConnection, FirstOfBlock, RegularStep, Regular
<1> QED BY <1>1, <1>2, <1>3, QuietStep

\* Hold
LEMMA RegularHold ==
    ASSUME RegularStep, Hold
    PROVE  DeliveryInv'
<1>1. /\ late' = late /\ slot' = slot /\ node' = node
      /\ step' = step /\ nodeIndex' = nodeIndex /\ targets' = targets /\ failed' = failed
      /\ block' = block /\ tasks' = {} /\ mixFormat' = mixFormat /\ missing' = missing
      /\ outcome' = "pending"
    BY DEF Hold, failures, report, service, network
<1>2. Shrinks
    BY <1>1, RegularStepFacts, ShrinksFacts
<1> QED BY <1>1, <1>2, QuietStep DEF NotStarted

\* Reconnect: the targets are the same, and there is nothing on the way.
LEMMA RegularReconnect ==
    ASSUME RegularStep, NEW n \in Nodes \union {Proxy}, Reconnect(n)
    PROVE  DeliveryInv'
<1>1. /\ BaseInv /\ BaseInv' /\ AnswersInv /\ AnsweredInv /\ TasksRegular /\ NetInv
      /\ Live' \subseteq Live /\ nodeIndex \in Nat /\ reported \subseteq reported'
      /\ \A i \in 1 .. Len(targets) : targets[i] \in Nodes
    BY RegularStepFacts DEF RegularStep
<1>2. slot = NoCommand /\ tasks = {} /\ \A m \in Nodes : late[m] = <<>>
    BY <1>1 DEF Reconnect, BaseInv, LinkInv
<1>3. /\ late' = late /\ slot' = slot /\ node' = node
      /\ step' = step /\ nodeIndex' = nodeIndex /\ targets' = targets /\ failed' = {}
      /\ block' = block /\ tasks' = tasks /\ mixFormat' = mixFormat /\ missing' = missing
      /\ outcome' = "pending" /\ targets' = config'
    BY DEF Reconnect, report, service, network, RegularStep, Regular
<1>4. Shrinks /\ (NotStarted <=> NotStarted')
    BY <1>1, <1>3, ShrinksFacts DEF NotStarted
<1>5. AnswersInv'
    BY <1>1, <1>3, <1>4, ShrinksKeeps
<1>6. AnsweredInv'
    BY <1>1, <1>3 DEF AnsweredInv
<1>7. StartedInv'
  <2>1. \A i \in 1 .. Len(targets) : Len(late[targets[i]]) = 0
      BY <1>1, <1>2
  <2>2. \A i \in 1 .. nodeIndex : i <= Len(targets) => i \in 1 .. Len(targets)
      BY RegularStepFacts
  <2>3. \A i \in 1 .. Len(targets) : StartsGone(targets[i])'
      BY <2>1, <1>3 DEF StartsGone
  <2> QED BY <2>2, <2>3, <1>3 DEF StartedInv
<1>8. LoopInv'
  <2>1. targets # <<>>
    <3>1. Range(targets) = Nodes
        BY <1>1, <1>3 DEF BaseInv, ListInv
    <3>2. Range(<<>>) = {}
        BY DEF Range
    <3> QED BY <3>1, <3>2, BlobTransferAssumption
  <2>2. FirstSilent'
    <3>1. targets[1] \in Nodes
        BY <2>1, RegularStepFacts
    <3> QED BY <2>1, <3>1, <1>2, <1>3 DEF FirstSilent
  <2>3. CASE nodeIndex > 0
      BY <2>2, <2>3, <1>2, <1>3 DEF LoopInv
  <2>4. CASE nodeIndex = 0
      BY <2>4, <1>2, <1>3 DEF LoopInv
  <2> QED BY <2>3, <2>4, <1>1
<1>9. SlotRegular' /\ TasksRegular'
    BY <1>1, <1>2, <1>3 DEF SlotRegular, TasksRegular
<1> QED BY <1>3, <1>5, <1>6, <1>7, <1>8, <1>9 DEF DeliveryInv, DoneInv, PendingInv, AnswersInv

\* ContinueAnswered
LEMMA RegularContinue ==
    ASSUME RegularStep, ContinueAnswered
    PROVE  DeliveryInv'
<1>1. slot = NoCommand /\ tasks = {}
    BY RegularStepFacts DEF ContinueAnswered, BaseInv, LinkInv
<1>2. /\ late' = late /\ slot' = slot /\ node' = node
      /\ step' = step /\ nodeIndex' = nodeIndex /\ targets' = targets /\ failed' = failed
      /\ block' = block /\ mixFormat' = mixFormat /\ missing' = missing
      /\ \/ tasks' = {"action"} /\ outcome' = "pending"
         \/ tasks' = {} /\ outcome' = "failure"
    BY <1>1 DEF ContinueAnswered, failures, report, service, network, RegularStep
<1>3. CASE outcome' = "failure"
    BY <1>1, <1>2, <1>3, FailureDelivers
<1>4. CASE tasks' = {"action"} /\ outcome' = "pending"
  <2>1. Shrinks
      BY <1>2, RegularStepFacts, ShrinksFacts
  <2> QED BY <2>1, <1>1, <1>2, <1>4, QuietStep DEF NotStarted
<1> QED BY <1>2, <1>3, <1>4

-----------------------------------------------------------------------------
(* The invariant of regular behaviours, and what it implies.                 *)

\* In the initial state.
LEMMA InitRegular == Init => RegularInv
<1> SUFFICES ASSUME Init PROVE RegularInv
    OBVIOUS
<1>1. TargetsInv
    BY ConstantFacts DEF Init, TargetsInv, Live
<1>2. \A n \in Nodes : node[n] = Started /\ late[n] = <<>>
    BY DEF Init
<1>3. ASSUME NEW n \in Nodes PROVE Stored(node[n])
  <2>1. ~Opened(node[n]) /\ 0 .. RxOkCount(node[n]) - 1 = {}
      BY <1>2 DEF Started, Opened, RxOkCount
  <2> QED BY <2>1 DEF Stored
<1>4. StoredInv
    BY <1>3 DEF StoredInv, Live
<1>5. NodesInv
    BY <1>2 DEF Init, NodesInv, Early, BlockSteps, Chunking, Started
<1>6. LateInv /\ OrderInv
    BY <1>2 DEF LateInv, OrderInv
<1>7. AnsweredInv /\ StartedInv /\ LoopInv /\ SlotRegular /\ TasksRegular
    BY DEF Init, AnsweredInv, StartedInv, LoopInv, SlotRegular, TasksRegular, NotStarted
<1>8. outcome = "pending"
    BY DEF Init
<1> QED BY <1>1, <1>4, <1>5, <1>6, <1>7, <1>8 DEF RegularInv, DeliveryInv, DoneInv, PendingInv

\* Every regular step keeps it.
LEMMA RegularInvStep ==
    ASSUME BaseInv, BaseInv', Regular => RegularInv, [Next]_vars
    PROVE  Regular' => RegularInv'
<1> SUFFICES ASSUME Regular' PROVE RegularInv'
    OBVIOUS
<1>1. Regular /\ TargetsInv /\ DeliveryInv
    BY RegularStays DEF RegularInv
<1>2. TargetsInv' /\ reported \subseteq reported'
    BY <1>1, TargetsStep
<1>3. CASE outcome # "pending"
    BY <1>1, <1>2, <1>3, DoneStep DEF RegularInv
<1>4. CASE outcome = "pending"
  <2>1. RegularStep
      BY <1>1, <1>2, <1>4 DEF RegularStep
  <2>2. CASE UNCHANGED vars
    <3>1. /\ node' = node /\ late' = late /\ outcome' = "pending" /\ step' = step
          /\ block' = block /\ nodeIndex' = nodeIndex /\ targets' = targets
          /\ failed' = failed /\ mixFormat' = mixFormat /\ missing' = missing
          /\ tasks' = tasks /\ slot' = slot
        BY <2>2, <1>4 DEF vars
    <3>2. Shrinks
        BY <3>1, <2>1, RegularStepFacts, ShrinksFacts
    <3>3. DeliveryInv'
        BY <3>1, <3>2, <2>1, QuietStep DEF NotStarted
    <3> QED BY <3>3, <1>2 DEF RegularInv
  <2>3. ASSUME Next PROVE DeliveryInv'
    <3>1. CASE StepComplete
        BY <3>1, <2>1, RegularStepComplete
    <3>2. CASE SendToTarget
        BY <3>2, <2>1, RegularSendToTarget
    <3>3. CASE StartBlock
        BY <3>3, <2>1, RegularStartBlock
    <3>4. CASE AllBlocksSent
        BY <3>4, <2>1, RegularAllBlocksSent
    <3>5. CASE StartSending \/ ChunkTask
        BY <3>5, <2>1, RegularSendChunks
    <3>6. CASE MissingChunkTask
        BY <3>6, <2>1, RegularMissingChunkTask
    <3>7. ASSUME NEW n \in Nodes, ReceiveStatus(n) PROVE DeliveryInv'
        BY <3>7, <2>1, RegularReceiveStatus
    <3>8. CASE Retry
        BY <3>8, <2>1, RegularRetry
    <3>9. CASE CommandFail
        BY <3>9, <2>1, RegularCommandFail
    <3>10. CASE LoseConnection
        BY <3>10, <2>1, RegularConnectionLost
    <3>11. CASE Hold
        BY <3>11, <2>1, RegularHold
    <3>12. ASSUME NEW n \in Nodes \union {Proxy}, Reconnect(n) PROVE DeliveryInv'
        BY <3>12, <2>1, RegularReconnect
    <3>13. CASE ContinueAnswered
        BY <3>13, <2>1, RegularContinue
    <3> QED
      BY <2>3, <3>1, <3>2, <3>3, <3>4, <3>5, <3>6, <3>7, <3>8, <3>9, <3>10, <3>11, <3>12, <3>13
      DEF Next
  <2> QED BY <2>2, <2>3, <1>2 DEF RegularInv
<1> QED BY <1>3, <1>4

\* So it holds in every state of a behaviour that has been regular.
LEMMA RegularInvariance == Spec => [](Regular => RegularInv)
<1>1. Init => (Regular => RegularInv)
    BY InitRegular
<1>2. BaseInv /\ BaseInv' /\ (Regular => RegularInv) /\ [Next]_vars => (Regular' => RegularInv')
    BY RegularInvStep
<1>3. Spec => []BaseInv
    BY BaseInvariance
<1> QED BY <1>1, <1>2, <1>3, PTL DEF Spec

\* A target never counts a chunk of one block as that of another, however many nodes
\* and blocks there are, and whatever is lost, late or sent again: chunks do not name
\* their block, but the client opens the next one only when all targets have this one.
THEOREM StoredRight == Spec => []StoredInItsBlock
<1>1. ASSUME BaseInv, Regular => RegularInv PROVE StoredInItsBlock
  <2>1. ASSUME Regular, NEW n \in Live PROVE Stored(node[n])
      BY <2>1, <1>1 DEF RegularInv, DeliveryInv, StoredInv
  <2> QED BY <2>1 DEF StoredInItsBlock, Stored, Opened
<1> QED BY <1>1, BaseInvariance, RegularInvariance, PTL

\* While chunks are sent and asked for, every target has the client's block.
THEOREM InStep == Spec => []BlocksInStep
<1>1. ASSUME Regular => RegularInv PROVE BlocksInStep
    BY <1>1 DEF BlocksInStep, RegularInv, DeliveryInv, PendingInv, NodesInv, Chunking
<1> QED BY <1>1, RegularInvariance, PTL

\* A success has brought the whole BLOB to every node that was not reported as failed.
THEOREM Delivered == Spec => []DeliveredToAll
<1>1. ASSUME Regular => RegularInv PROVE DeliveredToAll
    BY <1>1 DEF DeliveredToAll, RegularInv, DeliveryInv
<1> QED BY <1>1, RegularInvariance, PTL
=============================================================================
