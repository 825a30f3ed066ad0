--------------------------- MODULE FlashStoreProofs ---------------------------
(***************************************************************************)
(* However often the power is cut, and at whatever operation of the flash, *)
(* a node starts with the value stored last or with the one whose store    *)
(* was cut, except in the three windows RetrievedIsLatest names: for any   *)
(* number of sectors, of records in a sector and of values stored.         *)
(*                                                                         *)
(* The invariant says what is written where.  A sector is written from its *)
(* beginning (WrittenInv), the place for the next record is behind all     *)
(* that is written (PlaceInv), the store under way has done what its step  *)
(* says (StoreInv), and so what would be retrieved changes only with the   *)
(* last flag of a record, or while a full sector is erased (RetrievedInv). *)
(* A record before that has no flag has been there since the last          *)
(* power-on, so what is retrieved in spite of it is what was then          *)
(* (UntouchedInv).                                                         *)
(***************************************************************************)
EXTENDS FlashStore, Integers, WellFoundedInduction, TLAPS

-----------------------------------------------------------------------------
(* Greatest and least numbers.                                              *)

\* A number that is in a set and above the others is the set's maximum.
LEMMA MaxIs ==
    ASSUME NEW S \in SUBSET Nat, NEW m \in S, \A k \in S : k <= m
    PROVE  Max(S) = m
<1>1. /\ Max(S) \in S
      /\ \A k \in S : Max(S) >= k
    BY DEF Max
<1>2. Max(S) \in Nat /\ m \in Nat /\ Max(S) >= m /\ Max(S) <= m
    BY <1>1
<1> QED BY <1>2

\* A set of natural numbers has a least one.
LEMMA HasLeast ==
    ASSUME NEW S \in SUBSET Nat, S # {}
    PROVE  \E m \in S : \A k \in S : m <= k
<1>1. PICK n : n \in S
    OBVIOUS
<1>2. PICK m \in S : \A k \in S : <<k, m>> \notin OpToRel(<, Nat)
    BY <1>1, WFMin, NatLessThanWellFounded, Zenon
<1>3. \A k \in S : ~(k < m)
    BY <1>2, Zenon DEF OpToRel
<1> QED BY <1>3

\* The minimum of a set of natural numbers is its least one.
LEMMA MinIsLeast ==
    ASSUME NEW S \in SUBSET Nat, S # {}
    PROVE  Min(S) \in S /\ \A k \in S : Min(S) <= k
    BY HasLeast DEF Min

\* A set of numbers up to n has a greatest one.
LEMMA HasGreatest ==
    ASSUME NEW n \in Nat, NEW S \in SUBSET (0..n), S # {}
    PROVE  \E m \in S : \A k \in S : k <= m
<1> DEFINE R == {n - k : k \in S}
<1>1. R \in SUBSET Nat /\ R # {}
  <2>1. \A k \in S : n - k \in Nat
      OBVIOUS
  <2> QED BY <2>1
<1>2. PICK m \in R : \A k \in R : m <= k
  <2> HIDE DEF R
  <2> QED BY <1>1, HasLeast
<1>3. PICK g \in S : m = n - g
    OBVIOUS
<1>4. \A k \in S : n - g <= n - k
    BY <1>2, <1>3
<1>5. \A k \in S : k <= g
  <2> SUFFICES ASSUME NEW k \in S PROVE k <= g
      OBVIOUS
  <2>1. n - g <= n - k /\ k \in Int /\ g \in Int
      BY <1>4
  <2> QED BY <2>1
<1> QED BY <1>5

-----------------------------------------------------------------------------
(* What is retrieved, as a function of the records of a sector.             *)

Newest(s, f) == Max({i \in Places : Valid(s, f[i])} \cup {0})

Kept(b) == IF b.head = "save" THEN b.data ELSE {}

Content(s, f, b) ==
    CASE Newest(s, f) # 0             -> f[Newest(s, f)].data
      [] Newest(s, f) = 0 /\ s = Misc -> Kept(b)
      [] OTHER                        -> {}

\* These are the module's definitions.
LEMMA RetrievedIsContent ==
    ASSUME NEW s \in Sectors
    PROVE  /\ LastValid(s) = Newest(s, flash[s])
           /\ Retrieved(s) = Content(s, flash[s], backup)
    BY DEF LastValid, Retrieved, InBackup, Newest, Content, Kept

\* The newest record that counts is the last one.
LEMMA NewestPlace ==
    ASSUME NEW s, NEW f
    PROVE  /\ Newest(s, f) \in 0..Slots
           /\ Newest(s, f) # 0 => Newest(s, f) \in Places /\ Valid(s, f[Newest(s, f)])
           /\ \A i \in Places : i > Newest(s, f) => ~Valid(s, f[i])
<1> DEFINE S == {i \in Places : Valid(s, f[i])} \cup {0}
<1>1. S \in SUBSET (0..Slots) /\ S # {} /\ S \in SUBSET Nat /\ Slots \in Nat
    BY FlashStoreAssumption DEF Places
<1>2. \A i \in S : i # 0 => i \in Places /\ Valid(s, f[i])
    OBVIOUS
<1>3. \A i \in Places : Valid(s, f[i]) => i \in S
    OBVIOUS
<1>4. Newest(s, f) = Max(S)
    BY DEF Newest
<1> HIDE DEF S
<1>5. PICK m \in S : \A k \in S : k <= m
    BY <1>1, HasGreatest
<1>6. Newest(s, f) = m
    BY <1>1, <1>4, <1>5, MaxIs
<1>7. \A i \in Places : i > m => i \notin S
  <2>1. \A i \in Places : i \in Nat /\ m \in Nat
      BY <1>1 DEF Places
  <2> QED BY <1>5, <2>1
<1> QED BY <1>1, <1>2, <1>3, <1>5, <1>6, <1>7

\* A record that counts, with none behind it, is what is retrieved.
LEMMA ContentOfPlace ==
    ASSUME NEW s, NEW f, NEW b, NEW k \in Places, Valid(s, f[k]),
           \A i \in Places : i > k => ~Valid(s, f[i])
    PROVE  Newest(s, f) = k /\ Content(s, f, b) = f[k].data
<1>1. Newest(s, f) = k
  <2>1. Newest(s, f) \in Nat /\ k \in Nat /\ k # 0
      BY NewestPlace, FlashStoreAssumption DEF Places
  <2>2. ~(k > Newest(s, f)) /\ ~(Newest(s, f) > k)
      BY NewestPlace, <2>1
  <2> QED BY <2>1, <2>2
<1>2. k # 0
    BY DEF Places
<1> QED BY <1>1, <1>2 DEF Content

\* If none counts, the backup is what is retrieved, if there is one.
LEMMA ContentOfNone ==
    ASSUME NEW s, NEW f, NEW b, \A i \in Places : ~Valid(s, f[i])
    PROVE  Newest(s, f) = 0 /\ Content(s, f, b) = IF s = Misc THEN Kept(b) ELSE {}
<1>1. Newest(s, f) = 0
    BY NewestPlace
<1> QED BY <1>1 DEF Content

\* Records that do not count make no difference.
LEMMA SameContent ==
    ASSUME NEW s, NEW f, NEW g, NEW b,
           \A i \in Places : Valid(s, f[i]) <=> Valid(s, g[i]),
           \A i \in Places : Valid(s, f[i]) => f[i].data = g[i].data
    PROVE  Newest(s, f) = Newest(s, g) /\ Content(s, f, b) = Content(s, g, b)
<1>1. Newest(s, f) = Newest(s, g)
  <2>1. {i \in Places : Valid(s, f[i])} = {i \in Places : Valid(s, g[i])}
      OBVIOUS
  <2> QED BY <2>1 DEF Newest
<1>2. Newest(s, f) # 0 => f[Newest(s, f)].data = g[Newest(s, f)].data
    BY NewestPlace
<1> QED BY <1>1, <1>2 DEF Content

\* The backup makes no difference to other sectors, and to its own one only if no
\* record of it counts.
LEMMA SameBackup ==
    ASSUME NEW s, NEW f, NEW b, NEW bb,
           s # Misc \/ Newest(s, f) # 0 \/ Kept(b) = Kept(bb)
    PROVE  Content(s, f, b) = Content(s, f, bb)
    BY DEF Content

\* What is retrieved are values, or torn.
LEMMA ContentType ==
    ASSUME NEW s, NEW f \in [Places -> Records], NEW b \in Records
    PROVE  Content(s, f, b) \in SUBSET (Values \cup {Torn})
    BY NewestPlace DEF Content, Records, Kept

\* Of a whole value, the maximum is the value.
LEMMA MaxOfWhole ==
    ASSUME NEW v \in Nat
    PROVE  Max({v}) = v
    BY MaxIs

\* Values are numbers, and not 0.
LEMMA ValuesPositive == \A v \in Values : v \in Nat /\ v # 0
    BY FlashStoreAssumption

-----------------------------------------------------------------------------
(* The invariant.                                                           *)

Goal(v) == IF v = 0 THEN {} ELSE {v}

\* The sector is full and not yet erased.
Turning == pc \in {"backup head", "backup data", "backup flag", "erase"}

\* The record in the three states it goes through.
HeadOnly(v) == [head |-> "pre", crc |-> {v}, data |-> {}]
Unflagged(v) == [head |-> "pre", crc |-> {v}, data |-> {v}]
Complete(v) == [head |-> "save", crc |-> {v}, data |-> {v}]

\* How far the record at the place of the store under way is written.
Progress ==
    CASE pc = "data"  -> HeadOnly(value)
      [] pc = "flag"  -> Unflagged(value)
      [] pc = "clean" -> Complete(value)
      [] OTHER        -> Erased

\* How far the backup is written, if it was begun on an erased sector.
BackupProgress ==
    CASE pc = "backup head" -> Erased
      [] pc = "backup data" -> HeadOnly(value)
      [] pc = "backup flag" -> Unflagged(value)
      [] OTHER              -> Complete(value)

\* A sector is written from its beginning, and where it has no CRC a record with
\* SAVE_FLAG is of one value.
WrittenInv ==
    \A s \in Sectors :
        /\ \A i \in Places : flash[s][i].head = "erased" => flash[s][i] = Erased
        /\ \A i, j \in Places : i < j /\ flash[s][i] = Erased => flash[s][j] = Erased
        /\ s # Misc => \A i \in Places : flash[s][i].head = "save" =>
                           \E v \in Values : flash[s][i].data = {v}

\* p_adr is behind what is written.
PlaceInv ==
    /\ pc # "off" =>
         \A s \in Sectors : \A i \in Places :
            ~(s = sector /\ Turning) =>
              /\ i < addr[s] => flash[s][i] # Erased
              /\ i = addr[s] => flash[s][i] = IF s = sector THEN Progress ELSE Erased
              /\ i > addr[s] => flash[s][i] = Erased
    /\ pc \in {"erase", "head", "data", "flag", "clean"} => addr[sector] \in Places
    /\ Turning => addr[sector] = 1

\* The store under way is of the last value begun; a sector with no backup is
\* exposed before it is erased, and one with a backup that was erased is not.
StoreInv ==
    /\ pc \notin {"idle", "off"} => value = begun[sector] /\ value \in Values
    /\ Turning => sector = Misc \/ (pc = "erase" /\ sector \in exposed)
    /\ Turning /\ sector = Misc /\ Misc \notin exposed => backup = BackupProgress

\* What would be retrieved: the last value, or the one of the store under way, or
\* nothing from an exposed sector, or what the last power-on has found.
RetrievedInv ==
    \A s \in Sectors :
        s # Misc \/ s \notin exposed =>
            \/ Retrieved(s) = Goal(last[s])
            \/ /\ sector = s /\ pc # "idle"
               /\ Retrieved(s) = {begun[s]} /\ begun[s] \in Values
            \/ /\ sector = s /\ pc # "idle"
               /\ s # Misc /\ s \in exposed /\ Retrieved(s) = {}
            \/ s \in unsaved /\ Retrieved(s) = got[s]

\* A record before that does not count has been there since the last power-on.
UntouchedInv ==
    pc # "off" =>
      \A s \in Mapped :
        /\ ~(s = sector /\ pc # "idle")
        /\ addr[s] - 1 \in Places
        /\ ~Valid(s, flash[s][addr[s] - 1])
        => Retrieved(s) = got[s]

IInv == TypeOK /\ WrittenInv /\ PlaceInv /\ StoreInv /\ RetrievedInv /\ UntouchedInv

-----------------------------------------------------------------------------
(* The records a store writes.                                              *)

\* Each operation takes the record to its next state.
LEMMA RecordSteps ==
    ASSUME NEW v \in Values
    PROVE  /\ HeadWritten(Erased, v) = HeadOnly(v)
           /\ DataWritten(HeadOnly(v), v) = Unflagged(v)
           /\ FlagWritten(Unflagged(v)) = Complete(v)
           /\ {Erased, HeadOnly(v), Unflagged(v), Complete(v)} \subseteq Records
<1>1. HeadWritten(Erased, v) = HeadOnly(v)
  <2> DEFINE h == HeadWritten(Erased, v)
  <2>1. h \in Records
      BY DEF HeadWritten, Erased, Records
  <2>2. h.head = "pre" /\ h.crc = {v} /\ h.data = {}
      BY DEF HeadWritten, Erased
  <2>3. h = [head |-> h.head, crc |-> h.crc, data |-> h.data]
    <3> HIDE DEF h
    <3> QED BY <2>1 DEF Records
  <2> QED BY <2>2, <2>3 DEF HeadOnly
<1>2. DataWritten(HeadOnly(v), v) = Unflagged(v)
    BY DEF DataWritten, HeadOnly, Unflagged
<1>3. FlagWritten(Unflagged(v)) = Complete(v)
    BY DEF FlagWritten, Unflagged, Complete
<1>4. Erased \in Records /\ HeadOnly(v) \in Records
    BY DEF Erased, HeadOnly, Records
<1>5. Unflagged(v) \in Records /\ Complete(v) \in Records
    BY DEF Unflagged, Complete, Records
<1> QED BY <1>1, <1>2, <1>3, <1>4, <1>5

\* Only the last one counts.
LEMMA RecordValidity ==
    ASSUME NEW s, NEW v \in Values
    PROVE  /\ Valid(s, Complete(v)) /\ Complete(v).data = {v} /\ Complete(v).head = "save"
           /\ ~Valid(s, Erased) /\ ~Valid(s, HeadOnly(v)) /\ ~Valid(s, Unflagged(v))
           /\ ~Valid(s, Broken)
           /\ Erased.head = "erased" /\ HeadOnly(v).head = "pre" /\ Unflagged(v).head = "pre"
    BY DEF Valid, Erased, HeadOnly, Unflagged, Complete, Broken

\* A record whose operation was cut does not count either.
LEMMA TornRecords ==
    ASSUME NEW v \in Values
    PROVE  /\ HeadTorn(Erased) \in Records /\ HeadTorn(Erased).head = "torn"
           /\ DataTorn(HeadOnly(v)) \in Records /\ DataTorn(HeadOnly(v)).head = "pre"
           /\ Broken \in Records /\ Broken.head = "torn"
    BY DEF HeadTorn, DataTorn, Erased, HeadOnly, Broken, Records

\* Any record stays one under each operation.
LEMMA RecordTypes ==
    ASSUME NEW r \in Records, NEW v \in Values
    PROVE  {HeadWritten(r, v), DataWritten(r, v), FlagWritten(r), HeadTorn(r), DataTorn(r)}
             \subseteq Records
<1>1. HeadWritten(r, v) \in Records
    BY DEF HeadWritten, Records
<1>2. DataWritten(r, v) \in Records
    BY DEF DataWritten, Records
<1>3. FlagWritten(r) \in Records
    BY DEF FlagWritten, Records
<1>4. HeadTorn(r) \in Records
    BY DEF HeadTorn, Records
<1>5. DataTorn(r) \in Records
    BY DEF DataTorn, Records
<1> QED BY <1>1, <1>2, <1>3, <1>4, <1>5

\* The record a store is at, and those around it.
LEMMA PlaceOfStore ==
    ASSUME IInv, pc \in {"head", "data", "flag", "clean"}
    PROVE  /\ sector \in Sectors /\ value \in Values /\ value = begun[sector]
           /\ Here \in Places /\ Here \in Nat /\ Current = Progress
           /\ \A i \in Places : i < Here => flash[sector][i] # Erased
           /\ \A i \in Places : i > Here => flash[sector][i] = Erased
<1>1. ~Turning /\ pc # "off" /\ pc # "idle" /\ sector \in Sectors
    BY DEF Turning, IInv, TypeOK
<1>2. Here \in Places
    BY DEF IInv, PlaceInv, Here
<1>3. \A i \in Places :
          /\ i < addr[sector] => flash[sector][i] # Erased
          /\ i = addr[sector] => flash[sector][i] = Progress
          /\ i > addr[sector] => flash[sector][i] = Erased
    BY <1>1 DEF IInv, PlaceInv
<1> QED BY <1>1, <1>2, <1>3 DEF Here, Current, Places, IInv, StoreInv

\* The record at the place of the store is programmed.
LEMMA PlaceWritten ==
    ASSUME IInv, pc \in {"head", "data", "flag"},
           NEW r \in Records, r.head # "erased",
           r.head = "save" => \E v \in Values : r.data = {v},
           flash' = [flash EXCEPT ![sector] = At(r)]
    PROVE  /\ flash' \in [Sectors -> [Places -> Records]]
           /\ \A s \in Sectors : s # sector => flash'[s] = flash[s]
           /\ \A i \in Places : flash'[sector][i] = IF i = Here THEN r ELSE flash[sector][i]
           /\ WrittenInv'
<1>1. /\ sector \in Sectors /\ flash \in [Sectors -> [Places -> Records]]
      /\ Here \in Places /\ Here \in Nat
      /\ \A i \in Places : i < Here => flash[sector][i] # Erased
      /\ \A i \in Places : i > Here => flash[sector][i] = Erased
    BY PlaceOfStore DEF IInv, TypeOK
<1>2. /\ At(r) \in [Places -> Records]
      /\ \A i \in Places : At(r)[i] = IF i = Here THEN r ELSE flash[sector][i]
    BY <1>1 DEF At
<1>3. /\ flash' \in [Sectors -> [Places -> Records]]
      /\ \A s \in Sectors : s # sector => flash'[s] = flash[s]
      /\ flash'[sector] = At(r)
    BY <1>1, <1>2
<1>4. r # Erased
    BY DEF Erased
<1>5. WrittenInv'
  <2> SUFFICES ASSUME NEW s \in Sectors
               PROVE  /\ \A i \in Places : flash'[s][i].head = "erased" => flash'[s][i] = Erased
                      /\ \A i, j \in Places : i < j /\ flash'[s][i] = Erased
                                                => flash'[s][j] = Erased
                      /\ s # Misc => \A i \in Places : flash'[s][i].head = "save" =>
                                         \E v \in Values : flash'[s][i].data = {v}
      BY DEF WrittenInv
  <2>1. CASE s # sector
      BY <1>3, <2>1 DEF IInv, WrittenInv
  <2>2. CASE s = sector
    <3>1. ASSUME NEW i \in Places, NEW j \in Places, i < j, flash'[s][i] = Erased
          PROVE  flash'[s][j] = Erased
      <4>1. i # Here /\ flash[s][i] = Erased
          BY <1>2, <1>3, <1>4, <2>2, <3>1
      <4>2. i \in Nat /\ j \in Nat
          BY DEF Places
      <4>3. j > Here
          BY <1>1, <2>2, <3>1, <4>1, <4>2
      <4> QED BY <1>1, <1>2, <1>3, <2>2, <4>2, <4>3
    <3>2. \A i \in Places : flash'[s][i].head = "erased" => flash'[s][i] = Erased
        BY <1>2, <1>3, <2>2 DEF IInv, WrittenInv
    <3>3. s # Misc => \A i \in Places : flash'[s][i].head = "save" =>
                          \E v \in Values : flash'[s][i].data = {v}
        BY <1>2, <1>3, <2>2 DEF IInv, WrittenInv
    <3> QED BY <3>1, <3>2, <3>3
  <2> QED BY <2>1, <2>2
<1> QED BY <1>2, <1>3, <1>5

\* Until the record has its last flag, it makes no difference.
LEMMA UnflaggedWritten ==
    ASSUME IInv, pc \in {"head", "data"},
           NEW r \in Records, r.head \notin {"erased", "save"},
           flash' = [flash EXCEPT ![sector] = At(r)]
    PROVE  \A s \in Sectors : Content(s, flash'[s], backup) = Content(s, flash[s], backup)
<1> SUFFICES ASSUME NEW s \in Sectors
             PROVE  Content(s, flash'[s], backup) = Content(s, flash[s], backup)
    OBVIOUS
<1>1. /\ \A t \in Sectors : t # sector => flash'[t] = flash[t]
      /\ \A i \in Places : flash'[sector][i] = IF i = Here THEN r ELSE flash[sector][i]
    BY PlaceWritten
<1>2. CASE s # sector
    BY <1>1, <1>2
<1>3. CASE s = sector
  <2>1. ~Valid(s, flash[s][Here]) /\ ~Valid(s, r)
    <3>1. flash[s][Here] = Progress /\ value \in Values
        BY <1>3, PlaceOfStore DEF Current
    <3>2. Progress = Erased \/ Progress = HeadOnly(value)
        BY DEF Progress
    <3> QED BY <3>1, <3>2, RecordValidity DEF Valid
  <2>2. \A i \in Places : Valid(s, flash[s][i]) <=> Valid(s, flash'[s][i])
      BY <1>1, <1>3, <2>1
  <2>3. \A i \in Places : Valid(s, flash[s][i]) => flash[s][i].data = flash'[s][i].data
      BY <1>1, <1>3, <2>1
  <2> QED BY <2>2, <2>3, SameContent
<1> QED BY <1>2, <1>3

\* What would be retrieved is the same, and no store begins or ends.
LEMMA RetrievedStays ==
    ASSUME IInv, UNCHANGED <<sector, got, last, begun, exposed, unsaved>>, pc' # "idle",
           \A s \in Sectors : s # Misc \/ s \notin exposed =>
               Content(s, flash'[s], backup') = Content(s, flash[s], backup)
    PROVE  RetrievedInv'
<1> SUFFICES ASSUME NEW s \in Sectors, s # Misc \/ s \notin exposed'
             PROVE  \/ Retrieved(s)' = Goal(last'[s])
                    \/ /\ sector' = s /\ pc' # "idle"
                       /\ Retrieved(s)' = {begun'[s]} /\ begun'[s] \in Values
                    \/ /\ sector' = s /\ pc' # "idle"
                       /\ s # Misc /\ s \in exposed' /\ Retrieved(s)' = {}
                    \/ s \in unsaved' /\ Retrieved(s)' = got'[s]
    BY DEF RetrievedInv, Goal
<1>1. Retrieved(s)' = Content(s, flash'[s], backup')
    BY DEF LastValid, Retrieved, InBackup, Newest, Content, Kept
<1>2. Retrieved(s)' = Retrieved(s)
    BY <1>1, RetrievedIsContent
<1> QED BY <1>2 DEF IInv, RetrievedInv

\* A store under way leaves the other sectors as they are.
LEMMA UntouchedStays ==
    ASSUME IInv, UNCHANGED <<sector, addr, got>>, pc' # "idle", pc # "off",
           \A s \in Sectors : s # sector => flash'[s] = flash[s]
    PROVE  UntouchedInv'
<1> SUFFICES ASSUME NEW s \in Mapped, s # sector,
                    addr[s] - 1 \in Places, ~Valid(s, flash[s][addr[s] - 1])
             PROVE  Retrieved(s)' = got[s]
  <2>1. \A s \in Mapped : s \in Sectors
      BY FlashStoreAssumption
  <2> QED BY <2>1 DEF UntouchedInv, Valid
<1>1. s \in Sectors /\ s # Misc
    BY FlashStoreAssumption
<1>2. Retrieved(s)' = Content(s, flash[s], backup')
    BY <1>1 DEF LastValid, Retrieved, InBackup, Newest, Content, Kept
<1>3. Retrieved(s)' = Retrieved(s)
    BY <1>1, <1>2, SameBackup, RetrievedIsContent
<1> QED BY <1>3 DEF IInv, UntouchedInv

-----------------------------------------------------------------------------
(* One lemma for each action.                                               *)

\* The flash is erased at first.
LEMMA InitInv == Init => IInv
<1> SUFFICES ASSUME Init PROVE IInv
    OBVIOUS
<1>1. TypeOK
  <2>1. Erased \in Records
      BY DEF Erased, Records
  <2>2. 1 \in 1..Slots + 1 /\ Misc \in Sectors /\ 0 \in 0..MaxStores
      BY FlashStoreAssumption
  <2> QED BY <2>1, <2>2 DEF Init, TypeOK, PCs
<1>2. WrittenInv
    BY DEF Init, WrittenInv, Erased
<1>3. PlaceInv
    BY DEF Init, PlaceInv, Turning, Progress, Places
<1>4. StoreInv
    BY DEF Init, StoreInv, Turning
<1>5. RetrievedInv
  <2> SUFFICES ASSUME NEW s \in Sectors PROVE Retrieved(s) = Goal(last[s])
      BY DEF RetrievedInv
  <2>1. \A i \in Places : ~Valid(s, flash[s][i])
      BY DEF Init, Valid, Erased
  <2>2. Kept(backup) = {}
      BY DEF Init, Kept, Erased
  <2>3. Content(s, flash[s], backup) = {}
      BY <2>1, <2>2, ContentOfNone
  <2> QED BY <2>3, RetrievedIsContent DEF Init, Goal
<1>6. UntouchedInv
  <2> SUFFICES ASSUME NEW s \in Mapped PROVE addr[s] - 1 \notin Places
      BY DEF UntouchedInv
  <2>1. addr[s] = 1
      BY FlashStoreAssumption DEF Init
  <2> QED BY <2>1, FlashStoreAssumption DEF Places
<1> QED BY <1>1, <1>2, <1>3, <1>4, <1>5, <1>6 DEF IInv

\* A value equal to that of the record before is not written.
LEMMA SkipStep ==
    ASSUME IInv, NEW s \in Sectors, NEW v \in Values, Store(s, v), EqualsRecordBefore(s, v)
    PROVE  IInv'
<1> DEFINE k == addr[s] - 1
<1>1. /\ pc = "idle" /\ stores < MaxStores /\ stores' = stores + 1
      /\ begun' = [begun EXCEPT ![s] = v]
      /\ last' = [last EXCEPT ![s] = v]
      /\ unsaved' = IF Valid(s, flash[s][k]) THEN unsaved ELSE unsaved \cup {s}
      /\ UNCHANGED <<flash, backup, addr, pc, sector, value, got, exposed>>
    BY DEF Store
<1>2. /\ s \in Mapped /\ k \in Places /\ flash[s][k].data = {v}
      /\ addr[s] \in Nat /\ v # 0
  <2>1. s \in Mapped /\ k \in 1..Slots - 1 /\ flash[s][k].data = {v}
      BY DEF EqualsRecordBefore
  <2>2. addr[s] \in 1..Slots + 1
      BY DEF IInv, TypeOK
  <2> QED BY <2>1, <2>2, ValuesPositive, FlashStoreAssumption DEF Places
<1>3. TypeOK'
  <2>1. stores' \in 0..MaxStores
      BY <1>1, FlashStoreAssumption DEF IInv, TypeOK
  <2>2. unsaved' \subseteq Mapped
      BY <1>1, <1>2 DEF IInv, TypeOK
  <2> QED BY <1>1, <2>1, <2>2 DEF IInv, TypeOK
<1>4. WrittenInv'
    BY <1>1 DEF IInv, WrittenInv
<1>5. PlaceInv'
    BY <1>1 DEF IInv, PlaceInv, Turning, Progress
<1>6. StoreInv'
    BY <1>1 DEF IInv, StoreInv, Turning
<1>7. \A t \in Sectors : Retrieved(t)' = Retrieved(t)
    BY <1>1 DEF Retrieved, LastValid, InBackup
<1>8. CASE Valid(s, flash[s][k])
  <2>1. \A i \in Places : i > k => ~Valid(s, flash[s][i])
    <3>1. \A i \in Places : i >= addr[s] => flash[s][i] = Erased
      <4>1. ~Turning /\ Progress = Erased
          BY <1>1 DEF Turning, Progress
      <4>2. \A i \in Places : i \in Nat
          BY DEF Places
      <4> QED BY <1>1, <1>2, <4>1, <4>2 DEF IInv, PlaceInv
    <3>2. \A i \in Places : i > k => i >= addr[s]
        BY <1>2 DEF Places
    <3> QED BY <3>1, <3>2 DEF Valid, Erased
  <2>2. Retrieved(s) = {v}
    <3> HIDE DEF k
    <3>1. Content(s, flash[s], backup) = flash[s][k].data
        BY <1>2, <1>8, <2>1, ContentOfPlace
    <3> QED BY <1>2, <3>1, RetrievedIsContent
  <2>3. last'[s] = v /\ \A t \in Sectors : t # s => last'[t] = last[t] /\ begun'[t] = begun[t]
      BY <1>1 DEF IInv, TypeOK
  <2>4. RetrievedInv'
      BY <1>1, <1>2, <1>7, <1>8, <2>2, <2>3 DEF IInv, RetrievedInv, Goal
  <2>5. UntouchedInv'
      BY <1>1, <1>7, FlashStoreAssumption DEF IInv, UntouchedInv, Valid
  <2> QED BY <1>3, <1>4, <1>5, <1>6, <2>4, <2>5 DEF IInv
<1>9. CASE ~Valid(s, flash[s][k])
  <2>1. Retrieved(s) = got[s] /\ s \in unsaved'
      BY <1>1, <1>2, <1>9 DEF IInv, UntouchedInv
  <2>2. \A t \in Sectors : t # s => last'[t] = last[t] /\ begun'[t] = begun[t]
      BY <1>1 DEF IInv, TypeOK
  <2>3. RetrievedInv'
      BY <1>1, <1>7, <1>9, <2>1, <2>2 DEF IInv, RetrievedInv, Goal
  <2>4. UntouchedInv'
      BY <1>1, <1>7, FlashStoreAssumption DEF IInv, UntouchedInv, Valid
  <2> QED BY <1>3, <1>4, <1>5, <1>6, <2>3, <2>4 DEF IInv
<1> QED BY <1>8, <1>9

\* A store begins.
LEMMA StoreStep ==
    ASSUME IInv, NEW s \in Sectors, NEW v \in Values, Store(s, v), ~EqualsRecordBefore(s, v)
    PROVE  IInv'
<1>1. /\ pc = "idle" /\ sector' = s /\ value' = v
      /\ stores < MaxStores /\ stores' = stores + 1
      /\ begun' = [begun EXCEPT ![s] = v]
      /\ UNCHANGED <<flash, backup, got, last, unsaved>>
    BY DEF Store
<1>2. Slots \in Nat \ {0} /\ addr[s] \in 1..Slots + 1
    BY FlashStoreAssumption DEF IInv, TypeOK
<1>3. /\ value' \in Values /\ value' = begun'[s] /\ begun' \in [Sectors -> Values \cup {0}]
      /\ stores' \in 0..MaxStores
    BY <1>1, <1>2, FlashStoreAssumption DEF IInv, TypeOK
<1>6. ASSUME pc' # "idle", \A t \in Sectors : t # s => addr'[t] = addr[t]
      PROVE  UntouchedInv'
  <2>1. \A t \in Sectors : Retrieved(t)' = Retrieved(t)
      BY <1>1 DEF Retrieved, LastValid, InBackup
  <2>2. \A t \in Mapped : t \in Sectors
      BY FlashStoreAssumption
  <2> QED BY <1>1, <1>6, <2>1, <2>2 DEF IInv, UntouchedInv, Valid
<1>4. CASE addr[s] > Slots
  <2>1. /\ addr' = [addr EXCEPT ![s] = 1]
        /\ pc' = IF s = Misc THEN "backup head" ELSE "erase"
        /\ exposed' = IF s = Misc /\ backup = Erased THEN exposed ELSE exposed \cup {s}
      BY <1>4 DEF Store, TurnOver
  <2>2. /\ TypeOK' /\ addr'[s] = 1 /\ \A t \in Sectors : t # s => addr'[t] = addr[t]
    <3>1. 1 \in 1..Slots + 1
        BY <1>2
    <3>2. addr' \in [Sectors -> 1..Slots + 1]
        BY <2>1, <3>1 DEF IInv, TypeOK
    <3>3. addr'[s] = 1 /\ \A t \in Sectors : t # s => addr'[t] = addr[t]
        BY <2>1, <3>1 DEF IInv, TypeOK
    <3>4. pc' \in PCs /\ exposed' \subseteq Sectors
        BY <2>1 DEF IInv, TypeOK, PCs
    <3> QED BY <1>1, <1>3, <3>2, <3>3, <3>4 DEF IInv, TypeOK
  <2>3. PlaceInv'
    <3>1. Turning' /\ ~Turning /\ Progress = Erased
        BY <1>1, <2>1 DEF Turning, Progress
    <3>2. 1 \in Places
        BY <1>2 DEF Places
    <3> QED BY <1>1, <2>2, <3>1, <3>2 DEF IInv, PlaceInv
  <2>4. StoreInv'
      BY <1>1, <1>3, <2>1 DEF StoreInv, Turning, BackupProgress
  <2>5. exposed \subseteq exposed' /\ pc' # "idle"
      BY <2>1
  <2>6. RetrievedInv'
    <3>1. \A t \in Sectors : Retrieved(t)' = Retrieved(t)
        BY <1>1 DEF Retrieved, LastValid, InBackup
    <3> QED BY <1>1, <2>5, <3>1 DEF IInv, RetrievedInv
  <2> QED BY <1>1, <1>6, <2>2, <2>3, <2>4, <2>5, <2>6 DEF IInv, WrittenInv
<1>5. CASE ~(addr[s] > Slots)
  <2>1. pc' = "head" /\ UNCHANGED <<addr, exposed>>
      BY <1>5 DEF Store
  <2>2. TypeOK'
      BY <1>1, <1>3, <2>1 DEF IInv, TypeOK, PCs
  <2>3. PlaceInv'
    <3>1. ~Turning' /\ ~Turning /\ Progress = Erased /\ Progress' = Erased
        BY <1>1, <2>1 DEF Turning, Progress
    <3>2. addr[s] \in Places
        BY <1>2, <1>5 DEF Places
    <3> QED BY <1>1, <2>1, <3>1, <3>2 DEF IInv, PlaceInv
  <2>4. StoreInv'
      BY <1>1, <1>3, <2>1 DEF StoreInv, Turning
  <2>5. RetrievedInv'
    <3>1. \A t \in Sectors : Retrieved(t)' = Retrieved(t)
        BY <1>1 DEF Retrieved, LastValid, InBackup
    <3> QED BY <1>1, <2>1, <3>1 DEF IInv, RetrievedInv
  <2> QED BY <1>1, <1>6, <2>1, <2>2, <2>3, <2>4, <2>5 DEF IInv, WrittenInv
<1> QED BY <1>4, <1>5

\* The backup is written, one operation after the other.
LEMMA BackupStep ==
    ASSUME IInv, BackupHead \/ BackupData \/ BackupFlag
    PROVE  IInv'
<1>1. /\ pc \in {"backup head", "backup data", "backup flag"}
      /\ pc' \in {"backup data", "backup flag", "erase"}
      /\ UNCHANGED <<flash, addr, sector, value, got, stores, begun, last, exposed, unsaved>>
    BY DEF BackupHead, BackupData, BackupFlag, OnBackup
<1>2. /\ sector = Misc /\ value \in Values /\ value = begun[sector]
      /\ backup \in Records /\ Turning /\ Turning'
    BY <1>1 DEF IInv, StoreInv, TypeOK, Turning
<1>3. backup' \in Records
    BY <1>2, RecordTypes DEF BackupHead, BackupData, BackupFlag, OnBackup
<1>4. TypeOK'
    BY <1>1, <1>3 DEF IInv, TypeOK, PCs
<1>5. WrittenInv' /\ PlaceInv'
  <2>1. WrittenInv'
      BY <1>1 DEF IInv, WrittenInv
  <2>2. Progress = Erased /\ Progress' = Erased
      BY <1>1 DEF Progress
  <2>3. 1 \in Places
      BY FlashStoreAssumption DEF Places
  <2> QED BY <1>1, <1>2, <2>1, <2>2, <2>3 DEF IInv, PlaceInv
<1>6. Misc \notin exposed => backup' = BackupProgress'
  <2> SUFFICES ASSUME Misc \notin exposed PROVE backup' = BackupProgress'
      OBVIOUS
  <2>1. backup = BackupProgress /\ value' = value
      BY <1>1, <1>2 DEF IInv, StoreInv
  <2>2. CASE BackupHead
      BY <1>2, <2>1, <2>2, RecordSteps DEF BackupHead, OnBackup, BackupProgress
  <2>3. CASE BackupData
      BY <1>2, <2>1, <2>3, RecordSteps DEF BackupData, OnBackup, BackupProgress
  <2>4. CASE BackupFlag
      BY <1>2, <2>1, <2>4, RecordSteps DEF BackupFlag, OnBackup, BackupProgress
  <2> QED BY <2>2, <2>3, <2>4
<1>7. StoreInv'
    BY <1>1, <1>2, <1>6 DEF IInv, StoreInv
<1>8. RetrievedInv'
  <2> SUFFICES ASSUME NEW s \in Sectors, s # Misc \/ s \notin exposed
               PROVE  Retrieved(s)' = Retrieved(s) \/ (s = Misc /\ Retrieved(s)' = {value})
      BY <1>1, <1>2 DEF IInv, RetrievedInv
  <2>1. Retrieved(s)' = Content(s, flash[s], backup')
      BY <1>1 DEF LastValid, Retrieved, InBackup, Newest, Content, Kept
  <2>2. CASE s # Misc \/ Newest(s, flash[s]) # 0
      BY <2>1, <2>2, SameBackup, RetrievedIsContent
  <2>3. CASE s = Misc /\ Newest(s, flash[s]) = 0
    <3>1. backup = BackupProgress /\ backup' = BackupProgress' /\ value' = value
        BY <1>1, <1>2, <1>6, <2>3 DEF IInv, StoreInv
    <3>2. CASE pc' # "erase"
      <4>1. Kept(backup) = {} /\ Kept(backup') = {}
          BY <1>1, <3>1, <3>2 DEF BackupProgress, Kept, Erased, HeadOnly, Unflagged
      <4> QED BY <2>1, <4>1, SameBackup, RetrievedIsContent
    <3>3. CASE pc' = "erase"
      <4>1. backup' = Complete(value)
          BY <3>1, <3>3 DEF BackupProgress
      <4>2. Kept(backup') = {value}
          BY <4>1 DEF Kept, Complete
      <4> QED BY <2>1, <2>3, <4>2 DEF Content
    <3> QED BY <3>2, <3>3
  <2> QED BY <2>2, <2>3
<1>9. UntouchedInv'
    BY <1>1, UntouchedStays
<1> QED BY <1>4, <1>5, <1>7, <1>8, <1>9 DEF IInv

\* A full sector is erased.  The backup is then what is retrieved, or nothing.
LEMMA EraseContent ==
    ASSUME IInv, pc = "erase", NEW r \in {Erased, Broken},
           flash' = [flash EXCEPT ![sector] = [i \in Places |-> r]]
    PROVE  /\ flash' \in [Sectors -> [Places -> Records]]
           /\ WrittenInv'
           /\ \A s \in Sectors : s # sector => flash'[s] = flash[s]
           /\ flash'[sector] = [i \in Places |-> r]
           /\ Content(sector, flash'[sector], backup)
                = IF sector = Misc THEN Kept(backup) ELSE {}
           /\ sector = Misc /\ Misc \notin exposed => Kept(backup) = {begun[sector]}
           /\ sector # Misc => sector \in exposed
           /\ value \in Values /\ value = begun[sector] /\ sector \in Sectors
<1>1. /\ sector \in Sectors /\ flash \in [Sectors -> [Places -> Records]]
      /\ value \in Values /\ value = begun[sector] /\ Turning
    BY DEF IInv, TypeOK, StoreInv, Turning
<1>2. r \in Records /\ (r = Erased \/ r.head = "torn")
    BY DEF Erased, Broken, Records
<1>3. /\ flash' \in [Sectors -> [Places -> Records]]
      /\ \A s \in Sectors : s # sector => flash'[s] = flash[s]
      /\ flash'[sector] = [i \in Places |-> r]
    BY <1>1, <1>2
<1>4. WrittenInv'
  <2>1. Erased.head = "erased"
      BY DEF Erased
  <2> QED BY <1>2, <1>3, <2>1 DEF IInv, WrittenInv
<1>5. Content(sector, flash'[sector], backup) = IF sector = Misc THEN Kept(backup) ELSE {}
  <2>1. \A i \in Places : ~Valid(sector, flash'[sector][i])
      BY <1>1, <1>3, RecordValidity
  <2> QED BY <2>1, ContentOfNone
<1>6. sector = Misc /\ Misc \notin exposed => Kept(backup) = {begun[sector]}
  <2>1. sector = Misc /\ Misc \notin exposed => backup = Complete(value)
      BY <1>1 DEF IInv, StoreInv, BackupProgress
  <2> QED BY <1>1, <2>1 DEF Kept, Complete
<1>7. sector # Misc => sector \in exposed
    BY <1>1 DEF IInv, StoreInv
<1> QED BY <1>1, <1>3, <1>4, <1>5, <1>6, <1>7

\* The same for what is retrieved after the erase, complete or cut.
LEMMA EraseRetrieved ==
    ASSUME IInv, pc = "erase", NEW r \in {Erased, Broken},
           flash' = [flash EXCEPT ![sector] = [i \in Places |-> r]],
           UNCHANGED <<backup, sector, got, last, begun, exposed, unsaved>>, pc' # "idle"
    PROVE  RetrievedInv'
<1> SUFFICES ASSUME NEW s \in Sectors, s # Misc \/ s \notin exposed
             PROVE  \/ Retrieved(s)' = Retrieved(s)
                    \/ /\ sector = s /\ begun[s] \in Values
                       /\ Retrieved(s)' = {begun[s]}
                    \/ sector = s /\ s # Misc /\ s \in exposed /\ Retrieved(s)' = {}
    BY DEF IInv, RetrievedInv
<1>1. Retrieved(s)' = Content(s, flash'[s], backup)
    BY DEF LastValid, Retrieved, InBackup, Newest, Content, Kept
<1>2. CASE s # sector
    BY <1>1, <1>2, EraseContent, RetrievedIsContent
<1>3. CASE s = sector
    BY <1>1, <1>3, EraseContent
<1> QED BY <1>2, <1>3

\* The erase.
LEMMA EraseStep ==
    ASSUME IInv, EraseSector
    PROVE  IInv'
<1>1. /\ pc = "erase" /\ pc' = "head"
      /\ flash' = [flash EXCEPT ![sector] = [i \in Places |-> Erased]]
      /\ UNCHANGED <<backup, addr, sector, value, got, stores, begun, last, exposed, unsaved>>
    BY DEF EraseSector, OnSector
<1>2. TypeOK'
    BY <1>1, EraseContent DEF IInv, TypeOK, PCs
<1>3. PlaceInv'
  <2>1. Turning /\ ~Turning' /\ Progress' = Erased /\ Progress = Erased
      BY <1>1 DEF Turning, Progress
  <2>2. addr[sector] = 1 /\ addr[sector] \in Places
      BY <1>1, <2>1 DEF IInv, PlaceInv
  <2>3. \A i \in Places : ~(i < 1)
      BY DEF Places
  <2>4. /\ \A s \in Sectors : s # sector => flash'[s] = flash[s]
        /\ \A i \in Places : flash'[sector][i] = Erased
      BY <1>1, EraseContent
  <2> QED BY <1>1, <2>1, <2>2, <2>3, <2>4 DEF IInv, PlaceInv
<1>4. StoreInv'
    BY <1>1, EraseContent DEF StoreInv, Turning
<1>5. UntouchedInv'
    BY <1>1, EraseContent, UntouchedStays
<1> QED BY <1>1, <1>2, <1>3, <1>4, <1>5, EraseContent, EraseRetrieved DEF IInv

\* The place invariant follows the record that is written.
LEMMA PlaceStep ==
    ASSUME IInv, pc \in {"head", "data", "flag"}, pc' \in {"data", "flag", "clean"},
           flash' = [flash EXCEPT ![sector] = At(Progress')],
           Progress' \in Records, Progress'.head # "erased",
           Progress'.head = "save" => \E v \in Values : Progress'.data = {v},
           UNCHANGED <<addr, sector>>
    PROVE  PlaceInv'
<1>1. /\ ~Turning /\ ~Turning' /\ pc # "off"
      /\ sector \in Sectors /\ addr[sector] \in Places
    BY PlaceOfStore DEF Turning, Here
<1>2. /\ \A s \in Sectors : s # sector => flash'[s] = flash[s]
      /\ \A i \in Places : flash'[sector][i] = IF i = addr[sector] THEN Progress'
                                              ELSE flash[sector][i]
    BY PlaceWritten DEF Here
<1>3. \A i \in Places : i \in Nat
    BY DEF Places
<1> QED BY <1>1, <1>2, <1>3 DEF IInv, PlaceInv

\* The head of a record, and its data.
LEMMA WriteStep ==
    ASSUME IInv, WriteHead \/ WriteData
    PROVE  IInv'
<1>1. /\ pc \in {"head", "data"} /\ pc' \in {"data", "flag"}
      /\ UNCHANGED <<backup, addr, sector, value, got, stores, begun, last, exposed, unsaved>>
    BY DEF WriteHead, WriteData, OnSector
<1>2. value \in Values /\ value = begun[sector] /\ Current = Progress /\ sector \in Sectors
    BY <1>1, PlaceOfStore
<1>3. /\ Progress' \in Records /\ Progress'.head \notin {"erased", "save"}
      /\ flash' = [flash EXCEPT ![sector] = At(Progress')]
  <2>1. CASE WriteHead
    <3>1. Progress = Erased /\ Progress' = HeadOnly(value)
        BY <2>1 DEF WriteHead, OnSector, Progress
    <3>2. flash' = [flash EXCEPT ![sector] = At(HeadWritten(Current, value))]
        BY <2>1 DEF WriteHead, OnSector
    <3>3. HeadWritten(Current, value) = Progress'
        BY <1>2, <3>1, RecordSteps
    <3> QED BY <1>2, <3>1, <3>2, <3>3, RecordSteps, RecordValidity
  <2>2. CASE WriteData
    <3>1. Progress = HeadOnly(value) /\ Progress' = Unflagged(value)
        BY <2>2 DEF WriteData, OnSector, Progress
    <3>2. flash' = [flash EXCEPT ![sector] = At(DataWritten(Current, value))]
        BY <2>2 DEF WriteData, OnSector
    <3>3. DataWritten(Current, value) = Progress'
        BY <1>2, <3>1, RecordSteps
    <3> QED BY <1>2, <3>1, <3>2, <3>3, RecordSteps, RecordValidity
  <2> QED BY <2>1, <2>2
<1>4. flash' \in [Sectors -> [Places -> Records]] /\ WrittenInv'
    BY <1>1, <1>3, PlaceWritten
<1>5. TypeOK'
    BY <1>1, <1>4 DEF IInv, TypeOK, PCs
<1>6. PlaceInv'
    BY <1>1, <1>3, PlaceStep
<1>7. StoreInv'
    BY <1>1, <1>2 DEF IInv, StoreInv, Turning
<1>8. RetrievedInv'
    BY <1>1, <1>3, UnflaggedWritten, RetrievedStays
<1>9. UntouchedInv'
    BY <1>1, <1>3, PlaceWritten, UntouchedStays
<1> QED BY <1>4, <1>5, <1>6, <1>7, <1>8, <1>9 DEF IInv

\* The flag of a record: from now on it counts.
LEMMA FlagStep ==
    ASSUME IInv, WriteFlag
    PROVE  IInv'
<1>1. /\ pc = "flag" /\ pc' = "clean"
      /\ UNCHANGED <<backup, addr, sector, value, got, stores, begun, last, exposed, unsaved>>
      /\ flash' = [flash EXCEPT ![sector] = At(FlagWritten(Current))]
    BY DEF WriteFlag, OnSector
<1>2. /\ value \in Values /\ value = begun[sector] /\ sector \in Sectors
      /\ Progress' = Complete(value) /\ FlagWritten(Current) = Complete(value)
      /\ Complete(value) \in Records
      /\ Complete(value).data = {value} /\ Complete(value).head = "save"
      /\ Here \in Places /\ \A i \in Places : i > Here => flash[sector][i] = Erased
    BY <1>1, PlaceOfStore, RecordSteps, RecordValidity DEF Progress
<1>3. /\ flash' \in [Sectors -> [Places -> Records]] /\ WrittenInv'
      /\ \A s \in Sectors : s # sector => flash'[s] = flash[s]
      /\ \A i \in Places : flash'[sector][i] = IF i = Here THEN Complete(value)
                                              ELSE flash[sector][i]
    BY <1>1, <1>2, PlaceWritten
<1>4. TypeOK'
    BY <1>1, <1>3 DEF IInv, TypeOK, PCs
<1>5. PlaceInv'
    BY <1>1, <1>2, PlaceStep
<1>6. StoreInv'
    BY <1>1, <1>2 DEF IInv, StoreInv, Turning
<1>7. RetrievedInv'
  <2> SUFFICES ASSUME NEW s \in Sectors
               PROVE  Retrieved(s)' = Retrieved(s) \/ (s = sector /\ Retrieved(s)' = {begun[s]})
      BY <1>1, <1>2 DEF IInv, RetrievedInv
  <2>1. Retrieved(s)' = Content(s, flash'[s], backup)
      BY <1>1 DEF LastValid, Retrieved, InBackup, Newest, Content, Kept
  <2>2. CASE s # sector
      BY <1>3, <2>1, <2>2, RetrievedIsContent
  <2>3. CASE s = sector
    <3>1. Valid(s, flash'[s][Here]) /\ flash'[s][Here].data = {value}
        BY <1>2, <1>3, <2>3, RecordValidity
    <3>2. \A i \in Places : i > Here => ~Valid(s, flash'[s][i])
      <4>1. \A i \in Places : i > Here => i # Here
          BY PlaceOfStore, <1>1 DEF Places
      <4> QED BY <1>2, <1>3, <2>3, <4>1, RecordValidity
    <3> QED BY <1>2, <2>1, <2>3, <3>1, <3>2, ContentOfPlace
  <2> QED BY <2>2, <2>3
<1>8. UntouchedInv'
    BY <1>1, <1>3, UntouchedStays
<1> QED BY <1>3, <1>4, <1>5, <1>6, <1>7, <1>8 DEF IInv

\* The store is done, and the backup is erased.
LEMMA CleanStep ==
    ASSUME IInv, Clean
    PROVE  IInv'
<1>1. /\ pc = "clean" /\ pc' = "idle"
      /\ backup' = IF sector = Misc THEN Erased ELSE backup
      /\ addr' = [addr EXCEPT ![sector] = @ + 1]
      /\ last' = [last EXCEPT ![sector] = value]
      /\ exposed' = exposed \ {sector} /\ unsaved' = unsaved \ {sector}
      /\ UNCHANGED <<flash, sector, value, got, stores, begun>>
    BY DEF Clean
<1>2. /\ sector \in Sectors /\ value \in Values /\ addr[sector] \in Places
      /\ flash[sector][addr[sector]] = Complete(value)
      /\ \A i \in Places : i < addr[sector] => flash[sector][i] # Erased
      /\ \A i \in Places : i > addr[sector] => flash[sector][i] = Erased
  <2>1. Progress = Complete(value)
      BY <1>1 DEF Progress
  <2> QED BY <1>1, <2>1, PlaceOfStore DEF Here, Current
<1>3. TypeOK'
  <2>1. Erased \in Records
      BY DEF Erased, Records
  <2>2. addr[sector] + 1 \in 1..Slots + 1
      BY <1>2, FlashStoreAssumption DEF Places
  <2>3. addr' \in [Sectors -> 1..Slots + 1] /\ last' \in [Sectors -> Values \cup {0}]
      BY <1>1, <1>2, <2>2 DEF IInv, TypeOK
  <2> QED BY <1>1, <1>2, <2>1, <2>3 DEF IInv, TypeOK, PCs
<1>4. WrittenInv'
    BY <1>1 DEF IInv, WrittenInv
<1>5. PlaceInv'
  <2>1. ~Turning /\ ~Turning' /\ Progress' = Erased
      BY <1>1 DEF Turning, Progress
  <2>2. /\ addr'[sector] = addr[sector] + 1
        /\ \A s \in Sectors : s # sector => addr'[s] = addr[s]
      BY <1>1, <1>2 DEF IInv, TypeOK
  <2>3. Complete(value) # Erased
      BY <1>2, RecordValidity
  <2>4. ASSUME NEW i \in Places
        PROVE  /\ i < addr[sector] + 1 => flash[sector][i] # Erased
               /\ i >= addr[sector] + 1 => flash[sector][i] = Erased
    <3>1. i \in Nat /\ addr[sector] \in Nat
        BY <1>2 DEF Places
    <3> QED BY <1>2, <2>3, <3>1
  <2>5. ASSUME NEW s \in Sectors, s # sector, NEW i \in Places
        PROVE  /\ i < addr[s] => flash[s][i] # Erased
               /\ i = addr[s] => flash[s][i] = Erased
               /\ i > addr[s] => flash[s][i] = Erased
      BY <1>1, <2>1, <2>5 DEF IInv, PlaceInv
  <2>6. \A i \in Places : i \in Nat
      BY DEF Places
  <2>7. addr[sector] \in Nat
      BY <1>2, <2>6
  <2> QED BY <1>1, <2>1, <2>2, <2>4, <2>5, <2>6, <2>7 DEF PlaceInv
<1>6. StoreInv'
    BY <1>1 DEF StoreInv, Turning
<1>7. RetrievedInv'
  <2> SUFFICES ASSUME NEW s \in Sectors, s # Misc \/ s \notin exposed'
               PROVE  \/ Retrieved(s)' = Goal(last'[s])
                      \/ s \in unsaved' /\ Retrieved(s)' = got'[s]
      BY DEF RetrievedInv, Goal
  <2>1. Retrieved(s)' = Content(s, flash[s], backup')
      BY <1>1 DEF LastValid, Retrieved, InBackup, Newest, Content, Kept
  <2>2. CASE s = sector
    <3>1. Valid(s, flash[s][addr[s]]) /\ flash[s][addr[s]].data = {value}
        BY <1>2, <2>2, RecordValidity
    <3>2. \A i \in Places : i > addr[s] => ~Valid(s, flash[s][i])
        BY <1>2, <2>2, RecordValidity
    <3>3. Retrieved(s)' = {value}
        BY <1>2, <2>1, <2>2, <3>1, <3>2, ContentOfPlace
    <3>4. last'[s] = value /\ value # 0
        BY <1>1, <1>2, <2>2, ValuesPositive DEF IInv, TypeOK
    <3> QED BY <3>3, <3>4 DEF Goal
  <2>3. CASE s # sector
    <3>1. Content(s, flash[s], backup') = Content(s, flash[s], backup)
        BY <1>1, <2>3, SameBackup
    <3>2. Retrieved(s) = Goal(last[s]) \/ (s \in unsaved /\ Retrieved(s) = got[s])
        BY <1>1, <2>3 DEF IInv, RetrievedInv
    <3>3. last'[s] = last[s] /\ got'[s] = got[s] /\ (s \in unsaved => s \in unsaved')
        BY <1>1, <2>3 DEF IInv, TypeOK
    <3> QED BY <2>1, <3>1, <3>2, <3>3, RetrievedIsContent
  <2> QED BY <2>2, <2>3
<1>8. UntouchedInv'
  <2> SUFFICES ASSUME NEW s \in Mapped, addr'[s] - 1 \in Places,
                      ~Valid(s, flash[s][addr'[s] - 1])
               PROVE  Retrieved(s)' = got[s]
      BY <1>1 DEF UntouchedInv, Valid
  <2>1. s \in Sectors /\ s # Misc
      BY FlashStoreAssumption
  <2>2. s # sector
    <3> SUFFICES ASSUME s = sector PROVE FALSE
        OBVIOUS
    <3>1. addr'[s] = addr[s] + 1 /\ addr[s] \in Nat
        BY <1>1, <2>1 DEF IInv, TypeOK
    <3>2. addr'[s] - 1 = addr[s]
        BY <3>1
    <3> QED BY <1>2, <3>2, RecordValidity
  <2>3. addr'[s] = addr[s]
      BY <1>1, <2>1, <2>2 DEF IInv, TypeOK
  <2>4. Retrieved(s)' = Content(s, flash[s], backup')
      BY <1>1, <2>1 DEF LastValid, Retrieved, InBackup, Newest, Content, Kept
  <2>5. Retrieved(s)' = Retrieved(s)
      BY <2>1, <2>4, SameBackup, RetrievedIsContent
  <2> QED BY <1>1, <2>2, <2>3, <2>5 DEF IInv, UntouchedInv
<1> QED BY <1>3, <1>4, <1>5, <1>6, <1>7, <1>8 DEF IInv

-----------------------------------------------------------------------------
(* Power.                                                                   *)

\* A cut in the backup tears a record that does not count, if it was begun on an
\* erased sector.
LEMMA BackupTorn ==
    ASSUME IInv, Misc \notin exposed,
           \/ pc = "backup head" /\ backup' = HeadTorn(backup)
           \/ pc = "backup data" /\ backup' = DataTorn(backup)
    PROVE  Kept(backup') = Kept(backup)
<1>1. Turning /\ sector = Misc /\ backup = BackupProgress /\ value \in Values
    BY DEF Turning, IInv, StoreInv
<1>2. CASE pc = "backup head" /\ backup' = HeadTorn(backup)
  <2>1. backup = Erased
      BY <1>1, <1>2 DEF BackupProgress
  <2> QED BY <1>1, <1>2, <2>1, TornRecords, RecordValidity DEF Kept
<1>3. CASE pc = "backup data" /\ backup' = DataTorn(backup)
  <2>1. backup = HeadOnly(value)
      BY <1>1, <1>3 DEF BackupProgress
  <2> QED BY <1>1, <1>3, <2>1, TornRecords, RecordValidity DEF Kept
<1> QED BY <1>2, <1>3

\* The power is cut: what is torn makes no difference.
LEMMA PowerCutStep ==
    ASSUME IInv, PowerCut
    PROVE  IInv'
<1>1. /\ pc # "off" /\ pc' = "off"
      /\ UNCHANGED <<addr, sector, value, got, stores, begun, last, exposed, unsaved>>
    BY DEF PowerCut
<1>2. backup \in Records /\ flash \in [Sectors -> [Places -> Records]]
    BY DEF IInv, TypeOK
<1>3. PlaceInv' /\ StoreInv'
    BY <1>1 DEF PlaceInv, StoreInv, Turning
<1>4. /\ flash' \in [Sectors -> [Places -> Records]] /\ backup' \in Records
      /\ WrittenInv' /\ RetrievedInv'
  <2>1. CASE UNCHANGED <<flash, backup>>
    <3>1. WrittenInv'
        BY <2>1 DEF IInv, WrittenInv
    <3>2. RetrievedInv'
        BY <1>1, <2>1, RetrievedStays
    <3> QED BY <1>2, <2>1, <3>1, <3>2
  <2>2. CASE /\ \/ pc = "backup head" /\ backup' = HeadTorn(backup)
                \/ pc = "backup data" /\ backup' = DataTorn(backup)
             /\ UNCHANGED flash
    <3>1. value \in Values
        BY <2>2 DEF IInv, StoreInv
    <3>2. backup' \in Records
        BY <1>2, <2>2, <3>1, RecordTypes
    <3>3. WrittenInv'
        BY <2>2 DEF IInv, WrittenInv
    <3>4. ASSUME NEW s \in Sectors, s # Misc \/ s \notin exposed
          PROVE  Content(s, flash'[s], backup') = Content(s, flash[s], backup)
        BY <2>2, <3>4, BackupTorn, SameBackup
    <3> QED BY <1>1, <1>2, <2>2, <3>2, <3>3, <3>4, RetrievedStays
  <2>3. CASE /\ pc = "erase"
             /\ flash' = [flash EXCEPT ![sector] = [i \in Places |-> Broken]]
             /\ UNCHANGED backup
      BY <1>1, <1>2, <2>3, EraseContent, EraseRetrieved
  <2>4. CASE /\ \/ pc = "head" /\ flash' = [flash EXCEPT ![sector] = At(HeadTorn(Current))]
                \/ pc = "data" /\ flash' = [flash EXCEPT ![sector] = At(DataTorn(Current))]
             /\ UNCHANGED backup
    <3>1. PICK r \in Records : /\ r.head \notin {"erased", "save"}
                              /\ flash' = [flash EXCEPT ![sector] = At(r)]
      <4>1. CASE pc = "head"
        <5>1. Current = Erased /\ value \in Values
            BY <4>1, PlaceOfStore DEF Progress
        <5> QED BY <2>4, <4>1, <5>1, TornRecords
      <4>2. CASE pc = "data"
        <5>1. Current = HeadOnly(value) /\ value \in Values
            BY <4>2, PlaceOfStore DEF Progress
        <5> QED BY <2>4, <4>2, <5>1, TornRecords
      <4> QED BY <2>4, <4>1, <4>2
    <3>2. flash' \in [Sectors -> [Places -> Records]] /\ WrittenInv'
        BY <2>4, <3>1, PlaceWritten
    <3>3. \A s \in Sectors : Content(s, flash'[s], backup) = Content(s, flash[s], backup)
        BY <2>4, <3>1, UnflaggedWritten
    <3>4. RetrievedInv'
        BY <1>1, <2>4, <3>3, RetrievedStays
    <3> QED BY <1>2, <2>4, <3>2, <3>4
  <2>5. CASE pc = "clean" /\ sector = Misc /\ backup' = Broken /\ UNCHANGED flash
    <3>1. Broken \in Records
        BY DEF Broken, Records
    <3>2. WrittenInv'
        BY <2>5 DEF IInv, WrittenInv
    <3>3. Newest(Misc, flash[Misc]) # 0
      <4>1. Current = Complete(value) /\ value \in Values
          BY <2>5, PlaceOfStore DEF Progress
      <4>2. Valid(Misc, flash[Misc][Here])
          BY <2>5, <4>1, RecordValidity DEF Current
      <4>3. \A i \in Places : i > Here => ~Valid(Misc, flash[Misc][i])
          BY <2>5, <4>1, PlaceOfStore, RecordValidity
      <4>4. Here \in Places /\ Here # 0
          BY <2>5, PlaceOfStore DEF Places
      <4> QED BY <4>2, <4>3, <4>4, ContentOfPlace
    <3>4. \A s \in Sectors : Content(s, flash'[s], backup') = Content(s, flash[s], backup)
        BY <2>5, <3>3, SameBackup
    <3> QED BY <1>1, <1>2, <2>5, <3>1, <3>2, <3>4, RetrievedStays
  <2> QED BY <2>1, <2>2, <2>3, <2>4, <2>5 DEF PowerCut
<1>5. TypeOK'
    BY <1>1, <1>4 DEF IInv, TypeOK, PCs
<1>6. UntouchedInv'
    BY <1>1 DEF UntouchedInv
<1> QED BY <1>3, <1>4, <1>5, <1>6 DEF IInv

\* What is found at power-on.
LEMMA FoundAtPowerOn ==
    ASSUME IInv, pc = "off", NEW s \in Sectors
    PROVE  /\ Retrieved(s) \in SUBSET (Values \cup {Torn})
           /\ s # Misc \/ s \notin exposed =>
                \/ Retrieved(s) = Goal(last[s])
                \/ Retrieved(s) = {begun[s]} /\ begun[s] \in Values
                \/ s \in exposed /\ s # Misc /\ Retrieved(s) = {}
                \/ s \in unsaved /\ Retrieved(s) = got[s]
           /\ s # Misc => Retrieved(s) = {} \/ \E v \in Values : Retrieved(s) = {v}
           /\ \A v \in Values : Retrieved(s) = {v} => Max(Retrieved(s)) = v
<1>1. Retrieved(s) \in SUBSET (Values \cup {Torn})
    BY RetrievedIsContent, ContentType DEF IInv, TypeOK
<1>2. \A v \in Values : Max({v}) = v
    BY MaxOfWhole, ValuesPositive
<1>3. s # Misc => Retrieved(s) = {} \/ \E v \in Values : Retrieved(s) = {v}
  <2> SUFFICES ASSUME s # Misc, Newest(s, flash[s]) # 0
               PROVE  \E v \in Values : Retrieved(s) = {v}
      BY RetrievedIsContent DEF Content
  <2>1. /\ Newest(s, flash[s]) \in Places
        /\ flash[s][Newest(s, flash[s])].head = "save"
        /\ Retrieved(s) = flash[s][Newest(s, flash[s])].data
      BY NewestPlace, RetrievedIsContent DEF Content, Valid
  <2> QED BY <2>1 DEF IInv, WrittenInv
<1> QED BY <1>1, <1>2, <1>3 DEF IInv, RetrievedInv

\* The next place is behind what is written.
LEMMA NextPlaceIsFree ==
    ASSUME IInv, NEW s \in Sectors
    PROVE  /\ NextPlace(s) \in 1..Slots + 1
           /\ \A i \in Places : i < NextPlace(s) => flash[s][i] # Erased
           /\ \A i \in Places : i >= NextPlace(s) => flash[s][i] = Erased
<1> DEFINE S == {i \in Places : i > LastValid(s) /\ flash[s][i].head = "erased"} \cup {Slots + 1}
<1>1. NextPlace(s) = Min(S)
    BY DEF NextPlace
<1>2. /\ S \in SUBSET Nat /\ S # {} /\ S \subseteq 1..Slots + 1
      /\ \A i \in S : i \in Places => flash[s][i].head = "erased"
      /\ \A i \in S : i \in Places \/ i = Slots + 1
      /\ \A i \in Places : i > LastValid(s) /\ flash[s][i].head = "erased" => i \in S
      /\ Slots + 1 \notin Places /\ Slots \in Nat
    BY FlashStoreAssumption DEF Places
<1> HIDE DEF S
<1> DEFINE n == NextPlace(s)
<1>3. n \in S /\ \A i \in S : n <= i
  <2>1. Min(S) \in S /\ \A i \in S : Min(S) <= i
      BY <1>2, MinIsLeast
  <2> QED BY <1>1, <2>1
<1>4. /\ \A i \in Places : flash[s][i].head = "erased" <=> flash[s][i] = Erased
      /\ \A i, j \in Places : i < j /\ flash[s][i] = Erased => flash[s][j] = Erased
    BY DEF IInv, WrittenInv, Erased
<1>5. /\ LastValid(s) \in 0..Slots
      /\ LastValid(s) # 0 => LastValid(s) \in Places /\ flash[s][LastValid(s)] # Erased
    BY NewestPlace, RetrievedIsContent DEF Valid, Erased
<1>6. ASSUME NEW i \in Places, i < n
      PROVE  flash[s][i] # Erased
  <2> SUFFICES ASSUME flash[s][i] = Erased PROVE FALSE
      OBVIOUS
  <2>1. i \in Nat /\ i # 0 /\ n \in Nat /\ LastValid(s) \in Nat
      BY <1>2, <1>3, <1>5 DEF Places
  <2>2. CASE i > LastValid(s)
    <3>1. i \in S
        BY <1>2, <1>4, <2>2
    <3> QED BY <1>3, <1>6, <2>1, <3>1
  <2>3. CASE i = LastValid(s)
      BY <1>5, <2>1, <2>3
  <2>4. CASE i < LastValid(s)
      BY <1>4, <1>5, <2>1, <2>4
  <2> QED BY <2>1, <2>2, <2>3, <2>4
<1>7. ASSUME NEW i \in Places, i >= n
      PROVE  flash[s][i] = Erased
  <2>1. i \in 1..Slots /\ n \in Nat
      BY <1>2, <1>3 DEF Places
  <2>2. n \in Places
      BY <1>2, <1>3, <1>7, <2>1
  <2>3. flash[s][n] = Erased
      BY <1>2, <1>3, <1>4, <2>2
  <2> QED BY <1>4, <1>7, <2>1, <2>2, <2>3
<1> QED BY <1>2, <1>3, <1>6, <1>7

\* Power-on.
LEMMA PowerOnStep ==
    ASSUME IInv, PowerOn
    PROVE  IInv'
<1>1. /\ pc = "off" /\ pc' = "idle"
      /\ got' = [s \in Sectors |-> Retrieved(s)]
      /\ addr' = [s \in Sectors |-> NextPlace(s)]
      /\ last' = [s \in Sectors |-> IF Whole(Retrieved(s)) THEN Max(Retrieved(s)) ELSE 0]
      /\ exposed' = {s \in exposed : ~Whole(Retrieved(s))}
      /\ unsaved' = {}
      /\ UNCHANGED <<flash, backup, sector, value, stores, begun>>
    BY DEF PowerOn
<1>2. ASSUME NEW s \in Sectors
      PROVE  /\ last'[s] \in Values \cup {0}
             /\ Whole(Retrieved(s)) => Retrieved(s) = Goal(last'[s])
             /\ Retrieved(s) = {} => Retrieved(s) = Goal(last'[s])
  <2>1. ASSUME NEW v \in Values, Retrieved(s) = {v}
        PROVE  last'[s] = v /\ v # 0
      BY <1>1, <2>1, FoundAtPowerOn, ValuesPositive DEF Whole
  <2>2. ~Whole(Retrieved(s)) => last'[s] = 0
      BY <1>1
  <2>3. Whole(Retrieved(s)) => \E v \in Values : Retrieved(s) = {v}
      BY DEF Whole
  <2>4. Retrieved(s) = {} => ~Whole(Retrieved(s))
      BY DEF Whole
  <2> QED BY <2>1, <2>2, <2>3, <2>4 DEF Goal
<1>3. TypeOK'
  <2>1. got' \in [Sectors -> SUBSET (Values \cup {Torn})]
      BY <1>1, FoundAtPowerOn
  <2>2. addr' \in [Sectors -> 1..Slots + 1]
      BY <1>1, NextPlaceIsFree
  <2>3. last' \in [Sectors -> Values \cup {0}]
      BY <1>1, <1>2
  <2> QED BY <1>1, <2>1, <2>2, <2>3 DEF IInv, TypeOK, PCs
<1>4. WrittenInv'
    BY <1>1 DEF IInv, WrittenInv
<1>5. PlaceInv'
  <2>1. ~Turning' /\ Progress' = Erased
      BY <1>1 DEF Turning, Progress
  <2>2. ASSUME NEW s \in Sectors, NEW i \in Places
        PROVE  /\ i < addr'[s] => flash'[s][i] # Erased
               /\ i = addr'[s] => flash'[s][i] = Erased
               /\ i > addr'[s] => flash'[s][i] = Erased
    <3>1. addr'[s] = NextPlace(s) /\ flash' = flash /\ NextPlace(s) \in Nat /\ i \in Nat
        BY <1>1, NextPlaceIsFree DEF Places
    <3> QED BY <3>1, NextPlaceIsFree
  <2> QED BY <1>1, <2>1, <2>2 DEF PlaceInv
<1>6. StoreInv'
    BY <1>1 DEF StoreInv, Turning
<1>7. RetrievedInv'
  <2> SUFFICES ASSUME NEW s \in Sectors, s # Misc \/ s \notin exposed'
               PROVE  Retrieved(s)' = Goal(last'[s])
      BY DEF RetrievedInv, Goal
  <2>1. Retrieved(s)' = Retrieved(s)
      BY <1>1 DEF LastValid, Retrieved, InBackup
  <2>2. Whole(Retrieved(s)) \/ Retrieved(s) = {}
    <3>1. CASE s # Misc \/ s \notin exposed
      <4>1. last[s] \in Values \cup {0} /\ (s \in unsaved => s # Misc)
          BY FlashStoreAssumption DEF IInv, TypeOK
      <4> QED BY <1>1, <3>1, <4>1, FoundAtPowerOn DEF Goal, Whole
    <3>2. CASE ~(s # Misc \/ s \notin exposed)
        BY <1>1, <3>2
    <3> QED BY <3>1, <3>2
  <2> QED BY <1>2, <2>1, <2>2
<1>8. UntouchedInv'
  <2>1. \A s \in Sectors : Retrieved(s)' = got'[s]
      BY <1>1 DEF LastValid, Retrieved, InBackup
  <2> QED BY <2>1, FlashStoreAssumption DEF UntouchedInv
<1> QED BY <1>3, <1>4, <1>5, <1>6, <1>7, <1>8 DEF IInv

\* The invariant is inductive.
LEMMA StepInv == IInv /\ [Next]_vars => IInv'
<1> SUFFICES ASSUME IInv, [Next]_vars PROVE IInv'
    OBVIOUS
<1>1. CASE \E s \in Sectors, v \in Values : Store(s, v)
    BY <1>1, SkipStep, StoreStep
<1>2. CASE BackupHead \/ BackupData \/ BackupFlag
    BY <1>2, BackupStep
<1>3. CASE EraseSector
    BY <1>3, EraseStep
<1>4. CASE WriteHead \/ WriteData
    BY <1>4, WriteStep
<1>5. CASE WriteFlag
    BY <1>5, FlagStep
<1>6. CASE Clean
    BY <1>6, CleanStep
<1>7. CASE PowerCut
    BY <1>7, PowerCutStep
<1>8. CASE PowerOn
    BY <1>8, PowerOnStep
<1>9. CASE UNCHANGED vars
  <2>1. TypeOK' /\ WrittenInv'
      BY <1>9 DEF vars, IInv, TypeOK, WrittenInv
  <2>2. PlaceInv'
      BY <1>9 DEF vars, IInv, PlaceInv, Turning, Progress
  <2>3. StoreInv'
      BY <1>9 DEF vars, IInv, StoreInv, Turning, BackupProgress
  <2>4. RetrievedInv'
      BY <1>9 DEF vars, IInv, RetrievedInv, Retrieved, LastValid, InBackup
  <2>5. UntouchedInv'
    <3>1. UNCHANGED <<flash, backup, pc, sector, addr, got>>
        BY <1>9 DEF vars
    <3>2. \A s \in Sectors : Retrieved(s)' = Retrieved(s)
        BY <3>1 DEF Retrieved, LastValid, InBackup
    <3> QED BY <3>1, <3>2, FlashStoreAssumption DEF IInv, UntouchedInv, Valid
  <2> QED BY <2>1, <2>2, <2>3, <2>4, <2>5 DEF IInv
<1> QED BY <1>1, <1>2, <1>3, <1>4, <1>5, <1>6, <1>7, <1>8, <1>9 DEF Next

-----------------------------------------------------------------------------
(* The results.                                                             *)

\* The invariant holds in every reachable state.
LEMMA Invariance == Spec => []IInv
    BY InitInv, StepInv, PTL DEF Spec

\* Flash, addresses and the store under way have their types: in particular p_adr
\* is never more than one behind the sector.
THEOREM TypeCorrect == Spec => []TypeOK
<1>1. IInv => TypeOK
    BY DEF IInv
<1> QED BY <1>1, Invariance, PTL

\* A node starts with the value stored last, or with the one whose store was cut,
\* except in the three windows named.
THEOREM LatestRetrieved == Spec => RetrievedIsLatest
<1>1. ASSUME IInv, [Next]_vars, pc = "off", ~UNCHANGED vars, NEW s \in Sectors
      PROVE  \/ \E v \in {last[s], begun[s]} \ {Torn} : got'[s] = {v}
             \/ got'[s] = {} /\ (last[s] = 0 \/ s \in exposed)
             \/ s = Misc /\ s \in exposed
             \/ s \in unsaved /\ got'[s] = got[s]
  <2>1. PowerOn
      BY <1>1 DEF Next, Store, BackupHead, BackupData, BackupFlag, OnBackup, EraseSector,
                  WriteHead, WriteData, WriteFlag, OnSector, Clean, PowerCut
  <2>2. got'[s] = Retrieved(s)
      BY <2>1 DEF PowerOn
  <2>3. \A v \in Values : v # Torn
      BY ValuesPositive DEF Torn
  <2>4. last[s] # 0 => last[s] # Torn
      BY DEF Torn
  <2> QED BY <1>1, <2>2, <2>3, <2>4, FoundAtPowerOn DEF Goal
<1>2. IInv /\ [Next]_vars
        => [pc = "off" => \A s \in Sectors :
              \/ \E v \in {last[s], begun[s]} \ {Torn} : got'[s] = {v}
              \/ got'[s] = {} /\ (last[s] = 0 \/ s \in exposed)
              \/ s = Misc /\ s \in exposed
              \/ s \in unsaved /\ got'[s] = got[s]]_vars
    BY <1>1
<1> QED BY <1>2, Invariance, PTL DEF Spec, RetrievedIsLatest
=============================================================================
