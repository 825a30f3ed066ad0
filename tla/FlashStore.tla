------------------------------ MODULE FlashStore ------------------------------
(***************************************************************************)
(* The storage of a node (mesh_par_store and mesh_par_retrieve): a flash   *)
(* sector is filled with records one after the other, the last one counts, *)
(* and a full sector is erased and begun again.  The sector of the         *)
(* sequence number and the IV index (FLASH_ADR_MISC) has a backup sector,  *)
(* the one of the keys and those of the models (mesh_save_map) have none;  *)
(* in those of the models a value is not written if the record before is   *)
(* equal.  The power may be cut at any operation of the flash.             *)
(*                                                                         *)
(* A part of a record is the set of the values programmed into it: flash   *)
(* is programmed by clearing bits, so two values in one place mix, and     *)
(* where the CRC is looked at only one whole value passes it.  An          *)
(* operation that is cut has no effect yet, all of it, or leaves Torn      *)
(* where it was at work; an erase that is cut leaves the whole sector in   *)
(* one of these three states.                                              *)
(***************************************************************************)
EXTENDS Naturals, FiniteSetsExt

CONSTANTS Sectors,
          Misc,      \* the sector with the backup and the CRC
          Mapped,    \* the sectors of the models (mesh_save_map)
          Slots,     \* records of a sector
          Values,    \* what may be stored in a sector
          MaxStores  \* bound: stores, in all sectors

ASSUME FlashStoreAssumption ==
    /\ Misc \in Sectors
    /\ Mapped \subseteq Sectors \ {Misc}
    /\ Slots \in Nat \ {0}
    /\ Values \subseteq Nat \ {0}
    /\ MaxStores \in Nat

Torn   == 0
Places == 1..Slots

VARIABLES flash,   \* the records of each sector
          backup,  \* the one record of the backup sector (FLASH_ADR_FRIEND_SHIP)
          addr,    \* p_adr: the next place of each sector
          pc, sector, value,  \* the store under way
          got,     \* what the last power-on has retrieved
          stores,  \* history: the number of stores
          begun,   \* history: the value whose store began last
          last,    \* history: the value stored last, or retrieved since
          exposed, \* history: sectors erased with nothing, or not surely, in the backup
          unsaved  \* history: sectors whose value was found in a record without SAVE_FLAG

vars == <<flash, backup, addr, pc, sector, value, got, stores, begun, last, exposed, unsaved>>

Erased == [head |-> "erased", crc |-> {}, data |-> {}]
Broken == [head |-> "torn", crc |-> {Torn}, data |-> {Torn}]
Records == [head : {"erased", "torn", "pre", "save"}, crc : SUBSET (Values \cup {Torn}),
            data : SUBSET (Values \cup {Torn})]

PCs == {"idle", "off", "backup head", "backup data", "backup flag", "erase",
        "head", "data", "flag", "clean"}

\* The types of the flash and of the store under way.
TypeOK ==
    /\ flash \in [Sectors -> [Places -> Records]]
    /\ backup \in Records
    /\ addr \in [Sectors -> 1..Slots + 1]
    /\ pc \in PCs
    /\ sector \in Sectors
    /\ value \in Values \cup {0}
    /\ got \in [Sectors -> SUBSET (Values \cup {Torn})]
    /\ stores \in 0..MaxStores
    /\ begun \in [Sectors -> Values \cup {0}]
    /\ last \in [Sectors -> Values \cup {0}]
    /\ exposed \subseteq Sectors
    /\ unsaved \subseteq Mapped

Init ==
    /\ flash = [s \in Sectors |-> [i \in Places |-> Erased]]
    /\ backup = Erased
    /\ addr = [s \in Sectors |-> 1]
    /\ pc = "idle" /\ sector = Misc /\ value = 0
    /\ got = [s \in Sectors |-> {}]
    /\ stores = 0
    /\ begun = [s \in Sectors |-> 0] /\ last = [s \in Sectors |-> 0]
    /\ exposed = {} /\ unsaved = {}

-----------------------------------------------------------------------------
(* mesh_par_write_with_check: the head with SAVE_FLAG_PRE and the CRC, the  *)
(* data, then the flag again with SAVE_FLAG.  SAVE_FLAG_PRE programmed over *)
(* SAVE_FLAG leaves SAVE_FLAG.                                              *)

HeadWritten(r, v) == [r EXCEPT !.head = IF @ = "save" THEN @ ELSE "pre", !.crc = @ \cup {v}]
DataWritten(r, v) == [r EXCEPT !.data = @ \cup {v}]
FlagWritten(r)    == [r EXCEPT !.head = "save"]

HeadTorn(r) == [r EXCEPT !.head = IF @ = "erased" THEN "torn" ELSE @, !.crc = @ \cup {Torn}]
DataTorn(r) == [r EXCEPT !.data = @ \cup {Torn}]

\* mesh_par_retrieve: from the back to the first record that counts.  The CRC is
\* looked at in FLASH_ADR_MISC only, not in its backup.
Valid(s, r) ==
    /\ r.head = "save"
    /\ s = Misc => \E v \in Values : r.crc = {v} /\ r.data = {v}

LastValid(s) == Max({i \in Places : Valid(s, flash[s][i])} \cup {0})

\* mesh_misc_retrieve: the backup counts if nothing is found in the sector.
InBackup == IF backup.head = "save" THEN backup.data ELSE {}

Retrieved(s) ==
    CASE LastValid(s) # 0             -> flash[s][LastValid(s)].data
      [] LastValid(s) = 0 /\ s = Misc -> InBackup
      [] OTHER                        -> {}

\* The place for the next record is the lowest that is erased behind it.
\* Mutant: it is the place of the last one.
SamePlace(s) == LastValid(s)

NextPlace(s) ==
    Min({i \in Places : i > LastValid(s) /\ flash[s][i].head = "erased"} \cup {Slots + 1})

-----------------------------------------------------------------------------
(* mesh_par_store, one operation of the flash after the other.              *)

\* The sector is full: it is erased, and FLASH_ADR_MISC written to the backup
\* before.  Mutant: without the backup.
EraseAtOnce(s) == "erase"

TurnOver(s) == IF s = Misc THEN "backup head" ELSE "erase"

\* The data of the record before (adr_last) are equal, whatever its flag.
EqualsRecordBefore(s, v) ==
    /\ s \in Mapped
    /\ addr[s] - 1 \in 1..Slots - 1
    /\ flash[s][addr[s] - 1].data = {v}

\* The store begins with the head of the record, or on a full sector with what is
\* to be done before; or it is over at once, with nothing written.
Store(s, v) ==
    /\ pc = "idle"
    /\ stores < MaxStores
    /\ stores' = stores + 1
    /\ begun' = [begun EXCEPT ![s] = v]
    /\ \/ /\ EqualsRecordBefore(s, v)
          /\ last' = [last EXCEPT ![s] = v]
          /\ unsaved' = IF Valid(s, flash[s][addr[s] - 1]) THEN unsaved ELSE unsaved \cup {s}
          /\ UNCHANGED <<addr, pc, sector, value, exposed>>
       \/ /\ ~EqualsRecordBefore(s, v)
          /\ sector' = s
          /\ value' = v
          /\ IF addr[s] > Slots
             THEN /\ addr' = [addr EXCEPT ![s] = 1]
                  /\ pc' = TurnOver(s)
                  /\ exposed' = IF s = Misc /\ backup = Erased THEN exposed
                                ELSE exposed \cup {s}
             ELSE pc' = "head" /\ UNCHANGED <<addr, exposed>>
          /\ UNCHANGED <<last, unsaved>>
    /\ UNCHANGED <<flash, backup, got>>

\* One step of the store, on the backup or on the sector.
OnBackup(from, to, r) ==
    /\ pc = from
    /\ pc' = to
    /\ backup' = r
    /\ UNCHANGED <<flash, addr, sector, value, got, stores, begun, last, exposed, unsaved>>

OnSector(from, to, records) ==
    /\ pc = from
    /\ pc' = to
    /\ flash' = [flash EXCEPT ![sector] = records]
    /\ UNCHANGED <<backup, addr, sector, value, got, stores, begun, last, exposed, unsaved>>

Here    == addr[sector]
At(r)   == [flash[sector] EXCEPT ![Here] = r]
Current == flash[sector][Here]

BackupHead == OnBackup("backup head", "backup data", HeadWritten(backup, value))
BackupData == OnBackup("backup data", "backup flag", DataWritten(backup, value))
BackupFlag == OnBackup("backup flag", "erase", FlagWritten(backup))
EraseSector == OnSector("erase", "head", [i \in Places |-> Erased])
WriteHead  == OnSector("head", "data", At(HeadWritten(Current, value)))
WriteData  == OnSector("data", "flag", At(DataWritten(Current, value)))
WriteFlag  == OnSector("flag", "clean", At(FlagWritten(Current)))

\* The backup is erased if there is something in it; the store is done.
Clean ==
    /\ pc = "clean"
    /\ pc' = "idle"
    /\ backup' = IF sector = Misc THEN Erased ELSE backup
    /\ addr' = [addr EXCEPT ![sector] = @ + 1]
    /\ last' = [last EXCEPT ![sector] = value]
    /\ exposed' = exposed \ {sector}
    /\ unsaved' = unsaved \ {sector}
    /\ UNCHANGED <<flash, sector, value, got, stores, begun>>

-----------------------------------------------------------------------------
\* The power is cut, at the operation under way or between two.
PowerCut ==
    /\ pc # "off"
    /\ pc' = "off"
    /\ \/ UNCHANGED <<flash, backup>>
       \/ pc = "backup head" /\ backup' = HeadTorn(backup) /\ UNCHANGED flash
       \/ pc = "backup data" /\ backup' = DataTorn(backup) /\ UNCHANGED flash
       \/ /\ pc = "erase"
          /\ flash' = [flash EXCEPT ![sector] = [i \in Places |-> Broken]]
          /\ UNCHANGED backup
       \/ pc = "head" /\ flash' = [flash EXCEPT ![sector] = At(HeadTorn(Current))] /\ UNCHANGED backup
       \/ pc = "data" /\ flash' = [flash EXCEPT ![sector] = At(DataTorn(Current))] /\ UNCHANGED backup
       \/ pc = "clean" /\ sector = Misc /\ backup # Erased /\ backup' = Broken /\ UNCHANGED flash
    /\ UNCHANGED <<addr, sector, value, got, stores, begun, last, exposed, unsaved>>

Whole(data) == \E v \in Values : data = {v}

\* mesh_flash_retrieve, at power-on.
PowerOn ==
    /\ pc = "off"
    /\ pc' = "idle"
    /\ got' = [s \in Sectors |-> Retrieved(s)]
    /\ addr' = [s \in Sectors |-> NextPlace(s)]
    /\ last' = [s \in Sectors |-> IF Whole(Retrieved(s)) THEN Max(Retrieved(s)) ELSE 0]
    /\ exposed' = {s \in exposed : ~Whole(Retrieved(s))}
    /\ unsaved' = {}
    /\ UNCHANGED <<flash, backup, sector, value, stores, begun>>

Next ==
    \/ \E s \in Sectors, v \in Values : Store(s, v)
    \/ BackupHead \/ BackupData \/ BackupFlag \/ EraseSector
    \/ WriteHead \/ WriteData \/ WriteFlag \/ Clean
    \/ PowerCut \/ PowerOn

Spec == Init /\ [][Next]_vars

-----------------------------------------------------------------------------
\* However often the power is cut, the node starts with the value stored last, or
\* with the one whose store was cut: not with an older one, not with a mixture,
\* and a value it has started with does not give way to an older one later.  It
\* may go wrong in three ways only.  While a full sector is begun again, one
\* without a backup may have nothing; and FLASH_ADR_MISC anything, if an earlier
\* power cut has left something in the backup sector, over which the backup is
\* programmed.  And where equal values are not written, the value of a store that
\* was cut before its SAVE_FLAG cannot be stored again: the node starts with what
\* it has started with before.
RetrievedIsLatest ==
    [][pc = "off" => \A s \in Sectors :
          \/ \E v \in {last[s], begun[s]} \ {Torn} : got'[s] = {v}
          \/ got'[s] = {} /\ (last[s] = 0 \/ s \in exposed)
          \/ s = Misc /\ s \in exposed
          \/ s \in unsaved /\ got'[s] = got[s]]_vars
=============================================================================
