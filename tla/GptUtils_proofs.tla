-------------------------- MODULE GptUtils_proofs ---------------------------
(* Theorems about gpt-utils: the failsafe update and the versions of the images *)
(* that boot, for every device and every updater, and the gpt_disk API, for any *)
(* processes, entries and edits.                                                *)
EXTENDS BootUpdateInv, GptDisk, SequenceTheorems, TLAPS

USE DEF UPDATE_MAIN, UPDATE_BACKUP, UPDATE_FINALIZE

-----------------------------------------------------------------------------
\* The LUN in hand is one of the list.
LEMMA LunInSet ==
    ASSUME TypeOK
    PROVE  Lun \in LunSet
  BY DEF TypeOK, Lun, LunSet

\* The list is a sequence with at least one LUN.
LEMMA LunListLen == Len(LunList) \in Nat /\ 1 \in 1..Len(LunList)
  <1>1. LunList \in Seq(LunSet) /\ LunList # <<>>
    BY LunAssumption
  <1>2. Len(LunList) \in Nat
    BY <1>1
  <1>3. Len(LunList) # 0
    BY <1>1
  <1> QED BY <1>2, <1>3

\* The damaged tables a device may start with are tables.
LEMMA DamagedTable ==
    ASSUME NEW d \in AllDamage
    PROVE  Damaged(d) \in Table
  BY DEF AllDamage, Damaged, CleanTable, CleanHeader, Table, Header, Entries, Order

\* What a write stores is a table again.
LEMMA StoredTable ==
    ASSUME NEW d \in Table
    PROVE  /\ \A ok \in BOOLEAN : SetState(d.ph, ok) \in Header
                /\ SetState(d.sh, ok) \in Header
           /\ \A h \in Header : WithPrimary(d, h) \in Table /\ WithSecondary(d, h) \in Table
           /\ \A e \in Entries : WithEntries(d, e) \in Table
  BY DEF Table, Header, SetState, WithPrimary, WithSecondary, WithEntries

\* The initial state is in the types.
LEMMA InitTypeOK == Init => TypeOK
  <1> SUFFICES ASSUME Init PROVE TypeOK
    OBVIOUS
  <1>1. disk \in [LunSet -> Table] /\ media \in [LunSet -> Table]
    <2>1. {Damaged(d) : d \in Damage} \subseteq Table
      BY DamagedTable, EnvironmentAssumption
    <2> QED BY <2>1 DEF Init
  <1>2. img \in [Copy -> [Units -> Content]]
    BY DEF Init, Content
  <1> QED
    BY <1>1, <1>2, LunListLen DEF Init, TypeOK, PC, Stage

\* A step keeps to the types.
LEMMA StepTypeOK == TypeOK /\ [Next]_vars => TypeOK'
  <1> SUFFICES ASSUME TypeOK, [Next]_vars PROVE TypeOK'
    OBVIOUS
  <1> USE LunInSet, LunListLen
  <1>1. CASE CheckStage
    BY <1>1 DEF CheckStage, TypeOK, Goto, Leave, FirstStep, AfterBootLun, PC, Stage,
       storage, updater
  <1>2. CASE SetBootLun
    BY <1>2 DEF SetBootLun, TypeOK, Goto, AfterBootLun, PC, Stage, updater
  <1>3. CASE ChainHeader
    <2>1. disk' \in [LunSet -> Table]
      <3>1. disk[Lun].pe = disk[Lun].ph.arr =>
              [sig |-> disk[Lun].sh.sig, crc |-> TRUE, arr |-> ChainOrder] \in Header
        BY DEF TypeOK, Table, Header, ChainOrder, Swapped, Order
      <3>2. disk[Lun].pe = disk[Lun].ph.arr =>
              WithSecondary(disk[Lun],
                [sig |-> disk[Lun].sh.sig, crc |-> TRUE, arr |-> ChainOrder]) \in Table
        BY <3>1, StoredTable DEF TypeOK
      <3> QED BY <1>3, <3>2 DEF ChainHeader, Store, TypeOK
    <2> QED BY <1>3, <2>1 DEF ChainHeader, TypeOK, Goto, Leave, PC, Stage, updater
  <1>4. CASE ChainEntries
    <2>1. disk' \in [LunSet -> Table]
      <3>1. ChainOrder \in Entries
        BY DEF TypeOK, Table, ChainOrder, Swapped, Entries, Order
      <3> QED BY <1>4, <3>1, StoredTable DEF ChainEntries, Store, TypeOK
    <2> QED BY <1>4, <2>1 DEF ChainEntries, TypeOK, Goto, PC, Stage, updater
  <1>5. CASE SetPrimary
    <2>1. disk' \in [LunSet -> Table]
      BY <1>5, StoredTable DEF SetPrimary, Store, TypeOK
    <2> QED BY <1>5, <2>1 DEF SetPrimary, TypeOK, Goto, Leave, PC, Stage, updater
  <1>6. CASE SetSecondary
    <2>1. disk' \in [LunSet -> Table]
      BY <1>6, StoredTable DEF SetSecondary, Store, TypeOK
    <2> QED BY <1>6, <2>1 DEF SetSecondary, TypeOK, Leave, PC, Stage, updater
  <1>7. CASE ExitLun
    <2>1. media' \in [LunSet -> Table]
      BY <1>7 DEF ExitLun, NextLun, TypeOK
    <2>2. CASE idx < Len(LunList)
      BY <1>7, <2>1, <2>2 DEF ExitLun, NextLun, TypeOK, PC, updater
    <2>3. CASE ~(idx < Len(LunList))
      <3>1. PICK res \in {-1, 0, 1} : Return(res)
        BY <1>7, <2>3 DEF ExitLun, NextLun, TypeOK
      <3>2. GrantOf(stage) \in Copy \cup {"none", "done"}
        BY DEF GrantOf, Copy, TypeOK, Stage
      <3> QED BY <1>7, <2>1, <3>1, <3>2 DEF ExitLun, NextLun, TypeOK, Return, PC
    <2> QED BY <2>2, <2>3
  <1>8. ASSUME NEW s \in Stage, Call(s) PROVE TypeOK'
    BY <1>8 DEF Call, TypeOK, PC, Stage, storage
  <1>9. ASSUME NEW c \in Copy, NEW u \in Units, BeginWrite(c, u) \/ EndWrite(c, u)
        PROVE  TypeOK'
    <2>1. img' \in [Copy -> [Units -> Content]]
      BY <1>9 DEF BeginWrite, EndWrite, TypeOK, Content
    <2> QED BY <1>9, <2>1 DEF BeginWrite, EndWrite, TypeOK, storage, call
  <1>10. CASE NextUpdate
    BY <1>10 DEF NextUpdate, TypeOK, Content, storage, call
  <1>11. CASE IoError
    BY <1>11 DEF IoError, TypeOK, Leave, PC, storage, updater
  <1>12. CASE ShortWrite
    <2>1. disk' \in [LunSet -> Table]
      BY <1>12, StoredTable DEF ShortWrite, Store, TypeOK, Entries
    <2> QED BY <1>12, <2>1 DEF ShortWrite, TypeOK, Goto, PC, Stage, updater
  <1>13. CASE Crash
    BY <1>13 DEF Crash, Forget, TypeOK, PC, storage
  <1>14. CASE Writeback
    <2>1. media' \in [LunSet -> Table]
      BY <1>14 DEF Writeback, TypeOK, Table, Block
    <2> QED BY <1>14, <2>1 DEF Writeback, TypeOK, updater, call
  <1>15. CASE PowerLoss
    BY <1>15 DEF PowerLoss, Forget, TypeOK, PC
  <1>16. CASE OpenFails
    <2>1. UNCHANGED storage /\ pc \in PC
      BY <1>16 DEF OpenFails, TypeOK
    <2>2. CASE idx < Len(LunList)
      BY <1>16, <2>1, <2>2 DEF OpenFails, NextLun, TypeOK, PC, updater, storage
    <2>3. CASE ~(idx < Len(LunList))
      <3>1. Return(-1)
        BY <1>16, <2>3 DEF OpenFails, NextLun, TypeOK
      <3>2. GrantOf(stage) \in Copy \cup {"none", "done"}
        BY DEF GrantOf, Copy, TypeOK, Stage
      <3> QED BY <2>1, <3>1, <3>2 DEF TypeOK, Return, PC, storage
    <2> QED BY <2>2, <2>3
  <1>17. CASE UNCHANGED vars
    BY <1>17 DEF vars, TypeOK
  <1> QED
    BY <1>1, <1>2, <1>3, <1>4, <1>5, <1>6, <1>7, <1>8, <1>9, <1>10, <1>11,
       <1>12, <1>13, <1>14, <1>15, <1>16, <1>17
       DEF Next, Prepare, Updater, Fault

\* Every variable keeps to the values the code can give it, whatever fails.
THEOREM TypeCorrect == Spec => []TypeOK
  BY InitTypeOK, StepTypeOK, PTL DEF Spec

-----------------------------------------------------------------------------
(* The inductive invariant.  One lemma per kind of step, one step per part.  *)

\* A write replaces the tables of one LUN.
LEMMA StoreFacts ==
    ASSUME TypeOK, NEW t, Store(Lun, t)
    PROVE  disk'[Lun] = t /\ \A l \in LunSet : l # Lun => disk'[l] = disk[l]
  BY LunInSet DEF TypeOK, Store

\* The LUNs served before are others than the one in hand.
LEMMA EarlierLuns ==
    ASSUME TypeOK
    PROVE  \A j \in 1..(idx - 1) : LunList[j] \in LunSet /\ LunList[j] # Lun
  BY LunAssumption, LunListLen DEF TypeOK, Lun, LunSet

\* The fields of a LUN's tables are in their sets.
LEMMA LunTypes ==
    ASSUME TypeOK, NEW l \in LunSet
    PROVE  /\ disk[l].ph.sig \in BOOLEAN /\ disk[l].ph.crc \in BOOLEAN
           /\ disk[l].sh.sig \in BOOLEAN /\ disk[l].sh.crc \in BOOLEAN
           /\ disk[l].pe \in Entries /\ disk[l].se \in Entries
  BY DEF TypeOK, Table, Header

\* xbl is a unit of every device that switches the boot LUN.
LEMMA XblIsUnit == SwitchesBootLun => Xbl \in Units
  BY DEF Units

\* The initial state satisfies the invariant of the update.
LEMMA InitIInv == Init => IInv
  <1> SUFFICES ASSUME Init PROVE IInv
    OBVIOUS
  <1>1. TypeOK
    BY InitTypeOK
  <1>2. \A l \in LunSet : disk[l] \in {Damaged(d) : d \in AllDamage}
    BY EnvironmentAssumption DEF Init
  <1>3. TablesInv
    BY <1>2 DEF TablesInv, AllDamage, Damaged, CleanTable, CleanHeader,
                ValidAs, PrimaryValid, SecondaryNormal, BackupReady
  <1>4. StepInv /\ ProgressInv
    BY DEF Init, StepInv, ProgressInv
  <1>5. \A c \in Copy, u \in Units : img[c][u] = "old"
    BY DEF Init
  <1>6. ImagesInv
    BY <1>5 DEF Init, ImagesInv, Copy
  <1>7. BootLunInv
    <2>1. \A l \in LunSet : disk[l].ph.sig
      BY <1>2 DEF AllDamage, Damaged, CleanTable, CleanHeader
    <2>2. SwitchesBootLun => ~Written("main")
      BY <1>5, XblIsUnit DEF Written, Copy
    <2> QED BY <1>5, <2>1, <2>2 DEF Init, BootLunInv, Copy
  <1> QED BY <1>1, <1>3, <1>4, <1>6, <1>7 DEF IInv

\* The headers each internal stage stands for.
LEMMA InternalStageCases ==
    ASSUME NEW d \in Table
    PROVE  /\ InternalStage(d) \in 0..3
           /\ InternalStage(d) = 1 <=> d.ph.crc /\ d.ph.sig /\ d.sh.crc /\ d.sh.sig
           /\ InternalStage(d) = 2 <=> d.ph.crc /\ ~d.ph.sig /\ d.sh.crc /\ d.sh.sig
           /\ InternalStage(d) = 3 <=> d.ph.crc /\ d.ph.sig /\ d.sh.crc /\ ~d.sh.sig
  <1>1. d.ph.sig \in BOOLEAN /\ d.ph.crc \in BOOLEAN /\ d.sh.sig \in BOOLEAN
          /\ d.sh.crc \in BOOLEAN
    BY DEF Table, Header
  <1>2. /\ State(d.ph) = "ok" <=> d.ph.crc /\ d.ph.sig
        /\ State(d.ph) = "bad_signature" <=> d.ph.crc /\ ~d.ph.sig
        /\ State(d.sh) = "ok" <=> d.sh.crc /\ d.sh.sig
        /\ State(d.sh) = "bad_signature" <=> d.sh.crc /\ ~d.sh.sig
    BY <1>1 DEF State
  <1> QED BY <1>1, <1>2 DEF InternalStage

\* The three ways out of the comparison of the stages.
LEMMA CheckStageOutcome ==
    ASSUME TypeOK, CheckStage
    PROVE  \/ /\ pc' = "exit" /\ r' = 0 /\ stage \in {1, 2}
              /\ InternalStage(disk[Lun]) = stage + 1
           \/ /\ pc' = FirstStep(stage) /\ r' = r
              /\ InternalStage(disk[Lun]) = stage
           \/ pc' = "exit" /\ r' = -1
  <1>1. disk[Lun] \in Table /\ stage \in 1..3
    BY LunInSet DEF TypeOK, Stage
  <1>2. InternalStage(disk[Lun]) \in 0..3
    BY <1>1, InternalStageCases
  <1>3. CASE AlreadySet(stage, disk[Lun])
    BY <1>1, <1>2, <1>3 DEF CheckStage, AlreadySet, Leave
  <1>4. CASE ~AlreadySet(stage, disk[Lun]) /\ stage = InternalStage(disk[Lun])
    BY <1>4 DEF CheckStage, Goto
  <1>5. CASE ~AlreadySet(stage, disk[Lun]) /\ stage # InternalStage(disk[Lun])
    BY <1>5 DEF CheckStage, Leave
  <1> QED BY <1>3, <1>4, <1>5

\* The steps of prepare_partitions that write nothing to the device.
LEMMA CheckStageInv ==
    ASSUME IInv, SafeUpdater, CheckStage
    PROVE  TablesInv' /\ StepInv' /\ ProgressInv' /\ ImagesInv' /\ BootLunInv'
  <1> USE LunInSet, LunTypes DEF IInv
  <1>0. TypeOK /\ Lun \in LunSet /\ Lun' = Lun /\ disk' = disk /\ bootLun' = bootLun
        /\ img' = img /\ grant' = grant /\ stage' = stage /\ idx' = idx
        /\ failed' = failed
    BY DEF CheckStage, Goto, Leave, storage, updater, Lun
  <1>1. TablesInv'
    BY <1>0 DEF TablesInv
  <1>2. StepInv'
    <2> DEFINE d == disk[Lun]
    <2>1. d \in Table /\ stage \in 1..3 /\ TablesInv
      BY <1>0 DEF TypeOK, Stage
    <2>2. CASE pc' = "exit" /\ r' = 0 /\ stage \in {1, 2} /\ InternalStage(d) = stage + 1
      <3>1. Done(stage, Lun)
        BY <1>0, <2>1, <2>2, InternalStageCases DEF Done, TablesInv, BackupReady, ValidAs
      <3> QED BY <1>0, <2>2, <3>1 DEF StepInv, Done
    <2>3. CASE pc' = FirstStep(stage) /\ InternalStage(d) = stage
      <3>1. CASE stage = 1
        BY <1>0, <2>1, <2>3, <3>1, InternalStageCases DEF StepInv, FirstStep, AfterBootLun
      <3>2. CASE stage = 2
        BY <1>0, <2>1, <2>3, <3>2, InternalStageCases DEF StepInv, FirstStep, AfterBootLun
      <3>3. CASE stage = 3
        BY <1>0, <2>1, <2>3, <3>3, InternalStageCases DEF StepInv, FirstStep, AfterBootLun,
           TablesInv, SecondaryNormal, PrimaryValid, ValidAs
      <3> QED BY <2>1, <3>1, <3>2, <3>3
    <2>4. CASE pc' = "exit" /\ r' = -1
      BY <1>0, <2>4 DEF StepInv
    <2> QED BY <1>0, <2>2, <2>3, <2>4, CheckStageOutcome
  <1>3. ProgressInv'
    BY <1>0 DEF CheckStage, ProgressInv, Done, Goto, Leave
  <1>4. ImagesInv'
    BY <1>0 DEF CheckStage, ImagesInv, Written, Goto, Leave
  <1>5. BootLunInv'
    BY <1>0 DEF CheckStage, BootLunInv, ImagesInv, TablesInv, BackupReady, ValidAs,
       Written, Goto, Leave, FirstStep, AfterBootLun, Served,
       AlreadySet, InternalStage, State, TypeOK, Stage, SafeUpdater
  <1> QED BY <1>1, <1>2, <1>3, <1>4, <1>5

\* The switch of the UFS boot LUN keeps the invariant.
LEMMA SetBootLunInv ==
    ASSUME IInv, SafeUpdater, SetBootLun
    PROVE  TablesInv' /\ StepInv' /\ ProgressInv' /\ ImagesInv' /\ BootLunInv'
  <1> USE LunInSet, LunTypes DEF IInv
  <1>0. TypeOK /\ Lun \in LunSet /\ Lun' = Lun /\ disk' = disk /\ img' = img
        /\ grant' = grant /\ stage' = stage /\ idx' = idx /\ failed' = failed /\ r' = r
    BY DEF SetBootLun, Goto, updater, Lun
  <1>1. TablesInv'
    BY <1>0 DEF TablesInv
  <1>2. StepInv'
    BY <1>0 DEF SetBootLun, Goto, StepInv, AfterBootLun, TypeOK, Stage
  <1>3. ProgressInv'
    BY <1>0 DEF SetBootLun, ProgressInv, Done, Goto
  <1>4. ImagesInv'
    BY <1>0 DEF SetBootLun, ImagesInv, Written, Goto
  <1>5. BootLunInv'
    <2>1. CASE stage = UPDATE_MAIN
      <3>1. bootLun' = "B" /\ disk[Lun].sh.sig /\ (SwitchesBootLun => ~Written("main"))
        BY <1>0, <2>1 DEF SetBootLun, StepInv, ImagesInv, SafeUpdater
      <3>2. \A u \in Units : img["bak"][u] # "torn"
        BY <1>0, <3>1 DEF ImagesInv
      <3> QED BY <1>0, <2>1, <3>1, <3>2 DEF SetBootLun, BootLunInv, ProgressInv, Written,
            Goto, Served
    <2>2. CASE stage = UPDATE_BACKUP
      <3>1. bootLun' = "A" /\ Written("main") /\ grant = "none"
        BY <1>0, <2>2 DEF SetBootLun, ImagesInv, ProgressInv
      <3>2. \A u \in Units : img["main"][u] # "torn"
        BY <3>1 DEF Written
      <3> QED BY <1>0, <2>2, <3>1, <3>2 DEF SetBootLun, BootLunInv, Written, Goto, Served
    <2> QED BY <1>0, <2>1, <2>2 DEF SetBootLun, StepInv, TypeOK, Stage
  <1> QED BY <1>1, <1>2, <1>3, <1>4, <1>5

\* gpt2_set_boot_chain.
LEMMA ChainHeaderInv ==
    ASSUME IInv, SafeUpdater, ChainHeader
    PROVE  TablesInv' /\ StepInv' /\ ProgressInv' /\ ImagesInv' /\ BootLunInv'
  <1> USE LunInSet, LunTypes DEF IInv
  <1> DEFINE d == disk[Lun]
             h == [sig |-> d.sh.sig, crc |-> TRUE, arr |-> ChainOrder]
  <1>0. TypeOK /\ Lun \in LunSet /\ Lun' = Lun /\ bootLun' = bootLun /\ img' = img
        /\ grant' = grant /\ stage' = stage /\ idx' = idx /\ failed' = failed
        /\ pc = "chain_hdr"
    BY DEF ChainHeader, Goto, Leave, updater, Lun
  <1>a. CASE disk' = disk /\ pc' = "exit" /\ (r' = 0 => stage = UPDATE_MAIN /\ ~HasPairs(Lun))
    <2>1. TablesInv'
      BY <1>0, <1>a DEF TablesInv
    <2>2. StepInv'
      BY <1>0, <1>a DEF StepInv, Done
    <2>3. ProgressInv'
      BY <1>0, <1>a DEF ProgressInv, Done
    <2>4. ImagesInv'
      BY <1>0, <1>a DEF ImagesInv, Written
    <2>5. BootLunInv'
      BY <1>0, <1>a DEF BootLunInv, Written, Served
    <2> QED BY <2>1, <2>2, <2>3, <2>4, <2>5
  <1>b. CASE /\ d.pe = d.ph.arr /\ (stage = UPDATE_MAIN => HasPairs(Lun))
             /\ Store(Lun, WithSecondary(d, h)) /\ pc' = "chain_ents" /\ r' = r
    <2>0. disk'[Lun] = WithSecondary(d, h)
      <3> HIDE DEF d, h
      <3> QED BY <1>0, <1>b, StoreFacts
    <2>1. disk'[Lun].ph = d.ph /\ disk'[Lun].pe = d.pe /\ disk'[Lun].sh = h
            /\ disk'[Lun].se = d.se
      <3> HIDE DEF d, h
      <3> QED BY <2>0 DEF WithSecondary
    <2>2. \A l \in LunSet : l # Lun => disk'[l] = disk[l]
      BY <1>0, <1>b, StoreFacts
    <2>3. PrimaryValid(d) /\ stage \in {UPDATE_MAIN, UPDATE_FINALIZE}
          /\ (stage = UPDATE_MAIN => d.sh.sig) /\ (stage = UPDATE_FINALIZE => ~d.sh.sig)
      BY <1>0, <1>b DEF StepInv, TablesInv, PrimaryValid, ValidAs, TypeOK, Stage
    <2>4. ChainOrder = IF stage = UPDATE_MAIN THEN "swapped" ELSE "normal"
      BY <2>3 DEF ChainOrder, Swapped, PrimaryValid, ValidAs
    <2>5. TablesInv'
      BY <1>0, <2>1, <2>2, <2>3 DEF TablesInv, PrimaryValid, BackupReady, SecondaryNormal,
         ValidAs
    <2>6. StepInv'
      BY <1>0, <1>b, <2>1, <2>3, <2>4 DEF StepInv, PrimaryValid, ValidAs
    <2>7. ProgressInv'
      BY <1>0, <1>b, <2>2, EarlierLuns DEF ProgressInv, Done
    <2>8. ImagesInv'
      BY <1>0, <1>b, <2>1, <2>2 DEF ImagesInv, Written
    <2>9. BootLunInv'
      BY <1>0, <1>b, <2>1, <2>2 DEF BootLunInv, Written, Served, ProgressInv
    <2> QED BY <2>5, <2>6, <2>7, <2>8, <2>9
  <1> QED BY <1>0, <1>a, <1>b DEF ChainHeader, Goto, Leave

\* The write of the secondary entries array keeps the invariant.
LEMMA ChainEntriesInv ==
    ASSUME IInv, SafeUpdater, ChainEntries
    PROVE  TablesInv' /\ StepInv' /\ ProgressInv' /\ ImagesInv' /\ BootLunInv'
  <1> USE LunInSet, LunTypes DEF IInv
  <1> DEFINE d == disk[Lun]
  <1>0. TypeOK /\ Lun \in LunSet /\ Lun' = Lun /\ bootLun' = bootLun /\ img' = img
        /\ grant' = grant /\ stage' = stage /\ idx' = idx /\ failed' = failed /\ r' = r
        /\ pc = "chain_ents" /\ pc' = (IF stage = UPDATE_MAIN THEN "prim" ELSE "sec")
    BY DEF ChainEntries, Goto, updater, Lun
  <1>1. disk'[Lun].ph = d.ph /\ disk'[Lun].pe = d.pe /\ disk'[Lun].sh = d.sh
        /\ disk'[Lun].se = ChainOrder
    BY <1>0, StoreFacts DEF ChainEntries, WithEntries
  <1>2. \A l \in LunSet : l # Lun => disk'[l] = disk[l]
    BY <1>0, StoreFacts DEF ChainEntries
  <1>3. PrimaryValid(d) /\ stage \in {UPDATE_MAIN, UPDATE_FINALIZE}
    BY <1>0 DEF StepInv, TypeOK, Stage
  <1>4. ChainOrder = IF stage = UPDATE_MAIN THEN "swapped" ELSE "normal"
    BY <1>3 DEF ChainOrder, Swapped, PrimaryValid, ValidAs
  <1>5. TablesInv'
    BY <1>0, <1>1, <1>2, <1>3 DEF TablesInv, PrimaryValid, BackupReady, SecondaryNormal,
       ValidAs
  <1>6. StepInv'
    BY <1>0, <1>1, <1>3, <1>4 DEF StepInv, PrimaryValid, BackupReady, ValidAs
  <1>7. ProgressInv'
    BY <1>0, <1>2, EarlierLuns DEF ProgressInv, Done
  <1>8. ImagesInv'
    BY <1>0, <1>1, <1>2 DEF ImagesInv, Written
  <1>9. BootLunInv'
    BY <1>0, <1>1, <1>2, <1>3 DEF BootLunInv, Written, Served, ProgressInv
  <1> QED BY <1>5, <1>6, <1>7, <1>8, <1>9

\* gpt_set_state on the primary header.
LEMMA SetPrimaryInv ==
    ASSUME IInv, SafeUpdater, SetPrimary
    PROVE  TablesInv' /\ StepInv' /\ ProgressInv' /\ ImagesInv' /\ BootLunInv'
  <1> USE LunInSet, LunTypes DEF IInv
  <1> DEFINE d == disk[Lun]
             h == SetState(d.ph, stage = UPDATE_BACKUP)
  <1>0. TypeOK /\ Lun \in LunSet /\ Lun' = Lun /\ bootLun' = bootLun /\ img' = img
        /\ grant' = grant /\ stage' = stage /\ idx' = idx /\ failed' = failed
        /\ pc = "prim" /\ pc' = (IF stage = UPDATE_MAIN THEN "exit" ELSE "sec")
    BY DEF SetPrimary, Goto, Leave, updater, Lun
  <1>1. disk'[Lun] = WithPrimary(d, h)
    <2>1. Store(Lun, WithPrimary(d, h))
      BY DEF SetPrimary
    <2> HIDE DEF d, h
    <2> QED BY <1>0, <2>1, StoreFacts
  <1>2. /\ disk'[Lun].pe = d.pe /\ disk'[Lun].sh = d.sh /\ disk'[Lun].se = d.se
        /\ disk'[Lun].ph.sig = (stage = UPDATE_BACKUP)
        /\ disk'[Lun].ph.crc = TRUE /\ disk'[Lun].ph.arr = d.ph.arr
    <2>1. disk'[Lun].ph = h /\ disk'[Lun].pe = d.pe /\ disk'[Lun].sh = d.sh
            /\ disk'[Lun].se = d.se
      <3> HIDE DEF d, h
      <3> QED BY <1>1 DEF WithPrimary
    <2> QED BY <2>1 DEF SetState
  <1>3. \A l \in LunSet : l # Lun => disk'[l] = disk[l]
    BY <1>0, StoreFacts DEF SetPrimary
  <1>4. stage \in {UPDATE_MAIN, UPDATE_BACKUP}
    BY <1>0 DEF StepInv, TypeOK, Stage
  <1>5. stage = UPDATE_MAIN => PrimaryValid(d) /\ BackupReady(d) /\ HasPairs(Lun)
    BY <1>0 DEF StepInv
  <1>6. stage = UPDATE_BACKUP => ~d.ph.sig
    BY <1>0 DEF StepInv
  <1>7. TablesInv'
    BY <1>0, <1>2, <1>3, <1>4, <1>5, <1>6
       DEF TablesInv, PrimaryValid, BackupReady, SecondaryNormal, ValidAs
  <1>8. StepInv'
    BY <1>0, <1>2, <1>4, <1>5, <1>6
       DEF StepInv, Done, TablesInv, PrimaryValid, BackupReady, ValidAs
  <1>9. ProgressInv'
    BY <1>0, <1>3, EarlierLuns DEF ProgressInv, Done
  <1>10. ImagesInv'
    BY <1>0, <1>2, <1>3, <1>4 DEF ImagesInv, Written
  <1>11. BootLunInv'
    BY <1>0, <1>2, <1>3, <1>4 DEF BootLunInv, Written, Served, ProgressInv, ImagesInv
  <1> QED BY <1>7, <1>8, <1>9, <1>10, <1>11

\* gpt_set_state on the secondary header.
LEMMA SetSecondaryInv ==
    ASSUME IInv, SafeUpdater, SetSecondary
    PROVE  TablesInv' /\ StepInv' /\ ProgressInv' /\ ImagesInv' /\ BootLunInv'
  <1> USE LunInSet, LunTypes DEF IInv
  <1> DEFINE d == disk[Lun]
             h == SetState(d.sh, stage = UPDATE_FINALIZE)
  <1>0. TypeOK /\ Lun \in LunSet /\ Lun' = Lun /\ bootLun' = bootLun /\ img' = img
        /\ grant' = grant /\ stage' = stage /\ idx' = idx /\ failed' = failed
        /\ pc = "sec" /\ pc' = "exit" /\ r' = 0
    BY DEF SetSecondary, Leave, updater, Lun
  <1>1. disk'[Lun] = WithSecondary(d, h)
    <2>1. Store(Lun, WithSecondary(d, h))
      BY DEF SetSecondary
    <2> HIDE DEF d, h
    <2> QED BY <1>0, <2>1, StoreFacts
  <1>2. /\ disk'[Lun].pe = d.pe /\ disk'[Lun].ph = d.ph /\ disk'[Lun].se = d.se
        /\ disk'[Lun].sh.sig = (stage = UPDATE_FINALIZE)
        /\ disk'[Lun].sh.crc = TRUE /\ disk'[Lun].sh.arr = d.sh.arr
    <2>1. disk'[Lun].sh = h /\ disk'[Lun].pe = d.pe /\ disk'[Lun].ph = d.ph
            /\ disk'[Lun].se = d.se
      <3> HIDE DEF d, h
      <3> QED BY <1>1 DEF WithSecondary
    <2> QED BY <2>1 DEF SetState
  <1>3. \A l \in LunSet : l # Lun => disk'[l] = disk[l]
    BY <1>0, StoreFacts DEF SetSecondary
  <1>4. stage \in {UPDATE_BACKUP, UPDATE_FINALIZE} /\ PrimaryValid(d)
    BY <1>0 DEF StepInv, TypeOK, Stage
  <1>5. stage = UPDATE_FINALIZE => ~d.sh.sig /\ d.sh.arr = "normal" /\ d.se = "normal"
    BY <1>0 DEF StepInv
  <1>6. TablesInv'
    BY <1>0, <1>2, <1>3, <1>4
       DEF TablesInv, PrimaryValid, BackupReady, SecondaryNormal, ValidAs
  <1>7. StepInv'
    <2>1. CASE stage = UPDATE_BACKUP
      <3>1. ~disk'[Lun].sh.sig
        <4>1. ~(stage = UPDATE_FINALIZE)
          BY <2>1
        <4>2. disk'[Lun].sh.sig = (stage = UPDATE_FINALIZE)
          BY <1>2
        <4> QED BY <4>1, <4>2, Zenon
      <3>2. Done(stage, Lun)'
        BY <1>0, <2>1, <3>1 DEF Done
      <3> QED BY <1>0, <3>2 DEF StepInv
    <2>2. CASE stage = UPDATE_FINALIZE
      BY <1>0, <1>2, <1>4, <1>5, <2>2
         DEF StepInv, Done, PrimaryValid, SecondaryNormal, ValidAs
    <2> QED BY <1>4, <2>1, <2>2
  <1>8. ProgressInv'
    BY <1>0, <1>3, EarlierLuns DEF ProgressInv, Done
  <1>9. ImagesInv'
    BY <1>0, <1>2, <1>3, <1>4 DEF ImagesInv, Written
  <1>10. BootLunInv'
    <2>1. SwitchesBootLun => bootLun = "A"
      BY <1>0, <1>4, <1>5 DEF BootLunInv, ImagesInv
    <2>2. Written("main") /\ grant = "none"
      BY <1>0, <1>4 DEF ImagesInv, ProgressInv
    <2>3. \A u \in Units : img["main"][u] # "torn"
      BY <2>2 DEF Written
    <2> QED BY <1>0, <1>2, <1>3, <1>4, <2>1, <2>2, <2>3 DEF BootLunInv, Written, Served
  <1> QED BY <1>6, <1>7, <1>8, <1>9, <1>10

\* EXIT of prepare_partitions: the next LUN, or the result of the call.
LEMMA ExitLunInv ==
    ASSUME IInv, SafeUpdater, ExitLun
    PROVE  TablesInv' /\ StepInv' /\ ProgressInv' /\ ImagesInv' /\ BootLunInv'
  <1> USE LunInSet, LunTypes, LunListLen DEF IInv
  <1>0. TypeOK /\ disk' = disk /\ bootLun' = bootLun /\ img' = img /\ stage' = stage
        /\ pc = "exit" /\ r' = 0 /\ idx \in 1..Len(LunList) /\ grant = "none"
    BY DEF ExitLun, NextLun, Return, updater, TypeOK, ProgressInv
  <1>1. ~failed => \A j \in 1..(idx - 1) : Done(stage, LunList[j])
    BY <1>0 DEF ProgressInv
  <1>2. r = 0 => Done(stage, LunList[idx])
    BY <1>0 DEF StepInv, Lun
  <1>3. ~failed /\ r = 0 => \A j \in 1..idx : Done(stage, LunList[j])
    BY <1>0, <1>1, <1>2
  <1>4. TablesInv'
    BY <1>0 DEF TablesInv
  <1>5. ~failed /\ r = 0 /\ SwitchesBootLun =>
           bootLun = IF stage = UPDATE_MAIN THEN "B" ELSE "A"
    BY <1>0 DEF BootLunInv, Served
  <1>a. CASE idx < Len(LunList)
    <2>0. pc' = "state" /\ idx' = idx + 1 /\ grant' = grant /\ (~failed' => ~failed /\ r = 0)
      BY <1>a DEF ExitLun, NextLun, updater
    <2>a. ~failed' => \A j \in 1..(idx' - 1) : Done(stage, LunList[j])
      BY <1>0, <1>3, <2>0
    <2>1. StepInv'
      BY <1>0, <2>0 DEF StepInv
    <2>2. ProgressInv'
      BY <1>0, <2>0, <2>a DEF ProgressInv, Done
    <2>3. ImagesInv'
      BY <1>0, <2>0 DEF ImagesInv, Written
    <2>4. BootLunInv'
      BY <1>0, <1>5, <2>0 DEF BootLunInv, Written, Served
    <2> QED BY <1>4, <2>1, <2>2, <2>3, <2>4
  <1>b. CASE ~(idx < Len(LunList))
    <2>0. pc' = "idle" /\ idx' = 1 /\ failed' = FALSE
      BY <1>b DEF ExitLun, NextLun, Return
    <2>1. ~IsUfs => Len(LunList) = 1
      BY DeviceAssumption
    <2>2. ~IsUfs => ~failed
      <3>1. Len(LunList) = 1 => idx = 1
        BY <1>0
      <3> QED BY <2>1, <3>1 DEF ProgressInv
    <2>3. grant' = "none" \/ (grant' = GrantOf(stage) /\ ~failed /\ r = 0)
      BY <1>0, <1>b, <2>2 DEF ExitLun, NextLun, Return
    <2>4. StepInv'
      BY <1>0, <2>0 DEF StepInv
    <2>5. CASE grant' = "none"
      BY <1>0, <1>4, <2>0, <2>4, <2>5 DEF ProgressInv, ImagesInv, BootLunInv, Written, Served
    <2>6. CASE grant' = GrantOf(stage) /\ ~failed /\ r = 0
      <3>1. \A l \in LunSet : Done(stage, l)
        BY <1>0, <1>b, <1>3, <2>6 DEF LunSet
      <3>2. ProgressInv'
        BY <1>0, <2>0, <2>6, <3>1 DEF ProgressInv, Done
      <3>3. grant' = "done" => stage = UPDATE_FINALIZE
        BY <1>0, <2>6 DEF GrantOf, TypeOK, Stage
      <3>4. ImagesInv'
        BY <1>0, <2>0, <3>3 DEF ImagesInv, Written
      <3>5. BootLunInv'
        BY <1>0, <1>5, <2>0, <2>6 DEF BootLunInv, Written, Served
      <3> QED BY <1>4, <2>4, <3>2, <3>4, <3>5
    <2> QED BY <2>3, <2>5, <2>6
  <1> QED BY <1>a, <1>b

\* The updater's steps: a call starts, an image is written, an update ends.
LEMMA CallInv ==
    ASSUME IInv, SafeUpdater, NEW s \in Stage, Call(s)
    PROVE  TablesInv' /\ StepInv' /\ ProgressInv' /\ ImagesInv' /\ BootLunInv'
  <1> USE LunInSet, LunTypes DEF IInv
  <1>0. TypeOK /\ disk' = disk /\ bootLun' = bootLun /\ img' = img /\ stage' = s
        /\ pc' = "state" /\ idx' = 1 /\ failed' = FALSE /\ grant' = "none"
    BY DEF Call, storage
  <1>1. TablesInv'
    BY <1>0 DEF TablesInv
  <1>2. StepInv' /\ ProgressInv'
    BY <1>0 DEF StepInv, ProgressInv
  <1>3. /\ s = UPDATE_MAIN => (Policy = "forward" => ~Written("main"))
        /\ s = UPDATE_BACKUP => Written("main")
        /\ s = UPDATE_FINALIZE => Written("main") /\ Written("bak")
    <2>1. CASE s = 1
      BY <2>1 DEF Call, MayCall
    <2>2. CASE s = 2
      BY <2>2 DEF Call, MayCall
    <2>3. CASE s = 3
      BY <2>3 DEF Call, MayCall
    <2> QED BY <2>1, <2>2, <2>3 DEF Stage
  <1>4. ImagesInv'
    BY <1>0, <1>3 DEF ImagesInv, Written, Stage
  <1>5. BootLunInv'
    BY <1>0 DEF BootLunInv, Written, Served
  <1> QED BY <1>1, <1>2, <1>4, <1>5

\* The updater that begins to write an image keeps the invariant.
LEMMA BeginWriteInv ==
    ASSUME IInv, SafeUpdater, NEW c \in Copy, NEW u \in Units, BeginWrite(c, u)
    PROVE  TablesInv' /\ StepInv' /\ ProgressInv' /\ ImagesInv' /\ BootLunInv'
  <1> USE LunInSet, LunTypes DEF IInv
  <1>0. TypeOK /\ disk' = disk /\ bootLun' = bootLun /\ pc' = pc /\ stage' = stage
        /\ idx' = idx /\ r' = r /\ failed' = failed /\ grant' = grant
        /\ pc = "idle" /\ grant = c /\ c \in {"main", "bak"}
        /\ img' = [img EXCEPT ![c][u] = "torn"] /\ img \in [Copy -> [Units -> Content]]
    BY DEF BeginWrite, storage, call, TypeOK, Copy
  <1>1. TablesInv'
    BY <1>0 DEF TablesInv
  <1>2. StepInv' /\ ProgressInv'
    BY <1>0 DEF StepInv, ProgressInv, Done, Lun
  <1>3. \A k \in Copy, w \in Units :
           img'[k][w] = IF k = c /\ w = u THEN "torn" ELSE img[k][w]
    BY <1>0
  <1>4. c = GrantOf(stage) /\ \A l \in LunSet : Done(stage, l)
    BY <1>0 DEF ProgressInv
  <1>5. stage = IF c = "main" THEN UPDATE_MAIN ELSE UPDATE_BACKUP
    BY <1>0, <1>4 DEF GrantOf, TypeOK, Stage
  <1>6. /\ c = "main" => \A l \in LunSet : disk[l].sh.sig /\ (HasPairs(l) => ~disk[l].ph.sig)
        /\ c = "bak" => \A l \in LunSet : ~disk[l].sh.sig
    BY <1>4, <1>5 DEF Done
  <1>7. ImagesInv'
    BY <1>0, <1>3, <1>6 DEF ImagesInv, Copy
  <1>8. SwitchesBootLun => bootLun = IF c = "main" THEN "B" ELSE "A"
    BY <1>0, <1>5 DEF BootLunInv
  <1>9. c = "bak" => (Written("main") <=> Written("main")')
    BY <1>0, <1>3 DEF Written, Copy
  <1>10. LunSet # {}
    BY LunListLen DEF LunSet
  <1>11. BootLunInv'
    <2>1. CASE c = "main"
      BY <1>0, <1>3, <1>5, <1>6, <1>8, <2>1 DEF BootLunInv, Copy
    <2>2. CASE c = "bak"
      BY <1>0, <1>3, <1>5, <1>6, <1>8, <1>9, <1>10, <2>2 DEF BootLunInv, Copy
    <2> QED BY <1>0, <2>1, <2>2
  <1> QED BY <1>1, <1>2, <1>7, <1>11

\* The updater that ends its write of an image keeps the invariant.
LEMMA EndWriteInv ==
    ASSUME IInv, SafeUpdater, NEW c \in Copy, NEW u \in Units, EndWrite(c, u)
    PROVE  TablesInv' /\ StepInv' /\ ProgressInv' /\ ImagesInv' /\ BootLunInv'
  <1> USE LunInSet, LunTypes DEF IInv
  <1>0. TypeOK /\ disk' = disk /\ bootLun' = bootLun /\ pc' = pc /\ stage' = stage
        /\ idx' = idx /\ r' = r /\ failed' = failed /\ grant' = grant
        /\ pc = "idle" /\ grant = c /\ c \in {"main", "bak"}
        /\ img' = [img EXCEPT ![c][u] = "new"] /\ img \in [Copy -> [Units -> Content]]
    BY DEF EndWrite, storage, call, TypeOK, Copy
  <1>1. TablesInv'
    BY <1>0 DEF TablesInv
  <1>2. StepInv' /\ ProgressInv'
    BY <1>0 DEF StepInv, ProgressInv, Done, Lun
  <1>3. \A k \in Copy, w \in Units :
           img'[k][w] = IF k = c /\ w = u THEN "new" ELSE img[k][w]
    BY <1>0
  <1>4. c = GrantOf(stage) /\ \A l \in LunSet : Done(stage, l)
    BY <1>0 DEF ProgressInv
  <1>5. stage = IF c = "main" THEN UPDATE_MAIN ELSE UPDATE_BACKUP
    BY <1>0, <1>4 DEF GrantOf, TypeOK, Stage
  <1>6. c = "main" => \A l \in LunSet : disk[l].sh.sig
    BY <1>4, <1>5 DEF Done
  <1>7. ImagesInv'
    BY <1>0, <1>3 DEF ImagesInv, Copy
  <1>8. Written("main") => Written("main")'
    BY <1>0, <1>3 DEF Written, Copy
  <1>9. c = "bak" => (Written("main") <=> Written("main")')
    BY <1>0, <1>3 DEF Written, Copy
  <1>11. BootLunInv'
    <2>1. CASE c = "main"
      BY <1>0, <1>3, <1>6, <1>8, <2>1 DEF BootLunInv, Copy
    <2>2. CASE c = "bak"
      BY <1>0, <1>3, <1>9, <2>2 DEF BootLunInv, Copy
    <2> QED BY <1>0, <2>1, <2>2
  <1> QED BY <1>1, <1>2, <1>7, <1>11

\* The start of another update keeps the invariant.
LEMMA NextUpdateInv ==
    ASSUME IInv, SafeUpdater, NextUpdate
    PROVE  TablesInv' /\ StepInv' /\ ProgressInv' /\ ImagesInv' /\ BootLunInv'
  <1> USE LunInSet, LunTypes DEF IInv
  <1>0. TypeOK /\ disk' = disk /\ bootLun' = bootLun /\ pc' = pc /\ stage' = stage
        /\ idx' = idx /\ r' = r /\ failed' = failed /\ grant' = "none"
        /\ pc = "idle" /\ grant = "done"
    BY DEF NextUpdate, storage, call
  <1>1. \A k \in Copy, w \in Units : img'[k][w] = "old"
    BY DEF NextUpdate
  <1>2. stage = UPDATE_FINALIZE
    BY <1>0 DEF ProgressInv, GrantOf, TypeOK, Stage
  <1>3. \A l \in LunSet : disk[l].ph.sig /\ disk[l].sh.sig
    BY <1>0, <1>2 DEF ProgressInv, Done, PrimaryValid, SecondaryNormal, ValidAs
  <1>4. TablesInv'
    BY <1>0 DEF TablesInv
  <1>5. StepInv' /\ ProgressInv'
    BY <1>0 DEF StepInv, ProgressInv
  <1>6. ImagesInv'
    BY <1>0, <1>1 DEF ImagesInv, Copy
  <1>7. BootLunInv'
    BY <1>0, <1>1, <1>3 DEF BootLunInv, Copy
  <1> QED BY <1>4, <1>5, <1>6, <1>7

\* A LUN that is not opened fails the call.
LEMMA OpenFailed ==
    ASSUME OpenFails, idx < Len(LunList)
    PROVE  pc' = "state" /\ idx' = idx + 1 /\ r' = 0 /\ failed' /\ UNCHANGED <<disk, grant>>
  <1>1. -1 # 0
    OBVIOUS
  <1>2. failed' = (failed \/ -1 # 0)
    BY DEF OpenFails, NextLun
  <1>3. failed'
    BY <1>1, <1>2
  <1> QED BY <1>3 DEF OpenFails, NextLun, updater, storage

\* The faults: a failed open or I/O ends the work on a LUN, a crash the whole call.
LEMMA FaultInv ==
    ASSUME IInv, SafeUpdater, OpenFails \/ IoError \/ Crash
    PROVE  TablesInv' /\ StepInv' /\ ProgressInv' /\ ImagesInv' /\ BootLunInv'
  <1> USE LunInSet, LunTypes DEF IInv
  <1>0. TypeOK /\ disk' = disk /\ bootLun' = bootLun /\ img' = img /\ stage' = stage
    BY DEF OpenFails, NextLun, Return, IoError, Crash, Forget, Leave, storage, updater
  <1>1. TablesInv'
    BY <1>0 DEF TablesInv
  <1>a. CASE IoError
    <2>0. pc' = "exit" /\ r' # 0 /\ idx' = idx /\ failed' = failed /\ grant' = grant
            /\ pc # "idle"
      BY <1>a DEF IoError, Leave, updater
    <2>1. StepInv'
      BY <1>0, <2>0 DEF StepInv
    <2>2. ProgressInv'
      BY <1>0, <2>0 DEF ProgressInv, Done
    <2>3. ImagesInv'
      BY <1>0, <2>0 DEF ImagesInv, Written
    <2>4. BootLunInv'
      BY <1>0, <2>0 DEF BootLunInv, Written, Served
    <2> QED BY <1>1, <2>1, <2>2, <2>3, <2>4
  <1>c. CASE OpenFails /\ idx < Len(LunList)
    <2>0. pc' = "state" /\ idx' = idx + 1 /\ r' = 0 /\ failed' /\ grant' = grant
          /\ pc = "state"
      BY <1>c, OpenFailed DEF OpenFails
    <2>1. StepInv'
      BY <1>0, <2>0 DEF StepInv
    <2>2. ProgressInv'
      BY <1>0, <2>0 DEF ProgressInv, Done, TypeOK
    <2>3. ImagesInv'
      BY <1>0, <2>0 DEF ImagesInv, Written
    <2>4. BootLunInv'
      BY <1>0, <2>0 DEF BootLunInv, Written, Served, ProgressInv
    <2> QED BY <1>1, <2>1, <2>2, <2>3, <2>4
  <1>d. CASE OpenFails /\ ~(idx < Len(LunList))
    <2>0. pc' = "idle" /\ idx' = 1 /\ failed' = FALSE /\ grant' = "none"
      BY <1>d DEF OpenFails, NextLun, Return
    <2>1. StepInv' /\ ProgressInv'
      BY <1>0, <2>0 DEF StepInv, ProgressInv
    <2>2. ImagesInv'
      BY <1>0, <2>0 DEF ImagesInv, Written
    <2>3. BootLunInv'
      BY <1>0, <2>0 DEF BootLunInv, Written
    <2> QED BY <1>1, <2>1, <2>2, <2>3
  <1>b. CASE Crash
    <2>0. pc' = "idle" /\ idx' = 1 /\ failed' = FALSE /\ grant' = "none"
      BY <1>b DEF Crash, Forget
    <2>1. StepInv' /\ ProgressInv'
      BY <1>0, <2>0 DEF StepInv, ProgressInv
    <2>2. ImagesInv'
      BY <1>0, <2>0 DEF ImagesInv, Written
    <2>3. BootLunInv'
      BY <1>0, <2>0 DEF BootLunInv, Written
    <2> QED BY <1>1, <2>1, <2>2, <2>3
  <1> QED BY <1>a, <1>b, <1>c, <1>d

\* A step keeps the invariant.
LEMMA StepIInv == SafeUpdater /\ WritesWhole /\ IInv /\ [Next]_vars => IInv'
  <1> SUFFICES ASSUME SafeUpdater, WritesWhole, IInv, [Next]_vars PROVE IInv'
    OBVIOUS
  <1> DEFINE Kept == TablesInv' /\ StepInv' /\ ProgressInv' /\ ImagesInv' /\ BootLunInv'
  <1>1. TypeOK'
    BY StepTypeOK DEF IInv
  <1>2. ASSUME Prepare PROVE Kept
    BY <1>2, CheckStageInv, SetBootLunInv, ChainHeaderInv, ChainEntriesInv,
       SetPrimaryInv, SetSecondaryInv, ExitLunInv DEF Prepare
  <1>3. ASSUME Updater PROVE Kept
    <2>1. ASSUME NEW s \in Stage, Call(s) PROVE Kept
      BY <2>1, CallInv
    <2>2. ASSUME NEW c \in Copy, NEW u \in Units, BeginWrite(c, u) PROVE Kept
      BY <2>2, BeginWriteInv
    <2>3. ASSUME NEW c \in Copy, NEW u \in Units, EndWrite(c, u) PROVE Kept
      BY <2>3, EndWriteInv
    <2>4. ASSUME NextUpdate PROVE Kept
      BY <2>4, NextUpdateInv
    <2> QED BY <1>3, <2>1, <2>2, <2>3, <2>4 DEF Updater
  <1>4. ASSUME Fault PROVE Kept
    <2>1. OpenFails \/ IoError \/ Crash
      BY <1>4 DEF Fault, ShortWrite, Writeback, PowerLoss, WritesWhole
    <2> QED BY <2>1, FaultInv
  <1>5. ASSUME UNCHANGED vars PROVE Kept
    BY <1>5 DEF vars, IInv, TablesInv, StepInv, ProgressInv, ImagesInv, BootLunInv, Done,
       Lun, Written, Served
  <1>6. Kept
    BY <1>2, <1>3, <1>4, <1>5 DEF Next
  <1> QED BY <1>1, <1>6 DEF IInv

\* What may go wrong in a behaviour does not change.
LEMMA FaultsFixed == [Next]_vars => faults' = faults
  BY DEF Next, Prepare, Updater, Fault, CheckStage, SetBootLun, ChainHeader, ChainEntries,
     SetPrimary, SetSecondary, ExitLun, NextLun, Return, Goto, Leave, Call, BeginWrite,
       EndWrite,
     NextUpdate, OpenFails, IoError, ShortWrite, Crash, Writeback, PowerLoss, Forget,
       updater, vars

\* While writes are whole, the invariant holds of every device and every updater
\* of SafeUpdater.
THEOREM Inductive == SafeUpdater => (Spec => [](WritesWhole => IInv))
  <1> SUFFICES ASSUME SafeUpdater PROVE Spec => [](WritesWhole => IInv)
    OBVIOUS
  <1>1. (WritesWhole => IInv) /\ [Next]_vars => (WritesWhole => IInv)'
    BY StepIInv, FaultsFixed DEF WritesWhole
  <1> QED BY InitIInv, <1>1, PTL DEF Spec

-----------------------------------------------------------------------------
(* What follows from the invariant.                                        *)

\* A valid secondary table, in the order the primary one is missing, is what
\* the boot loader falls back to.
LEMMA BootOrderCases ==
    ASSUME IInv, NEW l \in LunSet
    PROVE  /\ ~disk[l].ph.sig => BootOrder(disk[l]) = "swapped"
           /\ disk[l].ph.sig => BootOrder(disk[l]) = "normal"
  <1> DEFINE d == disk[l]
  <1>1. d.ph.sig \in BOOLEAN /\ d.ph.crc \in BOOLEAN /\ d.ph.arr = "normal" /\ d.pe # "swapped"
    BY LunTypes DEF IInv, TablesInv
  <1>2. CASE ~d.ph.sig
    <2>1. ~ValidTable(d.ph, d.pe)
      BY <1>2 DEF ValidTable
    <2>2. ValidTable(d.sh, d.se) /\ d.se = "swapped"
      BY <1>2 DEF IInv, TablesInv, BackupReady, ValidAs, ValidTable
    <2> QED BY <1>2, <2>1, <2>2 DEF BootOrder
  <1>3. CASE d.ph.sig /\ PrimaryValid(d)
    <2>1. ValidTable(d.ph, d.pe) /\ d.pe = "normal"
      BY <1>3 DEF PrimaryValid, ValidAs, ValidTable
    <2> QED BY <1>3, <2>1 DEF BootOrder
  <1>4. CASE d.ph.sig /\ ~PrimaryValid(d)
    <2>1. ~ValidTable(d.ph, d.pe)
      BY <1>1, <1>4 DEF PrimaryValid, ValidAs, ValidTable
    <2>2. ValidTable(d.sh, d.se) /\ d.se = "normal"
      BY <1>4 DEF IInv, TablesInv, SecondaryNormal, ValidAs, ValidTable
    <2> QED BY <1>4, <2>1, <2>2 DEF BootOrder
  <1> QED BY <1>1, <1>2, <1>3, <1>4

\* Which copy of an image is booted.
LEMMA BootCopyCases ==
    ASSUME IInv, NEW u \in Units
    PROVE  /\ u = Xbl => SwitchesBootLun /\ BootCopy(u) = IF bootLun = "A" THEN "main"
                ELSE "bak"
           /\ u # Xbl => /\ u \in Parts /\ LunOf[u] \in LunSet /\ HasPairs(LunOf[u])
                        /\ BootCopy(u) = IF disk[LunOf[u]].ph.sig THEN "main" ELSE "bak"
           /\ BootCopy(u) \in Copy
  <1>1. CASE u = Xbl
    BY <1>1, LunAssumption DEF Units, BootCopy, Copy
  <1>2. CASE u # Xbl
    <2>1. u \in Parts /\ LunOf[u] \in LunSet /\ HasPairs(LunOf[u])
      BY <1>2, LunAssumption DEF Units, HasPairs
    <2>2. BootCopy(u) = CopyOf(BootOrder(disk[LunOf[u]]))
      BY <1>2 DEF BootCopy
    <2>3. disk[LunOf[u]].ph.sig \in BOOLEAN
      BY <2>1, LunTypes DEF IInv
    <2> QED BY <1>2, <2>1, <2>2, <2>3, BootOrderCases DEF CopyOf, Copy
  <1> QED BY <1>1, <1>2

\* Every image is booted from one of its copies.
LEMMA AlwaysSomeCopy == IInv => \A u \in Units : BootCopy(u) \in Copy
  BY BootCopyCases

\* The invariant implies that whole images are booted.
LEMMA WholeFromInv == IInv => BootedWhole
  <1> SUFFICES ASSUME IInv, NEW u \in Units PROVE img[BootCopy(u)][u] # "torn"
    BY BootCopyCases DEF BootedWhole, Booted
  <1>1. CASE u = Xbl
    <2>1. bootLun = "A" => img["main"][u] # "torn"
      BY <1>1, BootCopyCases DEF IInv, BootLunInv
    <2>2. bootLun # "A" => img["bak"][u] # "torn"
      BY <1>1, BootCopyCases DEF IInv, BootLunInv
    <2> QED BY <1>1, <2>1, <2>2, BootCopyCases
  <1>2. CASE u # Xbl
    <2> DEFINE l == LunOf[u]
    <2>1. l \in LunSet /\ HasPairs(l)
      BY <1>2, BootCopyCases
    <2>2. disk[l].ph.sig => img["main"][u] # "torn"
      BY <2>1 DEF IInv, ImagesInv
    <2>3. ~disk[l].ph.sig => img["bak"][u] # "torn"
      BY <2>1 DEF IInv, ImagesInv, TablesInv, BackupReady, ValidAs
    <2> QED BY <1>2, <2>2, <2>3, BootCopyCases
  <1> QED BY <1>1, <1>2

\* The invariant implies that a stage that succeeded lets the caller write.
LEMMA ReadyFromInv == IInv => ReadyForUpdate
  <1> SUFFICES ASSUME IInv, grant \in Copy, NEW u \in Units
               PROVE  BootCopy(u) \in Copy \ {grant}
    BY DEF ReadyForUpdate
  <1>0. grant # "none" /\ grant = GrantOf(stage) /\ stage \in Stage
    BY DEF IInv, ProgressInv, TypeOK, Copy
  <1>1. \/ grant = "main" /\ stage = UPDATE_MAIN
        \/ grant = "bak" /\ stage = UPDATE_BACKUP
    BY <1>0 DEF GrantOf, Stage, Copy
  <1>2. \A l \in LunSet : Done(stage, l)
    BY <1>0 DEF IInv, ProgressInv
  <1>3. CASE u = Xbl
    BY <1>0, <1>1, <1>3, BootCopyCases DEF IInv, BootLunInv, Copy
  <1>4. CASE u # Xbl
    <2> DEFINE l == LunOf[u]
    <2>1. l \in LunSet /\ HasPairs(l) /\ Done(stage, l)
      BY <1>2, <1>4, BootCopyCases
    <2>2. stage = UPDATE_MAIN => ~disk[l].ph.sig
      BY <2>1 DEF Done
    <2>3. stage = UPDATE_BACKUP => disk[l].ph.sig
      BY <2>1 DEF Done, IInv, TablesInv, BackupReady, ValidAs
    <2> QED BY <1>1, <1>4, <2>2, <2>3, BootCopyCases DEF Copy
  <1> QED BY <1>3, <1>4

\* The invariant implies that the tables agree in the end.
LEMMA AgreeFromInv == IInv => FinalizedAgree
  <1> SUFFICES ASSUME IInv, grant = "done" PROVE FinalizedAgree
    BY DEF FinalizedAgree
  <1>1. stage = UPDATE_FINALIZE /\ \A l \in LunSet : Done(stage, l)
    BY DEF IInv, ProgressInv, GrantOf, TypeOK, Stage
  <1>2. \A l \in LunSet : PrimaryValid(disk[l]) /\ SecondaryNormal(disk[l])
    BY <1>1 DEF Done
  <1>3. \A l \in LunSet : /\ ValidTable(disk[l].ph, disk[l].pe)
                          /\ ValidTable(disk[l].sh, disk[l].se)
                          /\ disk[l].pe = disk[l].se /\ disk[l].ph.sig
    BY <1>2 DEF PrimaryValid, SecondaryNormal, ValidAs, ValidTable
  <1>4. \A u \in Units : BootCopy(u) = "main"
    <2> SUFFICES ASSUME NEW u \in Units PROVE BootCopy(u) = "main"
      OBVIOUS
    <2>1. SwitchesBootLun => bootLun = "A"
      BY <1>1 DEF IInv, BootLunInv
    <2> QED BY <1>3, <2>1, BootCopyCases
  <1> QED BY <1>3, <1>4 DEF FinalizedAgree

\* Whatever is called, killed or fails to read or write, the device boots
\* whole images.
THEOREM AlwaysBootable == SafeUpdater => (Spec => []BootedWhole)
  <1> SUFFICES ASSUME SafeUpdater PROVE Spec => []BootedWhole
    OBVIOUS
  <1>1. (WritesWhole => IInv) => BootedWhole
    BY WholeFromInv DEF BootedWhole
  <1> QED BY Inductive, <1>1, PTL

\* What prepare_boot_update says may be written is never what is booted.
THEOREM GrantIsSafe == SafeUpdater => (Spec => []ReadyForUpdate)
  <1> SUFFICES ASSUME SafeUpdater PROVE Spec => []ReadyForUpdate
    OBVIOUS
  <1>1. (WritesWhole => IInv) => ReadyForUpdate
    BY ReadyFromInv DEF ReadyForUpdate
  <1> QED BY Inductive, <1>1, PTL

\* A finalized update leaves two valid tables that agree.
THEOREM FinalizedTablesAgree == SafeUpdater => (Spec => []FinalizedAgree)
  <1> SUFFICES ASSUME SafeUpdater PROVE Spec => []FinalizedAgree
    OBVIOUS
  <1>1. (WritesWhole => IInv) => FinalizedAgree
    BY AgreeFromInv DEF FinalizedAgree
  <1> QED BY Inductive, <1>1, PTL

-----------------------------------------------------------------------------
(* What a call that returned 0 did is on the medium.                       *)

\* A step that writes to the LUN in hand leaves the LUNs before it alone.
LEMMA OthersKept ==
    ASSUME TypeOK, NEW t, Store(Lun, t), NEW j \in 1..(idx - 1)
    PROVE  disk'[LunList[j]] = disk[LunList[j]]
  <1>1. LunList[j] # Lun
    BY LunAssumption, LunListLen DEF TypeOK, Lun
  <1> QED BY <1>1 DEF Store, TypeOK

\* The fsync at the end of a LUN adds it to those that are on the medium.
LEMMA ExitLunSync ==
    ASSUME TypeOK, SyncInv, ExitLun, "sync" \notin faults
    PROVE  SyncInv'
  <1> USE LunListLen
  <1>1. media' = [media EXCEPT ![Lun] = disk[Lun]] /\ disk' = disk /\ pc = "exit"
    BY DEF ExitLun
  <1>2. ~failed => \A j \in 1..idx : media'[LunList[j]] = disk[LunList[j]]
    BY <1>1, LunInSet DEF SyncInv, TypeOK, Lun, LunSet
  <1>3. CASE idx < Len(LunList)
    <2>1. pc' = "state" /\ idx' = idx + 1 /\ (~failed' => ~failed)
      BY <1>3 DEF ExitLun, NextLun, TypeOK
    <2> QED BY <1>1, <1>2, <2>1 DEF SyncInv, TypeOK
  <1>4. CASE ~(idx < Len(LunList))
    <2>1. pc' = "idle" /\ (IsUfs /\ rc' = 0 => ~failed)
      BY <1>4 DEF ExitLun, NextLun, Return, TypeOK
    <2>2. idx = Len(LunList)
      BY <1>4 DEF TypeOK
    <2>3. ~IsUfs => idx = 1
      BY <2>2, DeviceAssumption
    <2>4. rc' = 0 => \A j \in 1..idx : media'[LunList[j]] = disk[LunList[j]]
      BY <1>1, <1>2, <2>1, <2>3, LunInSet DEF TypeOK, Lun
    <2>5. rc' = 0 => \A l \in LunSet : media'[l] = disk[l]
      BY <2>2, <2>4 DEF LunSet
    <2>6. rc' = 0 => media' = disk
      BY <1>1, <2>5 DEF TypeOK
    <2> QED BY <1>1, <2>1, <2>6 DEF SyncInv
  <1> QED BY <1>3, <1>4

\* Nothing is synced then, and nothing is promised.
LEMMA OpenFailsSync ==
    ASSUME TypeOK, OpenFails
    PROVE  SyncInv'
  <1>1. CASE idx < Len(LunList)
    BY <1>1, OpenFailed DEF SyncInv
  <1>2. CASE ~(idx < Len(LunList))
    BY <1>2 DEF OpenFails, NextLun, Return, SyncInv, TypeOK
  <1> QED BY <1>1, <1>2

\* A step keeps what has been served on the medium.
LEMMA StepSyncInv == TypeOK /\ SyncInv /\ [Next]_vars => SyncInv'
  <1> SUFFICES ASSUME TypeOK, SyncInv, [Next]_vars, "sync" \notin faults PROVE SyncInv'
    BY FaultsFixed DEF SyncInv
  <1>1. ASSUME pc # "idle", pc' # "idle", idx' = idx, failed' = failed, media' = media,
               UNCHANGED disk \/ \E t : Store(Lun, t)
        PROVE  SyncInv'
    <2>1. \A j \in 1..(idx - 1) : disk'[LunList[j]] = disk[LunList[j]]
      BY <1>1, OthersKept
    <2> QED BY <1>1, <2>1 DEF SyncInv
  <1>11. CASE OpenFails
    BY <1>11, OpenFailsSync
  <1>2. CASE CheckStage \/ SetBootLun \/ IoError
    BY <1>1, <1>2 DEF CheckStage, SetBootLun, IoError, Goto, Leave, FirstStep, AfterBootLun,
       storage, updater
  <1>3. CASE ChainHeader \/ ChainEntries \/ ShortWrite
    BY <1>1, <1>3 DEF ChainHeader, ChainEntries, ShortWrite, Goto, Leave, updater
  <1>4. CASE SetPrimary \/ SetSecondary
    BY <1>1, <1>4 DEF SetPrimary, SetSecondary, Goto, Leave, updater
  <1>5. CASE ExitLun
    BY <1>5, ExitLunSync
  <1>6. ASSUME NEW s \in Stage, Call(s) PROVE SyncInv'
    BY <1>6 DEF Call, SyncInv, storage
  <1>7. ASSUME NEW c \in Copy, NEW u \in Units, BeginWrite(c, u) \/ EndWrite(c, u)
        PROVE  SyncInv'
    BY <1>7 DEF BeginWrite, EndWrite, SyncInv, storage, call
  <1>8. CASE NextUpdate \/ UNCHANGED vars
    BY <1>8 DEF NextUpdate, SyncInv, storage, call, vars
  <1>9. CASE Crash \/ PowerLoss
    BY <1>9 DEF Crash, PowerLoss, Forget, SyncInv
  <1>10. CASE Writeback
    <2>1. PICK l \in LunSet : media[l] # disk[l]
                              /\ \A k \in LunSet : k # l => media'[k] = media[k]
      BY <1>10 DEF Writeback, TypeOK
    <2>2. disk' = disk /\ pc' = pc /\ idx' = idx /\ rc' = rc /\ failed' = failed
      BY <1>10 DEF Writeback, call
    <2>3. \A j \in 1..(idx - 1) : LunList[j] \in LunSet
      BY LunListLen DEF LunSet, TypeOK
    <2> QED BY <2>1, <2>2, <2>3 DEF SyncInv
  <1> QED
    BY <1>2, <1>3, <1>4, <1>5, <1>6, <1>7, <1>8, <1>9, <1>10, <1>11
       DEF Next, Prepare, Updater, Fault

\* Where fsync does not fail, a call that returned 0 has left nothing in the page
\* cache, whatever was written short, failed or lost on the way.
THEOREM DurableSuccess == Spec => []SuccessIsDurable
  <1>1. Init => TypeOK /\ SyncInv
    BY InitTypeOK DEF Init, SyncInv
  <1>2. TypeOK /\ SyncInv /\ [Next]_vars => TypeOK' /\ SyncInv'
    BY StepTypeOK, StepSyncInv
  <1>3. SyncInv => SuccessIsDurable
    BY DEF SyncInv, SuccessIsDurable
  <1> QED BY <1>1, <1>2, <1>3, PTL DEF Spec

-----------------------------------------------------------------------------
(* BootUpdate implements FailsafeUpdate.                                   *)

\* A device before its first update is one of the abstract specification.
LEMMA InitRefines == Init => Failsafe!Init
  <1> SUFFICES ASSUME Init PROVE Failsafe!Init
    OBVIOUS
  <1>1. IInv
    BY InitIInv
  <1> QED BY <1>1, BootCopyCases DEF Init, Failsafe!Init, Failsafe!Copy, Copy

\* Whatever a step that writes no image does to the tables and the boot LUN,
\* it switches a set of images, all of them to whole copies.
LEMMA SwitchStep ==
    ASSUME WritesWhole, IInv, IInv', UNCHANGED img, UNCHANGED faults
    PROVE  [Failsafe!Next]_(Failsafe!vars)
  <1> DEFINE B == [u \in Units |-> BootCopy(u)]
             S == {u \in Units : BootCopy(u)' # BootCopy(u)}
  <1>1. \A u \in Units : BootCopy(u) \in Copy /\ BootCopy(u)' \in Copy
    <2>1. (\A u \in Units : BootCopy(u) \in Copy)'
      BY AlwaysSomeCopy, PTL
    <2> QED BY <2>1, AlwaysSomeCopy
  <1>2. \A u \in Units : img[BootCopy(u)'][u] # "torn"
    <2>1. BootedWhole'
      BY WholeFromInv, PTL
    <2> QED BY <1>1, <2>1 DEF BootedWhole, Booted, WritesWhole
  <1>3. CASE S = {}
    <2>1. B' = B
      BY <1>3
    <2> QED BY <2>1 DEF Failsafe!vars
  <1>4. CASE S # {}
    <2>1. \A u \in Units : u \in S => BootCopy(u)' = Failsafe!Other(BootCopy(u))
      BY <1>1 DEF Failsafe!Other, Copy
    <2>2. \A u \in S : img[Failsafe!Other(B[u])][u] # "torn"
      BY <1>2, <2>1
    <2>3. B' = [u \in Units |-> IF u \in S THEN Failsafe!Other(B[u]) ELSE B[u]]
      BY <2>1
    <2>4. S \in (SUBSET Units) \ {{}}
      BY <1>4
    <2>5. Failsafe!Switch
      BY <2>2, <2>3, <2>4 DEF Failsafe!Switch
    <2> QED BY <2>5 DEF Failsafe!Next
  <1> QED BY <1>3, <1>4

\* A write of the updater is a write to a copy that is not booted.
LEMMA WriteStep ==
    ASSUME WritesWhole, IInv, NEW c \in Copy, NEW u \in Units,
           BeginWrite(c, u) \/ EndWrite(c, u)
    PROVE  Failsafe!Write
  <1> DEFINE B == [w \in Units |-> BootCopy(w)]
  <1>1. grant = c /\ disk' = disk /\ bootLun' = bootLun
    BY DEF BeginWrite, EndWrite, storage, call
  <1>2. B[u] # c
    BY <1>1, ReadyFromInv DEF ReadyForUpdate
  <1>3. B' = B
    BY <1>1 DEF BootCopy
  <1>4. PICK v \in {"torn", "new"} : img' = [img EXCEPT ![c][u] = v]
    BY DEF BeginWrite, EndWrite
  <1> QED BY <1>2, <1>3, <1>4 DEF Failsafe!Write, Failsafe!Copy, Copy

\* An update that is over has written every image of both copies.
LEMMA NextUpdateStep ==
    ASSUME IInv, NextUpdate
    PROVE  Failsafe!NextUpdate
  <1> DEFINE B == [w \in Units |-> BootCopy(w)]
  <1>1. grant = "done" /\ disk' = disk /\ bootLun' = bootLun
    BY DEF NextUpdate, storage, call
  <1>2. \A c \in Copy, u \in Units : img[c][u] = "new"
    BY <1>1 DEF IInv, ImagesInv, Written, Copy
  <1>3. B' = B
    BY <1>1 DEF BootCopy
  <1> QED BY <1>2, <1>3 DEF NextUpdate, Failsafe!NextUpdate, Failsafe!Copy, Copy

\* The promise of the header, of every device and every updater.
THEOREM Refinement == SafeUpdater => (Spec /\ WritesWhole => RefinesFailsafe)
  <1> SUFFICES ASSUME SafeUpdater PROVE Spec /\ WritesWhole => RefinesFailsafe
    OBVIOUS
  <1>1. WritesWhole /\ IInv /\ IInv' /\ [Next]_vars => [Failsafe!Next]_(Failsafe!vars)
    <2> SUFFICES ASSUME WritesWhole, IInv, IInv', [Next]_vars
                 PROVE  [Failsafe!Next]_(Failsafe!vars)
      OBVIOUS
    <2>1. CASE UNCHANGED img
      BY <2>1, SwitchStep, FaultsFixed
    <2>2. CASE ~UNCHANGED img
      <3>1. \/ \E c \in Copy, u \in Units : BeginWrite(c, u) \/ EndWrite(c, u)
            \/ NextUpdate
        BY <2>2 DEF Next, Prepare, Updater, Fault, CheckStage, SetBootLun, ChainHeader,
           ChainEntries, SetPrimary, SetSecondary, ExitLun, NextLun, Return, Call,
             OpenFails, IoError, ShortWrite,
           Crash, Writeback, PowerLoss, Forget, updater, vars
      <3> QED BY <3>1, WriteStep, NextUpdateStep DEF Failsafe!Next
    <2> QED BY <2>1, <2>2
  <1>2. WritesWhole /\ [Next]_vars => WritesWhole'
    BY FaultsFixed DEF WritesWhole
  <1>3. Init => Failsafe!Init
    BY InitRefines
  <1> QED BY Inductive, <1>1, <1>2, <1>3, PTL DEF Spec, RefinesFailsafe, Failsafe!Spec

-----------------------------------------------------------------------------
(* The versions of the images that boot, and headers that no stage accepts. *)

\* What each step does to the headers.

\* The headers of the LUN in hand are written, and those of no other LUN.
LEMMA OtherLuns ==
    ASSUME TypeOK, ChainHeader \/ ChainEntries \/ SetPrimary \/ SetSecondary,
           NEW l \in LunSet, l # Lun
    PROVE  disk'[l] = disk[l]
  BY LunInSet DEF TypeOK, Store, ChainHeader, ChainEntries, SetPrimary, SetSecondary

\* gpt2_set_boot_chain leaves the primary header and both signatures alone.
LEMMA ChainHeaders ==
    ASSUME TypeOK, ChainHeader \/ ChainEntries, NEW l \in LunSet
    PROVE  /\ disk'[l].ph = disk[l].ph
           /\ disk'[l].sh.sig = disk[l].sh.sig
           /\ disk[l].sh.crc => disk'[l].sh.crc
  <1> DEFINE d == disk[Lun]
             h == [sig |-> d.sh.sig, crc |-> TRUE, arr |-> ChainOrder]
  <1>1. CASE l # Lun
    BY <1>1, OtherLuns
  <1>2. CASE l = Lun
    <2>1. CASE disk' = disk
      BY <2>1
    <2>2. CASE Store(Lun, WithSecondary(d, h))
      <3>1. disk'[Lun] = WithSecondary(d, h)
        <4> HIDE DEF d, h
        <4> QED BY <2>2, StoreFacts
      <3>2. disk'[Lun].ph = d.ph /\ disk'[Lun].sh = h
        <4> HIDE DEF d, h
        <4> QED BY <3>1 DEF WithSecondary
      <3> QED BY <1>2, <3>2
    <2>3. CASE Store(Lun, WithEntries(d, ChainOrder))
      <3>1. disk'[Lun] = WithEntries(d, ChainOrder)
        <4> HIDE DEF d
        <4> QED BY <2>3, StoreFacts
      <3>2. disk'[Lun].ph = d.ph /\ disk'[Lun].sh = d.sh
        <4> HIDE DEF d
        <4> QED BY <3>1 DEF WithEntries
      <3> QED BY <1>2, <3>2
    <2> QED BY <2>1, <2>2, <2>3 DEF ChainHeader, ChainEntries
  <1> QED BY <1>1, <1>2

\* gpt_set_state on the primary header.
LEMMA PrimaryHeaders ==
    ASSUME TypeOK, SetPrimary
    PROVE  /\ disk'[Lun].ph.sig = (stage = UPDATE_BACKUP) /\ disk'[Lun].ph.crc = TRUE
           /\ disk'[Lun].sh = disk[Lun].sh
  <1> DEFINE d == disk[Lun]
             h == SetState(d.ph, stage = UPDATE_BACKUP)
  <1>1. disk'[Lun] = WithPrimary(d, h)
    <2>1. Store(Lun, WithPrimary(d, h))
      BY DEF SetPrimary
    <2> HIDE DEF d, h
    <2> QED BY <2>1, StoreFacts
  <1>2. disk'[Lun].ph = h /\ disk'[Lun].sh = d.sh
    <2> HIDE DEF d, h
    <2> QED BY <1>1 DEF WithPrimary
  <1> QED BY <1>2 DEF SetState

\* gpt_set_state on the secondary header.
LEMMA SecondaryHeaders ==
    ASSUME TypeOK, SetSecondary
    PROVE  /\ disk'[Lun].sh.sig = (stage = UPDATE_FINALIZE) /\ disk'[Lun].sh.crc = TRUE
           /\ disk'[Lun].ph = disk[Lun].ph
  <1> DEFINE d == disk[Lun]
             h == SetState(d.sh, stage = UPDATE_FINALIZE)
  <1>1. disk'[Lun] = WithSecondary(d, h)
    <2>1. Store(Lun, WithSecondary(d, h))
      BY DEF SetSecondary
    <2> HIDE DEF d, h
    <2> QED BY <2>1, StoreFacts
  <1>2. disk'[Lun].sh = h /\ disk'[Lun].ph = d.ph
    <2> HIDE DEF d, h
    <2> QED BY <1>1 DEF WithSecondary
  <1> QED BY <1>2 DEF SetState

-----------------------------------------------------------------------------
(* Headers that no stage accepts.                                          *)

\* The headers are acceptable when their CRCs are right and one has its signature.
LEMMA Acceptable ==
    ASSUME NEW d \in Table
    PROVE  InternalStage(d) # 0 <=> d.ph.crc /\ d.sh.crc /\ (d.ph.sig \/ d.sh.sig)
  <1>1. d.ph.sig \in BOOLEAN /\ d.ph.crc \in BOOLEAN /\ d.sh.sig \in BOOLEAN
          /\ d.sh.crc \in BOOLEAN
    BY DEF Table, Header
  <1>2. InternalStage(d) # 0 <=> InternalStage(d) \in {1, 2, 3}
    BY InternalStageCases
  <1> QED BY <1>1, <1>2, InternalStageCases

\* A step whose writes are whole keeps acceptable headers acceptable.
LEMMA StepAcceptable ==
    ASSUME WritesWhole, IInv, TypeOK', [Next]_vars, NEW l \in LunSet,
           InternalStage(disk[l]) # 0
    PROVE  InternalStage(disk'[l]) # 0
  <1> DEFINE d == disk[l]
             e == disk'[l]
  <1>0. TypeOK
    BY DEF IInv
  <1>1. d \in Table /\ e \in Table
    BY <1>0 DEF TypeOK
  <1>3. d.ph.crc /\ d.sh.crc /\ (d.ph.sig \/ d.sh.sig)
    BY <1>1, Acceptable
  <1>4. SUFFICES e.ph.crc /\ e.sh.crc /\ (e.ph.sig \/ e.sh.sig)
    BY <1>1, Acceptable
  <1>5. CASE disk' = disk
    BY <1>3, <1>5
  <1>6. CASE ChainHeader \/ ChainEntries
    BY <1>0, <1>3, <1>6, ChainHeaders
  <1>7. CASE SetPrimary
    <2>1. CASE l = Lun
      <3>1. e.ph.crc /\ e.sh = d.sh /\ e.ph.sig = (stage = UPDATE_BACKUP)
        BY <1>0, <1>7, <2>1, PrimaryHeaders
      <3>2. stage # UPDATE_BACKUP => d.sh.sig
        BY <1>0, <1>7, <2>1 DEF SetPrimary, IInv, StepInv, TypeOK, Stage, BackupReady, ValidAs
      <3>3. CASE stage = UPDATE_BACKUP
        BY <1>3, <3>1, <3>3
      <3>4. CASE stage # UPDATE_BACKUP
        BY <1>3, <3>1, <3>2, <3>4
      <3> QED BY <3>3, <3>4
    <2> QED BY <1>0, <1>3, <1>7, <2>1, OtherLuns
  <1>8. CASE SetSecondary
    <2>1. CASE l = Lun
      <3>1. e.sh.crc /\ e.ph = d.ph
        BY <1>0, <1>8, <2>1, SecondaryHeaders
      <3>2. d.ph.sig
        BY <1>8, <2>1 DEF SetSecondary, IInv, StepInv, PrimaryValid, ValidAs
      <3> QED BY <1>3, <3>1, <3>2
    <2> QED BY <1>0, <1>3, <1>8, <2>1, OtherLuns
  <1> QED BY <1>5, <1>6, <1>7, <1>8
       DEF Next, Prepare, Updater, Fault, CheckStage, SetBootLun, ExitLun, NextLun, Call,
         BeginWrite,
           EndWrite, NextUpdate, OpenFails, IoError, ShortWrite, Crash, Writeback, PowerLoss,
           WritesWhole, storage, vars

\* No step leaves headers that every later call refuses.
THEOREM AlwaysAccepted == SafeUpdater => (Spec => NeverUnacceptable)
  <1> SUFFICES ASSUME SafeUpdater PROVE Spec => NeverUnacceptable
    OBVIOUS
  <1> DEFINE A == WritesWhole => \A l \in LunSet :
                    InternalStage(disk[l]) # 0 => InternalStage(disk'[l]) # 0
  <1>1. (WritesWhole => IInv) /\ TypeOK /\ TypeOK' /\ [Next]_vars => [A]_vars
    BY StepAcceptable
  <1> QED BY Inductive, TypeCorrect, <1>1, PTL DEF Spec, NeverUnacceptable


-----------------------------------------------------------------------------
(* The versions of the images.  VersionInv holds with IInv.                *)

\* A copy that is whole and new was started, and one that was not started is old.
LEMMA OneVersion ==
    ASSUME NEW c \in Copy, Written(c) \/ ~Started(c)
    PROVE  \A u, w \in Units : img[c][u] = img[c][w]
  BY DEF Written, Started

\* A device before its first update.
LEMMA InitVersionInv == Init => VersionInv
  BY DEF Init, VersionInv, Started, Copy

\* A step that writes no image, changes neither signatures nor the boot LUN, and grants
\* nothing.
LEMMA QuietStep ==
    ASSUME VersionInv, UNCHANGED <<img, bootLun>>, grant' \in {grant, "none"},
           \A l \in LunSet : disk'[l].ph.sig = disk[l].ph.sig
             /\ disk'[l].sh.sig = disk[l].sh.sig
    PROVE  VersionInv'
  <1>1. \A c \in Copy : (Started(c)' <=> Started(c)) /\ (Written(c)' <=> Written(c))
    BY DEF Started, Written
  <1>2. "main" \in Copy /\ "bak" \in Copy
    BY DEF Copy
  <1> QED BY <1>1, <1>2 DEF VersionInv

\* The boot LUN is switched to the copies of the stage.
LEMMA SetBootLunVersions ==
    ASSUME IInv, VersionInv, SetBootLun
    PROVE  VersionInv'
  <1>0. /\ img' = img /\ disk' = disk /\ grant' = grant /\ pc = "bootlun"
        /\ bootLun' = IF stage = UPDATE_MAIN THEN "B" ELSE "A"
    BY DEF SetBootLun, updater
  <1>1. stage \in {UPDATE_MAIN, UPDATE_BACKUP} /\ Lun \in LunSet
    BY <1>0, LunInSet DEF IInv, StepInv, TypeOK, Stage
  <1>2. stage = UPDATE_MAIN => disk[Lun].sh.sig
    BY <1>0 DEF IInv, StepInv
  <1>3. stage = UPDATE_BACKUP => Written("main")
    BY <1>0 DEF IInv, ImagesInv
  <1>4. \A c : (Started(c)' <=> Started(c)) /\ (Written(c)' <=> Written(c))
    BY <1>0 DEF Started, Written
  <1> QED BY <1>0, <1>1, <1>2, <1>3, <1>4 DEF VersionInv

\* The primary header loses its signature, or gets it back when the main copies are new.
LEMMA SetPrimaryVersions ==
    ASSUME IInv, VersionInv, SetPrimary
    PROVE  VersionInv'
  <1>0. img' = img /\ bootLun' = bootLun /\ grant' = grant /\ pc = "prim" /\ TypeOK
    BY DEF SetPrimary, updater, IInv
  <1>1. stage = UPDATE_BACKUP => Written("main")
    BY <1>0 DEF IInv, ImagesInv
  <1>2. \A l \in LunSet : disk'[l].sh.sig = disk[l].sh.sig
    BY <1>0, PrimaryHeaders, OtherLuns
  <1>3. stage # UPDATE_BACKUP => \A l \in LunSet : ~disk[l].ph.sig => ~disk'[l].ph.sig
    BY <1>0, PrimaryHeaders, OtherLuns
  <1>4. \A c : (Started(c)' <=> Started(c)) /\ (Written(c)' <=> Written(c))
    BY <1>0 DEF Started, Written
  <1> QED BY <1>0, <1>1, <1>2, <1>3, <1>4 DEF VersionInv

\* The secondary header loses its signature, or gets it back when all copies are new.
LEMMA SetSecondaryVersions ==
    ASSUME IInv, VersionInv, SetSecondary
    PROVE  VersionInv'
  <1>0. img' = img /\ bootLun' = bootLun /\ grant' = grant /\ pc = "sec" /\ TypeOK
    BY DEF SetSecondary, updater, IInv
  <1>1. stage = UPDATE_FINALIZE => Written("bak")
    BY <1>0 DEF IInv, ImagesInv
  <1>2. \A l \in LunSet : disk'[l].ph.sig = disk[l].ph.sig
    BY <1>0, SecondaryHeaders, OtherLuns
  <1>3. stage # UPDATE_FINALIZE => \A l \in LunSet : ~disk[l].sh.sig => ~disk'[l].sh.sig
    BY <1>0, SecondaryHeaders, OtherLuns
  <1>4. \A c : (Started(c)' <=> Started(c)) /\ (Written(c)' <=> Written(c))
    BY <1>0 DEF Started, Written
  <1> QED BY <1>0, <1>1, <1>2, <1>3, <1>4 DEF VersionInv

\* A call that returns grants the backups only with the main copies written, and,
\* to an updater that goes forward, the main copies only before the backups.
LEMMA ExitLunVersions ==
    ASSUME IInv, VersionInv, ExitLun
    PROVE  VersionInv'
  <1>0. img' = img /\ bootLun' = bootLun /\ disk' = disk /\ pc = "exit" /\ stage \in Stage
        /\ grant' \in {grant, "none", GrantOf(stage)}
    BY DEF ExitLun, NextLun, Return, updater, IInv, TypeOK
  <1>1. grant' = "bak" => grant = "bak" \/ stage = UPDATE_BACKUP
    BY <1>0 DEF GrantOf, Stage
  <1>2. grant' = "main" => grant = "main" \/ stage = UPDATE_MAIN
    BY <1>0 DEF GrantOf, Stage
  <1>3. stage = UPDATE_BACKUP => Written("main")
    BY <1>0 DEF IInv, ImagesInv
  <1>4. stage = UPDATE_MAIN /\ Policy = "forward" => ~Written("main")
    BY <1>0 DEF IInv, ImagesInv
  <1>5. \A c : (Started(c)' <=> Started(c)) /\ (Written(c)' <=> Written(c))
    BY <1>0 DEF Started, Written
  <1> QED BY <1>0, <1>1, <1>2, <1>3, <1>4, <1>5 DEF VersionInv

\* An image is written only while every table and the boot LUN lead to the other copy.
LEMMA WriteVersions ==
    ASSUME IInv, VersionInv, NEW c \in Copy, NEW u \in Units, BeginWrite(c, u)
           \/ EndWrite(c, u)
    PROVE  VersionInv'
  <1>0. /\ grant = c /\ grant' = grant /\ disk' = disk /\ bootLun' = bootLun
        /\ \E v \in {"torn", "new"} : img' = [img EXCEPT ![c][u] = v]
        /\ TypeOK /\ grant \in {"main", "bak"}
    BY DEF BeginWrite, EndWrite, storage, call, IInv, Copy
  <1>1. img'["bak"] = img["bak"] \/ c = "bak"
    BY <1>0 DEF TypeOK, Copy
  <1>2. img'["main"] = img["main"] \/ c = "main"
    BY <1>0 DEF TypeOK, Copy
  <1>3. grant = GrantOf(stage) /\ stage \in Stage /\ \A l \in LunSet : Done(stage, l)
    BY <1>0 DEF IInv, ProgressInv, TypeOK
  <1>4. SwitchesBootLun => bootLun = IF stage = UPDATE_MAIN THEN "B" ELSE "A"
    BY <1>0 DEF IInv, BootLunInv
  <1>5. CASE c = "main"
    <2>1. stage = UPDATE_MAIN
      BY <1>0, <1>3, <1>5 DEF GrantOf, Stage
    <2>2. \A l \in LunSet : HasPairs(l) => ~disk[l].ph.sig
      BY <1>3, <2>1 DEF Done
    <2>3. (Started("bak")' <=> Started("bak")) /\ (Written("bak")' <=> Written("bak"))
      BY <1>1, <1>5 DEF Started, Written
    <2> QED BY <1>0, <1>4, <1>5, <2>1, <2>2, <2>3 DEF VersionInv
  <1>6. CASE c = "bak"
    <2>1. stage = UPDATE_BACKUP
      BY <1>0, <1>3, <1>6 DEF GrantOf, Stage
    <2>2. \A l \in LunSet : ~disk[l].sh.sig
      BY <1>3, <2>1 DEF Done
    <2>3. (Started("main")' <=> Started("main")) /\ (Written("main")' <=> Written("main"))
      BY <1>2, <1>6 DEF Started, Written
    <2> QED BY <1>0, <1>4, <1>6, <2>1, <2>2, <2>3 DEF VersionInv
  <1> QED BY <1>0, <1>5, <1>6

\* An update that begins finds every image old.
LEMMA NextUpdateVersions ==
    ASSUME VersionInv, NextUpdate
    PROVE  VersionInv'
  <1>1. /\ img' = [c \in Copy |-> [u \in Units |-> "old"]] /\ grant' = "none"
    BY DEF NextUpdate
  <1>2. ~Started("main")' /\ ~Started("bak")'
    BY <1>1 DEF Started, Copy
  <1> QED BY <1>1, <1>2 DEF VersionInv

\* A step whose writes are whole keeps the invariant of the versions.
LEMMA StepVersionInv == WritesWhole /\ IInv /\ VersionInv /\ [Next]_vars => VersionInv'
  <1> SUFFICES ASSUME WritesWhole, IInv, VersionInv, [Next]_vars PROVE VersionInv'
    OBVIOUS
  <1>1. CASE CheckStage \/ OpenFails \/ IoError \/ Crash \/ UNCHANGED vars
             \/ \E s \in Stage : Call(s)
    <2>1. UNCHANGED <<img, bootLun, disk>> /\ grant' \in {grant, "none"}
      BY <1>1 DEF CheckStage, OpenFails, NextLun, Return, IoError, Crash, Forget, Call,
         storage,
         updater, vars
    <2> QED BY <2>1, QuietStep
  <1>2. CASE ChainHeader \/ ChainEntries
    <2>1. UNCHANGED <<img, bootLun>> /\ grant' \in {grant, "none"}
      BY <1>2 DEF ChainHeader, ChainEntries, updater
    <2>2. \A l \in LunSet : disk'[l].ph.sig = disk[l].ph.sig
            /\ disk'[l].sh.sig = disk[l].sh.sig
      BY <1>2, ChainHeaders DEF IInv
    <2> QED BY <2>1, <2>2, QuietStep
  <1>3. CASE \E c \in Copy, u \in Units : BeginWrite(c, u) \/ EndWrite(c, u)
    BY <1>3, WriteVersions
  <1> QED
    BY <1>1, <1>2, <1>3, SetBootLunVersions, SetPrimaryVersions, SetSecondaryVersions,
       ExitLunVersions, NextUpdateVersions
       DEF Next, Prepare, Updater, Fault, ShortWrite, Writeback, PowerLoss, WritesWhole

\* While writes are whole the invariant of the versions holds, of every device and
\* every updater of SafeUpdater.
THEOREM VersionsInductive == SafeUpdater => (Spec => [](WritesWhole => VersionInv))
  <1> SUFFICES ASSUME SafeUpdater PROVE Spec => [](WritesWhole => VersionInv)
    OBVIOUS
  <1>1. (WritesWhole => IInv) /\ (WritesWhole => VersionInv) /\ [Next]_vars
            => (WritesWhole => VersionInv)'
    BY StepVersionInv, FaultsFixed DEF WritesWhole
  <1> QED BY Inductive, InitVersionInv, <1>1, PTL DEF Spec

-----------------------------------------------------------------------------
\* On a device of one table the copies that boot are all of one version.
LEMMA CoherentFromInv ==
    ASSUME IInv, VersionInv, ~SwitchesBootLun, Len(LunList) = 1
    PROVE  CoherentBoot
  <1> SUFFICES ASSUME NEW u \in Units, NEW w \in Units PROVE Booted(u) = Booted(w)
    BY DEF CoherentBoot
  <1>1. u # Xbl /\ w # Xbl
    BY BootCopyCases
  <1>2. LunOf[u] = LunOf[w] /\ LunOf[u] \in LunSet /\ HasPairs(LunOf[u])
    BY <1>1, BootCopyCases DEF LunSet
  <1> DEFINE d == disk[LunOf[u]]
  <1>3. /\ BootCopy(u) = IF d.ph.sig THEN "main" ELSE "bak"
        /\ BootCopy(w) = IF d.ph.sig THEN "main" ELSE "bak"
    BY <1>1, <1>2, BootCopyCases
  <1>4. d.ph.sig => Written("main") \/ ~Started("main")
    BY <1>2 DEF VersionInv
  <1>5. ~d.ph.sig => Written("bak") \/ ~Started("bak")
    BY <1>2 DEF VersionInv, IInv, TablesInv, BackupReady, ValidAs
  <1>6. \A c \in Copy : Written(c) \/ ~Started(c) => img[c][u] = img[c][w]
    BY OneVersion
  <1> QED BY <1>3, <1>4, <1>5, <1>6 DEF Booted, Copy

\* Where one table lists all images, those of a boot are of one version.
THEOREM CoherentBoots ==
    ~SwitchesBootLun /\ Len(LunList) = 1 => (Spec => []CoherentBoot)
  <1> SUFFICES ASSUME ~SwitchesBootLun, Len(LunList) = 1 PROVE Spec => []CoherentBoot
    OBVIOUS
  <1>1. SafeUpdater
    BY DEF SafeUpdater
  <1>2. (WritesWhole => IInv) /\ (WritesWhole => VersionInv) => CoherentBoot
    BY CoherentFromInv DEF CoherentBoot
  <1> QED BY <1>1, <1>2, Inductive, VersionsInductive, PTL

-----------------------------------------------------------------------------
\* The copy each image boots from, as the boot LUN or the primary signature tells.
BootsFrom == \A u \in Units :
    /\ u = Xbl => SwitchesBootLun /\ BootCopy(u) = IF bootLun = "A" THEN "main" ELSE "bak"
    /\ u # Xbl => BootCopy(u) = IF disk[LunOf[u]].ph.sig THEN "main" ELSE "bak"
    /\ BootCopy(u) \in Copy

\* It follows from the invariant of the update.
LEMMA AlwaysBootsFrom == IInv => BootsFrom
  BY BootCopyCases DEF BootsFrom

\* An image that boots from the main copy and then from the backup was switched by
\* UPDATE_MAIN, when no main copy was new yet.
LEMMA NoStepBack ==
    ASSUME WritesWhole, Policy = "forward", IInv, IInv', VersionInv, [Next]_vars,
           NEW u \in Units, UNCHANGED img, Booted(u) = "new", Booted(u)' = "old"
    PROVE  FALSE
  <1>0. TypeOK
    BY DEF IInv
  <1>1. /\ u = Xbl => SwitchesBootLun /\ BootCopy(u)' = IF bootLun' = "A" THEN "main"
             ELSE "bak"
        /\ u # Xbl => BootCopy(u)' = IF disk'[LunOf[u]].ph.sig THEN "main" ELSE "bak"
        /\ BootCopy(u)' \in Copy
    <2>1. BootsFrom'
      BY AlwaysBootsFrom, PTL
    <2> QED BY <2>1 DEF BootsFrom
  <1>2. BootCopy(u) \in Copy
    BY BootCopyCases
  <1>3. img[BootCopy(u)][u] = "new" /\ img[BootCopy(u)'][u] = "old"
    BY <1>1, <1>2 DEF Booted
  <1>4. CASE BootCopy(u) = "bak"
    <2>1. BootCopy(u)' = "main" /\ Started("bak")
      BY <1>1, <1>3, <1>4 DEF Copy, Started
    <2>2. img["main"][u] = "new"
      BY <2>1 DEF VersionInv, Written
    <2> QED BY <1>3, <2>1, <2>2
  <1>5. CASE BootCopy(u) = "main"
    <2>1. BootCopy(u)' = "bak" /\ Started("main")
      BY <1>1, <1>3, <1>5 DEF Copy, Started
    <2>2. CASE u = Xbl
      <3>1. SwitchesBootLun /\ bootLun = "A" /\ bootLun' # "A"
        BY <1>1, <1>5, <2>1, <2>2, BootCopyCases
      <3>2. SetBootLun /\ stage = UPDATE_MAIN
        BY <3>1 DEF Next, Prepare, Updater, Fault, CheckStage, SetBootLun, ChainHeader,
           ChainEntries, SetPrimary, SetSecondary, ExitLun, NextLun, Call, BeginWrite,
             EndWrite,
           NextUpdate, OpenFails, IoError, ShortWrite, Crash, Writeback, PowerLoss,
             storage, vars
      <3>3. ~Written("main")
        BY <3>2 DEF SetBootLun, IInv, ImagesInv
      <3> QED BY <2>1, <3>1, <3>3 DEF VersionInv
    <2>3. CASE u # Xbl
      <3> DEFINE l == LunOf[u]
      <3>1. l \in LunSet /\ HasPairs(l) /\ disk[l].ph.sig /\ ~disk'[l].ph.sig
        BY <1>1, <1>5, <2>1, <2>3, BootCopyCases
      <3>2. ~(ChainHeader \/ ChainEntries)
        BY <1>0, <3>1, ChainHeaders
      <3>3. ~SetSecondary
        BY <1>0, <3>1, SecondaryHeaders, OtherLuns
      <3>4. SetPrimary
        BY <3>1, <3>2, <3>3 DEF Next, Prepare, Updater, Fault, CheckStage, SetBootLun,
           ExitLun, NextLun,
           Call, BeginWrite, EndWrite, NextUpdate, OpenFails, IoError, ShortWrite, Crash,
             Writeback,
           PowerLoss, WritesWhole, storage, vars
      <3>5. l = Lun /\ stage # UPDATE_BACKUP
        BY <1>0, <3>1, <3>4, PrimaryHeaders, OtherLuns
      <3>6. ~Written("main")
        BY <1>0, <3>4, <3>5 DEF SetPrimary, IInv, StepInv, ImagesInv, TypeOK, Stage
      <3> QED BY <2>1, <3>1, <3>6 DEF VersionInv
    <2> QED BY <2>2, <2>3
  <1> QED BY <1>2, <1>4, <1>5 DEF Copy

\* A step that writes an image changes what boots only when an update is over.
LEMMA WritesNoBoot ==
    ASSUME WritesWhole, IInv, [Next]_vars, NEW u \in Units, ~UNCHANGED img, grant # "done"
    PROVE  Booted(u)' = Booted(u)
  <1>1. PICK c \in Copy, w \in Units : BeginWrite(c, w) \/ EndWrite(c, w)
    BY DEF Next, Prepare, Updater, Fault, CheckStage, SetBootLun, ChainHeader,
       ChainEntries, SetPrimary, SetSecondary, ExitLun, NextLun, Return, Call, NextUpdate,
         OpenFails, IoError,
       ShortWrite, Crash, Writeback, PowerLoss, Forget, updater, vars
  <1>2. grant = c /\ disk' = disk /\ bootLun' = bootLun
        /\ \E v \in {"torn", "new"} : img' = [img EXCEPT ![c][w] = v]
    BY <1>1 DEF BeginWrite, EndWrite, storage, call
  <1>3. BootCopy(u)' = BootCopy(u)
    BY <1>2 DEF BootCopy
  <1>4. BootCopy(u) \in Copy \ {c}
    BY <1>2, ReadyFromInv DEF ReadyForUpdate
  <1>5. img'[BootCopy(u)] = img[BootCopy(u)]
    BY <1>2, <1>4 DEF IInv, TypeOK
  <1> QED BY <1>3, <1>5 DEF Booted

\* An updater that goes forward never takes a device back to the old version of an
\* image, whatever stage fails, is cut off and repeated.
THEOREM NeverBackToOld == Policy = "forward" => (Spec => NoRollback)
  <1> SUFFICES ASSUME Policy = "forward" PROVE Spec => NoRollback
    OBVIOUS
  <1> DEFINE N == WritesWhole => \A u \in Units :
                    Booted(u) = "new" /\ Booted(u)' = "old" => grant = "done"
  <1>1. SafeUpdater
    BY DEF SafeUpdater
  <1>2. (WritesWhole => IInv) /\ (WritesWhole => IInv)' /\ (WritesWhole => VersionInv)
            /\ [Next]_vars => [N]_vars
    <2> SUFFICES ASSUME WritesWhole, IInv, IInv', VersionInv, [Next]_vars, NEW u \in Units,
                        Booted(u) = "new", Booted(u)' = "old", grant # "done"
                 PROVE  FALSE
      BY FaultsFixed DEF WritesWhole
    <2>1. UNCHANGED img
      BY WritesNoBoot
    <2> QED BY <2>1, NoStepBack
  <1> QED BY <1>1, <1>2, Inductive, VersionsInductive, PTL DEF Spec, NoRollback

-----------------------------------------------------------------------------
(* The gpt_disk API. *)

\* What an edit makes of an array is an array.
LEMMA EditedArray ==
    ASSUME NEW w \in Edits, NEW a \in Array
    PROVE  [e \in Entry |-> IF e \in DOMAIN w THEN w[e] ELSE a[e]] \in Array
  BY EditAssumption DEF Array

\* The first state is of the types.
LEMMA DiskInitTypeOK == DiskInit => DiskTypeOK
  <1> SUFFICES ASSUME DiskInit PROVE DiskTypeOK
    OBVIOUS
  <1>1. primary \in GptTable /\ secondary \in GptTable
    BY EntryAssumption DEF DiskInit, GptTable
  <1>2. Zeroed \in [init : BOOLEAN, crc : Array, arr : Array]
    BY EntryAssumption DEF Zeroed
  <1>3. at \in [User -> At] /\ edited \in [User -> SUBSET Entry]
        /\ stale \in [User -> BOOLEAN] /\ overtaken \in [User -> BOOLEAN]
             /\ shorted \in BOOLEAN
    BY DEF DiskInit, At
  <1> QED BY <1>1, <1>2, <1>3 DEF DiskInit, DiskTypeOK

\* A step keeps to the types.
LEMMA DiskStepTypeOK == DiskTypeOK /\ [DiskNext]_diskVars => DiskTypeOK'
  <1> SUFFICES ASSUME DiskTypeOK, [DiskNext]_diskVars PROVE DiskTypeOK'
    OBVIOUS
  <1> USE DEF DiskTypeOK, At, GptTable, GoOn, Set, history
  <1>1. ASSUME NEW u \in User, Alloc(u) PROVE DiskTypeOK'
    BY <1>1 DEF Alloc
  <1>2. ASSUME NEW u \in User, Drop(u) PROVE DiskTypeOK'
    BY <1>2, EntryAssumption DEF Drop, Zeroed
  <1>3. ASSUME NEW u \in User, GetDiskInfo(u) \/ GetHeaderBak(u) \/ Commit(u) \/ CallFails(u)
        PROVE  DiskTypeOK'
    BY <1>3 DEF GetDiskInfo, GetHeaderBak, Commit, CallFails
  <1>4. ASSUME NEW u \in User, GetHeader(u) \/ GetPentryArrBak(u) \/ UpdateCrc(u)
        PROVE  DiskTypeOK'
    <2>1. CASE GetHeader(u)
      BY <2>1 DEF GetHeader
    <2>2. CASE GetPentryArrBak(u)
      BY <2>2 DEF GetPentryArrBak
    <2>3. CASE UpdateCrc(u)
      BY <2>3 DEF UpdateCrc, NewCrc
    <2> QED BY <1>4, <2>1, <2>2, <2>3
  <1>5. ASSUME NEW u \in User, GetPentryArr(u) PROVE DiskTypeOK'
    BY <1>5 DEF GetPentryArr
  <1>6. ASSUME NEW u \in User, NEW w \in Edits, Edit(u, w) PROVE DiskTypeOK'
    <2> DEFINE b == [e \in Entry |-> IF e \in DOMAIN w THEN w[e] ELSE handle[u].arr[e]]
    <2>1. b \in Array
      BY EditedArray
    <2>2. handle' = [handle EXCEPT ![u] = [init |-> TRUE, crc |-> handle[u].crc, arr |-> b]]
      BY <1>6 DEF Edit
    <2>3. edited' \in [User -> SUBSET Entry]
      BY <1>6, EditAssumption DEF Edit
    <2> HIDE DEF b
    <2>4. handle' \in [User -> [init : BOOLEAN, crc : Array, arr : Array]]
      BY <2>1, <2>2
    <2> QED BY <1>6, <2>3, <2>4 DEF Edit
  <1>7. ASSUME NEW u \in User, SetHeader(u) \/ SetPentryArr(u) PROVE DiskTypeOK'
    BY <1>7 DEF SetHeader, SetPentryArr, Outdate, HasRead
  <1>8. ASSUME NEW u \in User, ShortCommit(u) PROVE DiskTypeOK'
    <2>1. \A n \in 0..Last : [e \in Entry |-> IF e <= n THEN handle[u].arr[e]
            ELSE primary.arr[e]]
                           \in Array
      BY DEF Array
    <2>2. PICK n \in 0..Last : primary' = [primary EXCEPT !.arr =
            [e \in Entry |-> IF e <= n THEN handle[u].arr[e] ELSE primary.arr[e]]]
      BY <1>8 DEF ShortCommit
    <2>3. primary' \in GptTable
      BY <2>1, <2>2
    <2> QED BY <1>8, <2>3 DEF ShortCommit, Outdate, HasRead
  <1>9. CASE UNCHANGED diskVars
    BY <1>9 DEF diskVars
  <1> QED BY <1>1, <1>2, <1>3, <1>4, <1>5, <1>6, <1>7, <1>8, <1>9
             DEF DiskNext, DiskCall, DiskFault, Free, Kill

\* Whatever processes do and suffer, the tables and the copies keep their types.
THEOREM DiskTypeCorrect == DiskSpec => []DiskTypeOK
  <1> QED BY DiskInitTypeOK, DiskStepTypeOK, PTL DEF DiskSpec

-----------------------------------------------------------------------------
\* A write outdates the copies of the others, and the copy of the writer agrees
\* with what it wrote.
LEMMA WriteCopyInv ==
    ASSUME DiskTypeOK, CopyInv, NEW u \in User,
           SetHeader(u) \/ SetPentryArr(u) \/ ShortCommit(u)
    PROVE  CopyInv'
  <1> USE DEF DiskTypeOK, At, GptTable, GoOn
  <1> SUFFICES ASSUME NEW v \in User PROVE CopyInv!(v)'
    BY DEF CopyInv
  <1>0. handle' = handle /\ edited' = edited /\ handle[v].arr \in Array
        /\ at' = [at EXCEPT ![u] = IF at[u] = "set_header" THEN "set_pentry_arr" ELSE "done"]
    BY DEF SetHeader, SetPentryArr, ShortCommit
  <1>1. CopyInv!(v)
    BY DEF CopyInv
  <1>2. handle[u].init /\ handle[u].crc = handle[u].arr
    BY DEF CopyInv, SetHeader, SetPentryArr, ShortCommit
  <1>3. CASE v # u
    <2>1. /\ at'[v] = at[v] /\ (HasRead(v) => stale'[v])
          /\ at[v] = "set_pentry_arr" => overtaken'[v]
      BY <1>0, <1>3 DEF SetHeader, SetPentryArr, ShortCommit, Outdate
    <2>2. at[v] = "set_pentry_arr" => HasRead(v)
      BY <1>1 DEF HasRead
    <2>3. HasRead(v)' = HasRead(v)
      BY <1>0, <2>1 DEF HasRead
    <2> QED BY <1>0, <1>1, <2>1, <2>2, <2>3
  <1>4. CASE v = u
    <2>1. HasRead(u) /\ stale'[u] = stale[u]
      BY <1>2 DEF HasRead, SetHeader, SetPentryArr, ShortCommit, Outdate
    <2>2. CASE SetHeader(u)
      BY <1>0, <1>1, <1>2, <1>4, <2>1, <2>2 DEF SetHeader
    <2>3. CASE SetPentryArr(u)
      BY <1>0, <1>1, <1>2, <1>4, <2>1, <2>3 DEF SetPentryArr
    <2>4. CASE ShortCommit(u)
      BY <1>0, <1>1, <1>2, <1>4, <2>1, <2>4 DEF ShortCommit
    <2> QED BY <2>2, <2>3, <2>4
  <1> QED BY <1>3, <1>4

\* A step keeps the copies in line with the disk.
LEMMA StepCopyInv == DiskTypeOK /\ CopyInv /\ [DiskNext]_diskVars => CopyInv'
  <1> SUFFICES ASSUME DiskTypeOK, CopyInv, [DiskNext]_diskVars PROVE CopyInv'
    OBVIOUS
  <1> USE DEF DiskTypeOK, At, GptTable, CopyInv, HasRead, GoOn, Set, history
  <1>1. ASSUME NEW u \in User, Alloc(u) \/ GetDiskInfo(u) \/ GetHeaderBak(u) PROVE CopyInv'
    BY <1>1 DEF Alloc, GetDiskInfo, GetHeaderBak
  <1>2. ASSUME NEW u \in User, Drop(u) PROVE CopyInv'
    BY <1>2 DEF Drop, Zeroed
  <1>3. ASSUME NEW u \in User, Commit(u) \/ CallFails(u) PROVE CopyInv'
    BY <1>3 DEF Commit, CallFails, NewCrc, InCall
  <1>4. ASSUME NEW u \in User, GetHeader(u) PROVE CopyInv'
    BY <1>4 DEF GetHeader
  <1>5. ASSUME NEW u \in User, GetPentryArr(u) PROVE CopyInv'
    BY <1>5 DEF GetPentryArr
  <1>6. ASSUME NEW u \in User, GetPentryArrBak(u) \/ UpdateCrc(u) PROVE CopyInv'
    <2>1. CASE GetPentryArrBak(u)
      BY <2>1 DEF GetPentryArrBak
    <2>2. CASE UpdateCrc(u)
      BY <2>2 DEF UpdateCrc
    <2> QED BY <1>6, <2>1, <2>2
  <1>7. ASSUME NEW u \in User, NEW w \in Edits, Edit(u, w) PROVE CopyInv'
    <2> SUFFICES ASSUME NEW v \in User PROVE CopyInv!(v)'
      OBVIOUS
    <2>1. /\ at' = at /\ primary' = primary /\ stale' = stale /\ overtaken' = overtaken
          /\ at[u] = "ready" /\ handle[u].init /\ edited'[u] = edited[u] \cup DOMAIN w
          /\ v # u => handle'[v] = handle[v] /\ edited'[v] = edited[v]
      BY <1>7 DEF Edit
    <2>2. CASE v # u
      BY <2>1, <2>2
    <2>3. CASE v = u
      <3>1. handle'[u].init /\ \A e \in Entry \ DOMAIN w : handle'[u].arr[e] = handle[u].arr[e]
        BY <1>7 DEF Edit
      <3> QED BY <2>1, <2>3, <3>1
    <2> QED BY <2>2, <2>3
  <1>8. ASSUME NEW u \in User, SetHeader(u) \/ SetPentryArr(u) \/ ShortCommit(u) PROVE CopyInv'
    BY <1>8, WriteCopyInv
  <1>9. CASE UNCHANGED diskVars
    BY <1>9 DEF diskVars
  <1> QED BY <1>1, <1>2, <1>3, <1>4, <1>5, <1>6, <1>7, <1>8, <1>9
             DEF DiskNext, DiskCall, DiskFault, Free, Kill

\* A commit leaves a valid table unless it is overtaken between its two writes, and shows
\* what was edited and nothing else unless its copy is stale, whatever happened to the
\* commits before it.
THEOREM LoneCommitShown == DiskSpec => CommitShown
  <1>1. DiskInit => DiskTypeOK /\ CopyInv
    BY DiskInitTypeOK DEF DiskInit, CopyInv, Zeroed, HasRead
  <1>2. DiskTypeOK /\ CopyInv /\ [DiskNext]_diskVars => DiskTypeOK' /\ CopyInv'
    BY DiskStepTypeOK, StepCopyInv
  <1>3. ASSUME DiskTypeOK, CopyInv, [DiskNext]_diskVars, NEW u \in User,
               at[u] = "set_pentry_arr",
               at'[u] = "done", ~shorted'
        PROVE  /\ ~overtaken[u] => Valid(primary')
               /\ ~stale[u] => \A e \in Entry \ edited[u] : primary'.arr[e] = primary.arr[e]
    <2>1. SetPentryArr(u)
      BY <1>3 DEF DiskNext, DiskCall, DiskFault, Alloc, Free, Kill, Drop, UpdateCrc,
         GetDiskInfo, GetHeader,
         GetHeaderBak, GetPentryArr, GetPentryArrBak, Commit, SetHeader, SetPentryArr,
           CallFails,
         ShortCommit, Edit, GoOn, DiskTypeOK, At, InCall, history, diskVars
    <2>2. primary'.arr = handle[u].arr /\ primary'.crc = primary.crc
      BY <2>1 DEF SetPentryArr, DiskTypeOK, GptTable
    <2>3. HasRead(u) /\ handle[u].crc = handle[u].arr
      BY <1>3 DEF CopyInv, HasRead
    <2> QED BY <1>3, <2>2, <2>3 DEF Valid, CopyInv
  <1>4. DiskTypeOK /\ CopyInv /\ [DiskNext]_diskVars => [\A u \in User :
            at[u] = "set_pentry_arr" /\ at'[u] = "done" /\ ~shorted' =>
                /\ ~overtaken[u] => Valid(primary')
                /\ ~stale[u] => \A e \in Entry \ edited[u] : primary'.arr[e] =
                     primary.arr[e]]_diskVars
    BY <1>3
  <1> QED BY <1>1, <1>2, <1>4, PTL DEF DiskSpec, CommitShown

=============================================================================
