--------------------------- MODULE Battery_proofs ---------------------------
(***************************************************************************)
(* Proofs about the two battery backups of the health service, for every   *)
(* trigger, level and capacity: CycleCountBackupRestore, then              *)
(* LearnedCapacityBackupRestore, whose theorems are about LCSpec.          *)
(***************************************************************************)
EXTENDS CycleCountBackupRestore, LearnedCapacityBackupRestore, TLAPS


\* The initial state is in the types.
LEMMA InitTypeOK == Init => TypeOK
  BY CycleAssumption DEF Init, TypeOK

\* What LevelTo does to the gauge, without its cases.
LEMMA LevelTypes ==
    ASSUME TypeOK, NEW l \in 0..Full, LevelTo(l)
    PROVE  /\ level' \in 0..Full /\ charged' \in 0..(Full - 1)
           /\ gauge' \in 0..Limit /\ gauge' >= gauge
  BY CycleAssumption DEF TypeOK, LevelTo, Highest

\* A Backup keeps to the types: soc_inc grows by Full at most.
LEMMA BackupTypeOK == TypeOK /\ Backup => TypeOK'
  <1> SUFFICES ASSUME TypeOK, Backup PROVE TypeOK'
    OBVIOUS
  <1>1. PICK l \in 0..Full : LevelTo(l) /\ (BackupFirst(l) \/ BackupLater(l))
    BY DEF Backup
  <1>2. /\ level' \in 0..Full /\ charged' \in 0..(Full - 1) /\ gauge' \in 0..Limit
    BY <1>1, LevelTypes
  <1>3. CASE BackupFirst(l)
    BY <1>2, <1>3, CycleAssumption DEF Backup, BackupFirst, TypeOK, memory
  <1>4. CASE BackupLater(l)
    <2>1. saved_soc \in 0..Full /\ soc_inc \in 0..(Trigger - 1)
      BY <1>4, CycleAssumption DEF BackupLater, Backup, TypeOK
    <2>2. soc_inc' \in 0..(Trigger + Full - 1) /\ saved_soc' \in -1..Full
      BY <2>1, <1>4, CycleAssumption DEF BackupLater, Increase, Highest
    <2>3. /\ at' \in {"down", "sys", "save", "idle"} /\ clean' \in BOOLEAN
          /\ at' = "idle" => soc_inc' < Trigger
      <3>1. at = "idle" /\ clean \in BOOLEAN
        BY DEF Backup, TypeOK
      <3>2. CASE soc_inc' >= Trigger
        BY <3>1, <3>2, <1>4 DEF BackupLater
      <3>3. CASE ~(soc_inc' >= Trigger)
        <4>1. at' = at /\ clean' = clean
          BY <3>3, <1>4, Zenon DEF BackupLater
        <4>2. soc_inc' < Trigger
          BY <3>3, <2>2, CycleAssumption
        <4> QED BY <3>1, <4>1, <4>2
      <3> QED BY <3>2, <3>3
    <2> QED BY <1>2, <2>2, <2>3 DEF Backup, TypeOK, memory
  <1> QED BY <1>1, <1>3, <1>4

\* UpdateAndSave keeps to the types.
LEMMA SaveTypeOK == TypeOK /\ UpdateAndSave => TypeOK'
  <1> SUFFICES ASSUME TypeOK, UpdateAndSave PROVE TypeOK'
    OBVIOUS
  <1>1. /\ sw_cycles' \in 0..Limit /\ hw_cycles' \in 0..Limit
        /\ file' \in 0..Limit /\ gauge' \in 0..Limit /\ best' \in 0..Limit
        /\ clean' \in BOOLEAN /\ failed' \in {"none", "open", "any"}
    <2>1. sw_cycles' \in {sw_cycles, hw_cycles} /\ hw_cycles' \in {sw_cycles, hw_cycles}
      BY DEF UpdateAndSave, Update, Choose, memory
    <2>2. file' \in {file, hw_cycles, 0} /\ best' \in {best, hw_cycles}
      BY DEF UpdateAndSave, Update, Choose, WriteFile, Highest
    <2>3. gauge' \in {gauge, sw_cycles}
      BY DEF UpdateAndSave, Update, Choose, WriteGauge
    <2>4. clean' = clean \/ clean' = FALSE
      BY Zenon DEF UpdateAndSave, Update, Choose, WriteFile, WriteGauge, Fails, faults
    <2>5. clean' \in BOOLEAN
      BY <2>4, Zenon DEF TypeOK
    <2>6. failed' \in {"none", "open", "any"}
      <3>1. failed' = failed \/ failed' = "any" \/ failed' = "open"
        BY Zenon DEF UpdateAndSave, Update, Choose, WriteFile, WriteGauge, Fails, faults
      <3> QED BY <3>1 DEF TypeOK
    <2> QED BY <2>1, <2>2, <2>3, <2>5, <2>6, CycleAssumption DEF TypeOK
  <1> QED BY <1>1, CycleAssumption DEF UpdateAndSave, TypeOK, battery

\* A step keeps to the types.
LEMMA StepTypeOK == TypeOK /\ [Next]_vars => TypeOK'
  <1> SUFFICES ASSUME TypeOK, [Next]_vars PROVE TypeOK'
    OBVIOUS
  <1>1. CASE Reboot
    BY <1>1, CycleAssumption DEF Reboot, Down, TypeOK, battery, faults
  <1>2. CASE ChargeDown
    <2>1. PICK l \in 0..Full : LevelTo(l)
      BY <1>2 DEF ChargeDown
    <2> QED BY <1>2, <2>1, LevelTypes DEF ChargeDown, TypeOK, memory, charge, faults
  <1>3. CASE Restore
    BY <1>3, CycleAssumption DEF Restore, Fails, TypeOK, battery, charge
  <1>4. CASE ReadGauge
    BY <1>4, CycleAssumption DEF ReadGauge, Fails, TypeOK, battery, charge, faults
  <1>5. CASE UpdateAndSave
    BY <1>5, SaveTypeOK
  <1>6. CASE CrashInWrite
    <2>1. failed' = "any" /\ clean' = FALSE
      BY <1>6, Zenon DEF CrashInWrite, Fails
    <2>2. clean' \in BOOLEAN /\ failed' \in {"none", "open", "any"}
      BY <2>1, Zenon
    <2>3. /\ level' = level /\ charged' = charged /\ best' = best /\ gauge' \in {gauge, 0}
          /\ file' = 0 /\ sw_cycles' = 0 /\ hw_cycles' = 0 /\ saved_soc' = -1 /\ soc_inc' = 0
          /\ at' = "down"
      BY <1>6 DEF CrashInWrite, Down, battery
    <2> QED BY <2>2, <2>3, CycleAssumption DEF TypeOK
  <1>7. CASE Backup
    BY <1>7, BackupTypeOK
  <1>8. CASE UNCHANGED vars
    BY <1>8 DEF vars, battery, memory, charge, faults, TypeOK
  <1> QED BY <1>1, <1>2, <1>3, <1>4, <1>5, <1>6, <1>7, <1>8 DEF Next

\* Every variable keeps to its set; a service at rest is below its trigger.
THEOREM CycleTypeCorrect == Spec => []TypeOK
  BY InitTypeOK, StepTypeOK, PTL DEF Spec

-----------------------------------------------------------------------------
\* What the service read from the gauge is the gauge's count until it is used.
FreshRead == at = "save" /\ clean => hw_cycles = gauge

\* The initial state has read nothing.
LEMMA InitRestored == Init => FreshRead /\ GaugeRestored
  BY DEF Init, FreshRead, GaugeRestored

\* A step keeps what was read and what was restored, whatever may fail.
LEMMA StepRestored ==
    TypeOK /\ FreshRead /\ GaugeRestored /\ [Next]_vars => FreshRead' /\ GaugeRestored'
  <1> SUFFICES ASSUME TypeOK, FreshRead, GaugeRestored, [Next]_vars
               PROVE  FreshRead' /\ GaugeRestored'
    OBVIOUS
  <1>1. CASE Reboot
    BY <1>1 DEF Reboot, Down, FreshRead, GaugeRestored
  <1>2. CASE ChargeDown
    BY <1>2 DEF ChargeDown, faults, FreshRead, GaugeRestored
  <1>3. CASE Restore
    BY <1>3 DEF Restore, Fails, FreshRead, GaugeRestored
  <1>4. CASE ReadGauge
    BY <1>4 DEF ReadGauge, Fails, faults, FreshRead, GaugeRestored
  <1>5. CASE UpdateAndSave
    BY <1>5 DEF UpdateAndSave, Update, Choose, WriteFile, WriteGauge, Fails, faults, memory, TypeOK,
                FreshRead, GaugeRestored
  <1>6. CASE CrashInWrite
    BY <1>6 DEF CrashInWrite, Down, FreshRead, GaugeRestored
  <1>7. CASE Backup
    <2>1. PICK l \in 0..Full : LevelTo(l) /\ (BackupFirst(l) \/ BackupLater(l))
      BY <1>7 DEF Backup
    <2>2. gauge' >= gauge /\ gauge' \in Nat
      BY <2>1, LevelTypes, CycleAssumption
    <2> QED BY <1>7, <2>1, <2>2
            DEF Backup, BackupFirst, BackupLater, memory, TypeOK, FreshRead, GaugeRestored
  <1>8. CASE UNCHANGED vars
    BY <1>8 DEF vars, battery, memory, charge, faults, FreshRead, GaugeRestored
  <1> QED BY <1>1, <1>2, <1>3, <1>4, <1>5, <1>6, <1>7, <1>8 DEF Next

\* Whatever fails, a service with no failed access since its trigger leaves the
\* gauge with the count it restores: a write that failed is made good.
THEOREM CycleRestored == Spec => []GaugeRestored
  BY CycleTypeCorrect, InitRestored, StepRestored, PTL DEF Spec

-----------------------------------------------------------------------------
\* The memory of a service that is up has all that was saved, and so has the file,
\* as long as at most the opening of files for writing failed.
MemoryAhead == failed # "any" => file = best /\ (at # "down" => sw_cycles >= file)

\* A step that fails otherwise leaves nothing to show.
LEMMA FailsAny == Fails("any") => failed' = "any"
  BY DEF Fails

\* A step keeps the memory ahead of the file, and the file does not go back.
LEMMA StepKept ==
    TypeOK /\ MemoryAhead /\ [Next]_vars => MemoryAhead' /\ (failed' # "any" => file' >= file)
  <1> SUFFICES ASSUME TypeOK, MemoryAhead, [Next]_vars, failed' # "any"
               PROVE  file' = best' /\ (at' # "down" => sw_cycles' >= file') /\ file' >= file
    BY DEF MemoryAhead
  <1>1. ~Fails("any")
    BY FailsAny
  <1>2. failed # "any"
    BY DEF Next, Reboot, ChargeDown, Restore, ReadGauge, UpdateAndSave, Update, Choose, WriteFile,
           WriteGauge, CrashInWrite, Backup, Fails, faults, vars
  <1>3. file = best /\ (at # "down" => sw_cycles >= file) /\ file \in Int /\ sw_cycles \in Int
    BY <1>2 DEF MemoryAhead, TypeOK
  <1>4. CASE Reboot
    BY <1>3, <1>4 DEF Reboot, Down
  <1>5. CASE ChargeDown
    BY <1>3, <1>5 DEF ChargeDown, memory
  <1>6. CASE Restore
    BY <1>1, <1>3, <1>6 DEF Restore
  <1>7. CASE ReadGauge
    BY <1>1, <1>3, <1>7 DEF ReadGauge
  <1>8. CASE UpdateAndSave
    BY <1>1, <1>3, <1>8 DEF UpdateAndSave, Update, Choose, WriteFile, WriteGauge, Highest, memory,
                            TypeOK
  <1>9. CASE CrashInWrite
    BY <1>1, <1>9 DEF CrashInWrite
  <1>10. CASE Backup
    BY <1>3, <1>10 DEF Backup, memory
  <1>11. CASE UNCHANGED vars
    BY <1>3, <1>11 DEF vars, memory
  <1> QED BY <1>4, <1>5, <1>6, <1>7, <1>8, <1>9, <1>10, <1>11 DEF Next

\* As long as at most the opening of files for writing failed, the file never goes
\* back.
THEOREM CycleFileKept == Spec => FileKept
  <1>1. Init => MemoryAhead
    BY DEF Init, MemoryAhead
  <1>2. TypeOK /\ MemoryAhead /\ [Next]_vars
           => MemoryAhead' /\ [failed' # "any" => file' >= file]_vars
    BY StepKept
  <1> QED BY <1>1, <1>2, CycleTypeCorrect, PTL DEF Spec, FileKept

\* For the same faults: with no failed access since the trigger the gauge has the
\* highest count that was ever saved, however often it forgot it.
THEOREM CycleNeverBack == Spec => []NeverBack
  <1>1. Init => MemoryAhead
    BY DEF Init, MemoryAhead
  <1>2. TypeOK /\ MemoryAhead /\ [Next]_vars => MemoryAhead'
    BY StepKept
  <1>3. TypeOK /\ MemoryAhead /\ GaugeRestored => NeverBack
    BY DEF TypeOK, MemoryAhead, GaugeRestored, NeverBack
  <1> QED BY <1>1, <1>2, <1>3, CycleTypeCorrect, CycleRestored, PTL DEF Spec

-----------------------------------------------------------------------------
\* Where the gauge may be before the file when no access fails: not at all from a
\* restore to the first update; then by one cycle, and by a second only when what
\* the level rose since the last backup completed it.
Behind ==
    /\ gauge <= file + 2
    /\ gauge = file + 2 => charged < soc_inc
    /\ saved_soc = -1 => gauge <= file

LagInv ==
    /\ saved_soc # -1 => at # "down" /\ saved_soc = level
    /\ at # "down" => sw_cycles = file
    /\ at = "save" => hw_cycles = gauge
    /\ at = "idle" => Behind

\* An update below the trigger keeps the gauge within two cycles of the file.
LEMMA BackupBehind == TypeOK /\ LagInv /\ Backup => LagInv'
  <1> SUFFICES ASSUME TypeOK, LagInv, Backup PROVE LagInv'
    OBVIOUS
  <1>1. PICK l \in 0..Full : LevelTo(l) /\ (BackupFirst(l) \/ BackupLater(l))
    BY DEF Backup
  <1>2. /\ level \in Int /\ charged \in Int /\ gauge \in Int /\ file \in Int
        /\ saved_soc \in Int /\ soc_inc \in Int /\ Full \in Int /\ Trigger \in Int /\ l \in Int
        /\ charged >= 0 /\ charged < Full /\ soc_inc >= 0 /\ Trigger <= Full /\ l >= 0
        /\ saved_soc >= -1 /\ level >= 0 /\ l - level <= Full
    BY <1>1, CycleAssumption DEF TypeOK
  <1>3. at = "idle" /\ Behind /\ sw_cycles = file /\ (saved_soc # -1 => saved_soc = level)
    BY DEF Backup, LagInv
  <1>4. /\ file' = file /\ sw_cycles' = sw_cycles /\ at' \in {"sys", "idle"}
        /\ level' = l /\ saved_soc' = l
    BY <1>1, <1>3 DEF Backup, memory, LevelTo, BackupFirst, BackupLater
  <1>5. ASSUME at' = "idle" PROVE Behind'
    <2>1. CASE BackupFirst(l)
      <3>1. saved_soc = -1 /\ gauge <= file
        BY <2>1, <1>3 DEF BackupFirst, Behind
      <3>2. gauge' <= gauge + 1 /\ gauge' \in Int
        BY <1>1, <1>2 DEF LevelTo
      <3> QED BY <3>1, <3>2, <1>2, <1>4 DEF Behind
    <2>2. CASE BackupLater(l)
      <3>1. saved_soc = level /\ soc_inc' = soc_inc + Highest(l - level, 0)
        BY <2>2, <1>3 DEF BackupLater, Increase
      <3>2. soc_inc' < Trigger
        <4>1. soc_inc' \in Int
          BY <3>1, <1>2 DEF Highest
        <4>2. CASE soc_inc' >= Trigger
          BY <4>2, <2>2, <1>5 DEF BackupLater
        <4> QED BY <4>1, <4>2, <1>2
      <3>3. PICK d \in Nat : d = Highest(l - level, 0) /\ d <= Full
        BY <1>2 DEF Highest
      <3>4. CASE charged + d < Full
        <4>1. charged' = charged + d /\ gauge' = gauge
          BY <3>3, <3>4, <1>1, <1>2 DEF LevelTo
        <4>2. charged < soc_inc => charged' < soc_inc'
          BY <4>1, <3>1, <3>3, <1>2
        <4> QED BY <4>1, <4>2, <3>1, <1>2, <1>3, <1>4, <2>2 DEF Behind, BackupLater
      <3>5. CASE charged + d >= Full
        <4>1. charged' = charged + d - Full /\ gauge' = gauge + 1
          BY <3>3, <3>5, <1>1, <1>2 DEF LevelTo
        <4>2. gauge # file + 2
          BY <3>1, <3>2, <3>3, <3>5, <1>2, <1>3 DEF Behind
        <4>3. charged' < soc_inc'
          BY <4>1, <3>1, <3>3, <1>2
        <4> QED BY <4>1, <4>2, <4>3, <1>2, <1>3, <1>4 DEF Behind
      <3> QED BY <3>4, <3>5, <3>3, <1>2
    <2> QED BY <1>1, <2>1, <2>2
  <1> QED BY <1>3, <1>4, <1>5 DEF LagInv

\* A step in which nothing failed yet follows one of which that is true too.
LEMMA NothingFailed ==
    [Next]_vars /\ failed' = "none" =>
        /\ failed = "none"
        /\ \A how \in {"open", "any"} : ~Fails(how)
  <1>1. \A how \in {"open", "any"} : Fails(how) => failed' # "none"
    BY DEF Fails
  <1>2. [Next]_vars /\ failed' = "none" => failed = "none"
    BY DEF Next, Reboot, ChargeDown, Restore, ReadGauge, UpdateAndSave, Update, Choose, WriteFile,
           WriteGauge, CrashInWrite, Backup, Fails, faults, vars
  <1> QED BY <1>1, <1>2

\* As long as nothing failed every step keeps the gauge within two cycles of the
\* file.
LEMMA StepLag ==
    TypeOK /\ (failed = "none" => LagInv) /\ [Next]_vars => (failed' = "none" => LagInv')
  <1> SUFFICES ASSUME TypeOK, LagInv, [Next]_vars, ~Fails("open"), ~Fails("any") PROVE LagInv'
    BY NothingFailed
  <1>1. CASE Reboot
    BY <1>1 DEF Reboot, Down, LagInv
  <1>2. CASE ChargeDown
    BY <1>2 DEF ChargeDown, LagInv, memory, charge
  <1>3. CASE Restore
    BY <1>3 DEF Restore, LagInv, battery, charge
  <1>4. CASE ReadGauge
    BY <1>4 DEF ReadGauge, LagInv, battery, charge
  <1>5. CASE UpdateAndSave
    <2>1. at = "save" /\ sw_cycles = file /\ hw_cycles = gauge
      BY <1>5 DEF UpdateAndSave, LagInv
    <2>2. gauge' = file' /\ sw_cycles' = file'
      BY <2>1, <1>5 DEF UpdateAndSave, Update, Choose, WriteFile, WriteGauge, memory, TypeOK
    <2>3. gauge' \in Int /\ at' = "idle" /\ saved_soc' = saved_soc /\ level' = level
      BY <1>5, SaveTypeOK DEF UpdateAndSave, battery, TypeOK
    <2>4. \A a, b \in Int : a = b => a <= b /\ a <= b + 2 /\ a # b + 2
      OBVIOUS
    <2>5. Behind'
      BY <2>2, <2>3, <2>4, Zenon DEF Behind
    <2> QED BY <2>1, <2>2, <2>3, <2>5 DEF LagInv
  <1>6. CASE CrashInWrite
    BY <1>6 DEF CrashInWrite
  <1>7. CASE Backup
    BY <1>7, BackupBehind
  <1>8. CASE UNCHANGED vars
    BY <1>8 DEF vars, battery, memory, charge, LagInv, Behind
  <1> QED BY <1>1, <1>2, <1>3, <1>4, <1>5, <1>6, <1>7, <1>8 DEF Next

\* As long as nothing failed, the file is at most two cycles behind the gauge, for
\* every level and every trigger up to a full battery.
THEOREM CycleLagBounded == Spec => []LagBounded
  <1>1. Init => (failed = "none" => LagInv)
    BY DEF Init, LagInv
  <1>2. TypeOK /\ (failed = "none" => LagInv) /\ [Next]_vars => (failed = "none" => LagInv)'
    BY StepLag
  <1>3. (failed = "none" => LagInv) => LagBounded
    BY DEF LagInv, Behind, LagBounded
  <1> QED BY <1>1, <1>2, <1>3, CycleTypeCorrect, PTL DEF Spec

-----------------------------------------------------------------------------
(* The learned capacity. *)

\* The initial state is in the types.
LEMMA CapacityInit == LCInit => LCTypeOK
  <1> SUFFICES ASSUME LCInit PROVE LCTypeOK
    OBVIOUS
  <1>1. 0 \in Capacity /\ Design \in Capacity /\ 0 \in 0..LCTrigger /\ 0 < LCTrigger
    BY CapacityAssumption DEF Capacity
  <1> QED BY <1>1, Zenon DEF LCInit, LCTypeOK

\* What UpdateAndSave may leave in each variable.
LEMMA CapacitySave ==
    ASSUME LCUpdateAndSave
    PROVE  /\ sw_cap' \in {sw_cap, hw_cap} /\ hw_cap' \in {sw_cap, hw_cap}
           /\ saved_full' \in {saved_full, hw_cap, 0} /\ lowest' \in {lowest, hw_cap}
           /\ charge_full' \in {charge_full, sw_cap}
           /\ lc_clean' = lc_clean \/ lc_clean' = FALSE
           /\ lc_failed \in BOOLEAN => lc_failed' \in BOOLEAN
  <1>1. sw_cap' \in {sw_cap, hw_cap} /\ hw_cap' \in {sw_cap, hw_cap}
    BY DEF LCUpdateAndSave, LCUpdate, LCChoose, LCmemory
  <1>2. saved_full' \in {saved_full, hw_cap, 0} /\ lowest' \in {lowest, hw_cap}
    BY DEF LCUpdateAndSave, LCUpdate, LCChoose, SaveToPersistStorage, Lowest
  <1>3. charge_full' \in {charge_full, sw_cap}
    BY DEF LCUpdateAndSave, LCUpdate, LCChoose, SaveToSRAM
  <1>4. lc_clean' = lc_clean \/ lc_clean' = FALSE
    BY Zenon DEF LCUpdateAndSave, LCUpdate, LCChoose, SaveToPersistStorage, SaveToSRAM,
                 LCFails
  <1>5. LCFails("open") \/ LCFails("any") => lc_failed' \in BOOLEAN
    BY DEF LCFails
  <1>6. lc_failed' = lc_failed \/ LCFails("open") \/ LCFails("any")
    <2>1. \A c : SaveToPersistStorage(c)
                  => lc_failed' = lc_failed \/ LCFails("open") \/ LCFails("any")
      BY Zenon DEF SaveToPersistStorage
    <2>2. \A c : SaveToSRAM(c)
                  => lc_failed' = lc_failed \/ LCFails("open") \/ LCFails("any")
      BY Zenon DEF SaveToSRAM
    <2> QED BY <2>1, <2>2, Zenon DEF LCUpdateAndSave, LCUpdate, LCChoose
  <1>7. lc_failed \in BOOLEAN => lc_failed' \in BOOLEAN
    BY <1>5, <1>6, Zenon
  <1> QED BY <1>1, <1>2, <1>3, <1>4, <1>7, Zenon

\* A step keeps to the types.
LEMMA CapacityStep == LCTypeOK /\ [LCNext]_LCvars => LCTypeOK'
  <1> SUFFICES ASSUME LCTypeOK, [LCNext]_LCvars PROVE LCTypeOK'
    OBVIOUS
  <1>1. CASE Learn
    BY <1>1 DEF Learn, LCTypeOK, Capacity, LCmemory
  <1>2. CASE LCReboot
    BY <1>2, CapacityAssumption DEF LCReboot, LCDown, LCTypeOK, Capacity, history
  <1>3. CASE LCRestore
    BY <1>3 DEF LCRestore, LCFails, LCTypeOK, Capacity
  <1>4. CASE ReadFromSRAM
    BY <1>4 DEF ReadFromSRAM, LCFails, LCTypeOK, Capacity
  <1>5. CASE LCUpdateAndSave
    <2>1. /\ sw_cap' \in Capacity /\ hw_cap' \in Capacity /\ charge_full' \in Capacity
          /\ saved_full' \in Capacity /\ lowest' \in Capacity
      BY <1>5, CapacitySave, CapacityAssumption DEF LCTypeOK, Capacity
    <2>2. lc_clean' \in BOOLEAN /\ lc_failed' \in BOOLEAN
      BY <1>5, CapacitySave, Zenon DEF LCTypeOK
    <2> QED BY <2>1, <2>2, <1>5, CapacityAssumption DEF LCUpdateAndSave, LCTypeOK
  <1>6. CASE CrashInSave
    <2>1. lc_clean' = FALSE /\ lc_failed' = TRUE
      <3>1. lc_clean' = FALSE /\ lc_failed' = (lc_failed \/ "any" = "any")
        BY <1>6, Zenon DEF CrashInSave, LCFails
      <3> QED BY <3>1, Zenon
    <2>2. lc_clean' \in BOOLEAN /\ lc_failed' \in BOOLEAN
      BY <2>1, Zenon
    <2> QED BY <1>6, <2>2, CapacityAssumption DEF CrashInSave, LCDown, LCTypeOK, Capacity
  <1>7. CASE LCBackup
    <2>1. cap_inc \in 0..(LCTrigger - 1) /\ cap_inc' = cap_inc + 1 /\ lc_at = "idle"
      BY <1>7, CapacityAssumption DEF LCBackup, LCTypeOK
    <2>2. CASE lc_at' = "sram" /\ lc_clean' = TRUE
      BY <2>1, <2>2, <1>7, CapacityAssumption DEF LCBackup, LCTypeOK, LCmemory
    <2>3. CASE cap_inc + 1 < LCTrigger /\ UNCHANGED <<lc_at, lc_clean>>
      BY <2>1, <2>3, <1>7, CapacityAssumption DEF LCBackup, LCTypeOK, LCmemory
    <2> QED BY <2>2, <2>3, <1>7 DEF LCBackup
  <1>8. CASE UNCHANGED LCvars
    BY <1>8 DEF LCvars, LCmemory, history, LCTypeOK
  <1> QED BY <1>1, <1>2, <1>3, <1>4, <1>5, <1>6, <1>7, <1>8 DEF LCNext

\* Every variable keeps to its set; a service at rest is below its trigger.
THEOREM CapacityTypeCorrect == LCSpec => []LCTypeOK
  BY CapacityInit, CapacityStep, PTL DEF LCSpec

-----------------------------------------------------------------------------
\* What was read from the gauge is its capacity, until it learns or that is used.
CapacityRead == lc_at = "save" /\ lc_clean /\ ~learned => hw_cap = charge_full

\* A step keeps what was read and what was restored, whatever may fail.
LEMMA CapacityStepRestored ==
    LCTypeOK /\ CapacityRead /\ CapacityRestored /\ [LCNext]_LCvars
       => CapacityRead' /\ CapacityRestored'
  <1> SUFFICES ASSUME LCTypeOK, CapacityRead, CapacityRestored, [LCNext]_LCvars
               PROVE  CapacityRead' /\ CapacityRestored'
    OBVIOUS
  <1>1. CASE Learn
    BY <1>1 DEF Learn, CapacityRead, CapacityRestored
  <1>2. CASE LCReboot
    BY <1>2 DEF LCReboot, LCDown, CapacityRead, CapacityRestored
  <1>3. CASE LCRestore
    BY <1>3 DEF LCRestore, LCFails, CapacityRead, CapacityRestored
  <1>4. CASE ReadFromSRAM
    BY <1>4 DEF ReadFromSRAM, LCFails, CapacityRead, CapacityRestored
  <1>5. CASE LCUpdateAndSave
    <2>1. CapacityRead'
      BY <1>5 DEF LCUpdateAndSave, CapacityRead
    <2>2. ASSUME lc_clean', ~learned', charge_full' # 0 PROVE charge_full' <= sw_cap'
      <3>1. lc_clean /\ ~learned
        BY <2>2, <1>5, CapacitySave, Zenon DEF LCUpdateAndSave
      <3>2. hw_cap = charge_full
        BY <3>1, <1>5 DEF CapacityRead, LCUpdateAndSave
      <3>3. CASE hw_cap # 0 /\ Below(hw_cap, sw_cap)
        <4>1. sw_cap' = hw_cap /\ charge_full' = charge_full
          BY <3>3, <1>5 DEF LCUpdateAndSave, LCUpdate, LCChoose, Below, LCTypeOK, Capacity
        <4> QED BY <4>1, <3>2 DEF LCTypeOK, Capacity
      <3>4. CASE hw_cap # 0 /\ hw_cap > sw_cap /\ sw_cap # 0
        <4>1. sw_cap' = sw_cap /\ SaveToSRAM(sw_cap)
          BY <3>4, <1>5 DEF LCUpdateAndSave, LCUpdate, LCChoose, Below, LCTypeOK, Capacity
        <4>2. charge_full' = sw_cap
          BY <4>1, <2>2, Zenon DEF SaveToSRAM, LCFails
        <4> QED BY <4>1, <4>2 DEF LCTypeOK, Capacity
      <3>5. CASE /\ ~(hw_cap # 0 /\ Below(hw_cap, sw_cap))
                 /\ ~(hw_cap # 0 /\ hw_cap > sw_cap /\ sw_cap # 0)
        <4>1. sw_cap' = sw_cap /\ charge_full' = charge_full
          BY <3>5, <1>5, Zenon DEF LCUpdateAndSave, LCUpdate, LCChoose, LCmemory
        <4> QED BY <4>1, <3>2, <3>5, <2>2 DEF Below, LCTypeOK, Capacity
      <3> QED BY <3>3, <3>4, <3>5
    <2> QED BY <2>1, <2>2, Zenon DEF CapacityRestored
  <1>6. CASE CrashInSave
    BY <1>6 DEF CrashInSave, LCDown, CapacityRead, CapacityRestored
  <1>7. CASE LCBackup
    BY <1>7 DEF LCBackup, LCmemory, CapacityRead, CapacityRestored
  <1>8. CASE UNCHANGED LCvars
    BY <1>8 DEF LCvars, LCmemory, history, CapacityRead, CapacityRestored
  <1> QED BY <1>1, <1>2, <1>3, <1>4, <1>5, <1>6, <1>7, <1>8 DEF LCNext

\* Whatever fails, a service with no failed access since its trigger leaves the
\* gauge with no more than the capacity it restores, until the gauge learns.
THEOREM CapacityIsRestored == LCSpec => []CapacityRestored
  <1>1. LCInit => CapacityRead /\ CapacityRestored
    BY DEF LCInit, CapacityRead, CapacityRestored
  <1> QED BY <1>1, CapacityTypeCorrect, CapacityStepRestored, PTL DEF LCSpec

-----------------------------------------------------------------------------
\* The memory of a service that is up has all that was saved, and so has the file,
\* as long as at most the opening of files for writing failed.
CapacityAhead ==
    ~lc_failed => /\ saved_full = lowest
                  /\ lc_at # "down" /\ saved_full # 0 => sw_cap # 0 /\ sw_cap <= saved_full

\* What fails otherwise is remembered.
LEMMA CapacityFails == LCTypeOK /\ LCFails("any") => lc_failed'
  BY DEF LCFails

\* A step keeps the memory ahead of the file; what was saved is replaced by less
\* only.
LEMMA CapacityStepKept ==
    LCTypeOK /\ CapacityAhead /\ [LCNext]_LCvars
       => /\ CapacityAhead'
          /\ ~lc_failed' /\ saved_full # 0 => saved_full' # 0 /\ saved_full' <= saved_full
  <1> SUFFICES ASSUME LCTypeOK, CapacityAhead, [LCNext]_LCvars, ~lc_failed'
               PROVE  /\ saved_full' = lowest'
                      /\ lc_at' # "down" /\ saved_full' # 0
                            => sw_cap' # 0 /\ sw_cap' <= saved_full'
                      /\ saved_full # 0 => saved_full' # 0 /\ saved_full' <= saved_full
    BY DEF CapacityAhead
  <1>1. ~LCFails("any")
    BY CapacityFails
  <1>2. ~lc_failed
    BY DEF LCNext, Learn, LCReboot, LCRestore, ReadFromSRAM, LCUpdateAndSave, LCUpdate,
           LCChoose,
           SaveToPersistStorage, SaveToSRAM, CrashInSave, LCBackup, LCFails, history, LCvars
  <1>3. /\ saved_full = lowest
        /\ lc_at # "down" /\ saved_full # 0 => sw_cap # 0 /\ sw_cap <= saved_full
    BY <1>2 DEF CapacityAhead
  <1>4. saved_full \in Nat /\ sw_cap \in Nat /\ hw_cap \in Nat
    BY CapacityAssumption DEF LCTypeOK, Capacity
  <1>5. CASE Learn
    BY <1>3, <1>4, <1>5 DEF Learn, LCmemory
  <1>6. CASE LCReboot
    BY <1>3, <1>4, <1>6 DEF LCReboot, LCDown, history
  <1>7. CASE LCRestore
    BY <1>1, <1>3, <1>4, <1>7 DEF LCRestore
  <1>8. CASE ReadFromSRAM
    BY <1>1, <1>3, <1>4, <1>8 DEF ReadFromSRAM
  <1>9. CASE LCUpdateAndSave
    BY <1>1, <1>3, <1>4, <1>9 DEF LCUpdateAndSave, LCUpdate, LCChoose, SaveToPersistStorage,
                                  SaveToSRAM, Below, Lowest, LCmemory
  <1>10. CASE CrashInSave
    BY <1>1, <1>10 DEF CrashInSave
  <1>11. CASE LCBackup
    BY <1>3, <1>4, <1>11 DEF LCBackup, LCmemory
  <1>12. CASE UNCHANGED LCvars
    BY <1>3, <1>4, <1>12 DEF LCvars, LCmemory, history
  <1> QED BY <1>5, <1>6, <1>7, <1>8, <1>9, <1>10, <1>11, <1>12 DEF LCNext

\* As long as at most the opening of files for writing failed, what is saved is
\* only replaced by a lower capacity.
THEOREM LowestIsKept == LCSpec => LowestKept
  <1>1. LCInit => CapacityAhead
    BY DEF LCInit, CapacityAhead
  <1>2. LCTypeOK /\ CapacityAhead /\ [LCNext]_LCvars
           => /\ CapacityAhead'
              /\ [~lc_failed' /\ saved_full # 0
                    => saved_full' # 0 /\ saved_full' <= saved_full]_LCvars
    BY CapacityStepKept
  <1> QED BY <1>1, <1>2, CapacityTypeCorrect, PTL DEF LCSpec, LowestKept

\* For the same faults: the gauge has no more than the lowest capacity that was
\* ever saved, until it learns, however often it lost power.
THEOREM CapacityNeverGrows == LCSpec => []NeverGrows
  <1>1. LCInit => CapacityAhead
    BY DEF LCInit, CapacityAhead
  <1>2. LCTypeOK /\ CapacityAhead /\ [LCNext]_LCvars => CapacityAhead'
    BY CapacityStepKept
  <1>3. LCTypeOK /\ CapacityAhead /\ CapacityRestored => NeverGrows
    BY DEF LCTypeOK, Capacity, CapacityAhead, CapacityRestored, NeverGrows
  <1> QED BY <1>1, <1>2, <1>3, CapacityTypeCorrect, CapacityIsRestored, PTL DEF LCSpec

=============================================================================
