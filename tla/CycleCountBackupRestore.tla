---------------------- MODULE CycleCountBackupRestore ----------------------
(***************************************************************************)
(* The backup of the battery's cycle count (hardware/health/CycleCount-    *)
(* BackupRestore.cpp).  The fuel gauge counts the cycles and forgets them  *)
(* when it loses power; the health service keeps the higher of the gauge's *)
(* count and a file's in both.  A count of 0 stands for a file that is     *)
(* missing, empty or no number as well: Read leaves the 0 of the           *)
(* constructor then.                                                       *)
(*                                                                         *)
(* Outside src/: the gauge, which counts a cycle when the level has risen  *)
(* by Full in all; the callers, which report every change of the level and *)
(* are faster than it; WriteStringToFile, which empties the file when it   *)
(* opens it and removes it when it cannot write it.                        *)
(***************************************************************************)
EXTENDS Integers

CONSTANTS
    Full,       \* the level of a full battery: 100
    Trigger,    \* kCCBackupTrigger: 20
    Limit       \* bound: the cycles the gauge counts

ASSUME CycleAssumption == Full \in Nat \ {0} /\ Trigger \in 1..Full /\ Limit \in Nat

VARIABLES
    level, charged,      \* the gauge: the level, what it rose since a cycle,
    gauge,               \* and the cycles counted (kSysCycleFile)
    file,                \* kPersistCycleFile
    sw_cycles, hw_cycles, saved_soc, soc_inc,
    at,                  \* down, sys (before Read of the gauge), save or idle
    clean,               \* no access failed since the last trigger (history)
    failed,              \* what failed so far (history): "none", "open" (only
                         \* opening for a write) or "any"
    best                 \* the highest count that was saved (history)

battery == <<level, charged>>
memory == <<sw_cycles, hw_cycles>>
charge == <<saved_soc, soc_inc>>
faults == <<clean, failed>>
vars == <<battery, gauge, file, memory, charge, at, faults, best>>

Highest(a, b) == IF a > b THEN a ELSE b

Init ==
    /\ level \in 0..Full /\ charged = 0 /\ gauge = 0
    /\ file = 0 /\ best = 0
    /\ sw_cycles = 0 /\ hw_cycles = 0 /\ saved_soc = -1 /\ soc_inc = 0
    /\ at = "down" /\ clean = TRUE /\ failed = "none"

-----------------------------------------------------------------------------
\* An access fails.
Fails(how) == clean' = FALSE /\ failed' = IF failed = "any" THEN "any" ELSE how

\* The level becomes l; at most one cycle is completed.
LevelTo(l) ==
    LET rise == charged + Highest(l - level, 0)
    IN  /\ level' = l
        /\ \/ rise < Full /\ charged' = rise /\ gauge' = gauge
           \/ rise >= Full /\ charged' = rise - Full /\ gauge' = gauge + 1 /\ gauge < Limit

\* The service is restarted or the device rebooted; the gauge may lose power.
Down ==
    /\ at' = "down"
    /\ sw_cycles' = 0 /\ hw_cycles' = 0 /\ saved_soc' = -1 /\ soc_inc' = 0

Reboot == Down /\ gauge' \in {gauge, 0} /\ UNCHANGED <<battery, file, faults, best>>

ChargeDown ==
    /\ at = "down"
    /\ \E l \in 0..Full : LevelTo(l)
    /\ UNCHANGED <<file, memory, charge, at, faults, best>>

\* Restore: Read(kPersistCycleFile).
Restore ==
    /\ at = "down"
    /\ at' = "sys"
    /\ \/ sw_cycles' = file /\ clean' = TRUE /\ UNCHANGED failed
       \/ sw_cycles' = sw_cycles /\ Fails("any")
    /\ UNCHANGED <<battery, gauge, file, hw_cycles, charge, best>>

\* Restore and a triggered Backup: Read(kSysCycleFile).
ReadGauge ==
    /\ at = "sys"
    /\ at' = "save"
    /\ \/ hw_cycles' = gauge /\ UNCHANGED faults
       \/ UNCHANGED hw_cycles /\ Fails("any")
    /\ UNCHANGED <<battery, gauge, file, sw_cycles, charge, best>>

\* Write to the file: done, not opened, removed, or cut off by a crash.
WriteFile(c) ==
    \/ file' = c /\ best' = Highest(best, c) /\ UNCHANGED faults
    \/ UNCHANGED <<file, best>> /\ Fails("open")
    \/ file' = 0 /\ Fails("any") /\ UNCHANGED best

\* Write to the gauge, which keeps its count when that fails.
WriteGauge(c) ==
    \/ gauge' = c /\ UNCHANGED faults
    \/ UNCHANGED gauge /\ Fails("open")

\* Mutants of Update: the gauge's count is always saved; nothing is restored.
Choose(higher, lower) ==
    \/ /\ lower
       /\ hw_cycles' = sw_cycles
       /\ WriteGauge(sw_cycles)
       /\ UNCHANGED <<sw_cycles, file, best>>
    \/ /\ higher
       /\ sw_cycles' = hw_cycles
       /\ WriteFile(hw_cycles)
       /\ UNCHANGED <<hw_cycles, gauge>>
    \/ ~higher /\ ~lower /\ UNCHANGED <<memory, gauge, file, best, faults>>
Update_GaugeWins == Choose(hw_cycles # sw_cycles, FALSE)
Update_NotRestored == Choose(hw_cycles > sw_cycles, FALSE)

\* UpdateAndSave: the higher count of the two in both places.
Update == Choose(hw_cycles > sw_cycles, hw_cycles < sw_cycles)

\* ... and soc_inc = 0 in Backup; Restore finds it 0.
UpdateAndSave ==
    /\ at = "save"
    /\ Update
    /\ at' = "idle" /\ soc_inc' = 0
    /\ UNCHANGED <<battery, saved_soc>>

CrashInWrite ==
    /\ at = "save" /\ hw_cycles > sw_cycles
    /\ file' = 0 /\ Fails("any")
    /\ Down /\ gauge' \in {gauge, 0}
    /\ UNCHANGED <<battery, best>>

\* Backup(l) for every update.  Mutant: what a level that falls again had risen
\* is taken back.
Increase_Net(l) == Highest(l - saved_soc, -soc_inc)
Increase(l) == Highest(l - saved_soc, 0)

BackupFirst(l) ==
    /\ saved_soc = -1
    /\ saved_soc' = l
    /\ UNCHANGED <<soc_inc, at, clean>>
BackupLater(l) ==
    /\ saved_soc # -1
    /\ saved_soc' = l
    /\ soc_inc' = soc_inc + Increase(l)
    /\ IF soc_inc' >= Trigger THEN at' = "sys" /\ clean' = TRUE ELSE UNCHANGED <<at, clean>>

Backup ==
    /\ at = "idle"
    /\ \E l \in 0..Full : LevelTo(l) /\ (BackupFirst(l) \/ BackupLater(l))
    /\ UNCHANGED <<file, memory, failed, best>>

Next == Reboot \/ ChargeDown \/ Restore \/ ReadGauge \/ UpdateAndSave \/ CrashInWrite \/ Backup

Spec == Init /\ [][Next]_vars

-----------------------------------------------------------------------------
TypeOK ==
    /\ level \in 0..Full /\ charged \in 0..(Full - 1) /\ gauge \in 0..Limit
    /\ file \in 0..Limit /\ best \in 0..Limit
    /\ sw_cycles \in 0..Limit /\ hw_cycles \in 0..Limit
    /\ saved_soc \in -1..Full
    /\ soc_inc \in 0..(Trigger + Full - 1) /\ (at = "idle" => soc_inc < Trigger)
    /\ at \in {"down", "sys", "save", "idle"} 
    /\ clean \in BOOLEAN /\ failed \in {"none", "open", "any"}

\* As long as at most the opening of files for writing failed, the file never
\* goes back: what it had is only replaced by a higher count ("If one is higher
\* than the other, restore the higher value").
FileKept == [][failed' # "any" => file' >= file]_vars

\* For the same faults, a service that had no failed access since it was triggered
\* or started leaves the gauge with the highest count that was ever saved, however
\* often the gauge forgot it ("Persist battery cycle count ... across device
\* resets").
NeverBack == failed # "any" /\ at = "idle" /\ clean => gauge >= best

\* As long as nothing failed, the file is at most two cycles behind the gauge: less
\* than Full before the first update, less than Trigger since the last backup.
LagBounded == failed = "none" /\ at = "idle" => gauge <= file + 2

\* Whatever failed, crashed or was lost before: when the accesses since the last
\* trigger succeeded, the gauge has the count that the service restores.
GaugeRestored == at = "idle" /\ clean => gauge >= sw_cycles

-----------------------------------------------------------------------------
\* Not so in this code: a backup whose accesses all succeed saves what it read
\* from the gauge (a count whose write failed is in sw_cycles and not tried again).
CleanSaves == at = "idle" /\ clean => file >= hw_cycles

=============================================================================
