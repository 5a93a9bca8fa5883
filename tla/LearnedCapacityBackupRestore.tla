-------------------- MODULE LearnedCapacityBackupRestore --------------------
(***************************************************************************)
(* The backup of the battery's learned capacity (hardware/health/Learned-  *)
(* CapacityBackupRestore.cpp).  The fuel gauge learns how much the battery *)
(* holds and goes back to the capacity it was built with, or to none, when *)
(* it loses power; the health service keeps the lower of the gauge's       *)
(* capacity and a file's in both.  0 stands for a file that is missing,    *)
(* empty or no number as well: sw_cap_ keeps the 0 of a static object.     *)
(* LC tells its names from those of CycleCountBackupRestore.               *)
(*                                                                         *)
(* Outside src/: the gauge, which may learn at any moment, and             *)
(* WriteStringToFile, which empties the file when it opens it and removes  *)
(* it when it cannot write it.                                             *)
(***************************************************************************)
EXTENDS Integers

CONSTANTS
    Design,     \* the capacity the battery was built with
    LCTrigger   \* kLCBackupTrigger: 8

ASSUME CapacityAssumption == Design \in Nat \ {0} /\ LCTrigger \in Nat \ {0}

VARIABLES
    charge_full,         \* kSysChargeFullFile
    saved_full,          \* kPersistChargeFullFile
    sw_cap, hw_cap, cap_inc,
    lc_at,               \* down, sram (before ReadFromSRAM), save or idle
    lc_clean,            \* no access failed since the last trigger (history)
    lc_failed,           \* something else than opening for a write did (history)
    learned,             \* the gauge learned since ReadFromSRAM (history)
    lowest               \* the lowest capacity saved, 0 if none (history)

LCmemory == <<sw_cap, hw_cap>>
history == <<lc_clean, lc_failed, learned, lowest>>
LCvars == <<charge_full, saved_full, LCmemory, cap_inc, lc_at, history>>

Capacity == 0..Design
Below(a, b) == a < b \/ b = 0          \* capacity a replaces b
Lowest(a, b) == IF Below(a, b) THEN a ELSE b

LCInit ==
    /\ charge_full \in {0, Design} /\ saved_full = 0
    /\ sw_cap = 0 /\ hw_cap = 0 /\ cap_inc = 0
    /\ lc_at = "down" /\ lc_clean = TRUE /\ lc_failed = FALSE
    /\ learned = FALSE /\ lowest = 0

-----------------------------------------------------------------------------
\* An access fails.
LCFails(how) == lc_clean' = FALSE /\ lc_failed' = (lc_failed \/ how = "any")

Learn ==
    /\ charge_full' \in 1..Design
    /\ learned' = TRUE
    /\ UNCHANGED <<saved_full, LCmemory, cap_inc, lc_at, lc_clean, lc_failed, lowest>>

\* The service is restarted or the device rebooted; the gauge may lose power.
LCDown ==
    /\ lc_at' = "down" /\ charge_full' \in {charge_full, 0, Design}
    /\ sw_cap' = 0 /\ hw_cap' = 0 /\ cap_inc' = 0

LCReboot == LCDown /\ UNCHANGED <<saved_full, history>>

\* Restore: ReadFromPersistStorage.
LCRestore ==
    /\ lc_at = "down"
    /\ lc_at' = "sram"
    /\ \/ sw_cap' = saved_full /\ lc_clean' = TRUE /\ UNCHANGED lc_failed
       \/ UNCHANGED sw_cap /\ LCFails("any")
    /\ UNCHANGED <<charge_full, saved_full, hw_cap, cap_inc, learned, lowest>>

ReadFromSRAM ==
    /\ lc_at = "sram"
    /\ lc_at' = "save"
    /\ \/ hw_cap' = charge_full /\ learned' = FALSE /\ UNCHANGED <<lc_clean, lc_failed>>
       \/ LCFails("any") /\ UNCHANGED <<hw_cap, learned>>
    /\ UNCHANGED <<charge_full, saved_full, sw_cap, cap_inc, lowest>>

\* SaveToPersistStorage: done, not opened, or removed.
SaveToPersistStorage(c) ==
    \/ saved_full' = c /\ lowest' = Lowest(c, lowest) /\ UNCHANGED <<lc_clean, lc_failed>>
    \/ LCFails("open") /\ UNCHANGED <<saved_full, lowest>>
    \/ saved_full' = 0 /\ LCFails("any") /\ UNCHANGED lowest

\* SaveToSRAM, which leaves the gauge's capacity alone when it fails.
SaveToSRAM(c) ==
    \/ charge_full' = c /\ UNCHANGED <<lc_clean, lc_failed>>
    \/ LCFails("open") /\ UNCHANGED charge_full

LCChoose(save, restore) ==
    \/ /\ save
       /\ sw_cap' = hw_cap
       /\ SaveToPersistStorage(hw_cap)
       /\ UNCHANGED <<hw_cap, charge_full>>
    \/ /\ restore
       /\ hw_cap' = sw_cap
       /\ SaveToSRAM(sw_cap)
       /\ UNCHANGED <<sw_cap, saved_full, lowest>>
    \/ /\ ~save /\ ~restore
       /\ UNCHANGED <<LCmemory, charge_full, saved_full, lowest, lc_clean, lc_failed>>

\* Mutants: a gauge that has learned nothing is saved; nothing is restored.
LCUpdate_NoTest == LCChoose(Below(hw_cap, sw_cap), hw_cap > sw_cap /\ sw_cap # 0)
LCUpdate_NotRestored == LCChoose(hw_cap # 0 /\ Below(hw_cap, sw_cap), FALSE)

\* UpdateAndSave: the lower capacity of the two in both places.
LCUpdate ==
    LCChoose(hw_cap # 0 /\ Below(hw_cap, sw_cap),
           hw_cap # 0 /\ hw_cap > sw_cap /\ sw_cap # 0)

\* ... and cap_inc_ = 0 in Backup; Restore finds it 0.
LCUpdateAndSave ==
    /\ lc_at = "save"
    /\ LCUpdate
    /\ lc_at' = "idle" /\ cap_inc' = 0
    /\ UNCHANGED learned

CrashInSave ==
    /\ lc_at = "save" /\ hw_cap # 0 /\ Below(hw_cap, sw_cap)
    /\ LCDown /\ saved_full' = 0 /\ LCFails("any")
    /\ UNCHANGED <<learned, lowest>>

\* Backup, for every update of the battery.
LCBackup ==
    /\ lc_at = "idle"
    /\ cap_inc' = cap_inc + 1
    /\ \/ cap_inc + 1 >= LCTrigger /\ lc_at' = "sram" /\ lc_clean' = TRUE
       \/ cap_inc + 1 < LCTrigger /\ UNCHANGED <<lc_at, lc_clean>>
    /\ UNCHANGED <<charge_full, saved_full, LCmemory, lc_failed, learned, lowest>>

LCNext ==
    \/ Learn \/ LCReboot \/ LCRestore \/ ReadFromSRAM
    \/ LCUpdateAndSave \/ CrashInSave \/ LCBackup

LCSpec == LCInit /\ [][LCNext]_LCvars

-----------------------------------------------------------------------------
LCTypeOK ==
    /\ charge_full \in Capacity /\ saved_full \in Capacity /\ lowest \in Capacity
    /\ sw_cap \in Capacity /\ hw_cap \in Capacity
    /\ cap_inc \in 0..LCTrigger /\ (lc_at = "idle" => cap_inc < LCTrigger)
    /\ lc_at \in {"down", "sram", "save", "idle"}
    /\ lc_clean \in BOOLEAN /\ lc_failed \in BOOLEAN /\ learned \in BOOLEAN

\* As long as at most the opening of files for writing failed, what is saved is
\* only replaced by a lower capacity, and never by none.
LowestKept ==
    [][~lc_failed' /\ saved_full # 0 => saved_full' # 0 /\ saved_full' <= saved_full]_LCvars

\* For the same faults: when the accesses since the last trigger or start succeeded
\* and the gauge has not learned since, it has no more than the lowest capacity
\* ever saved, however often it went back to the capacity it was built with.
NeverGrows ==
    ~lc_failed /\ lc_at = "idle" /\ lc_clean /\ ~learned /\ lowest # 0 => charge_full <= lowest

\* The same of the capacity that the service holds, whatever failed, crashed or
\* was lost before.
CapacityRestored ==
    lc_at = "idle" /\ lc_clean /\ ~learned /\ charge_full # 0 => charge_full <= sw_cap

-----------------------------------------------------------------------------
\* Not so in this code: the service never raises the gauge's capacity (it does
\* when the gauge learns between the read and the write).
LearnedKept ==
    [][lc_at = "save" /\ lc_at' = "idle" /\ charge_full # 0 => charge_full' <= charge_full]_LCvars

=============================================================================
