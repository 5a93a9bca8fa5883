----------------------------- MODULE BootUpdate -----------------------------
(***************************************************************************)
(* The failsafe update of the boot critical partitions                     *)
(* (hardware/gpt-utils/gpt-utils.cpp): prepare_boot_update(stage) runs     *)
(* prepare_partitions on every LUN of its list, which flips the device     *)
(* between the main and the backup copies of the boot images by rewriting  *)
(* GPT headers, the secondary entries array and, on UFS, the boot LUN.     *)
(*                                                                         *)
(* Every write to a block device is a step of its own, so that the caller  *)
(* can be killed, an I/O can fail and the power can be cut between any     *)
(* two of them.  Outside src/ and modelled from how the code uses them:    *)
(* the boot loader (which table it boots from), the page cache, and the    *)
(* updater that calls the three stages and writes the images.              *)
(***************************************************************************)
EXTENDS Integers, Sequences

CONSTANTS
    LunList,     \* the devices prepare_partitions runs on, in order
    Parts,       \* names of PTN_SWAP_LIST that have a "bak" twin (xbl apart)
    LunOf,       \* the LUN whose GPT lists a part and its twin
    Xbl,         \* the first boot loader, switched by the UFS boot LUN
    IsUfs,       \* gpt_utils_is_ufs_device()
    HasXbl,      \* by-name/xbl and by-name/xblbak both exist
    Damage,      \* what may be wrong with a LUN's tables to begin with
    Faults,      \* the sets of things that may go wrong while the update runs
    Policy       \* which stages the updater calls when

LunSet == {LunList[i] : i \in 1..Len(LunList)}

AllDamage == {"none", "prim_crc", "prim_entries",
              "sec_crc", "sec_entries", "sec_signature"}

ASSUME LunAssumption ==
    /\ LunList \in Seq(LunSet) /\ LunList # <<>>
    /\ \A i, j \in 1..Len(LunList) : LunList[i] = LunList[j] => i = j
    /\ LunOf \in [Parts -> LunSet]
    /\ Xbl \notin Parts
ASSUME DeviceAssumption ==
    /\ IsUfs \in BOOLEAN /\ HasXbl \in BOOLEAN
    /\ ~IsUfs => Len(LunList) = 1
ASSUME EnvironmentAssumption ==
    /\ Damage \subseteq AllDamage /\ Damage # {}
    /\ Faults \subseteq SUBSET {"crash", "io", "power", "short", "sync"}
    /\ Policy \in {"forward", "restart"}

-----------------------------------------------------------------------------
\* enum boot_update_stage
UPDATE_MAIN == 1
UPDATE_BACKUP == 2
UPDATE_FINALIZE == 3
Stage == {UPDATE_MAIN, UPDATE_BACKUP, UPDATE_FINALIZE}

Copy == {"main", "bak"}
Content == {"old", "torn", "new"}

\* The order of the entries array: "normal" lists the main copies first,
\* "swapped" the backups; "torn" matches no checksum.
Order == {"normal", "swapped"}
Entries == Order \cup {"torn"}

\* A GPT header: its signature, whether its CRC is right, and the entries
\* array whose CRC it carries.
Header == [sig : BOOLEAN, crc : BOOLEAN, arr : Order]

\* The blocks of a LUN that hold its two tables.
Block == {"ph", "pe", "sh", "se"}
Table == [ph : Header, pe : Entries, sh : Header, se : Entries]

\* The boot LUN is switched only on UFS with an xbl pair.
SwitchesBootLun == IsUfs /\ HasXbl

\* Every image with two copies the device can be switched between.
Units == Parts \cup (IF SwitchesBootLun THEN {Xbl} ELSE {})

\* Whether gpt_boot_chain_swap finds a pair to swap on l.
HasPairs(l) == \E p \in Parts : LunOf[p] = l

Swapped(e) == IF e = "normal" THEN "swapped" ELSE "normal"

VARIABLES
    disk,        \* disk[l]: the tables of l, as a read returns them
    media,       \* media[l]: the tables of l that a power cut leaves
    bootLun,     \* the UFS boot LUN attribute
    img,         \* img[c][u]: the content of copy c of unit u
    grant,       \* the copies the updater may write now
    pc,          \* where prepare_boot_update is
    stage,       \* its argument
    idx,         \* the position in LunList it has reached
    r,           \* the result of prepare_partitions so far
    failed,      \* is_error: some LUN failed
    rc,          \* what the last call returned
    faults       \* what may go wrong in this behaviour

storage == <<disk, media, bootLun>>
updater == <<img, grant, faults>>
call == <<pc, stage, idx, r, failed, rc>>
vars == <<disk, media, bootLun, img, grant, pc, stage, idx, r, failed, rc, faults>>

PC == {"idle", "state", "bootlun", "chain_hdr", "chain_ents",
       "prim", "sec", "exit"}

Lun == LunList[idx]

-----------------------------------------------------------------------------
(* What the boot loader makes of the tables (external).                    *)

ValidTable(h, e) == h.sig /\ h.crc /\ h.arr = e

\* The order of the table the boot loader uses: the primary one if it is
\* valid, else the secondary one.
BootOrder(d) ==
    CASE ValidTable(d.ph, d.pe) -> d.pe
      [] ~ValidTable(d.ph, d.pe) /\ ValidTable(d.sh, d.se) -> d.se
      [] OTHER -> "none"

CopyOf(o) ==
    CASE o = "normal" -> "main"
      [] o = "swapped" -> "bak"
      [] OTHER -> "none"

BootCopy(u) ==
    IF u = Xbl THEN IF bootLun = "A" THEN "main" ELSE "bak"
               ELSE CopyOf(BootOrder(disk[LunOf[u]]))

-----------------------------------------------------------------------------
CleanHeader == [sig |-> TRUE, crc |-> TRUE, arr |-> "normal"]
CleanTable == [ph |-> CleanHeader, pe |-> "normal",
               sh |-> CleanHeader, se |-> "normal"]

\* A LUN as the factory, or an earlier accident, left it.
Damaged(d) ==
    CASE d = "none" -> CleanTable
      [] d = "prim_crc" -> [CleanTable EXCEPT !.ph.crc = FALSE]
      [] d = "prim_entries" -> [CleanTable EXCEPT !.pe = "torn"]
      [] d = "sec_crc" -> [CleanTable EXCEPT !.sh.crc = FALSE]
      [] d = "sec_entries" -> [CleanTable EXCEPT !.se = "torn"]
      [] d = "sec_signature" -> [CleanTable EXCEPT !.sh.sig = FALSE]

Init ==
    /\ disk \in [LunSet -> {Damaged(d) : d \in Damage}]
    /\ media = disk
    /\ bootLun = "A"
    /\ img = [c \in Copy |-> [u \in Units |-> "old"]]
    /\ grant = "none"
    /\ pc = "idle" /\ stage = UPDATE_FINALIZE
    /\ idx = 1 /\ r = 0 /\ failed = FALSE /\ rc = 0
    /\ faults \in Faults

-----------------------------------------------------------------------------
(* The steps of prepare_partitions.  Each reads the block it is about to   *)
(* change and writes it back.                                              *)

\* gpt_get_state: a wrong CRC outweighs a wrong signature, and the entries
\* array is not looked at.
State(h) == CASE ~h.crc -> "bad_crc"
              [] h.crc /\ ~h.sig -> "bad_signature"
              [] OTHER -> "ok"

\* The stage the tables of a LUN are ready for (internal_stage), 0 for the
\* combinations that abort the call.
InternalStage(d) ==
    LET p == State(d.ph)
        s == State(d.sh)
    IN  CASE p = "ok" /\ s = "ok" -> UPDATE_MAIN
          [] p = "bad_signature" /\ s = "ok" -> UPDATE_BACKUP
          [] p = "ok" /\ s = "bad_signature" -> UPDATE_FINALIZE
          [] OTHER -> 0

\* Mutant: a stage is never found set already.
AlreadySet_Never(s, d) == FALSE

AlreadySet(s, d) == InternalStage(d) # 0 /\ s = InternalStage(d) - 1

\* Mutants: the primary table is corrupted before the secondary one points to
\* the backups; the secondary one before the primary one is fixed; the boot
\* LUN is left alone.
AfterBootLun_Unprepared(s) == "prim"
AfterBootLun_SecondaryFirst(s) == IF s = UPDATE_MAIN THEN "chain_hdr" ELSE "sec"
FirstStep_NoBootLun(s) == IF s = UPDATE_FINALIZE THEN "chain_hdr"
                          ELSE IF s = UPDATE_MAIN THEN "chain_hdr" ELSE "prim"

\* The step that follows the boot LUN switch, and the first step of a stage.
AfterBootLun(s) == IF s = UPDATE_MAIN THEN "chain_hdr" ELSE "prim"
FirstStep(s) == IF s = UPDATE_FINALIZE THEN "chain_hdr"
                ELSE IF SwitchesBootLun THEN "bootlun" ELSE AfterBootLun(s)

\* One write to the device of l, and the block it replaces.
Store(l, t) == disk' = [disk EXCEPT ![l] = t]
WithPrimary(d, h) == [ph |-> h, pe |-> d.pe, sh |-> d.sh, se |-> d.se]
WithSecondary(d, h) == [ph |-> d.ph, pe |-> d.pe, sh |-> h, se |-> d.se]
WithEntries(d, e) == [ph |-> d.ph, pe |-> d.pe, sh |-> d.sh, se |-> e]

Goto(p) == pc' = p /\ UNCHANGED <<stage, idx, r, failed, rc>>
Leave(res) == pc' = "exit" /\ r' = res /\ UNCHANGED <<stage, idx, failed, rc>>

\* Mutant: any stage is accepted ("unexpected stage given" is not noticed).
CheckStage_AnyStage ==
    /\ pc = "state"
    /\ IF AlreadySet(stage, disk[Lun]) THEN Leave(0) ELSE Goto(FirstStep(stage))
    /\ UNCHANGED <<storage, updater>>

\* Compare the stage asked for with the one the headers are in.
CheckStage ==
    /\ pc = "state"
    /\ CASE AlreadySet(stage, disk[Lun]) -> Leave(0)
         [] stage = InternalStage(disk[Lun]) -> Goto(FirstStep(stage))
         [] OTHER -> Leave(-1)
    /\ UNCHANGED <<storage, updater>>

\* gpt_utils_set_xbl_boot_partition: once for every LUN that gets here.
SetBootLun ==
    /\ pc = "bootlun"
    /\ bootLun' = IF stage = UPDATE_MAIN THEN "B" ELSE "A"
    /\ Goto(AfterBootLun(stage))
    /\ UNCHANGED <<disk, media, updater>>

\* Mutant: UPDATE_FINALIZE does not undo the swap.
ChainOrder_AlwaysSwapped == Swapped(disk[Lun].pe)

\* The entries array gpt2_set_boot_chain gives the secondary table: the
\* primary one, swapped for the backup boot.
ChainOrder == IF stage = UPDATE_MAIN THEN Swapped(disk[Lun].pe) ELSE disk[Lun].pe

\* gpt2_set_boot_chain up to the write of the secondary header.  Without a
\* pair to swap it returns 1, which prepare_partitions turns into success.
ChainHeader ==
    /\ pc = "chain_hdr"
    /\ LET d == disk[Lun] IN
       \/ /\ d.pe # d.ph.arr
          /\ Leave(-1)
          /\ UNCHANGED disk
       \/ /\ d.pe = d.ph.arr /\ stage = UPDATE_MAIN /\ ~HasPairs(Lun)
          /\ Leave(0)
          /\ UNCHANGED disk
       \/ /\ d.pe = d.ph.arr /\ (stage = UPDATE_MAIN => HasPairs(Lun))
          /\ Store(Lun, WithSecondary(d,
                  [sig |-> d.sh.sig, crc |-> TRUE, arr |-> ChainOrder]))
          /\ Goto("chain_ents")
    /\ UNCHANGED <<media, bootLun, updater>>

\* ... and its write of the secondary entries array.
ChainEntries ==
    /\ pc = "chain_ents"
    /\ Store(Lun, WithEntries(disk[Lun], ChainOrder))
    /\ Goto(IF stage = UPDATE_MAIN THEN "prim" ELSE "sec")
    /\ UNCHANGED <<media, bootLun, updater>>

\* Mutant: a corrupted signature is not put back.
SetState_KeepSignature(h, ok) == [sig |-> h.sig /\ ok, crc |-> TRUE, arr |-> h.arr]

\* gpt_set_state: the header with its signature set or cleared and a fresh CRC.
SetState(h, ok) == [sig |-> ok, crc |-> TRUE, arr |-> h.arr]

\* Mutant: UPDATE_MAIN returns with the primary table still in use.
SetPrimary_NeverCorrupt ==
    /\ pc = "prim"
    /\ Store(Lun, WithPrimary(disk[Lun], SetState(disk[Lun].ph, TRUE)))
    /\ IF stage = UPDATE_MAIN THEN Leave(0) ELSE Goto("sec")
    /\ UNCHANGED <<media, bootLun, updater>>

\* The primary header: corrupted by UPDATE_MAIN, fixed by UPDATE_BACKUP.
SetPrimary ==
    /\ pc = "prim"
    /\ Store(Lun, WithPrimary(disk[Lun],
                              SetState(disk[Lun].ph, stage = UPDATE_BACKUP)))
    /\ IF stage = UPDATE_MAIN THEN Leave(0) ELSE Goto("sec")
    /\ UNCHANGED <<media, bootLun, updater>>

\* The secondary header: corrupted by UPDATE_BACKUP, fixed by UPDATE_FINALIZE.
SetSecondary ==
    /\ pc = "sec"
    /\ Store(Lun, WithSecondary(disk[Lun],
                                SetState(disk[Lun].sh, stage = UPDATE_FINALIZE)))
    /\ Leave(0)
    /\ UNCHANGED <<media, bootLun, updater>>

-----------------------------------------------------------------------------
(* prepare_boot_update: every LUN in turn, going on after a failure.       *)

\* What a successful stage lets the updater write.
GrantOf(s) == CASE s = UPDATE_MAIN -> "main"
                [] s = UPDATE_BACKUP -> "bak"
                [] s = UPDATE_FINALIZE -> "done"

\* eMMC returns what prepare_partitions returns, UFS folds the results.
Return(res) ==
    /\ pc' = "idle" /\ rc' = res
    /\ idx' = 1 /\ r' = 0 /\ failed' = FALSE
    /\ grant' = IF res = 0 THEN GrantOf(stage) ELSE "none"
    /\ UNCHANGED <<stage, img, faults>>

\* The loop over the LUNs, with the result res of the one in hand.
NextLun(res) ==
    IF idx < Len(LunList)
    THEN /\ pc' = "state" /\ idx' = idx + 1 /\ r' = 0
         /\ failed' = (failed \/ res # 0)
         /\ UNCHANGED <<stage, rc, updater>>
    ELSE Return(IF ~IsUfs THEN res ELSE IF failed \/ res # 0 THEN -1 ELSE 0)

\* Mutants: the file is closed without an fsync; the failure of a LUN other than
\* the last one is forgotten.
ExitLun_NoSync ==
    /\ pc = "exit"
    /\ NextLun(r)
    /\ UNCHANGED <<disk, media, bootLun>>
ExitLun_LastLunOnly ==
    /\ pc = "exit"
    /\ media' = [media EXCEPT ![Lun] = disk[Lun]]
    /\ IF idx < Len(LunList)
       THEN /\ pc' = "state" /\ idx' = idx + 1 /\ r' = 0
            /\ UNCHANGED <<failed, stage, rc, updater>>
       ELSE Return(r)
    /\ UNCHANGED <<disk, bootLun>>

\* EXIT of prepare_partitions: fsync (its result is not looked at), close.
ExitLun ==
    /\ pc = "exit"
    /\ \/ media' = [media EXCEPT ![Lun] = disk[Lun]]
       \/ "sync" \in faults /\ UNCHANGED media
    /\ NextLun(r)
    /\ UNCHANGED <<disk, bootLun>>

-----------------------------------------------------------------------------
(* The updater (external).  It keeps the order of the stages: the backup   *)
(* copies are touched only when every main copy is new, and the update is  *)
(* finalized only when both copies are.  It writes the images one after    *)
(* the other, and a copy only while the last call, since it started,       *)
(* returned 0 for the stage of that copy.                                  *)

Written(c) == \A u \in Units : img[c][u] = "new"

\* A "restart" updater may start over from UPDATE_MAIN at any time (a script
\* run again from its top); a "forward" one repeats a stage until the stage
\* is through.
MayCall(s) ==
    CASE s = UPDATE_MAIN -> Policy = "restart" \/ ~Written("main")
      [] s = UPDATE_BACKUP -> Written("main")
      [] s = UPDATE_FINALIZE -> Written("main") /\ Written("bak")

Call(s) ==
    /\ pc = "idle" /\ grant # "done"
    /\ MayCall(s)
    /\ pc' = "state" /\ stage' = s /\ idx' = 1 /\ r' = 0 /\ failed' = FALSE
    /\ grant' = "none"
    /\ UNCHANGED <<rc, img, faults, storage>>

BeginWrite(c, u) ==
    /\ pc = "idle" /\ grant = c
    /\ \A w \in Units : img[c][w] # "torn"
    /\ img' = [img EXCEPT ![c][u] = "torn"]
    /\ UNCHANGED <<grant, faults, storage, call>>

EndWrite(c, u) ==
    /\ pc = "idle" /\ grant = c
    /\ img[c][u] = "torn"
    /\ img' = [img EXCEPT ![c][u] = "new"]
    /\ UNCHANGED <<grant, faults, storage, call>>

\* The update is over; what it installed is what the next one replaces.
NextUpdate ==
    /\ pc = "idle" /\ grant = "done"
    /\ img' = [c \in Copy |-> [u \in Units |-> "old"]]
    /\ grant' = "none"
    /\ UNCHANGED <<faults, storage, call>>

-----------------------------------------------------------------------------
(* What may go wrong.                                                      *)

\* The device cannot be opened: the LUN is left with nothing to sync or close.
OpenFails ==
    /\ "io" \in faults
    /\ pc = "state"
    /\ NextLun(-1)
    /\ UNCHANGED storage

\* An lseek, read, write or ioctl fails before it changed anything: the call goes
\* to EXIT (gpt_get_state's failure is the 1 of a logical or).
IoError ==
    /\ "io" \in faults
    /\ pc \notin {"idle", "exit"}
    /\ Leave(IF pc = "state" THEN 1 ELSE -1)
    /\ UNCHANGED <<storage, updater>>

\* write() stores a part of the entries array and blk_rw takes it for all.
ShortWrite ==
    /\ "short" \in faults
    /\ pc = "chain_ents"
    /\ Store(Lun, WithEntries(disk[Lun], "torn"))
    /\ Goto(IF stage = UPDATE_MAIN THEN "prim" ELSE "sec")
    /\ UNCHANGED <<media, bootLun, updater>>

\* The updater starts over, knowing nothing.
Forget ==
    /\ pc' = "idle" /\ idx' = 1 /\ r' = 0 /\ failed' = FALSE
    /\ rc' = -1 /\ grant' = "none"
    /\ UNCHANGED <<stage, img, faults>>

\* The updater is killed, or the device resets with its caches written.
Crash ==
    /\ "crash" \in faults
    /\ Forget
    /\ UNCHANGED storage

\* The page cache writes a dirty block back, in whatever order it likes.
Writeback ==
    /\ "power" \in faults
    /\ \E l \in LunSet, b \in Block :
          /\ media[l][b] # disk[l][b]
          /\ media' = [media EXCEPT ![l] =
                 [ph |-> IF b = "ph" THEN disk[l].ph ELSE media[l].ph,
                  pe |-> IF b = "pe" THEN disk[l].pe ELSE media[l].pe,
                  sh |-> IF b = "sh" THEN disk[l].sh ELSE media[l].sh,
                  se |-> IF b = "se" THEN disk[l].se ELSE media[l].se]]
    /\ UNCHANGED <<disk, bootLun, updater, call>>

\* Power is cut: what was not written back is lost.
PowerLoss ==
    /\ "power" \in faults
    /\ disk' = media
    /\ Forget
    /\ UNCHANGED <<media, bootLun>>

-----------------------------------------------------------------------------
Prepare == \/ CheckStage \/ SetBootLun \/ ChainHeader \/ ChainEntries
           \/ SetPrimary \/ SetSecondary \/ ExitLun

Updater == \/ \E s \in Stage : Call(s)
           \/ \E c \in Copy, u \in Units : BeginWrite(c, u) \/ EndWrite(c, u)
           \/ NextUpdate

Fault == OpenFails \/ IoError \/ ShortWrite \/ Crash \/ Writeback \/ PowerLoss

Next == Prepare \/ Updater \/ Fault

Spec == Init /\ [][Next]_vars

\* A call in progress goes on, and the updater finishes what it may: it ends
\* the writes it began, begins those still missing and calls the next stage.
Fairness ==
    /\ WF_vars(Prepare)
    /\ \A s \in Stage : SF_vars(Call(s))
    /\ \A c \in Copy, u \in Units :
          SF_vars(EndWrite(c, u)) /\ SF_vars(BeginWrite(c, u))
    /\ WF_vars(NextUpdate)

\* Faults happen, but not forever.
FairSpec == Spec /\ Fairness /\ <>[][Prepare \/ Updater]_vars

-----------------------------------------------------------------------------
TypeOK ==
    /\ disk \in [LunSet -> Table] /\ media \in [LunSet -> Table]
    /\ bootLun \in {"A", "B"}
    /\ img \in [Copy -> [Units -> Content]]
    /\ grant \in Copy \cup {"none", "done"}
    /\ pc \in PC /\ stage \in Stage
    /\ idx \in 1..Len(LunList)
    /\ r \in {-1, 0, 1} /\ failed \in BOOLEAN /\ rc \in {-1, 0, 1}
    /\ faults \in Faults

-----------------------------------------------------------------------------
(* What the failsafe update is for.                                        *)

\* Writes are whole and reach the medium in order.  There is no fsync between the
\* writes of a stage, so that of the properties below only SuccessIsDurable holds
\* when they do not (README, 6).
WritesWhole == faults \cap {"power", "short"} = {}

\* The image of u the next boot runs; without a valid table it has none.
Booted(u) == IF BootCopy(u) \in Copy THEN img[BootCopy(u)][u] ELSE "torn"

\* Whenever the device boots, every boot critical image has a valid table
\* (or boot LUN) that leads to a copy of it that is whole (the switches of
\* prepare_partitions against the writes of the updater, 832-892).
BootedWhole == WritesWhole => \A u \in Units : Booted(u) # "torn"

\* When prepare_boot_update has returned 0 for UPDATE_MAIN or UPDATE_BACKUP,
\* no image boots from the copies that stage lets the updater write.
ReadyForUpdate == WritesWhole /\ grant \in Copy =>
    \A u \in Units : BootCopy(u) \in Copy \ {grant}

\* When UPDATE_FINALIZE has returned 0, both tables of every LUN are valid and
\* list the same order, and the device boots the main copies (894-912).
FinalizedAgree == WritesWhole /\ grant = "done" =>
    /\ \A l \in LunSet : LET d == disk[l] IN
          /\ ValidTable(d.ph, d.pe) /\ ValidTable(d.sh, d.se)
          /\ d.pe = d.se
    /\ \A u \in Units : BootCopy(u) = "main"

\* The images of one boot are of one version: they are switched together, and
\* only to a set of copies that is complete.  (One table and no xbl only: LUNs
\* and the boot LUN are switched one after the other.)
CoherentBoot == WritesWhole => \A u, w \in Units : Booted(u) = Booted(w)

\* No step of a call, whole or cut short, turns headers that some stage accepts
\* into a combination that every later call aborts on ("unexpected and
\* unacceptable", 774-786).
NeverUnacceptable ==
    [][WritesWhole => \A l \in LunSet :
          InternalStage(disk[l]) # 0 => InternalStage(disk'[l]) # 0]_vars

\* What a successful call did is on the medium when it returns (the fsync of
\* 918 covers every write of prepare_partitions), unless an fsync may fail.
SuccessIsDurable == "sync" \notin faults /\ pc = "idle" /\ rc = 0 => media = disk

\* Within an update the device never goes back from the new version of an
\* image to the old one, whatever call is repeated after a fault.
NoRollback ==
    [][WritesWhole => \A u \in Units :
          Booted(u) = "new" /\ Booted(u)' = "old" => grant = "done"]_vars

\* Tables that UPDATE_MAIN accepts, with a primary one that can be swapped.
Updatable ==
    \A l \in LunSet : InternalStage(disk[l]) = UPDATE_MAIN /\ disk[l].pe = disk[l].ph.arr

\* On such a device every update gets to its end once the faults stop: no fault
\* leaves headers that the three stages, called again, refuse for ever (788-809).
EventuallyFinalized == WritesWhole /\ Updatable => []<>(grant = "done")

\* The abstract promise, for whole writes: images are switched only to whole
\* copies, and only copies that are not booted are written.
Failsafe == INSTANCE FailsafeUpdate WITH boot <- [u \in Units |-> BootCopy(u)]
RefinesFailsafe == Failsafe!Spec

-----------------------------------------------------------------------------
(* Not so in this code (README, 6).                                        *)

\* The images that boot are whole whatever faults there are: a power cut may keep
\* a later write and lose an earlier one, and a short write passes for a whole one.
AnyFaultWhole == \A u \in Units : Booted(u) # "torn"

\* An updater that calls the stages in order and meets no fault is never refused:
\* a LUN without backups flags no error (842-844).
NeverRefused == pc = "idle" => rc = 0

=============================================================================
