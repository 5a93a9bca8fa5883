--------------------------- MODULE BootUpdateInv ---------------------------
(***************************************************************************)
(* The inductive invariant of BootUpdate: what every step keeps true of    *)
(* the tables, of a call in progress and of the images, so that the device *)
(* always boots whole images.  It holds while writes are whole             *)
(* (WritesWhole) and for the updaters of SafeUpdater; the findings show    *)
(* what the others break.                                                  *)
(***************************************************************************)
EXTENDS BootUpdate

\* An updater that switches the boot LUN never starts over from UPDATE_MAIN.
SafeUpdater == SwitchesBootLun => Policy = "forward"

\* The table is valid and in that order.
ValidAs(h, e, o) == h.sig /\ h.crc /\ h.arr = o /\ e = o

PrimaryValid(d) == ValidAs(d.ph, d.pe, "normal")
BackupReady(d) == ValidAs(d.sh, d.se, "swapped")
SecondaryNormal(d) == ValidAs(d.sh, d.se, "normal")

\* A primary table without its signature was corrupted by UPDATE_MAIN and has
\* a valid secondary table for the backups; one that is damaged otherwise was
\* so to begin with and has a valid secondary table for the main copies.
TablesInv ==
    \A l \in LunSet : LET d == disk[l] IN
        /\ d.ph.arr = "normal" /\ d.pe # "swapped"
        /\ ~d.ph.sig => d.ph.crc /\ d.pe = "normal" /\ BackupReady(d)
        /\ d.ph.sig /\ ~PrimaryValid(d) => SecondaryNormal(d)

\* What a successful stage leaves on a LUN.
Done(s, l) == LET d == disk[l] IN
    /\ s = UPDATE_MAIN => d.sh.sig /\ (HasPairs(l) => ~d.ph.sig)
    /\ s = UPDATE_BACKUP => ~d.sh.sig
    /\ s = UPDATE_FINALIZE => PrimaryValid(d) /\ SecondaryNormal(d)

\* What the headers of the LUN in hand look like at each step.
StepInv == LET d == disk[Lun] IN
    /\ pc = "bootlun" => stage # UPDATE_FINALIZE /\ SwitchesBootLun
    /\ pc \in {"bootlun", "chain_hdr"} /\ stage = UPDATE_MAIN =>
          d.ph.sig /\ d.ph.crc /\ d.sh.sig /\ d.sh.crc
    /\ pc \in {"bootlun", "prim"} /\ stage = UPDATE_BACKUP => ~d.ph.sig
    /\ pc \in {"chain_hdr", "chain_ents"} => stage # UPDATE_BACKUP
    /\ pc \in {"chain_hdr", "chain_ents"} /\ stage = UPDATE_FINALIZE =>
          PrimaryValid(d) /\ ~d.sh.sig
    /\ pc = "chain_ents" =>
          /\ PrimaryValid(d) /\ d.sh.crc
          /\ stage = UPDATE_MAIN => d.sh.sig /\ HasPairs(Lun) /\ d.sh.arr = "swapped"
          /\ stage = UPDATE_FINALIZE => d.sh.arr = "normal"
    /\ pc = "prim" => stage # UPDATE_FINALIZE
    /\ pc = "prim" /\ stage = UPDATE_MAIN =>
          PrimaryValid(d) /\ BackupReady(d) /\ HasPairs(Lun)
    /\ pc = "sec" => stage # UPDATE_MAIN /\ PrimaryValid(d)
    /\ pc = "sec" /\ stage = UPDATE_FINALIZE =>
          ~d.sh.sig /\ d.sh.arr = "normal" /\ d.se = "normal"
    /\ pc = "exit" /\ r = 0 => Done(stage, Lun)

\* The LUNs already served, and what a grant stands for.
ProgressInv ==
    /\ pc # "idle" /\ ~failed => \A j \in 1..(idx - 1) : Done(stage, LunList[j])
    /\ idx = 1 => ~failed
    /\ grant # "none" => pc = "idle" /\ grant = GrantOf(stage)
    /\ grant # "none" => \A l \in LunSet : Done(stage, l)

\* A copy is torn only while no image boots from it, and a call in progress
\* respects the order of the stages.
ImagesInv ==
    /\ \A u \in Units : img["main"][u] = "torn" =>
          \A l \in LunSet : HasPairs(l) => ~disk[l].ph.sig
    /\ \A u \in Units : img["bak"][u] = "torn" =>
          \A l \in LunSet : ~disk[l].sh.sig
    /\ pc # "idle" /\ stage # UPDATE_MAIN => Written("main")
    /\ pc # "idle" /\ stage = UPDATE_FINALIZE => Written("bak")
    /\ grant = "done" => Written("main") /\ Written("bak")
    /\ pc # "idle" /\ stage = UPDATE_MAIN /\ Policy = "forward" => ~Written("main")

\* Where xbl boots from.
Served == idx > 1 \/ (pc = "exit" /\ r = 0)

BootLunInv == SwitchesBootLun =>
    /\ \A u \in Units : img["main"][u] = "torn" => bootLun = "B"
    /\ \A u \in Units : img["bak"][u] = "torn" => bootLun = "A"
    /\ pc \in {"chain_hdr", "chain_ents", "prim"} /\ stage = UPDATE_MAIN => bootLun = "B"
    /\ pc \in {"prim", "sec"} /\ stage = UPDATE_BACKUP => bootLun = "A"
    /\ (\E l \in LunSet : ~disk[l].ph.sig) /\ ~Written("main") => bootLun = "B"
    /\ (\E l \in LunSet : ~disk[l].sh.sig) /\ Written("main") => bootLun = "A"
    /\ pc # "idle" /\ ~failed /\ Served =>
          bootLun = IF stage = UPDATE_MAIN THEN "B" ELSE "A"
    /\ grant # "none" => bootLun = IF stage = UPDATE_MAIN THEN "B" ELSE "A"

\* The invariant that TLAPS shows to be inductive.
IInv == TypeOK /\ TablesInv /\ StepInv /\ ProgressInv /\ ImagesInv /\ BootLunInv

\* While some images of a copy are new and some are old, no image boots from that
\* copy.  An updater that goes forward has written the main copies before the backups.
Started(c) == \E u \in Units : img[c][u] # "old"

VersionInv ==
    /\ Started("main") /\ ~Written("main") =>
          /\ \A l \in LunSet : HasPairs(l) => ~disk[l].ph.sig
          /\ SwitchesBootLun => bootLun = "B"
    /\ Started("bak") /\ ~Written("bak") =>
          /\ \A l \in LunSet : ~disk[l].sh.sig
          /\ SwitchesBootLun => bootLun = "A"
    /\ Policy = "forward" =>
          /\ Started("bak") => Written("main") /\ grant # "main"
          /\ grant = "bak" => Written("main")

\* A LUN that has been served is on the medium, and stays so until the next call,
\* unless some LUN of the call has failed.
SyncInv == "sync" \notin faults =>
    /\ pc # "idle" /\ ~failed => \A j \in 1..(idx - 1) : media[LunList[j]] = disk[LunList[j]]
    /\ pc = "idle" /\ rc = 0 => media = disk

=============================================================================
