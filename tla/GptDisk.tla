------------------------------ MODULE GptDisk -------------------------------
(***************************************************************************)
(* The gpt_disk API (hardware/gpt-utils/gpt-utils.cpp, 1124-1540): a       *)
(* process reads the partition table of a disk into a struct gpt_disk,     *)
(* edits entries of the copy, brings its CRCs up to date and commits it.   *)
(* There is no lock: every read and write of the disk is a step, between   *)
(* which other processes take theirs.                                      *)
(*                                                                         *)
(* hdr_bak and pentry_arr_bak are read from the primary table as well      *)
(* (1393), and commit does not write them: the model keeps the steps that  *)
(* read them, but not their values.  The processes are outside src/ and    *)
(* modelled from the comments of gpt-utils.h: a process edits what it      *)
(* read, calls gpt_disk_update_crc before gpt_disk_commit, and repeats a   *)
(* call that failed or frees the handle.                                   *)
(***************************************************************************)
EXTENDS Naturals

CONSTANTS
    User,        \* the processes
    Last,        \* the entries of the table are 1..Last
    Value,       \* what the attributes of an entry may be
    Factory,     \* the entries the device left the factory with
    Edits        \* the edits processes make: new values of some entries

Entry == 1..Last
Array == [Entry -> Value]

ASSUME EntryAssumption == Last \in Nat /\ Factory \in Array
ASSUME EditAssumption == \A w \in Edits :
    /\ DOMAIN w \subseteq Entry /\ DOMAIN w # {}
    /\ \A e \in DOMAIN w : w[e] \in Value

VARIABLES
    primary,     \* the primary table: its entries, and those its header's CRC is of
    secondary,   \* the secondary one
    at,          \* at[u]: what u is doing with its struct gpt_disk
    handle,      \* handle[u]: the copy in the struct
    edited,      \* history: the entries u has edited since it read them
    stale,       \* history: another process has written since then
    overtaken,   \* history: another process has written since u wrote its header
    shorted      \* history: the last entries written were fewer than was asked for

diskVars == <<primary, secondary, at, handle, edited, stale, overtaken, shorted>>
history == <<edited, stale, overtaken, shorted>>

\* Without a handle, with one between calls, with one that is committed, in
\* gpt_disk_get_disk_info and in gpt_disk_commit.
At == {"none", "ready", "done", "hdr", "hdr_bak", "arr", "arr_bak",
       "set_header", "set_pentry_arr"}
InCall == At \ {"none", "ready", "done"}

\* A table: the entries, and the entries of the CRC in its header.
GptTable == [crc : Array, arr : Array]
Valid(t) == t.crc = t.arr

\* What the boot loader finds (external): the primary table, or the secondary
\* one in its place.
BootedEntries == IF Valid(primary) THEN primary.arr ELSE secondary.arr

Zeroed == [init |-> FALSE, crc |-> Factory, arr |-> Factory]

DiskInit ==
    /\ primary = [crc |-> Factory, arr |-> Factory]
    /\ secondary = [crc |-> Factory, arr |-> Factory]
    /\ at = [u \in User |-> "none"]
    /\ handle = [u \in User |-> Zeroed]
    /\ edited = [u \in User |-> {}]
    /\ stale = [u \in User |-> FALSE] /\ overtaken = [u \in User |-> FALSE]
    /\ shorted = FALSE

GoOn(u, p) == at' = [at EXCEPT ![u] = p]
Set(u, init, crc, arr) ==
    handle' = [handle EXCEPT ![u] = [init |-> init, crc |-> crc, arr |-> arr]]

-----------------------------------------------------------------------------
\* gpt_disk_alloc.
Alloc(u) ==
    /\ at[u] = "none"
    /\ GoOn(u, "ready")
    /\ UNCHANGED <<primary, secondary, handle, history>>

\* The struct is gone.
Drop(u) ==
    /\ GoOn(u, "none")
    /\ handle' = [handle EXCEPT ![u] = Zeroed]
    /\ edited' = [edited EXCEPT ![u] = {}]
    /\ stale' = [stale EXCEPT ![u] = FALSE]
    /\ UNCHANGED <<primary, secondary, overtaken, shorted>>

\* gpt_disk_free.
Free(u) ==
    /\ at[u] \in {"ready", "done"}
    /\ Drop(u)

\* gpt_disk_get_disk_info, once for a struct: the primary header, ...
GetDiskInfo(u) ==
    /\ at[u] = "ready" /\ ~handle[u].init
    /\ GoOn(u, "hdr")
    /\ UNCHANGED <<primary, secondary, handle, history>>

GetHeader(u) ==
    /\ at[u] = "hdr"
    /\ Set(u, FALSE, primary.crc, handle[u].arr)
    /\ GoOn(u, "hdr_bak")
    /\ UNCHANGED <<primary, secondary, history>>

\* ... the same one for hdr_bak, ...
GetHeaderBak(u) ==
    /\ at[u] = "hdr_bak"
    /\ GoOn(u, "arr")
    /\ UNCHANGED <<primary, secondary, handle, history>>

\* ... the entries it leads to, whatever CRC they have, ...
GetPentryArr(u) ==
    /\ at[u] = "arr"
    /\ Set(u, FALSE, handle[u].crc, primary.arr)
    /\ GoOn(u, "arr_bak")
    /\ stale' = [stale EXCEPT ![u] = FALSE]
    /\ UNCHANGED <<primary, secondary, edited, overtaken, shorted>>

\* ... and once more for pentry_arr_bak; then the struct is initialized.
GetPentryArrBak(u) ==
    /\ at[u] = "arr_bak"
    /\ Set(u, TRUE, handle[u].crc, handle[u].arr)
    /\ GoOn(u, "ready")
    /\ UNCHANGED <<primary, secondary, history>>

\* The process changes what gpt_disk_get_pentry returned for some partitions.
Edit(u, w) ==
    /\ at[u] = "ready" /\ handle[u].init
    /\ Set(u, TRUE, handle[u].crc,
           [e \in Entry |-> IF e \in DOMAIN w THEN w[e] ELSE handle[u].arr[e]])
    /\ edited' = [edited EXCEPT ![u] = @ \cup DOMAIN w]
    /\ UNCHANGED <<primary, secondary, at, stale, overtaken, shorted>>

\* Mutant: the CRC put into the header is the one it had.
NewCrc_Old(h) == h.crc

\* gpt_disk_update_crc.
NewCrc(h) == h.arr
UpdateCrc(u) ==
    /\ at[u] = "ready" /\ handle[u].init
    /\ Set(u, TRUE, NewCrc(handle[u]), handle[u].arr)
    /\ UNCHANGED <<primary, secondary, at, history>>

-----------------------------------------------------------------------------
(* gpt_disk_commit.                                                        *)

\* The process has edits to commit and has updated the CRCs after them.
Commit(u) ==
    /\ at[u] = "ready" /\ handle[u].init
    /\ edited[u] # {} /\ handle[u].crc = NewCrc(handle[u])
    /\ GoOn(u, "set_header")
    /\ UNCHANGED <<primary, secondary, handle, history>>

\* A write by u makes what the others have read stale, and overtakes their commits.
HasRead(w) == at[w] = "arr_bak" \/ handle[w].init
Outdate(u) ==
    /\ stale' = [w \in User |-> stale[w] \/ (w # u /\ HasRead(w))]
    /\ overtaken' = [w \in User |-> IF w = u THEN at[u] # "set_header" /\ overtaken[u]
                                    ELSE overtaken[w] \/ at[w] = "set_pentry_arr"]

\* gpt_set_header for the primary table.
SetHeader(u) ==
    /\ at[u] = "set_header"
    /\ primary' = [primary EXCEPT !.crc = handle[u].crc]
    /\ GoOn(u, "set_pentry_arr")
    /\ Outdate(u)
    /\ UNCHANGED <<secondary, handle, edited, shorted>>

\* Mutant: only the entries that were edited are stored.
SetPentryArr_EditedOnly(u) ==
    /\ at[u] = "set_pentry_arr"
    /\ primary' = [primary EXCEPT !.arr =
          [e \in Entry |-> IF e \in edited[u] THEN handle[u].arr[e] ELSE primary.arr[e]]]
    /\ shorted' = FALSE
    /\ GoOn(u, "done")
    /\ Outdate(u)
    /\ UNCHANGED <<secondary, handle, edited>>

\* gpt_set_pentry_arr.
SetPentryArr(u) ==
    /\ at[u] = "set_pentry_arr"
    /\ primary' = [primary EXCEPT !.arr = handle[u].arr]
    /\ shorted' = FALSE
    /\ GoOn(u, "done")
    /\ Outdate(u)
    /\ UNCHANGED <<secondary, handle, edited>>

-----------------------------------------------------------------------------
(* What may go wrong.                                                      *)

\* An open, ioctl, read or write fails.
CallFails(u) ==
    /\ at[u] \in InCall
    /\ GoOn(u, "ready")
    /\ UNCHANGED <<primary, secondary, handle, history>>

\* The first entries only are stored, and blk_rw takes them for all.
ShortCommit(u) ==
    /\ at[u] = "set_pentry_arr"
    /\ \E n \in 0..Last : primary' = [primary EXCEPT !.arr =
          [e \in Entry |-> IF e <= n THEN handle[u].arr[e] ELSE primary.arr[e]]]
    /\ GoOn(u, "done")
    /\ Outdate(u)
    /\ shorted' = TRUE
    /\ UNCHANGED <<secondary, handle, edited>>

\* The process is killed.
Kill(u) ==
    /\ at[u] # "none"
    /\ Drop(u)

-----------------------------------------------------------------------------
DiskCall(u) == \/ Alloc(u) \/ Free(u) \/ UpdateCrc(u)
           \/ GetDiskInfo(u) \/ GetHeader(u) \/ GetHeaderBak(u)
           \/ GetPentryArr(u) \/ GetPentryArrBak(u)
           \/ Commit(u) \/ SetHeader(u) \/ SetPentryArr(u)

DiskFault(u) == CallFails(u) \/ ShortCommit(u) \/ Kill(u)

DiskNext == \E u \in User : DiskCall(u) \/ DiskFault(u) \/ \E w \in Edits : Edit(u, w)

DiskSpec == DiskInit /\ [][DiskNext]_diskVars

-----------------------------------------------------------------------------
DiskTypeOK ==
    /\ primary \in GptTable /\ secondary \in GptTable
    /\ at \in [User -> At]
    /\ handle \in [User -> [init : BOOLEAN, crc : Array, arr : Array]]
    /\ edited \in [User -> SUBSET Entry]
    /\ stale \in [User -> BOOLEAN] /\ overtaken \in [User -> BOOLEAN]
    /\ shorted \in BOOLEAN

\* A gpt_disk_commit that returns 0 (1505-1540) leaves a valid primary table, however
\* stale its copy and whatever commits were cut off, overlapped or stored in part before
\* it, unless another process writes between its header and its entries; and one whose
\* copy nobody has outdated changes the entries that were edited and no others.
CommitShown == [][\A u \in User :
    at[u] = "set_pentry_arr" /\ at'[u] = "done" /\ ~shorted' =>
        /\ ~overtaken[u] => Valid(primary')
        /\ ~stale[u] => \A e \in Entry \ edited[u] : primary'.arr[e] = primary.arr[e]]_diskVars

\* However commits were killed, failed, overlapped or stored in part, and wherever the
\* other processes have stopped for good, one that goes on alone and commits again and
\* again brings back a valid table, and no later step of it makes the table
\* invalid but between its own two writes.
OnlyCalls(u) == DiskCall(u) \/ \E w \in Edits : Edit(u, w)
TableRecovers == \A u \in User :
    <>[][OnlyCalls(u)]_diskVars /\ []<>(at[u] = "set_pentry_arr") =>
        <>[](Valid(primary) \/ at[u] = "set_pentry_arr")

-----------------------------------------------------------------------------
(* The inductive invariant.                                                *)

\* A copy that is not stale differs from the disk in the edited entries only, and a
\* commit that is not overtaken finds the header it wrote.
CopyInv == \A u \in User : LET h == handle[u] IN
    /\ at[u] \in {"set_header", "set_pentry_arr"} => h.init /\ h.crc = h.arr
    /\ HasRead(u) /\ at[u] # "done" /\ ~stale[u] =>
          \A e \in Entry \ edited[u] : h.arr[e] = primary.arr[e]
    /\ at[u] = "set_pentry_arr" /\ ~overtaken[u] => primary.crc = h.crc

-----------------------------------------------------------------------------
(* Not so in this code (README, 6).                                        *)

\* A process killed in gpt_disk_commit leaves the entries as they were or as it
\* wanted them.
KillKeeps == [][\A u \in User :
    at[u] = "set_pentry_arr" /\ at'[u] = "none" =>
        BootedEntries' \in {primary.arr, handle[u].arr}]_diskVars

\* Commits that return 0, all of them, leave a valid primary table.
CommittedValid == (\A u \in User : at[u] = "done") => shorted \/ Valid(primary)

\* A commit brings both tables up to date.
BackupFollows == \A u \in User : at[u] = "done" => secondary.arr = handle[u].arr

=============================================================================
