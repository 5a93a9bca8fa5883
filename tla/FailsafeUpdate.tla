--------------------------- MODULE FailsafeUpdate ---------------------------
(***************************************************************************)
(* What gpt-utils promises the caller of prepare_boot_update: every boot   *)
(* critical image exists in two copies, the device boots one of them, and  *)
(* the copy that is booted is never the one being rewritten.  Images may   *)
(* be switched in groups (a partition table covers all images of its LUN), *)
(* but an image is only ever switched to a copy that is whole.             *)
(***************************************************************************)
CONSTANT Units          \* the boot critical images (tz, abl, ..., xbl)

VARIABLES
    boot,               \* boot[u]: the copy of u the next boot uses
    img                 \* img[c][u]: the content of copy c of u

vars == <<boot, img>>

Copy == {"main", "bak"}
Content == {"old", "torn", "new"}

Other(c) == IF c = "main" THEN "bak" ELSE "main"

Init ==
    /\ boot \in [Units -> Copy]
    /\ img = [c \in Copy |-> [u \in Units |-> "old"]]

\* The images of S are booted from their other copies from now on.
Switch ==
    \E S \in (SUBSET Units) \ {{}} :
        /\ \A u \in S : img[Other(boot[u])][u] # "torn"
        /\ boot' = [u \in Units |-> IF u \in S THEN Other(boot[u]) ELSE boot[u]]
        /\ UNCHANGED img

\* A write starts (the copy is torn) or ends (the copy is new).
Write ==
    \E c \in Copy, u \in Units, v \in {"torn", "new"} :
        /\ boot[u] # c
        /\ img' = [img EXCEPT ![c][u] = v]
        /\ UNCHANGED boot

\* Both copies carry the new version: it is the old one of the next update.
NextUpdate ==
    /\ \A c \in Copy, u \in Units : img[c][u] = "new"
    /\ img' = [c \in Copy |-> [u \in Units |-> "old"]]
    /\ UNCHANGED boot

Next == Switch \/ Write \/ NextUpdate

Spec == Init /\ [][Next]_vars

-----------------------------------------------------------------------------
TypeOK ==
    /\ boot \in [Units -> Copy]
    /\ img \in [Copy -> [Units -> Content]]

\* Whatever happens next, the device boots whole images.
BootedWhole == \A u \in Units : img[boot[u]][u] # "torn"

=============================================================================
