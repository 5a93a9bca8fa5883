----------------------------- MODULE MCGptDisk ------------------------------
(* Two processes that edit one partition table, for model checking. *)
EXTENDS GptDisk

CONSTANTS switcher, marker

TwoUsers == {switcher, marker}

\* Each process marks one entry or the other, or both one after the other.
AllA == [e \in 1..2 |-> "a"]
Marks == {[e \in {2} |-> "b"], [e \in {1} |-> "b"]}

=============================================================================
