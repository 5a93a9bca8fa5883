---------------------------- MODULE MCPowerHal -----------------------------
(* Threads, modes, their CPUs, and configuration files, for model checking. *)
EXTENDS PowerHal

\* The binder thread and the looper: the one sets the saving mode and the balanced one
\* again, the other the balanced one when a lock is released.
TwoThreads == {"binder", "looper"}
TheirModes == [binder |-> {"batterysave", "balanced"}, looper |-> {"batterysave", "balanced"}]
TwoModes == <<"batterysave", "balanced">>
LongName == {<<"balanced_old", "balanced">>}

\* Children of the elements: the CPUs, plain parameters, and limits in and out of order.
cpus == [elm |-> "cpuquiet", attr |-> <<"min_cpus", "max_cpus">>]
most == [elm |-> "cpuquiet", attr |-> <<"max_cpus">>]
level == [elm |-> "rqbalance", attr |-> <<"balance_level", "cluster1_freq_max">>]
first == [elm |-> "rqbalance", attr |-> <<"cluster0_freq_min", "up_thresholds">>]
comment == [elm |-> "rqbalance", attr |-> <<"comment", "cluster0_freq_min">>]

\* Files of two elements, of both modes and of another in any order: with both limits of
\* the CPUs, without them, and with limits given twice.
Children == {<< <<cpus>>, <<level, cpus>> >>, << <<level, cpus>>, <<first, cpus>> >>,
             << <<comment>>, <<cpus, most>> >>}
Names == {"batterysave", "balanced", "balanced_old"}
SmallFiles == {<<>>} \cup
    {<<[elm |-> a, kids |-> c[1]], [elm |-> b, kids |-> c[2]]>> : a, b \in Names, c \in Children}

\* Limits that lie apart in both directions, that contain each other, and, in the last
\* of the children, a minimum above the maximum.
Lowest == [v \in Text |-> CASE v = <<2, 2>> -> 2 [] v \in {<<1, 2>>, <<2, 1>>} -> 4 [] OTHER -> 1]
Highest == [v \in Text |-> CASE v = <<1, 1>> -> 1 [] v = <<2, 2>> -> 3 [] OTHER -> 4]

=============================================================================
