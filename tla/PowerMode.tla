----------------------------- MODULE PowerMode -----------------------------
(***************************************************************************)
(* SetPowerMode of the power HAL (hardware/power/Hints.cpp): the parameters*)
(* of a power mode, rqb[mode], are written one by one to nodes of the      *)
(* RQBalance driver, then the mode is remembered in cur_pwrmode.  Two      *)
(* threads call it with no lock: the binder thread for hints and for       *)
(* setInteractive, and the power server's for the locks of HalExt.         *)
(*                                                                         *)
(* Outside src/: the driver, which takes every value but a maximum of CPUs *)
(* below the minimum in force, or a minimum above the maximum, and keeps   *)
(* what it has when the text is empty.                                     *)
(***************************************************************************)
EXTENDS XmlConfig

CONSTANTS
    Thread,     \* the threads that set power modes
    Asks,       \* Asks[t]: the modes thread t sets
    Balanced,   \* POWER_MODE_BALANCED
    MinCpus,    \* MinCpus[v], MaxCpus[v]: the CPUs that text v gives as a minimum, and
    MaxCpus     \* as a maximum

\* What the driver has in a node before the first write.
Kernel == <<-1>>

\* The texts of the files.
Text == {Kernel} \cup
        UNION {UNION {{<<n, k>> : k \in DOMAIN f[n].kids} : n \in DOMAIN f} : f \in Files}

ASSUME ModeAssumption ==
    /\ Asks \in [Thread -> SUBSET Range(Modes)] /\ Balanced \in Range(Modes)
    /\ MinCpus \in [Text -> Nat] /\ MaxCpus \in [Text -> Nat]
    /\ MinCpus[Kernel] <= MaxCpus[Kernel]

\* The order in which __SetPowerMode and __set_cpufreq_mode write the parameters; the
\* frequency limits of the two clusters go to the same two nodes, which keep them apart.
Order == <<"up_thresholds", "down_thresholds", "balance_level", "max_cpus", "min_cpus",
           "cluster0_freq_max", "cluster0_freq_min", "cluster1_freq_max", "cluster1_freq_min">>

MaxAt == 4          \* where the loop set_cpu begins and ends
MinAt == 5
Idle == 0

VARIABLES
    driver,        \* driver[p]: the parameter p that the driver has
    cur_pwrmode,
    at,            \* at[t]: the index in Order thread t writes next, or Idle
    rqparm,        \* the mode thread t is setting
    cpus_error, retry,
    lone           \* whether the last call overlapped no other one (history)

locals == <<rqparm, cpus_error, retry>>
vars == <<driver, cur_pwrmode, at, locals, lone>>

Init ==
    /\ driver = [p \in Param |-> Kernel]
    /\ cur_pwrmode = Balanced
    /\ at = [t \in Thread |-> Idle]
    /\ rqparm = [t \in Thread |-> Balanced]
    /\ cpus_error = [t \in Thread |-> FALSE]
    /\ retry = [t \in Thread |-> 0]
    /\ lone = FALSE

-----------------------------------------------------------------------------
AtRest == \A t \in Thread : at[t] = Idle

\* The driver takes the text v for parameter p; what it then has of it.
Accepts(p, v) ==
    /\ p = "max_cpus" /\ v # <<>> => MinCpus[driver["min_cpus"]] <= MaxCpus[v]
    /\ p = "min_cpus" /\ v # <<>> => MinCpus[v] <= MaxCpus[driver["max_cpus"]]
Stored(p, v) == IF v # <<>> /\ Accepts(p, v) THEN v ELSE driver[p]

\* A hint, setInteractive or a lock sets a mode; cpus_error is not initialized.
SetPowerMode(t) ==
    /\ at[t] = Idle
    /\ \E m \in Asks[t], b \in BOOLEAN :
          /\ rqparm' = [rqparm EXCEPT ![t] = m]
          /\ cpus_error' = [cpus_error EXCEPT ![t] = b]
    /\ at' = [at EXCEPT ![t] = 1]
    /\ retry' = [retry EXCEPT ![t] = 0]
    /\ lone' = AtRest
    /\ UNCHANGED <<driver, cur_pwrmode>>

\* Mutant: no second try.
AfterCpus_Once(t, failed) ==
    /\ at' = [at EXCEPT ![t] = MinAt + 1]
    /\ cpus_error' = [cpus_error EXCEPT ![t] = failed]
    /\ UNCHANGED retry

\* After the minimum: if one of the two failed both are written once more.
AfterCpus(t, failed) ==
    \/ /\ failed
       /\ cpus_error' = [cpus_error EXCEPT ![t] = FALSE]
       /\ retry' = [retry EXCEPT ![t] = @ + 1]
       /\ at' = [at EXCEPT ![t] = IF retry[t] + 1 < 2 THEN MaxAt ELSE MinAt + 1]
    \/ /\ ~failed
       /\ at' = [at EXCEPT ![t] = MinAt + 1]
       /\ UNCHANGED <<cpus_error, retry>>

\* sysfs_write of the next parameter.
Write(t) ==
    /\ at[t] \in 1..Len(Order)
    /\ LET p == Order[at[t]]
           v == rqb[rqparm[t]][p]
           ok == Accepts(p, v)
       IN  /\ driver' = [driver EXCEPT ![p] = Stored(p, v)]
           /\ \/ at[t] = MinAt /\ AfterCpus(t, cpus_error[t] \/ ~ok)
              \/ /\ at[t] # MinAt
                 /\ at' = [at EXCEPT ![t] = @ + 1]
                 /\ cpus_error' = [cpus_error EXCEPT ![t] = @ \/ ~ok]
                 /\ UNCHANGED retry
    /\ UNCHANGED <<cur_pwrmode, rqparm, lone>>

Return(t) ==
    /\ at[t] = Len(Order) + 1
    /\ cur_pwrmode' = rqparm[t]
    /\ at' = [at EXCEPT ![t] = Idle]
    /\ UNCHANGED <<driver, locals, lone>>

Next == \E t \in Thread : SetPowerMode(t) \/ Write(t) \/ Return(t)

-----------------------------------------------------------------------------
TypeOK ==
    /\ driver \in [Param -> Text \cup {<<0>>}]
    /\ \A p \in Cpus : driver[p] \in Text
    /\ cur_pwrmode \in Range(Modes)
    /\ at \in [Thread -> 0..(Len(Order) + 1)]
    /\ rqparm \in [Thread -> Range(Modes)]
    /\ cpus_error \in [Thread -> BOOLEAN]
    /\ retry \in [Thread -> 0..2]
    /\ lone \in BOOLEAN

\* The limits of the CPUs among parameters ps are both there and in order.
Fits(ps) ==
    /\ ps["min_cpus"] # <<>> /\ ps["max_cpus"] # <<>>
    /\ MinCpus[ps["min_cpus"]] <= MaxCpus[ps["max_cpus"]]

\* The driver has the parameters ps, each one that is given.
Applied(ps) ==
    \A p \in Param : ps[p] # <<>> /\ (p \in Cpus => Fits(ps)) => driver[p] = ps[p]

-----------------------------------------------------------------------------
\* The invariant that TLAPS shows to be inductive.  A lone call at index i has
\* written what comes before i; at the CPUs, one of the two limits may have been
\* refused in the first round, and then the minimum is low enough in the second.
LimitsInOrder == MinCpus[driver["min_cpus"]] <= MaxCpus[driver["max_cpus"]]

CpusWritten(t, max, min) ==
    /\ at[t] = MaxAt /\ retry[t] > 0 => driver["min_cpus"] = min
    /\ at[t] = MinAt /\ retry[t] = 0 => driver["max_cpus"] = max \/ cpus_error[t]
    /\ at[t] = MinAt /\ retry[t] = 0 /\ driver["max_cpus"] # max =>
          MaxCpus[max] < MinCpus[driver["min_cpus"]]
    /\ at[t] > MinAt \/ (at[t] = MinAt /\ retry[t] > 0) =>
          driver["max_cpus"] = max /\ driver["min_cpus"] = min

Written(t) ==
    LET ps == rqb[rqparm[t]]
    IN  /\ \A i \in 1..Len(Order) :
              i < at[t] /\ i \notin {MaxAt, MinAt} /\ ps[Order[i]] # <<>> =>
                  driver[Order[i]] = ps[Order[i]]
        /\ Fits(ps) => CpusWritten(t, ps["max_cpus"], ps["min_cpus"])

TwoTries(t) ==
    /\ at[t] \in 1..(MaxAt - 1) => retry[t] = 0
    /\ at[t] \in MaxAt..MinAt => retry[t] < 2

LoneInv ==
    /\ LimitsInOrder
    /\ \A t \in Thread : TwoTries(t)
    /\ lone => /\ \A s, t \in Thread : at[s] # Idle /\ at[t] # Idle => s = t
               /\ \A t \in Thread : at[t] # Idle => Written(t)
               /\ AtRest => Applied(rqb[cur_pwrmode])

=============================================================================
