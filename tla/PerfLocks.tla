----------------------------- MODULE PerfLocks -----------------------------
(***************************************************************************)
(* What the performance locks of the power HAL promise: a lock that was    *)
(* acquired is granted until it is released, a release takes back that     *)
(* lock and no other, and the boost in force is that of a granted lock.    *)
(***************************************************************************)
CONSTANTS
    Luids,       \* lock unique identifiers
    Types,       \* who asks for locks
    Boost        \* Boost[t]: the power mode of the locks of type t

VARIABLES
    granted,     \* the granted locks
    mode         \* the power mode in force

vars == <<granted, mode>>

Lock == [luid : Luids, drid : Types]
Boosts(t) == t \in DOMAIN Boost

Init == granted = {} /\ mode = "balanced"

\* A lock is granted and its boost, if it has one, is in force.
Acquire(k) ==
    /\ \A g \in granted : g.luid # k.luid
    /\ granted' = granted \cup {k}
    /\ mode' = IF Boosts(k.drid) THEN Boost[k.drid] ELSE mode

\* A lock is taken back; with one that boosts the device is balanced again.
Release(k) ==
    /\ k \in granted
    /\ granted' = granted \ {k}
    /\ mode' = IF Boosts(k.drid) THEN "balanced" ELSE mode

Next == \E k \in Lock : Acquire(k) \/ Release(k)

Spec == Init /\ [][Next]_vars

-----------------------------------------------------------------------------
TypeOK == granted \subseteq Lock

\* The device is boosted only for a lock that is granted.
BoostIsGranted ==
    mode # "balanced" => \E k \in granted : Boosts(k.drid) /\ Boost[k.drid] = mode

=============================================================================
