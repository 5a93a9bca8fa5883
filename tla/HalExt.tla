------------------------------- MODULE HalExt -------------------------------
(***************************************************************************)
(* The performance locks of the power HAL                                  *)
(* (hardware/power/RQBalanceHALExt.cpp): the table current_locks, filled   *)
(* from index 1 on, the operations PerfLockAcquire and PerfLockRelease on  *)
(* it, and the power mode they set.  One thread, the power server's, runs  *)
(* them, each to its end.  A timer is never armed: timer_create gets a     *)
(* copy of the timer id, and start_timer finds every lock at entry 0.      *)
(*                                                                         *)
(* Outside src/: the clients, which keep the positive replies as handles   *)
(* and release each once, and rand(), which returns no luid in use.        *)
(***************************************************************************)
EXTENDS Integers, FiniteSets

CONSTANTS
    MaxLocks,     \* MAX_PERMITTED_LOCKS
    Luids,        \* what rand() returns
    Types,        \* the lock types the clients ask for
    TimerCreated, \* whether timer_create succeeds
    Clients       \* the sets of clients there may be (ClientAssumption)

LockType == {"OMX_DECODER", "DISPLAY_LAYER", "OMX_ENCODER", "RQB_POWERHAL"}

ASSUME SizeAssumption == MaxLocks \in Nat \ {0}
ASSUME LockAssumption ==
    /\ Luids \subseteq Nat \ {0} /\ IsFiniteSet(Luids)
    /\ Types \subseteq LockType

\* What the clients do: the order in which they release, how many locks they hold
\* at once, for how long (0, or more than 0: timed), and whether they release a
\* handle 0 they were given.
ClientSet == [order : {"lifo", "fifo", "any"}, held : Nat, times : SUBSET {0, 1},
              zero : BOOLEAN]
ASSUME ClientAssumption == TimerCreated \subseteq BOOLEAN /\ Clients \subseteq ClientSet

EINVAL == 22
ETIME == 62

\* The table and the entry behind it: the model stops when that is written,
\* for what a write outside the array does is undefined.
Slot == 0..MaxLocks
Free == [luid |-> 0, drid |-> "none"]
Entry == [luid : Luids \cup {0}, drid : Types \cup {"none"}]

VARIABLES
    locks,       \* current_locks
    n,           \* number_of_locks: the index of the newest lock
    mode,        \* cur_pwrmode, as set by SetPowerMode
    rank,        \* rank[h]: 0, or the position of handle h among those held
    reply,       \* what the last call was and returned
    clients      \* the clients of this behaviour

vars == <<locks, n, mode, rank, reply, clients>>

Boost == [t \in {"OMX_DECODER", "OMX_ENCODER"} |->
             IF t = "OMX_DECODER" THEN "omxdecode" ELSE "omxencode"]
Mode == {"balanced", "omxdecode", "omxencode"}

Held == {h \in Luids : rank[h] > 0}

Init ==
    /\ locks = [i \in Slot |-> Free]
    /\ n = 0
    /\ mode = "balanced"
    /\ rank = [h \in Luids |-> 0]
    /\ reply = [call |-> "none", timer |-> "none", res |-> 0]
    /\ clients \in Clients

-----------------------------------------------------------------------------
\* Mutant: a release forgets the boost of the lock.
LocktypeAction_NeverOff(t, on) == IF t \in DOMAIN Boost /\ on THEN Boost[t] ELSE mode

\* locktype_action: the mode after the action of a lock of type t.
LocktypeAction(t, on) ==
    IF t \in DOMAIN Boost THEN IF on THEN Boost[t] ELSE "balanced" ELSE mode

\* get_locktype_by_type compares every time with the newest entry, and returns
\* the first index it compared for, 0.  (The other two searches are the same.)
FoundByType(t) == n >= 1 /\ locks[n].drid = t

Reply(c, t, x) == reply' = [call |-> c, timer |-> t, res |-> x]

\* The client keeps what it was given, as its newest handle.
Keep(h) == rank' = IF h \in Luids /\ h \notin Held
                   THEN [rank EXCEPT ![h] = Cardinality(Held) + 1]
                   ELSE rank

\* Mutant: the entry of the newest lock is overwritten.
StoreNew_SameEntry(l, t) ==
    /\ locks' = [locks EXCEPT ![IF n >= 1 THEN n ELSE 1] = [luid |-> l, drid |-> t]]
    /\ n' = n + 1

\* new_lock_init fills the entry behind the newest one, whatever its index.
StoreNew(l, t) ==
    /\ locks' = [locks EXCEPT ![n + 1] = [luid |-> l, drid |-> t]]
    /\ n' = n + 1

\* The luids a new lock may get.
Fresh == {h \in Luids : h \notin Held /\ \A i \in Slot : locks[i].luid # h}

May == n < MaxLocks /\ Cardinality(Held) < clients.held

\* PerfLockAcquire of a type the newest lock does not have, without a time.
AcquireNew(t) ==
    /\ May /\ 0 \in clients.times /\ ~FoundByType(t)
    /\ \E l \in Fresh : StoreNew(l, t) /\ Keep(l) /\ Reply("acquire", "none", l)
    /\ mode' = LocktypeAction(t, TRUE)

\* ... of the type of the newest lock: entry 0 is taken for that lock.
AcquireFound(t) ==
    /\ May /\ 0 \in clients.times /\ FoundByType(t)
    /\ Keep(locks[0].luid) /\ Reply("acquire", "none", locks[0].luid)
    /\ mode' = LocktypeAction(locks[0].drid, TRUE)
    /\ UNCHANGED <<locks, n>>

\* ... with a time: new_timer takes a timer for a failure and a failure for a
\* timer; then start_timer, which looks for timer id 0, stops at entry 0.
AcquireTimedNew(t) ==
    /\ May /\ 1 \in clients.times /\ ~FoundByType(t)
    /\ \E l \in Fresh :
          /\ StoreNew(l, t)
          /\ \/ /\ TRUE \in TimerCreated
                /\ Reply("acquire", "created", -ETIME)
                /\ UNCHANGED rank
             \/ /\ FALSE \in TimerCreated /\ n >= 0
                /\ Reply("acquire", "failed", l)
                /\ Keep(l)
    /\ UNCHANGED mode

AcquireTimedFound(t) ==
    /\ May /\ 1 \in clients.times /\ FoundByType(t)
    /\ \/ /\ TRUE \in TimerCreated
          /\ Reply("acquire", "created", -ETIME)
          /\ UNCHANGED rank
       \/ /\ FALSE \in TimerCreated
          /\ Reply("acquire", "failed", locks[0].luid)
          /\ Keep(locks[0].luid)
    /\ UNCHANGED <<locks, n, mode>>

\* ... when no entry is in use, not even 0: start_timer goes on with entry
\* -EINVAL and timer id 0, which is undefined; the service dies and init
\* starts it again.
TimerCrash(t) ==
    /\ May /\ 1 \in clients.times /\ FALSE \in TimerCreated /\ n = -1
    /\ locks' = [i \in Slot |-> Free] /\ n' = 0 /\ mode' = "balanced"
    /\ rank' = [h \in Luids |-> 0]
    /\ Reply("none", "none", 0)

\* PerfLockAcquire with an id, or with too many arguments: lock_set_arg knows
\* no parameter.
Refuse ==
    /\ Reply("acquire", "none", -EINVAL)
    /\ UNCHANGED <<locks, n, mode, rank>>

-----------------------------------------------------------------------------
\* Mutant: an older entry is given up without a copy of the newest.
Remove_NoCopy(i) ==
    /\ mode' = LocktypeAction(locks[i].drid, FALSE)
    /\ locks' = [locks EXCEPT ![i] = [luid |-> 0, drid |-> locks[i].drid]]
    /\ n' = n - 1

\* The entry PerfLockRelease finds from the newest down, in a set that is
\* empty when it finds none.
Search(h) ==
    {i \in 0..n : locks[i].luid = h /\ \A j \in (i + 1)..n : locks[j].luid # h}

\* remove_and_reorder: the newest entry is deactivated and given up; an older
\* one becomes a second copy of the newest, and the count stays.
Remove(i) ==
    \/ /\ i = n
       /\ mode' = LocktypeAction(locks[i].drid, FALSE)
       /\ locks' = [locks EXCEPT ![i] = [luid |-> 0, drid |-> locks[i].drid]]
       /\ n' = n - 1
    \/ /\ i < n
       /\ locks' = [locks EXCEPT ![i] = locks[n]]
       /\ UNCHANGED <<n, mode>>

PerfLockRelease(h) ==
    /\ \/ \E i \in Search(h) : Remove(i)
       \/ Search(h) = {} /\ UNCHANGED <<locks, n, mode>>
    /\ Reply("release", "none", 0)

\* Which handle the clients release next.
Due(h) == CASE clients.order = "lifo" -> \A g \in Held : rank[g] <= rank[h]
            [] clients.order = "fifo" -> \A g \in Held : rank[g] >= rank[h]
            [] OTHER -> TRUE

Release(h) ==
    /\ h \in Held /\ Due(h)
    /\ PerfLockRelease(h)
    /\ rank' = [g \in Luids |-> IF g = h THEN 0
                                ELSE IF rank[g] > rank[h] THEN rank[g] - 1 ELSE rank[g]]

\* A client releases the 0 it was given: entry 0, as long as it is free.
ReleaseZero ==
    /\ clients.zero /\ reply.call = "acquire" /\ reply.res = 0
    /\ PerfLockRelease(0)
    /\ UNCHANGED rank

-----------------------------------------------------------------------------
Acquire == \E t \in Types : \/ AcquireNew(t) \/ AcquireFound(t)
                            \/ AcquireTimedNew(t) \/ AcquireTimedFound(t)
                            \/ TimerCrash(t)

Next ==
    /\ Acquire \/ Refuse \/ (\E h \in Luids : Release(h)) \/ ReleaseZero
    /\ UNCHANGED clients

Spec == Init /\ [][Next]_vars

-----------------------------------------------------------------------------
TypeOK ==
    /\ locks \in [Slot -> Entry]
    /\ n \in -1..MaxLocks
    /\ mode \in Mode
    /\ rank \in [Luids -> Nat]
    /\ reply \in [call : {"none", "acquire", "release"},
                  timer : {"none", "created", "failed"},
                  res : Luids \cup {0, -EINVAL, -ETIME}]
    /\ clients \in Clients

\* A handle a client holds can be found and released, whatever was released
\* before it and in whatever order (352-363 moves entries).
HeldFindable == \A h \in Held : \E i \in 0..n : locks[i].luid = h

\* Clients that hold no more locks than the table has room for never make it
\* write outside current_locks ("Maximum number of locks",
\* RQBalanceHALExt.h:35; entry 0 is never filled).
InTable == n < MaxLocks

\* A lock that was released, or whose acquisition was refused, is not left in
\* the table ("Remove only the ID", 368-371).
ReleasedGone == \A i \in 0..n : locks[i].luid \in Held \cup {0}

\* With every lock released the device is balanced again ("Run optimization
\* parameter deactivation", 366).
BalancedAtRest == Held = {} => mode = "balanced"

-----------------------------------------------------------------------------
\* Clients that release the newest lock first, ask for no times, leave a reply
\* of 0 alone and hold no more locks than the table has room for.
NestedClients ==
    /\ clients.order = "lifo" /\ clients.times = {0} /\ ~clients.zero
    /\ clients.held < MaxLocks

\* With such clients the table is what the locks promise: its entries are the
\* granted locks, and the boost is that of one.  (Others are promised nothing, and
\* mapped to clients that never call.)
Locks == INSTANCE PerfLocks
             WITH granted <- IF NestedClients THEN {locks[i] : i \in 1..n} ELSE {},
                  mode <- IF NestedClients THEN mode ELSE "balanced"
LocksKept == Locks!Spec

\* The device is boosted only for a lock in the table.
BoostIsGranted == Locks!BoostIsGranted

\* The table is the stack of the handles that are held, entry 0 is never used, and
\* a boost in force is that of one of the entries.  (The invariant that TLAPS shows
\* to be inductive.)
Stack ==
    /\ n = Cardinality(Held) /\ n <= clients.held
    /\ locks[0] = Free
    /\ \A h \in Held : rank[h] \in 1..n /\ locks[rank[h]].luid = h
    /\ \A i \in 1..n : /\ locks[i].luid \in Held /\ rank[locks[i].luid] = i
                       /\ locks[i].drid \in Types
    /\ mode # "balanced" =>
          \E i \in 1..n : locks[i].drid \in DOMAIN Boost /\ Boost[locks[i].drid] = mode

\* For nested clients the table is that stack: what 352-371 do to it by moving and
\* clearing entries is a push and a pop.
TableIsStack == NestedClients => Stack

-----------------------------------------------------------------------------
\* Not so in this code (README, 6): a timer that could be created does not make
\* the acquisition fail (new_timer "Returns success (0) or failure (negative
\* errno)", 143).
CreatedTimerAccepted == reply.timer = "created" => reply.res >= 0

=============================================================================
