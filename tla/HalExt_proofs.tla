---------------------------- MODULE HalExt_proofs ----------------------------
(* Theorems about the performance locks, for every table size and client. *)
EXTENDS HalExt, FiniteSetTheorems, TLAPS

\* The handles that are held are finitely many.
LEMMA HeldFinite == IsFiniteSet(Held) /\ Cardinality(Held) \in Nat
  <1>1. Held \subseteq Luids
    BY DEF Held
  <1>2. IsFiniteSet(Held)
    BY <1>1, LockAssumption, FS_Subset
  <1> QED BY <1>2, FS_CardinalityType

\* What the client does with a reply gives a handle a position, or nothing.
LEMMA KeepTypes ==
    ASSUME rank \in [Luids -> Nat], NEW h, Keep(h)
    PROVE  /\ rank' \in [Luids -> Nat]
           /\ \A g \in Luids : rank'[g] > 0 <=> (g = h \/ rank[g] > 0)
  <1>1. Cardinality(Held) + 1 \in Nat /\ Cardinality(Held) + 1 > 0
    BY HeldFinite
  <1>2. CASE h \in Luids /\ h \notin Held
    BY <1>1, <1>2 DEF Keep
  <1>3. CASE ~(h \in Luids /\ h \notin Held)
    <2>1. rank' = rank
      BY <1>3 DEF Keep
    <2> QED BY <1>3, <2>1 DEF Held
  <1> QED BY <1>2, <1>3

\* A release gives up the position of the handle and closes the gap.
LEMMA ReleaseRanks ==
    ASSUME rank \in [Luids -> Nat], NEW h \in Luids, Release(h)
    PROVE  /\ rank' \in [Luids -> Nat]
           /\ \A g \in Luids : rank'[g] > 0 => g # h /\ rank[g] > 0
  <1>1. rank[h] \in Nat /\ rank[h] > 0
    BY DEF Release, Held
  <1> QED BY <1>1 DEF Release

\* What a release does to the table: nothing, the newest entry is given up, or
\* an older one becomes a copy of the newest.
LEMMA ReleaseOutcome ==
    ASSUME TypeOK, NEW h, PerfLockRelease(h)
    PROVE  /\ reply' = [call |-> "release", timer |-> "none", res |-> 0]
           /\ \/ UNCHANGED <<locks, n, mode>>
              \/ /\ n \in 0..MaxLocks /\ locks[n].luid = h
                 /\ locks' = [locks EXCEPT ![n] = [luid |-> 0, drid |-> locks[n].drid]]
                 /\ n' = n - 1
                 /\ mode' = LocktypeAction(locks[n].drid, FALSE)
              \/ /\ n \in 0..MaxLocks /\ UNCHANGED <<n, mode>>
                 /\ \E i \in 0..(n - 1) :
                       locks[i].luid = h /\ locks' = [locks EXCEPT ![i] = locks[n]]
  <1>1. reply' = [call |-> "release", timer |-> "none", res |-> 0]
    BY DEF PerfLockRelease, Reply
  <1>2. CASE UNCHANGED <<locks, n, mode>>
    BY <1>1, <1>2
  <1>3. ASSUME NEW i \in Search(h), Remove(i)
        PROVE  \/ i = n /\ locks' = [locks EXCEPT ![i] = [luid |-> 0, drid |-> locks[i].drid]]
                  /\ n' = n - 1 /\ mode' = LocktypeAction(locks[i].drid, FALSE)
               \/ i < n /\ locks' = [locks EXCEPT ![i] = locks[n]] /\ UNCHANGED <<n, mode>>
    BY <1>3 DEF Remove
  <1>4. \A i \in Search(h) : i \in 0..n /\ locks[i].luid = h
    BY DEF Search
  <1>5. n \in -1..MaxLocks /\ MaxLocks \in Nat
    BY SizeAssumption DEF TypeOK
  <1>6. CASE \E i \in Search(h) : Remove(i)
    <2>1. PICK i \in Search(h) : Remove(i)
      BY <1>6
    <2>2. i \in 0..n /\ locks[i].luid = h /\ n \in 0..MaxLocks
      BY <1>4, <1>5
    <2>3. CASE i = n
      <3>1. ~(i < n)
        BY <2>2, <2>3
      <3> QED BY <1>1, <1>3, <2>1, <2>2, <2>3, <3>1
    <2>4. CASE i # n
      <3>1. i \in 0..(n - 1)
        BY <1>5, <2>2, <2>4
      <3> QED BY <1>1, <1>3, <2>1, <2>2, <2>4, <3>1
    <2> QED BY <2>3, <2>4
  <1> QED BY <1>2, <1>6 DEF PerfLockRelease

\* The mode that a lock type asks for is one of the modes.
LEMMA ActionMode ==
    ASSUME mode \in Mode, NEW t, NEW on \in BOOLEAN
    PROVE  LocktypeAction(t, on) \in Mode
  BY DEF LocktypeAction, Boost, Mode

\* What an acquisition stores, and where.
LEMMA StoreNewTypes ==
    ASSUME TypeOK, n < MaxLocks, NEW l \in Luids, NEW t \in Types, StoreNew(l, t)
    PROVE  /\ locks' \in [Slot -> Entry] /\ n' \in 0..MaxLocks /\ n' = n + 1
           /\ locks'[n'].luid = l
           /\ \A i \in 0..n : locks'[i] = locks[i]
  <1>1. n + 1 \in Slot /\ n \in -1..MaxLocks /\ MaxLocks \in Nat
    BY SizeAssumption DEF TypeOK, Slot
  <1>2. [luid |-> l, drid |-> t] \in Entry
    BY DEF Entry
  <1> QED BY <1>1, <1>2 DEF StoreNew, TypeOK, Slot

\* The initial state is in the types.
LEMMA InitTypeOK == Init => TypeOK
  BY SizeAssumption DEF Init, TypeOK, Slot, Free, Entry, Mode

\* A step keeps to the types.
LEMMA StepTypeOK == TypeOK /\ [Next]_vars => TypeOK'
  <1> SUFFICES ASSUME TypeOK, [Next]_vars PROVE TypeOK'
    OBVIOUS
  <1>u. clients' \in Clients
    BY DEF TypeOK, Next, vars
  <1> DEFINE Res == Luids \cup {0, -EINVAL, -ETIME}
  <1>0. /\ \A i \in Slot : locks[i].luid \in Luids \cup {0}
        /\ 0 \in Slot /\ rank \in [Luids -> Nat] /\ mode \in Mode
    BY SizeAssumption DEF TypeOK, Entry, Slot
  <1>1. ASSUME NEW t \in Types, AcquireNew(t) PROVE TypeOK'
    <2>1. PICK l \in Fresh : StoreNew(l, t) /\ Keep(l) /\ Reply("acquire", "none", l)
      BY <1>1 DEF AcquireNew
    <2>2. l \in Luids /\ n < MaxLocks
      BY <1>1 DEF Fresh, AcquireNew, May
    <2>3. mode' \in Mode
      BY <1>0, <1>1, ActionMode DEF AcquireNew
    <2>4. locks' \in [Slot -> Entry] /\ n' \in 0..MaxLocks
      BY <2>1, <2>2, StoreNewTypes
    <2>5. rank' \in [Luids -> Nat]
      BY <1>0, <2>1, KeepTypes
    <2> QED BY <2>1, <2>2, <2>3, <2>4, <2>5, <1>u DEF TypeOK, Reply
  <1>2. ASSUME NEW t \in Types, AcquireFound(t) PROVE TypeOK'
    <2>1. mode' \in Mode
      BY <1>0, <1>2, ActionMode DEF AcquireFound
    <2>2. rank' \in [Luids -> Nat]
      BY <1>0, <1>2, KeepTypes DEF AcquireFound
    <2> QED BY <1>0, <1>2, <2>1, <2>2, <1>u DEF AcquireFound, TypeOK, Reply
  <1>3. ASSUME NEW t \in Types, AcquireTimedNew(t) PROVE TypeOK'
    <2>1. PICK l \in Fresh :
             /\ StoreNew(l, t)
             /\ \/ Reply("acquire", "created", -ETIME) /\ UNCHANGED rank
                \/ Reply("acquire", "failed", l) /\ Keep(l)
      BY <1>3 DEF AcquireTimedNew
    <2>2. l \in Luids /\ n < MaxLocks /\ UNCHANGED mode
      BY <1>3 DEF Fresh, AcquireTimedNew, May
    <2>3. locks' \in [Slot -> Entry] /\ n' \in 0..MaxLocks
      BY <2>1, <2>2, StoreNewTypes
    <2>4. rank' \in [Luids -> Nat]
      BY <1>0, <2>1, KeepTypes
    <2> QED BY <2>1, <2>2, <2>3, <2>4, <1>u DEF TypeOK, Reply
  <1>4. ASSUME NEW t \in Types, AcquireTimedFound(t) PROVE TypeOK'
    <2>1. rank' \in [Luids -> Nat]
      BY <1>0, <1>4, KeepTypes DEF AcquireTimedFound
    <2>2. locks[0].luid \in Luids \cup {0} /\ UNCHANGED <<locks, n, mode>>
      BY <1>0, <1>4 DEF AcquireTimedFound
    <2>3. \/ reply' = [call |-> "acquire", timer |-> "created", res |-> -ETIME]
          \/ reply' = [call |-> "acquire", timer |-> "failed", res |-> locks[0].luid]
      BY <1>4 DEF AcquireTimedFound, Reply
    <2> QED BY <2>1, <2>2, <2>3, <1>u DEF TypeOK
  <1>5. ASSUME NEW t \in Types, TimerCrash(t) PROVE TypeOK'
    BY <1>5, <1>u, SizeAssumption DEF TimerCrash, TypeOK, Reply, Slot, Free, Entry, Mode
  <1>6. CASE Refuse
    BY <1>6, <1>u DEF Refuse, TypeOK, Reply
  <1>7. ASSUME NEW h, PerfLockRelease(h), rank' \in [Luids -> Nat] PROVE TypeOK'
    <2>1. locks' \in [Slot -> Entry] /\ n' \in -1..MaxLocks
      <3>1. locks \in [Slot -> Entry] /\ n \in -1..MaxLocks /\ MaxLocks \in Nat
        BY SizeAssumption DEF TypeOK
      <3>2. n \in 0..MaxLocks =>
               n \in Slot /\ [luid |-> 0, drid |-> locks[n].drid] \in Entry /\ locks[n] \in Entry
        BY <3>1 DEF Slot, Entry
      <3>3. n \in 0..MaxLocks => n - 1 \in -1..MaxLocks
        BY <3>1
      <3> QED BY <1>7, <3>1, <3>2, <3>3, ReleaseOutcome
    <2>2. mode' \in Mode
      BY <1>0, <1>7, ReleaseOutcome, ActionMode
    <2>3. reply' = [call |-> "release", timer |-> "none", res |-> 0]
      BY <1>7, ReleaseOutcome
    <2> QED BY <1>7, <2>1, <2>2, <2>3, <1>u DEF TypeOK
  <1>8. ASSUME NEW h \in Luids, Release(h) PROVE TypeOK'
    BY <1>0, <1>7, <1>8, ReleaseRanks DEF Release
  <1>9. CASE ReleaseZero
    BY <1>0, <1>7, <1>9 DEF ReleaseZero
  <1>10. CASE UNCHANGED vars
    BY <1>10 DEF vars, TypeOK
  <1> QED BY <1>1, <1>2, <1>3, <1>4, <1>5, <1>6, <1>8, <1>9, <1>10 DEF Next, Acquire

\* The count, the table and the replies keep to their sets: the index is never
\* below -1, whatever is released how often.
THEOREM LocksTypeCorrect == Spec => []TypeOK
  BY InitTypeOK, StepTypeOK, PTL DEF Spec

-----------------------------------------------------------------------------
\* A step keeps every handle that is held in the table.
LEMMA StepHeldFindable == TypeOK /\ HeldFindable /\ [Next]_vars => HeldFindable'
  <1> SUFFICES ASSUME TypeOK, HeldFindable, [Next]_vars PROVE HeldFindable'
    OBVIOUS
  <1> USE DEF HeldFindable, Held
  <1>0. rank \in [Luids -> Nat] /\ n \in -1..MaxLocks /\ MaxLocks \in Nat
    BY SizeAssumption DEF TypeOK
  <1>1. ASSUME NEW l \in Luids, NEW t \in Types, n < MaxLocks, StoreNew(l, t),
               \A g \in Luids : rank'[g] > 0 => g = l \/ rank[g] > 0
        PROVE  HeldFindable'
    <2>1. /\ n' \in 0..MaxLocks /\ n' = n + 1 /\ locks'[n'].luid = l
          /\ \A i \in 0..n : locks'[i] = locks[i]
      BY <1>1, StoreNewTypes
    <2>2. \A i \in 0..n : i \in 0..n'
      BY <1>0, <2>1
    <2> SUFFICES ASSUME NEW g \in Luids, rank'[g] > 0
                 PROVE  \E i \in 0..n' : locks'[i].luid = g
      OBVIOUS
    <2>3. CASE g = l
      BY <2>1, <2>3
    <2>4. CASE rank[g] > 0
      <3>1. PICK i \in 0..n : locks[i].luid = g
        BY <2>4
      <3> QED BY <2>1, <2>2, <3>1
    <2> QED BY <1>1, <2>3, <2>4
  <1>2. ASSUME NEW t \in Types, AcquireNew(t) PROVE HeldFindable'
    <2>1. PICK l \in Fresh : StoreNew(l, t) /\ Keep(l)
      BY <1>2 DEF AcquireNew
    <2> QED BY <1>0, <1>1, <1>2, <2>1, KeepTypes DEF Fresh, AcquireNew, May
  <1>3. ASSUME NEW t \in Types, AcquireTimedNew(t) PROVE HeldFindable'
    <2>1. PICK l \in Fresh : StoreNew(l, t) /\ (Keep(l) \/ UNCHANGED rank)
      BY <1>3 DEF AcquireTimedNew
    <2> QED BY <1>0, <1>1, <1>3, <2>1, KeepTypes DEF Fresh, AcquireTimedNew, May
  <1>4. ASSUME n >= 1, UNCHANGED <<locks, n>>, Keep(locks[0].luid) \/ UNCHANGED rank
        PROVE  HeldFindable'
    <2>1. \A g \in Luids : rank'[g] > 0 => g = locks[0].luid \/ rank[g] > 0
      BY <1>0, <1>4, KeepTypes
    <2>2. 0 \in 0..n
      BY <1>0, <1>4
    <2> QED BY <1>4, <2>1, <2>2
  <1>5. ASSUME NEW t \in Types, AcquireFound(t) \/ AcquireTimedFound(t) PROVE HeldFindable'
    BY <1>4, <1>5 DEF AcquireFound, AcquireTimedFound, FoundByType
  <1>6. ASSUME NEW t \in Types, TimerCrash(t) PROVE HeldFindable'
    BY <1>6 DEF TimerCrash
  <1>7. ASSUME NEW h, PerfLockRelease(h),
               \A g \in Luids : rank'[g] > 0 => g # h /\ rank[g] > 0
        PROVE  HeldFindable'
    <2> SUFFICES ASSUME NEW g \in Luids, g # h, rank[g] > 0
                 PROVE  \E i \in 0..n' : locks'[i].luid = g
      BY <1>7
    <2>1. PICK i \in 0..n : locks[i].luid = g
      OBVIOUS
    <2>2. locks \in [Slot -> Entry] /\ i \in Slot
      BY <1>0 DEF TypeOK, Slot
    <2>3. CASE UNCHANGED <<locks, n>>
      BY <2>1, <2>3
    <2>4. CASE /\ n \in 0..MaxLocks /\ locks[n].luid = h /\ n' = n - 1
               /\ locks' = [locks EXCEPT ![n] = [luid |-> 0, drid |-> locks[n].drid]]
      <3>1. i # n /\ i \in 0..n'
        BY <1>0, <2>1, <2>4
      <3> QED BY <2>1, <2>2, <2>4, <3>1
    <2>5. CASE /\ n' = n
               /\ \E j \in 0..(n - 1) : locks[j].luid = h /\ locks' = [locks EXCEPT ![j] = locks[n]]
      <3>1. PICK j \in 0..(n - 1) : locks[j].luid = h /\ locks' = [locks EXCEPT ![j] = locks[n]]
        BY <2>5
      <3>2. i # j
        BY <2>1, <3>1
      <3> QED BY <2>1, <2>2, <2>5, <3>1, <3>2
    <2> QED BY <1>7, <2>3, <2>4, <2>5, ReleaseOutcome
  <1>8. ASSUME NEW h \in Luids, Release(h) PROVE HeldFindable'
    BY <1>0, <1>7, <1>8, ReleaseRanks DEF Release
  <1>9. CASE ReleaseZero
    <2>1. \A g \in Luids : rank'[g] > 0 => g # 0 /\ rank[g] > 0
      BY <1>9, LockAssumption DEF ReleaseZero
    <2> QED BY <1>7, <1>9, <2>1 DEF ReleaseZero
  <1>10. CASE Refuse \/ UNCHANGED vars
    BY <1>10 DEF Refuse, vars
  <1> QED BY <1>2, <1>3, <1>5, <1>6, <1>8, <1>9, <1>10 DEF Next, Acquire

\* Whatever is acquired, with a time or without, and released in whatever
\* order: a handle that is held is always found when it is released.
THEOREM HandlesFindable == Spec => []HeldFindable
  <1>1. Init => HeldFindable
    BY DEF Init, HeldFindable, Held
  <1> QED BY LocksTypeCorrect, <1>1, StepHeldFindable, PTL DEF Spec

-----------------------------------------------------------------------------
(* Clients that release the newest lock first.                             *)

\* The initial table is an empty stack.
LEMMA InitStack == Init => Stack
  <1> SUFFICES ASSUME Init PROVE Stack
    OBVIOUS
  <1>1. Held = {}
    BY DEF Init, Held
  <1>2. Cardinality(Held) = 0
    BY <1>1, FS_EmptySet
  <1>3. clients.held \in Nat
    BY ClientAssumption DEF Init, ClientSet
  <1> QED BY <1>1, <1>2, <1>3, SizeAssumption DEF Init, Stack, Slot, Free

\* A new lock goes on top of the stack, with its boost.
LEMMA PushStack ==
    ASSUME NestedClients, TypeOK, Stack, UNCHANGED clients, NEW t \in Types, AcquireNew(t)
    PROVE  Stack'
  <1>0. /\ n \in Nat /\ n < clients.held /\ clients.held \in Nat /\ n < MaxLocks /\ MaxLocks \in Nat
        /\ n = Cardinality(Held) /\ rank \in [Luids -> Nat]
    BY HeldFinite, SizeAssumption, ClientAssumption
    DEF Stack, AcquireNew, May, NestedClients, TypeOK, ClientSet
  <1>1. PICK l \in Fresh : StoreNew(l, t) /\ Keep(l)
    BY DEF AcquireNew
  <1>2. l \in Luids /\ l \notin Held
    BY DEF Fresh
  <1>3. /\ n' = n + 1 /\ locks'[n + 1] = [luid |-> l, drid |-> t]
        /\ \A i \in 0..n : locks'[i] = locks[i]
    BY <1>0, <1>1 DEF StoreNew, TypeOK, Slot
  <1>4. /\ rank'[l] = n + 1
        /\ \A h \in Luids : h # l => rank'[h] = rank[h]
    BY <1>0, <1>1, <1>2 DEF Keep
  <1>5. Held' = Held \cup {l}
    BY <1>0, <1>2, <1>4 DEF Held
  <1>6. Cardinality(Held') = n + 1
    BY <1>0, <1>2, <1>5, HeldFinite, FS_AddElement
  <1>7. locks'[0] = Free
    BY <1>0, <1>3 DEF Stack
  <1>8. \A h \in Held' : rank'[h] \in 1..n' /\ locks'[rank'[h]].luid = h
    <2> SUFFICES ASSUME NEW h \in Held \cup {l}
                 PROVE  rank'[h] \in 1..n' /\ locks'[rank'[h]].luid = h
      BY <1>5
    <2>1. CASE h = l
      BY <1>0, <1>3, <1>4, <2>1
    <2>2. CASE h # l
      <3>1. h \in Held /\ h \in Luids
        BY <2>2 DEF Held
      <3>2. rank[h] \in 1..n /\ locks[rank[h]].luid = h
        BY <3>1 DEF Stack
      <3> QED BY <1>0, <1>3, <1>4, <2>2, <3>1, <3>2
    <2> QED BY <2>1, <2>2
  <1>9. \A i \in 1..n' : /\ locks'[i].luid \in Held' /\ rank'[locks'[i].luid] = i
                        /\ locks'[i].drid \in Types
    <2> SUFFICES ASSUME NEW i \in 1..(n + 1)
                 PROVE  /\ locks'[i].luid \in Held' /\ rank'[locks'[i].luid] = i
                        /\ locks'[i].drid \in Types
      BY <1>3
    <2>1. CASE i = n + 1
      BY <1>3, <1>4, <1>5, <2>1
    <2>2. CASE i # n + 1
      <3>1. i \in 1..n /\ locks'[i] = locks[i]
        BY <1>0, <1>3, <2>2
      <3>2. locks[i].luid \in Held /\ rank[locks[i].luid] = i /\ locks[i].drid \in Types
        BY <3>1 DEF Stack
      <3>3. locks[i].luid \in Luids /\ locks[i].luid # l
        BY <1>2, <3>2 DEF Held
      <3> QED BY <1>4, <1>5, <3>1, <3>2, <3>3
    <2> QED BY <2>1, <2>2
  <1>10. mode' # "balanced" =>
           \E i \in 1..n' : locks'[i].drid \in DOMAIN Boost /\ Boost[locks'[i].drid] = mode'
    <2>1. mode' = LocktypeAction(t, TRUE)
      BY DEF AcquireNew
    <2>2. CASE t \in DOMAIN Boost
      <3>1. mode' = Boost[t] /\ locks'[n + 1].drid = t /\ n + 1 \in 1..n'
        BY <1>0, <1>3, <2>1, <2>2 DEF LocktypeAction
      <3> QED BY <2>2, <3>1
    <2>3. CASE t \notin DOMAIN Boost
      <3>1. mode' = mode
        BY <2>1, <2>3 DEF LocktypeAction
      <3>2. \A i \in 1..n : i \in 1..n' /\ locks'[i] = locks[i]
        BY <1>0, <1>3
      <3> QED BY <3>1, <3>2 DEF Stack
    <2> QED BY <2>2, <2>3
  <1>11. n' <= clients.held
    BY <1>0, <1>3
  <1> QED BY <1>3, <1>6, <1>7, <1>8, <1>9, <1>10, <1>11 DEF Stack

\* The handle released is the one on top, and nothing else changes.
LEMMA PopStack ==
    ASSUME NestedClients, TypeOK, Stack, UNCHANGED clients, NEW h \in Luids, Release(h)
    PROVE  /\ Stack'
           /\ n \in 1..MaxLocks /\ locks[n].luid = h /\ n' = n - 1
           /\ \A i \in 0..(n - 1) : locks'[i] = locks[i]
           /\ mode' = LocktypeAction(locks[n].drid, FALSE)
  <1>0. n \in Nat /\ clients.held \in Nat /\ MaxLocks \in Nat /\ n = Cardinality(Held) /\ n < MaxLocks
        /\ rank \in [Luids -> Nat] /\ n <= clients.held
    BY HeldFinite, SizeAssumption, ClientAssumption DEF Stack, NestedClients, TypeOK, ClientSet
  <1>1. h \in Held /\ \A g \in Held : rank[g] <= rank[h]
    BY DEF Release, Due, NestedClients
  <1>2. rank[h] \in 1..n /\ locks[rank[h]].luid = h
    BY <1>1 DEF Stack
  <1>3. n \in 1..n /\ locks[n].luid \in Held /\ rank[locks[n].luid] = n
    BY <1>0, <1>2 DEF Stack
  <1>4. rank[h] = n /\ locks[n].luid = h
    BY <1>0, <1>1, <1>2, <1>3
  <1>5. \A i \in 0..(n - 1) : locks[i].luid # h
    <2> SUFFICES ASSUME NEW i \in 0..(n - 1), locks[i].luid = h PROVE FALSE
      OBVIOUS
    <2>1. CASE i = 0
      BY <2>1, LockAssumption DEF Stack, Free
    <2>2. CASE i # 0
      <3>1. i \in 1..n
        BY <1>0, <2>2
      <3>2. rank[h] = i
        BY <3>1 DEF Stack
      <3> QED BY <1>0, <1>4, <3>2
    <2> QED BY <2>1, <2>2
  <1>6. Search(h) # {}
    <2>1. n \in Search(h)
      BY <1>0, <1>4 DEF Search
    <2> QED BY <2>1
  <1>7. \A i \in Search(h) : i = n
    BY <1>0, <1>5 DEF Search
  <1>8. Remove(n)
    BY <1>6, <1>7 DEF Release, PerfLockRelease
  <1>9. /\ locks' = [locks EXCEPT ![n] = [luid |-> 0, drid |-> locks[n].drid]]
        /\ n' = n - 1 /\ mode' = LocktypeAction(locks[n].drid, FALSE)
    <2>1. ~(n < n)
      BY <1>0
    <2> QED BY <1>8, <2>1, Zenon DEF Remove
  <1>10. \A i \in 0..(n - 1) : locks'[i] = locks[i]
    BY <1>0, <1>9 DEF TypeOK, Slot
  <1>11. rank'[h] = 0 /\ \A g \in Luids : g # h => rank'[g] = rank[g]
    <2>1. \A g \in Luids : ~(rank[g] > rank[h])
      BY <1>0, <1>1 DEF Held
    <2> QED BY <2>1 DEF Release
  <1>12. Held' = Held \ {h}
    BY <1>11 DEF Held
  <1>13. Cardinality(Held') = n - 1
    BY <1>0, <1>1, <1>12, HeldFinite, FS_RemoveElement
  <1>14. locks'[0] = Free
    BY <1>0, <1>3, <1>10 DEF Stack
  <1>15. \A g \in Held' : rank'[g] \in 1..n' /\ locks'[rank'[g]].luid = g
    <2> SUFFICES ASSUME NEW g \in Held, g # h
                 PROVE  rank'[g] \in 1..n' /\ locks'[rank'[g]].luid = g
      BY <1>12
    <2>1. rank[g] \in 1..n /\ locks[rank[g]].luid = g /\ rank'[g] = rank[g]
      BY <1>11 DEF Stack, Held
    <2>2. rank[g] # n
      BY <1>4, <2>1
    <2>3. rank[g] \in 0..(n - 1) /\ rank[g] \in 1..(n - 1)
      BY <1>0, <2>1, <2>2
    <2> QED BY <1>9, <1>10, <2>1, <2>3
  <1>16. \A i \in 1..n' : /\ locks'[i].luid \in Held' /\ rank'[locks'[i].luid] = i
                         /\ locks'[i].drid \in Types
    <2> SUFFICES ASSUME NEW i \in 1..(n - 1)
                 PROVE  /\ locks'[i].luid \in Held' /\ rank'[locks'[i].luid] = i
                        /\ locks'[i].drid \in Types
      BY <1>9
    <2>1. i \in 1..n /\ i \in 0..(n - 1) /\ i # n
      BY <1>0
    <2>2. locks[i].luid \in Held /\ rank[locks[i].luid] = i /\ locks[i].drid \in Types
      BY <2>1 DEF Stack
    <2>3. locks[i].luid # h /\ locks[i].luid \in Luids
      BY <1>4, <2>1, <2>2 DEF Held
    <2> QED BY <1>10, <1>11, <1>12, <2>1, <2>2, <2>3
  <1>17. mode' # "balanced" =>
           \E i \in 1..n' : locks'[i].drid \in DOMAIN Boost /\ Boost[locks'[i].drid] = mode'
    <2> SUFFICES ASSUME mode' # "balanced"
                 PROVE  \E i \in 1..(n - 1) : locks[i].drid \in DOMAIN Boost /\ Boost[locks[i].drid] = mode'
      <3>1. \A i \in 1..(n - 1) : locks'[i] = locks[i]
        BY <1>0, <1>10
      <3> QED BY <1>9, <3>1
    <2>1. locks[n].drid \notin DOMAIN Boost /\ mode' = mode
      BY <1>9 DEF LocktypeAction
    <2>2. PICK i \in 1..n : locks[i].drid \in DOMAIN Boost /\ Boost[locks[i].drid] = mode
      BY <2>1 DEF Stack
    <2>3. i # n
      BY <2>1, <2>2
    <2>4. i \in 1..(n - 1)
      BY <1>0, <2>3
    <2> QED BY <2>1, <2>2, <2>4
  <1>18. n' <= clients.held
    BY <1>0, <1>9
  <1>19. Stack'
    BY <1>9, <1>13, <1>14, <1>15, <1>16, <1>17, <1>18 DEF Stack
  <1>20. n \in 1..MaxLocks
    BY <1>0, <1>3
  <1> QED BY <1>4, <1>9, <1>10, <1>19, <1>20

\* Every step of such clients keeps the table a stack.
LEMMA StepStack == TypeOK /\ TableIsStack /\ [Next]_vars => TableIsStack'
  <1> SUFFICES ASSUME TypeOK, TableIsStack, [Next]_vars, NestedClients' PROVE Stack'
    BY DEF TableIsStack
  <1>0. UNCHANGED clients
    BY DEF Next, vars
  <1>a. NestedClients
    BY <1>0 DEF NestedClients
  <1>b. Stack
    BY <1>a DEF TableIsStack
  <1>1. 1 \notin clients.times /\ ~clients.zero
    BY <1>a DEF NestedClients
  <1>2. ASSUME NEW t \in Types, AcquireNew(t) PROVE Stack'
    BY <1>0, <1>a, <1>b, <1>2, PushStack
  <1>3. ASSUME NEW t \in Types, AcquireFound(t) PROVE Stack'
    <2>1. locks[0].luid = 0 /\ locks[0].drid = "none"
      BY <1>b DEF Stack, Free
    <2>2. 0 \notin Luids
      BY LockAssumption
    <2>3. mode' = mode
      BY <1>3, <2>1 DEF AcquireFound, LocktypeAction, Boost
    <2>4. locks' = locks /\ n' = n /\ rank' = rank
      BY <1>3, <2>1, <2>2 DEF AcquireFound, Keep
    <2> QED BY <1>0, <1>b, <2>3, <2>4 DEF Stack, Held
  <1>4. ASSUME NEW t \in Types, AcquireTimedNew(t) \/ AcquireTimedFound(t) \/ TimerCrash(t)
        PROVE  FALSE
    BY <1>1, <1>4 DEF AcquireTimedNew, AcquireTimedFound, TimerCrash
  <1>5. ASSUME NEW h \in Luids, Release(h) PROVE Stack'
    BY <1>0, <1>a, <1>b, <1>5, PopStack
  <1>6. ~ReleaseZero
    BY <1>1 DEF ReleaseZero
  <1>7. CASE Refuse \/ UNCHANGED vars
    <2>1. locks' = locks /\ n' = n /\ rank' = rank /\ mode' = mode
      BY <1>7 DEF Refuse, vars
    <2> QED BY <1>0, <1>b, <2>1 DEF Stack, Held
  <1> QED BY <1>2, <1>3, <1>4, <1>5, <1>6, <1>7 DEF Next, Acquire

\* With clients that release the newest lock first, ask for no times and hold
\* fewer locks than the table has entries, the table is the stack of the locks
\* they hold.
THEOREM NestedStack == Spec => []TableIsStack
  <1>1. Init => TableIsStack
    BY InitStack DEF TableIsStack
  <1> QED BY <1>1, StepStack, LocksTypeCorrect, PTL DEF Spec

\* What the stack gives: room, no ghosts, balanced at rest, a granted boost.
LEMMA StackGives ==
    ASSUME NestedClients, TypeOK, Stack
    PROVE  InTable /\ ReleasedGone /\ BalancedAtRest /\ BoostIsGranted
  <1>0. n \in Nat /\ n <= clients.held /\ clients.held < MaxLocks /\ clients.held \in Nat
        /\ MaxLocks \in Nat /\ n = Cardinality(Held)
    BY HeldFinite, SizeAssumption, ClientAssumption DEF Stack, NestedClients, TypeOK, ClientSet
  <1>1. InTable
    BY <1>0 DEF InTable
  <1>2. ReleasedGone
    <2> SUFFICES ASSUME NEW i \in 0..n PROVE locks[i].luid \in Held \cup {0}
      BY DEF ReleasedGone
    <2>1. i = 0 \/ i \in 1..n
      BY <1>0
    <2> QED BY <2>1 DEF Stack, Free
  <1>3. BoostIsGranted
    <2> SUFFICES ASSUME mode # "balanced"
                 PROVE  \E k \in {locks[i] : i \in 1..n} : k.drid \in DOMAIN Boost /\ Boost[k.drid] = mode
      BY DEF BoostIsGranted, Locks!BoostIsGranted, Locks!Boosts
    <2> QED BY DEF Stack
  <1>4. BalancedAtRest
    <2> SUFFICES ASSUME Held = {}, mode # "balanced" PROVE FALSE
      BY DEF BalancedAtRest
    <2>1. n = 0
      BY <1>0, FS_EmptySet
    <2> QED BY <2>1 DEF Stack
  <1> QED BY <1>1, <1>2, <1>3, <1>4

\* The safety properties of such clients: no write outside the table, no lock
\* left behind, no boost left on, no boost without a lock.
THEOREM NestedClientsServed ==
    Spec => [](NestedClients => InTable /\ ReleasedGone /\ BalancedAtRest /\ BoostIsGranted)
  <1>1. TypeOK /\ TableIsStack =>
           (NestedClients => InTable /\ ReleasedGone /\ BalancedAtRest /\ BoostIsGranted)
    BY StackGives DEF TableIsStack
  <1> QED BY <1>1, NestedStack, LocksTypeCorrect, PTL

-----------------------------------------------------------------------------
(* The table of such clients implements the locks PerfLocks promises.      *)

Granted == {locks[i] : i \in 1..n}

\* The initial state is one of the abstract locks.
LEMMA InitIsLocks == Init => Locks!Init
  <1> SUFFICES ASSUME Init PROVE Locks!Init
    OBVIOUS
  <1>1. 1..n = {}
    BY DEF Init
  <1>2. Granted = {}
    BY <1>1 DEF Granted
  <1> QED BY <1>2 DEF Init, Locks!Init, Granted

\* A lock put on top of the stack is granted.
LEMMA PushGrants ==
    ASSUME NestedClients, TypeOK, Stack, UNCHANGED clients, NEW t \in Types, AcquireNew(t)
    PROVE  Locks!Next
  <1>0. n \in Nat /\ n < MaxLocks /\ MaxLocks \in Nat /\ locks \in [Slot -> Entry]
    BY HeldFinite, SizeAssumption, ClientAssumption
    DEF Stack, AcquireNew, May, NestedClients, TypeOK, ClientSet
  <1>1. PICK l \in Fresh : StoreNew(l, t)
    BY DEF AcquireNew
  <1> DEFINE k == [luid |-> l, drid |-> t]
  <1>2. /\ n' = n + 1 /\ locks'[n + 1] = k
        /\ \A i \in 0..n : locks'[i] = locks[i]
    BY <1>0, <1>1 DEF StoreNew, Slot
  <1>3. k \in Locks!Lock
    BY <1>1 DEF Locks!Lock, Fresh
  <1>4. \A g \in Granted : g.luid # k.luid
    BY <1>0, <1>1 DEF Fresh, Granted, Slot
  <1>5. Granted' = Granted \cup {k}
    <2>1. \A i \in 1..(n + 1) : i = n + 1 \/ (i \in 1..n /\ locks'[i] = locks[i])
      BY <1>0, <1>2
    <2>2. \A i \in 1..n : i \in 1..(n + 1) /\ locks'[i] = locks[i]
      BY <1>0, <1>2
    <2>3. n + 1 \in 1..(n + 1)
      BY <1>0
    <2> HIDE DEF k
    <2> QED BY <1>2, <2>1, <2>2, <2>3 DEF Granted
  <1>6. mode' = IF Locks!Boosts(k.drid) THEN Boost[k.drid] ELSE mode
    BY DEF AcquireNew, LocktypeAction, Locks!Boosts
  <1>7. NestedClients'
    BY DEF NestedClients
  <1>8. Locks!Acquire(k)
    BY <1>4, <1>5, <1>6, <1>7 DEF Locks!Acquire, Granted
  <1> QED BY <1>3, <1>8 DEF Locks!Next

\* The lock taken from the top is the one that is no longer granted.
LEMMA PopTakesBack ==
    ASSUME NestedClients, TypeOK, Stack, UNCHANGED clients, NEW h \in Luids, Release(h)
    PROVE  Locks!Next
  <1>0. /\ n \in 1..MaxLocks /\ MaxLocks \in Nat /\ n' = n - 1
        /\ \A i \in 0..(n - 1) : locks'[i] = locks[i]
        /\ mode' = LocktypeAction(locks[n].drid, FALSE)
    BY PopStack, SizeAssumption
  <1>k. PICK k : k = locks[n]
    OBVIOUS
  <1>1. n \in 1..n
    BY <1>0
  <1>2. k.luid \in Luids /\ k.drid \in Types /\ k \in Entry
    BY <1>k, <1>0, <1>1 DEF Stack, TypeOK, Slot, Held
  <1>3. k \in Locks!Lock
    BY <1>2 DEF Locks!Lock, Entry
  <1>4. \A i \in 1..(n - 1) : locks[i] # k
    <2> SUFFICES ASSUME NEW i \in 1..(n - 1), locks[i] = locks[n] PROVE FALSE
      BY <1>k
    <2>1. i \in 1..n /\ i # n
      BY <1>0
    <2>2. rank[locks[i].luid] = i /\ rank[locks[n].luid] = n
      BY <1>1, <2>1 DEF Stack
    <2> QED BY <2>1, <2>2
  <1>5. Granted' = Granted \ {k}
    <2>1. \A i \in 1..n : i = n \/ i \in 1..(n - 1)
      BY <1>0
    <2>2. \A i \in 1..(n - 1) : i \in 1..n /\ locks'[i] = locks[i]
      BY <1>0
    <2> QED BY <1>k, <1>0, <1>4, <2>1, <2>2 DEF Granted
  <1>6. mode' = IF Locks!Boosts(k.drid) THEN "balanced" ELSE mode
    BY <1>k, <1>0 DEF LocktypeAction, Locks!Boosts
  <1>7. k \in Granted
    BY <1>k, <1>1 DEF Granted
  <1>8. NestedClients'
    BY DEF NestedClients
  <1>9. Locks!Release(k)
    BY <1>5, <1>6, <1>7, <1>8 DEF Locks!Release, Granted
  <1> QED BY <1>3, <1>9 DEF Locks!Next

\* With clients that release the newest lock first, ask for no times and hold
\* fewer locks than the table has entries, every lock is granted until its own
\* release takes it back: the table implements PerfLocks.
THEOREM NestedRefinement == Spec => LocksKept
  <1>1. TypeOK /\ TableIsStack /\ [Next]_vars => [Locks!Next]_(Locks!vars)
    <2> SUFFICES ASSUME TypeOK, TableIsStack, [Next]_vars PROVE [Locks!Next]_(Locks!vars)
      OBVIOUS
    <2>0. UNCHANGED clients
      BY DEF Next, vars
    <2>a. CASE ~NestedClients
      <3>1. ~NestedClients'
        BY <2>0, <2>a DEF NestedClients
      <3> QED BY <2>a, <3>1 DEF Locks!vars
    <2>b. CASE NestedClients
      <3>s. Stack
        BY <2>b DEF TableIsStack
      <3>1. 1 \notin clients.times /\ ~clients.zero
        BY <2>b DEF NestedClients
      <3>2. ASSUME NEW t \in Types, AcquireNew(t) PROVE Locks!Next
        BY <2>0, <2>b, <3>s, <3>2, PushGrants
      <3>3. ASSUME NEW t \in Types, AcquireFound(t) PROVE UNCHANGED <<locks, n, mode>>
        BY <3>s, <3>3 DEF AcquireFound, Stack, Free, LocktypeAction, Boost
      <3>4. ASSUME NEW t \in Types, AcquireTimedNew(t) \/ AcquireTimedFound(t) \/ TimerCrash(t)
            PROVE  FALSE
        BY <3>1, <3>4 DEF AcquireTimedNew, AcquireTimedFound, TimerCrash
      <3>5. ASSUME NEW h \in Luids, Release(h) PROVE Locks!Next
        BY <2>0, <2>b, <3>s, <3>5, PopTakesBack
      <3>6. ~ReleaseZero
        BY <3>1 DEF ReleaseZero
      <3>7. Refuse \/ UNCHANGED vars => UNCHANGED <<locks, n, mode>>
        BY DEF Refuse, vars
      <3>8. UNCHANGED <<locks, n, mode>> => UNCHANGED Locks!vars
        BY <2>0 DEF Locks!vars, NestedClients
      <3> QED BY <3>2, <3>3, <3>4, <3>5, <3>6, <3>7, <3>8 DEF Next, Acquire
    <2> QED BY <2>a, <2>b
  <1> QED BY <1>1, NestedStack, LocksTypeCorrect, InitIsLocks, PTL DEF Spec, LocksKept, Locks!Spec

=============================================================================
