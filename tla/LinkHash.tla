------------------------------ MODULE LinkHash ------------------------------
(***************************************************************************)
(* struct lh_table of json-c (hardware/json-c/linkhash.c): a hash table    *)
(* with open addressing whose entries are in a list, in the order of their *)
(* insertion.  A slot that was given up stays marked as freed, so that     *)
(* searches go on behind it, and only counts again when it is reused: a    *)
(* table can run out of empty slots with few entries in it.                *)
(*                                                                         *)
(* A pointer to an entry is the index of its slot; the functions of the    *)
(* table are operators from a table to what becomes of it.                 *)
(***************************************************************************)
EXTENDS Integers, Sequences, FiniteSetsExt, SequencesExt

EMPTY == "LH_EMPTY"
FREED == "LH_FREED"
NULL == -1
Nothing == "null"        \* the value NULL

EmptySlot == [k |-> EMPTY, v |-> Nothing, next |-> NULL, prev |-> NULL]

\* lh_table_new.
NewTable(size, hash_fn) ==
    [size |-> size, count |-> 0, head |-> NULL, tail |-> NULL, hash_fn |-> hash_fn,
     table |-> [n \in 0..(size - 1) |-> EmptySlot]]

\* The slot looked at after i others: behind the last one comes the first.
Probe(t, k, i) ==
    LET n == (t.hash_fn[k] % t.size) + i IN IF n < t.size THEN n ELSE n - t.size

\* LH_LOAD_FACTOR.
Loaded(t) == 100 * t.count >= 66 * t.size

\* The entries from head on; NULL ends them.
Entries(t) ==
    LET at[i \in 1..t.size] ==
            IF i = 1 THEN t.head
            ELSE LET e == at[i - 1] IN IF e = NULL THEN NULL ELSE t.table[e].next
    IN [i \in {j \in 1..t.size : at[j] # NULL} |-> at[i]]

\* lh_table_insert without the resize: the first slot that is empty or freed.
Store(t, k, v) ==
    LET free == {i \in 0..(t.size - 1) : t.table[Probe(t, k, i)].k \in {EMPTY, FREED}}
        n == Probe(t, k, Min(free))
        entry == [k |-> k, v |-> v, next |-> NULL, prev |-> t.tail]
    IN IF t.head = NULL
       THEN [t EXCEPT !.table[n] = [entry EXCEPT !.prev = NULL], !.count = @ + 1,
                      !.head = n, !.tail = n]
       ELSE [t EXCEPT !.table = [@ EXCEPT ![t.tail].next = n, ![n] = entry],
                      !.count = @ + 1, !.tail = n]

\* lh_table_resize: the entries are inserted into a new table, in their order.
Resize(t, size) ==
    LET ent == Entries(t)
        new_t[i \in 0..Len(ent)] ==
            IF i = 0 THEN NewTable(size, t.hash_fn)
            ELSE Store(new_t[i - 1], t.table[ent[i]].k, t.table[ent[i]].v)
    IN new_t[Len(ent)]

\* lh_table_insert.
Insert(t, k, v) == Store(IF Loaded(t) THEN Resize(t, 2 * t.size) ELSE t, k, v)

\* Mutant: a freed slot ends the search.
LookupEntry_StopAtFreed(t, k) ==
    LET found == {i \in 0..(t.size - 1) :
                     /\ t.table[Probe(t, k, i)].k = k
                     /\ \A j \in 0..(i - 1) : t.table[Probe(t, k, j)].k \notin {EMPTY, FREED}}
    IN IF found = {} THEN NULL ELSE Probe(t, k, Min(found))

\* lh_table_lookup_entry: no further than an empty slot, nor than once around.
LookupEntry(t, k) ==
    LET found == {i \in 0..(t.size - 1) :
                     /\ t.table[Probe(t, k, i)].k = k
                     /\ \A j \in 0..(i - 1) : t.table[Probe(t, k, j)].k # EMPTY}
    IN IF found = {} THEN NULL ELSE Probe(t, k, Min(found))

\* lh_table_delete_entry of an entry in use, without the callback.
DeleteEntry(t, n) ==
    LET e == t.table[n]
        freed == [t EXCEPT !.table[n] = [EmptySlot EXCEPT !.k = FREED], !.count = @ - 1]
    IN CASE t.head = n /\ t.tail = n -> [freed EXCEPT !.head = NULL, !.tail = NULL]
         [] t.head = n /\ t.tail # n -> [freed EXCEPT !.head = e.next,
                                                      !.table[e.next].prev = NULL]
         [] t.head # n /\ t.tail = n -> [freed EXCEPT !.tail = e.prev,
                                                      !.table[e.prev].next = NULL]
         [] OTHER -> [freed EXCEPT !.table = [@ EXCEPT ![e.prev].next = e.next,
                                                       ![e.next].prev = e.prev]]

\* The names and values of the table, in order.
Pairs(t) == LET ent == Entries(t) IN
            [i \in DOMAIN ent |-> <<t.table[ent[i]].k, t.table[ent[i]].v>>]
NamesOf(t) == LET p == Pairs(t) IN [i \in DOMAIN p |-> p[i][1]]
ValuesOf(t) == LET p == Pairs(t) IN [i \in DOMAIN p |-> p[i][2]]

=============================================================================
