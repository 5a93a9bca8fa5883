----------------------------- MODULE JsonObject -----------------------------
(***************************************************************************)
(* The objects and arrays of json-c (hardware/json-c/json_object.c): who   *)
(* owns a value, counted in _ref_count, across the fields of an object     *)
(* (LinkHash) and the elements of an array (arraylist.c), and the loops    *)
(* over the fields of an object, which may change it as they go.           *)
(*                                                                         *)
(* The caller is outside src/ and keeps what json_object.h asks for: it    *)
(* gives away and puts only what it owns, and adds no field in a loop.     *)
(***************************************************************************)
EXTENDS LinkHash

CONSTANTS
    Keys,         \* the names of fields
    Leaf,         \* values that own nothing
    Hashes,       \* lh_char_hash, for every random seed
    InitSize,     \* JSON_OBJECT_DEF_HASH_ENTRIES
    ListSize,     \* ARRAY_LIST_DEFAULT_SIZE
    MaxOwned,     \* bound: how often the caller owns a value
    MaxLength     \* bound: the length of an array

ASSUME SizeAssumption == InitSize \in Nat \ {0} /\ ListSize \in Nat \ {0}
ASSUME BoundAssumption == MaxOwned \in Nat /\ MaxLength \in Nat
ASSUME HashAssumption == Hashes \subseteq [Keys -> Nat]
ASSUME NameAssumption == {EMPTY, FREED} \cap Keys = {} /\ Nothing \notin Leaf

VARIABLES
    kind,         \* o_type of the container: "object" or "array"
    live,         \* the container has not been freed
    t,            \* c_object, its table
    arr,          \* c_array: size, length, and array from index 0 on
    refs,         \* _ref_count of each value, 0 when it is free
    owned,        \* how often the caller owns it
    iter,         \* the loop over the fields: its kind, the entry and the next one
    visited,      \* history: the keys the loop has come to
    due,          \* history: the keys it is to come to
    lost          \* history: its body has deleted the entry it goes on from

vars == <<kind, live, t, arr, refs, owned, iter, visited, due, lost>>
loop == <<iter, visited, due, lost>>

Value == Leaf \cup {Nothing}
NewList == [size |-> ListSize, length |-> 0, array |-> [i \in 0..(ListSize - 1) |-> Nothing]]
NoLoop == [kind |-> "none", entry |-> NULL, next |-> NULL]

-----------------------------------------------------------------------------
(* Ownership.                                                              *)

\* json_object_put of a value, and of each of the values of a sequence.
Put(r, v) == IF v = Nothing THEN r ELSE [r EXCEPT ![v] = @ - 1]
PutAll(r, s) == [v \in DOMAIN r |-> r[v] - Cardinality({i \in DOMAIN s : s[i] = v})]

\* What the caller may give away, and that it has given it away.
Mine(v) == v # Nothing => owned[v] > 0
Give(v) == owned' = Put(owned, v)

\* The values of the container.
Contents == IF kind = "object" THEN ValuesOf(t)
            ELSE [i \in 1..arr.size |-> arr.array[i - 1]]

\* json_object_new_*: the memory of a value that is free.
New(v) ==
    /\ refs[v] = 0 /\ MaxOwned > 0
    /\ refs' = [refs EXCEPT ![v] = 1] /\ owned' = [owned EXCEPT ![v] = 1]
    /\ UNCHANGED <<kind, live, t, arr, loop>>

\* json_object_get of a value the caller owns or has found in the container.
Get(v) ==
    /\ owned[v] > 0 \/ (live /\ \E i \in DOMAIN Contents : Contents[i] = v)
    /\ owned[v] < MaxOwned
    /\ refs' = [refs EXCEPT ![v] = @ + 1] /\ owned' = [owned EXCEPT ![v] = @ + 1]
    /\ UNCHANGED <<kind, live, t, arr, loop>>

\* json_object_put of a value.
PutLeaf(v) ==
    /\ owned[v] > 0
    /\ refs' = Put(refs, v) /\ Give(v)
    /\ UNCHANGED <<kind, live, t, arr, loop>>

\* json_object_put of the container: lh_table_free or array_list_free.
PutContainer ==
    /\ live /\ iter = NoLoop
    /\ live' = FALSE
    /\ refs' = PutAll(refs, IF kind = "object" THEN Contents
                            ELSE [i \in 1..arr.length |-> arr.array[i - 1]])
    /\ t' = NewTable(InitSize, t.hash_fn) /\ arr' = NewList
    /\ UNCHANGED <<kind, owned, loop>>

\* json_object_new_object or json_object_new_array.
NewContainer ==
    /\ ~live
    /\ live' = TRUE
    /\ UNCHANGED <<kind, t, arr, refs, owned, loop>>

-----------------------------------------------------------------------------
(* The fields of an object.                                                *)

Using(k) == live /\ kind = k

\* Mutant: the value that is replaced is not put.
ObjectAdd_NoPut(k, v) ==
    /\ Using("object") /\ Mine(v) /\ iter = NoLoop
    /\ LET e == LookupEntry(t, k) IN
       t' = IF e = NULL THEN Insert(t, k, v) ELSE [t EXCEPT !.table[e].v = v]
    /\ Give(v)
    /\ UNCHANGED <<kind, live, arr, refs, loop>>

\* json_object_object_add; in a loop, of a key that is there.
ObjectAdd(k, v) ==
    /\ Using("object") /\ Mine(v)
    /\ LET e == LookupEntry(t, k) IN
       \/ e = NULL /\ iter = NoLoop /\ t' = Insert(t, k, v) /\ UNCHANGED refs
       \/ e # NULL /\ t' = [t EXCEPT !.table[e].v = v] /\ refs' = Put(refs, t.table[e].v)
    /\ Give(v)
    /\ UNCHANGED <<kind, live, arr, loop>>

\* The entry a loop goes on from: the macro remembers the next one, an iterator the current
\* one, in a table whose freed slots lead nowhere.
GoesOn == IF iter.kind = "foreach" THEN iter.next ELSE iter.entry

\* json_object_object_del.
ObjectDel(k) ==
    /\ Using("object")
    /\ LET e == LookupEntry(t, k) IN
       /\ e # NULL
       /\ t' = DeleteEntry(t, e) /\ refs' = Put(refs, t.table[e].v)
       /\ lost' = (lost \/ e = GoesOn)
    /\ IF k \in Range(due) \ Range(visited)
       THEN \E i \in DOMAIN due : due[i] = k /\ due' = RemoveAt(due, i)
       ELSE due' = due
    /\ UNCHANGED <<kind, live, arr, owned, iter, visited>>

\* The loop comes to an entry; the macro looks at the next one before its body.
ComeTo(how, e) ==
    /\ iter' = [kind |-> how, entry |-> e,
                next |-> IF how = "foreach" /\ e # NULL THEN t.table[e].next ELSE NULL]
    /\ visited' = IF e = NULL THEN visited ELSE Append(visited, t.table[e].k)

\* json_object_object_foreach, or json_object_iter_begin.
BeginLoop(how) ==
    /\ Using("object") /\ iter = NoLoop /\ t.head # NULL
    /\ ComeTo(how, t.head)
    /\ due' = NamesOf(t) /\ lost' = FALSE
    /\ UNCHANGED <<kind, live, t, arr, refs, owned>>

\* Mutant: the next entry is looked at after the body.
Advance_NoTmp ==
    /\ iter.kind # "none" /\ iter.entry # NULL
    /\ ComeTo(iter.kind, t.table[iter.entry].next)
    /\ UNCHANGED <<kind, live, t, arr, refs, owned, due, lost>>

\* The next round, of the macro or with json_object_iter_next.
Advance ==
    /\ iter.kind # "none" /\ iter.entry # NULL
    /\ ComeTo(iter.kind, IF iter.kind = "foreach" THEN GoesOn ELSE t.table[GoesOn].next)
    /\ UNCHANGED <<kind, live, t, arr, refs, owned, due, lost>>

EndLoop ==
    /\ iter.kind # "none" /\ iter.entry = NULL
    /\ iter' = NoLoop /\ visited' = <<>> /\ due' = <<>> /\ lost' = FALSE
    /\ UNCHANGED <<kind, live, t, arr, refs, owned>>

-----------------------------------------------------------------------------
(* The elements of an array.                                               *)

\* array_list_expand_internal: realloc, and the new part is set to NULL.
Expand(a, max) ==
    LET size == IF 2 * a.size < max THEN max ELSE 2 * a.size IN
    IF max < a.size THEN a
    ELSE [a EXCEPT !.size = size,
                   !.array = [i \in 0..(size - 1) |->
                                 IF i < a.size THEN a.array[i] ELSE Nothing]]

\* json_object_array_put_idx, and json_object_array_add at the end.
ArrayPutIdx(idx, v) ==
    /\ Using("array") /\ Mine(v) /\ idx < MaxLength
    /\ LET a == Expand(arr, idx + 1) IN
       /\ refs' = Put(refs, a.array[idx])
       /\ arr' = [a EXCEPT !.array[idx] = v, !.length = IF @ <= idx THEN idx + 1 ELSE @]
    /\ Give(v)
    /\ UNCHANGED <<kind, live, t, loop>>

ArrayAdd(v) == ArrayPutIdx(arr.length, v)

-----------------------------------------------------------------------------
Init ==
    /\ kind \in {"object", "array"} /\ live = TRUE
    /\ \E h \in Hashes : t = NewTable(InitSize, h)
    /\ arr = NewList
    /\ refs = [v \in Leaf |-> 0] /\ owned = [v \in Leaf |-> 0]
    /\ iter = NoLoop /\ visited = <<>> /\ due = <<>> /\ lost = FALSE

Next ==
    \/ \E v \in Leaf : New(v) \/ Get(v) \/ PutLeaf(v)
    \/ PutContainer \/ NewContainer
    \/ \E k \in Keys : ObjectDel(k) \/ \E v \in Value : ObjectAdd(k, v)
    \/ \E how \in {"foreach", "iterator"} : BeginLoop(how)
    \/ Advance \/ EndLoop
    \/ \E v \in Value : ArrayAdd(v) \/ \E idx \in 0..(MaxLength - 1) : ArrayPutIdx(idx, v)

Spec == Init /\ [][Next]_vars

-----------------------------------------------------------------------------
\* The fields of an object are an ordered map, however names collide, slots are freed and
\* reused, and the table grows.
Fields == INSTANCE OrderedMap WITH Name <- Keys, Content <- Value, pairs <- Pairs(t)
RefinesOrderedMap == Fields!Spec

\* The count of a value is the number of its owners: the caller, fields and elements.
\* Nothing is freed while it is owned, and what nobody owns is free.
Occurs(v) == LET c == Contents IN Cardinality({i \in DOMAIN c : c[i] = v})
RefsExact == \A v \in Leaf : refs[v] = owned[v] + Occurs(v)

\* A loop comes to every field that is not deleted before it gets there, once and in
\* order, although its body deletes and replaces fields, unless the body deletes the very
\* entry the loop goes on from. Then it comes to nothing that is not there but, once, to
\* the slot that was freed. That "deleting an existing key, or replacing an existing key
\* with a new value IS allowed" (json_object.h, 336) is more than the code keeps: see
\* EveryLoopVisitsAll.
LoopVisitsAll ==
    /\ \A i \in DOMAIN visited :
          \/ i \in DOMAIN due /\ visited[i] = due[i]
          \/ lost /\ i = Len(visited) /\ visited[i] = FREED
    /\ iter.kind # "none" /\ iter.entry = NULL /\ ~lost => visited = due

\* Not so in this code: a body may delete any field of a loop of the macro. The macro has
\* the next entry already (353), and goes on with its freed slot, where the list ends.
EveryLoopVisitsAll == iter.kind = "foreach" /\ iter.entry = NULL => visited = due

=============================================================================
