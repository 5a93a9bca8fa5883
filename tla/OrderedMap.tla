----------------------------- MODULE OrderedMap -----------------------------
(***************************************************************************)
(* What an object of json-c promises about its fields                      *)
(* (hardware/json-c/json_object.h): each name is there once, with the      *)
(* value it was given last; the fields keep the order in which their names *)
(* came in; and a field that is deleted is forgotten.                      *)
(***************************************************************************)
EXTENDS Sequences, SequencesExt

CONSTANTS Name, Content

VARIABLE pairs        \* the fields in order, each a name and its value

Names == {pairs[i][1] : i \in DOMAIN pairs}

Init == pairs = <<>>

\* A new name comes last; the value of a known one is replaced in its place.
Add(k, v) ==
    \/ k \notin Names /\ pairs' = Append(pairs, <<k, v>>)
    \/ /\ k \in Names
       /\ pairs' = [i \in DOMAIN pairs |-> IF pairs[i][1] = k THEN <<k, v>> ELSE pairs[i]]

Delete(k) == \E i \in DOMAIN pairs : pairs[i][1] = k /\ pairs' = RemoveAt(pairs, i)

Free == pairs' = <<>>

Next ==
    \/ \E k \in Name : Delete(k) \/ \E v \in Content : Add(k, v)
    \/ Free

Spec == Init /\ [][Next]_pairs

=============================================================================
