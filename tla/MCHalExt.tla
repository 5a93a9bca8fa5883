------------------------------ MODULE MCHalExt ------------------------------
(* Clients of the performance locks, for model checking. *)
EXTENDS HalExt

AllTypes == {"OMX_DECODER", "DISPLAY_LAYER", "OMX_ENCODER"}

\* Clients that fill the table but for an entry, newest lock first; and two locks
\* at a time in any order, with times and handles of 0.
NestedOrAny ==
    {[order |-> "lifo", held |-> 3, times |-> {0}, zero |-> FALSE],
     [order |-> "any", held |-> 2, times |-> {0, 1}, zero |-> TRUE]}

=============================================================================
