------------------------------- MODULE Lists -------------------------------
(***************************************************************************)
(* Array.filter of the window's stores, for lists whose order matters.     *)
(***************************************************************************)
EXTENDS Integers, Sequences, Functions

\* What filter may return: the items at the places that pass, in their order.
\* The set has one member; said of a set it needs no recursion.
Filter(items, pass) ==
    UNION {{[i \in 1..len |-> items[place[i]]] :
                place \in {f \in [1..len -> pass] :
                              Range(f) = pass /\ \A i, j \in 1..len : i < j => f[i] < f[j]}} :
            len \in 0..Len(items)}
Keep(items, pass) == CHOOSE kept \in Filter(items, pass) : TRUE

\* filter(item => item !== x), and indexOf of an item that is there
Without(items, x) == Keep(items, {i \in DOMAIN items : items[i] # x})
IndexIn(items, x) == CHOOSE i \in DOMAIN items : items[i] = x
=============================================================================
