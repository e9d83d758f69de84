----------------------------- MODULE IntegerSet -----------------------------
(***************************************************************************)
(* What MCOIndexSet.h promises: sets of integers to which ranges and other  *)
(* sets are added, from which they are removed, and which are intersected   *)
(* with them.  IndexSet.tla is shown to implement it.                       *)
(***************************************************************************)
EXTENDS Integers

CONSTANTS Names, MAX

VARIABLE contents

Init == contents = [s \in Names |-> {}]

Becomes(s, S) == contents' = [contents EXCEPT ![s] = S]

AddRange(s) == \E left, right \in 0..MAX : Becomes(s, contents[s] \cup left..right)
RemoveRange(s) == \E left, right \in 0..MAX : Becomes(s, contents[s] \ left..right)
IntersectsRange(s) == \E left, right \in 0..MAX : Becomes(s, contents[s] \cap left..right)

AddIndexSet(s, t) == Becomes(s, contents[s] \cup contents[t])
RemoveIndexSet(s, t) == Becomes(s, contents[s] \ contents[t])
IntersectsIndexSet(s, t) == Becomes(s, contents[s] \cap contents[t])

RemoveAllIndexes(s) == Becomes(s, {})

Next ==
    \E s \in Names :
        \/ AddRange(s) \/ RemoveRange(s) \/ IntersectsRange(s)
        \/ RemoveAllIndexes(s)
        \/ \E t \in Names : AddIndexSet(s, t) \/ RemoveIndexSet(s, t) \/ IntersectsIndexSet(s, t)

Spec == Init /\ [][Next]_contents
=============================================================================
