----------------------------- MODULE MCIndexSet -----------------------------
(* One index set: MAX is "without end", and no range begins at 0, which is   *)
(* not a message number.                                                    *)
EXTENDS IndexSet

MCRanges == {r \in UsedRange : r.location > 0}
=============================================================================
