----------------------------- MODULE Containers -----------------------------
(***************************************************************************)
(* Two containers of mailcore2 side by side: a hash map, and sets of message *)
(* numbers as sorted arrays of ranges.  Neither has state of the other.     *)
(***************************************************************************)
EXTENDS HashMap, Sequences

CONSTANTS Names, MAX, Ranges, KeptRanges        \* of the index sets

(* Message numbers begin at 1 and are 32 bits wide: a range ends well below *)
(* MAX, or has no end.                                                      *)
ASSUME IndexAssumption ==
    /\ MAX \in Nat
    /\ \A r \in Ranges \cup KeptRanges :
          /\ r \in [location : 1..(MAX - 2), length : 0..MAX]
          /\ r.length = MAX \/ r.location + r.length < MAX - 2

VARIABLE mRanges        \* of each index set

Set == INSTANCE IndexSet

-----------------------------------------------------------------------------
(* Properties of the index sets; those of the hash map are in HashMap. *)

(* Index sets: the searches and the conversions see what the ranges hold.   *)
ReadsWhatItHolds == Set!ReadsWhatItHolds

(* Index sets: through any sequence of operations that bridges no ranges    *)
(* they hold the sets of integers that MCOIndexSet.h describes.             *)
ImplementsIntegerSet == Set!ImplementsIntegerSet
=============================================================================
