------------------------------ MODULE IndexSet ------------------------------
(***************************************************************************)
(* Sets of message numbers as sorted arrays of ranges                       *)
(* (core/basetypes/MCIndexSet.cpp, MCRange.cpp), and their conversion to    *)
(* the sets of an IMAP command and back (core/imap/MCIMAPSession.cpp).      *)
(*                                                                         *)
(* A range of length n has n + 1 elements; the length MAX makes it          *)
(* unbounded, and the location MAX makes it empty.  Arithmetic is modulo    *)
(* MAX + 1, MAX being UINT64_MAX.  Arrays begin at 1.                       *)
(***************************************************************************)
EXTENDS Integers, Sequences, SequencesExt

CONSTANTS
    Names,          \* the IndexSet objects
    MAX,            \* UINT64_MAX
    Ranges,         \* ranges that are added and removed
    KeptRanges      \* ranges that sets are intersected with

(* Message numbers are 32 bits wide: a range ends well below MAX, or is     *)
(* unbounded.                                                               *)
UsedRange == {r \in [location : 0..(MAX - 2), length : 0..MAX] :
                r.length = MAX \/ r.location + r.length < MAX - 2}

VARIABLE mRanges    \* the ranges of each object

Wrap(n) == n % (MAX + 1)

RangeMake(location, length) == [location |-> Wrap(location), length |-> Wrap(length)]
RangeEmpty == RangeMake(MAX, 0)

RangeRightBound(r) == IF r.length = MAX THEN MAX ELSE Wrap(r.location + r.length)

(* From left to right, of which MAX is "without end". *)
RangeBetween(left, right) ==
    RangeMake(left, IF right = MAX THEN MAX ELSE right - left)

RangeIntersection(r1, r2) ==
    LET left == IF r1.location > r2.location THEN r1.location ELSE r2.location
        right == IF RangeRightBound(r1) < RangeRightBound(r2)
                 THEN RangeRightBound(r1) ELSE RangeRightBound(r2)
    IN  IF RangeRightBound(r2) < r1.location \/ RangeRightBound(r1) < r2.location
        THEN RangeEmpty
        ELSE RangeBetween(left, right)

RangeHasIntersection(r1, r2) == RangeIntersection(r1, r2).location # MAX

(* What is left of r1 without r2: up to two ranges. *)
RangeRemoveRange(r1, r2) ==
    LET common == RangeIntersection(r1, r2)
        left == common.location
        right == RangeRightBound(common)
        before == IF left > r1.location THEN <<RangeBetween(r1.location, left - 1)>> ELSE <<>>
        after == IF right < RangeRightBound(r1)
                 THEN <<RangeBetween(right + 1, RangeRightBound(r1))>> ELSE <<>>
    IN  IF RangeHasIntersection(r1, r2) THEN before \o after ELSE <<r1>>

(* Of two ranges that have an intersection. *)
RangeUnion(r1, r2) ==
    RangeBetween(IF r1.location < r2.location THEN r1.location ELSE r2.location,
                 IF RangeRightBound(r1) > RangeRightBound(r2)
                 THEN RangeRightBound(r1) ELSE RangeRightBound(r2))

-----------------------------------------------------------------------------
(* Searches.  They halve the bounds <<left, right>>. *)

Bounds(ranges) == {b \in (1..Len(ranges)) \X (1..Len(ranges)) : b[1] <= b[2]}

(* Mutant: the last number of a range is not found. *)
RangeIndexForIndexWithBoundsOpen(ranges, idx) ==
    LET f[b \in Bounds(ranges)] ==
            LET middle == (b[1] + b[2]) \div 2
                range == ranges[middle]
            IN  IF range.location <= idx /\ idx < RangeRightBound(range) THEN middle
                ELSE IF b[1] = b[2] THEN 0
                ELSE IF idx < range.location THEN f[<<b[1], middle>>]
                ELSE f[<<middle + 1, b[2]>>]
    IN  f

(* The range that idx is in, or 0. *)
RangeIndexForIndexWithBounds(ranges, idx) ==
    LET f[b \in Bounds(ranges)] ==
            LET middle == (b[1] + b[2]) \div 2
                range == ranges[middle]
            IN  IF range.location <= idx /\ idx <= RangeRightBound(range) THEN middle
                ELSE IF b[1] = b[2] THEN 0
                ELSE IF idx < range.location THEN f[<<b[1], middle>>]
                ELSE f[<<middle + 1, b[2]>>]
    IN  f

ContainsIndex(ranges, idx) ==
    /\ ranges # <<>>
    /\ RangeIndexForIndexWithBounds(ranges, idx)[<<1, Len(ranges)>>] # 0

(* The first range that does not end before idx, or one past the last. *)
LeftRangeIndexForIndexWithBounds(ranges, idx) ==
    LET f[b \in Bounds(ranges)] ==
            LET middle == (b[1] + b[2]) \div 2
                reaches == idx <= RangeRightBound(ranges[middle])
            IN  IF b[1] = b[2] THEN IF reaches THEN b[1] ELSE b[1] + 1
                ELSE IF reaches THEN f[<<b[1], middle>>]
                ELSE f[<<middle + 1, b[2]>>]
    IN  f

LeftRangeIndexForIndex(ranges, idx) ==
    IF ranges = <<>> THEN 1
    ELSE LeftRangeIndexForIndexWithBounds(ranges, idx)[<<1, Len(ranges)>>]

-----------------------------------------------------------------------------
(* Changes of the array. *)

(* Those from i on that have an intersection with r, without a gap: the     *)
(* index after the last of them.                                            *)
RunEnd(ranges, i, r) ==
    CHOOSE k \in i..(Len(ranges) + 1) :
        /\ \A j \in i..(k - 1) : RangeHasIntersection(ranges[j], r)
        /\ k \in DOMAIN ranges => ~ RangeHasIntersection(ranges[k], r)

(* The range at i and those after it that it reaches become one. *)
MergeRanges(ranges, i) ==
    LET next == RunEnd(ranges, i, ranges[i])
        merged == IF next = i + 1 THEN ranges[i] ELSE RangeUnion(ranges[i], ranges[next - 1])
    IN  SubSeq(ranges, 1, i - 1) \o <<merged>> \o SubSeq(ranges, next, Len(ranges))

TryToMergeAdjacentRanges(ranges, i) ==
    IF \/ RangeRightBound(ranges[i]) = MAX
       \/ RangeRightBound(ranges[i]) + 1 # ranges[i + 1].location
    THEN ranges
    ELSE [RemoveAt(ranges, i + 1) EXCEPT
             ![i].length = RangeRightBound(ranges[i + 1]) - ranges[i].location]

(* addRange: inserted, merged with those it reaches, then with a neighbour  *)
(* to its left, then with one to its right.  When there was one to the left *)
(* the index is one too far, and the one to the right is not seen.  The     *)
(* merged range begins where r or the last range it reaches begins: what    *)
(* the first of several has before r is lost (see AddRangeAdds).            *)
WithRange(ranges, r) ==
    LET i == LeftRangeIndexForIndex(ranges, r.location)
        merged == MergeRanges(InsertAt(ranges, i, r), i)
        leftDone == IF i > 1 THEN TryToMergeAdjacentRanges(merged, i - 1) ELSE merged
    IN  IF i < Len(leftDone) THEN TryToMergeAdjacentRanges(leftDone, i) ELSE leftDone

(* Mutant: only the first of the ranges is cut. *)
WithoutRangeFirst(ranges, r) ==
    LET i == LeftRangeIndexForIndex(ranges, r.location)
    IN  IF i > Len(ranges) THEN ranges
        ELSE SubSeq(ranges, 1, i - 1) \o RangeRemoveRange(ranges[i], r)
                 \o SubSeq(ranges, i + 1, Len(ranges))

(* removeRange: those it reaches are cut, and leave the array when nothing  *)
(* is left of them.                                                         *)
WithoutRange(ranges, r) ==
    LET i == LeftRangeIndexForIndex(ranges, r.location)
        next == RunEnd(ranges, i, r)
    IN  IF i > Len(ranges) THEN ranges
        ELSE SubSeq(ranges, 1, i - 1)
                 \o FlattenSeq([k \in 1..(next - i) |-> RangeRemoveRange(ranges[i + k - 1], r)])
                 \o SubSeq(ranges, next, Len(ranges))

(* intersectsRange: what is before and what is after is removed.  For the   *)
(* location 0 the range before it is the unbounded one.                     *)
KeepingRange(ranges, r) ==
    LET right == RangeRightBound(r)
        before == WithoutRange(ranges, RangeMake(0, r.location - 1))
    IN  IF right = MAX THEN before ELSE WithoutRange(before, RangeMake(right + 1, MAX))

(* addIndexSet, after each of the ranges of the other set.                  *)
Additions(ranges, other) ==
    LET sum[k \in 0..Len(other)] == IF k = 0 THEN ranges ELSE WithRange(sum[k - 1], other[k])
    IN  sum

WithIndexSet(ranges, other) == Additions(ranges, other)[Len(other)]

WithoutIndexSet(ranges, other) ==
    LET rest[k \in 0..Len(other)] == IF k = 0 THEN ranges ELSE WithoutRange(rest[k - 1], other[k])
    IN  rest[Len(other)]

(* intersectsIndexSet: the parts in the ranges of the other set, together.  *)
KeepingIndexSet(ranges, other) ==
    LET parts[k \in 0..Len(other)] ==
            IF k = 0 THEN <<>> ELSE WithIndexSet(parts[k - 1], KeepingRange(ranges, other[k]))
    IN  parts[Len(other)]

(* unsigned int count(). *)
Count(ranges) == FoldLeft(LAMBDA n, r : n + r.length + 1, 0, ranges)

-----------------------------------------------------------------------------
(* The sets of IMAP commands: intervals, of which the last number 0 is "*". *)

SetFromIndexSet(ranges) ==
    [k \in DOMAIN ranges |->
        [first |-> ranges[k].location,
         last |-> IF RangeRightBound(ranges[k]) = MAX THEN 0 ELSE RangeRightBound(ranges[k])]]

IndexSetFromSet(set) ==
    WithIndexSet(<<>>, [k \in DOMAIN set |->
        RangeMake(set[k].first, IF set[k].last = 0 THEN MAX ELSE set[k].last - set[k].first)])

(* splitSet: splitCount intervals at a time, and the rest. *)
SplitSet(set, splitCount) ==
    [k \in 1..((Len(set) + splitCount - 1) \div splitCount) |->
        SubSeq(set, (k - 1) * splitCount + 1,
               IF k * splitCount < Len(set) THEN k * splitCount ELSE Len(set))]

-----------------------------------------------------------------------------
(* The objects. *)

Becomes(s, ranges) == mRanges' = [mRanges EXCEPT ![s] = ranges]

AddRange(s, r) == Becomes(s, WithRange(mRanges[s], r))
RemoveRange(s, r) == Becomes(s, WithoutRange(mRanges[s], r))
IntersectsRange(s, r) == Becomes(s, KeepingRange(mRanges[s], r))

AddIndexSet(s, t) == Becomes(s, WithIndexSet(mRanges[s], mRanges[t]))
RemoveIndexSet(s, t) == Becomes(s, WithoutIndexSet(mRanges[s], mRanges[t]))
IntersectsIndexSet(s, t) == Becomes(s, KeepingIndexSet(mRanges[s], mRanges[t]))

RemoveAllIndexes(s) == Becomes(s, <<>>)

Init == mRanges = [s \in Names |-> <<>>]

Next ==
    \E s \in Names :
        \/ \E r \in Ranges : AddRange(s, r) \/ RemoveRange(s, r)
        \/ \E r \in KeptRanges : IntersectsRange(s, r)
        \/ RemoveAllIndexes(s)
        \/ \E t \in Names \ {s} :
               AddIndexSet(s, t) \/ RemoveIndexSet(s, t) \/ IntersectsIndexSet(s, t)

Spec == Init /\ [][Next]_mRanges

-----------------------------------------------------------------------------
(* Properties. *)

Indexes(r) == r.location..RangeRightBound(r)
Contents(ranges) == UNION {Indexes(ranges[k]) : k \in DOMAIN ranges}

(* The ranges are in order and do not overlap: what the searches rely on.   *)
Ordered(ranges) ==
    \A i, j \in DOMAIN ranges : i < j => RangeRightBound(ranges[i]) < ranges[j].location

RangesOrdered == \A s \in Names : Ordered(mRanges[s])

(* containsIndex finds exactly the numbers that are in one of the ranges.   *)
SearchFindsExactly ==
    \A s \in Names : \A idx \in 0..MAX :
        ContainsIndex(mRanges[s], idx) <=> idx \in Contents(mRanges[s])

(* Converted to the set of a command, split and read back, a set of message *)
(* numbers is what it was, the unbounded range included.                    *)
ConversionKeepsContents ==
    \A s \in Names :
        Contents(IndexSetFromSet(FlattenSeq(SplitSet(SetFromIndexSet(mRanges[s]), 2))))
            = Contents(mRanges[s])

(* The searches and the conversions see what the ranges hold.               *)
ReadsWhatItHolds == RangesOrdered /\ SearchFindsExactly /\ ConversionKeepsContents

(* r begins inside a range, after its first number, and reaches another.    *)
Bridges(ranges, r) ==
    \E i, j \in DOMAIN ranges :
        /\ ranges[i].location < r.location /\ r.location <= RangeRightBound(ranges[i])
        /\ i < j /\ RangeHasIntersection(ranges[j], r)

BridgesAny(ranges, other) ==
    \E k \in DOMAIN other : Bridges(Additions(ranges, other)[k - 1], other[k])

(* Every operation but the additions of ranges that bridge.                 *)
UnbridgedNext ==
    \E s \in Names :
        \/ \E r \in Ranges : \/ ~ Bridges(mRanges[s], r) /\ AddRange(s, r)
                            \/ RemoveRange(s, r)
        \/ \E r \in KeptRanges : IntersectsRange(s, r)
        \/ RemoveAllIndexes(s)
        \/ \E t \in Names \ {s} :
               \/ ~ BridgesAny(mRanges[s], mRanges[t]) /\ AddIndexSet(s, t)
               \/ RemoveIndexSet(s, t) \/ IntersectsIndexSet(s, t)

(* Through any sequence of operations that bridges no ranges the objects    *)
(* hold the sets of integers that MCOIndexSet.h describes.                  *)
Sets == INSTANCE IntegerSet WITH contents <- [s \in Names |-> Contents(mRanges[s])]
ImplementsIntegerSet == Sets!Spec

(* "Adds a range of integers to the index set.": the others stay.           *)
AddRangeAdds ==
    [][\A s \in Names, r \in Ranges :
          AddRange(s, r) =>
              Contents(mRanges'[s]) = Contents(mRanges[s]) \cup Indexes(r)]_mRanges

=============================================================================
