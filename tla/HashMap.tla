------------------------------ MODULE HashMap ------------------------------
(***************************************************************************)
(* mailcore2's HashMap (core/basetypes/MCHashMap.cpp): chains of cells, with *)
(* more chains when there are many cells.                                   *)
(*                                                                         *)
(* A chain is the set of its cells: nobody but an enumeration sees their     *)
(* order, and a search ends at a cell of the key wherever it is.            *)
(***************************************************************************)
EXTENDS Integers, FiniteSets

CONSTANTS
    Keys, Values, NULL,
    Hash,           \* of the keys
    CHASH_DEFAULTSIZE, CHASH_MAXDEPTH

ASSUME HashMapAssumption ==
    /\ Hash \in [Keys -> Nat]
    /\ CHASH_DEFAULTSIZE \in Nat \ {0} /\ CHASH_MAXDEPTH \in Nat \ {0}
    /\ NULL \notin Values

VARIABLES
    mAllocated, mCells, mCount,
    result          \* of the last question, and which it was

vars == <<mAllocated, mCells, mCount, result>>

Cell == [func : Nat, key : Keys, value : Values]
Chains(n) == 0..(n - 1)

Cells == UNION {mCells[i] : i \in Chains(mAllocated)}

Init ==
    /\ mAllocated = CHASH_DEFAULTSIZE
    /\ mCells = [i \in Chains(CHASH_DEFAULTSIZE) |-> {}]
    /\ mCount = 0
    /\ result = <<"none", NULL>>

-----------------------------------------------------------------------------
(* The cells of key k, in chains of n.                                      *)
Found(cells, n, k) == {c \in cells[Hash[k] % n] : c.func = Hash[k] /\ c.key = k}

Grows == mCount > mAllocated * CHASH_MAXDEPTH
Allocated == IF Grows THEN (mCount \div CHASH_MAXDEPTH) * 2 + 1 ELSE mAllocated

\* Mutant: the cells stay in the chains of their numbers.
AllocateInPlace(n) == [i \in Chains(n) |-> IF i \in Chains(mAllocated) THEN mCells[i] ELSE {}]

(* Every cell goes to the chain of its hash value.                          *)
Allocate(n) == [i \in Chains(n) |-> {c \in Cells : c.func % n = i}]

\* Mutant: the chain is found before the table grows.
SetObjectForKeyEarly(k, v) ==
    LET n == Allocated
        cells == Allocate(n)
        indx == Hash[k] % mAllocated
        old == Found(cells, n, k)
        cell == [func |-> Hash[k], key |-> k, value |-> v]
    IN  /\ mAllocated' = n
        /\ mCells' = [cells EXCEPT ![indx] = (@ \ old) \cup {cell}]
        /\ mCount' = IF old = {} THEN mCount + 1 ELSE mCount
        /\ UNCHANGED result

SetObjectForKey(k, v) ==
    LET n == Allocated
        cells == IF Grows THEN Allocate(n) ELSE mCells
        indx == Hash[k] % n
        old == Found(cells, n, k)
        cell == [func |-> Hash[k], key |-> k, value |-> v]
    IN  /\ mAllocated' = n
        /\ mCells' = [cells EXCEPT ![indx] = (@ \ old) \cup {cell}]
        /\ mCount' = IF old = {} THEN mCount + 1 ELSE mCount
        /\ UNCHANGED result

RemoveObjectForKey(k) ==
    LET indx == Hash[k] % mAllocated
        old == Found(mCells, mAllocated, k)
    IN  /\ mCells' = [mCells EXCEPT ![indx] = @ \ old]
        /\ mCount' = IF old = {} THEN mCount ELSE mCount - 1
        /\ UNCHANGED <<mAllocated, result>>

RemoveAllObjects ==
    /\ mCells' = [i \in Chains(mAllocated) |-> {}]
    /\ mCount' = 0
    /\ UNCHANGED <<mAllocated, result>>

ObjectForKey(k) ==
    LET found == Found(mCells, mAllocated, k)
    IN  /\ result' = <<"object", IF found = {} THEN NULL ELSE (CHOOSE c \in found : TRUE).value>>
        /\ UNCHANGED <<mAllocated, mCells, mCount>>

Count == result' = <<"count", mCount>> /\ UNCHANGED <<mAllocated, mCells, mCount>>

(* iteratorBegin and iteratorNext.                                          *)
AllKeys ==
    /\ result' = <<"keys", {c.key : c \in Cells}>>
    /\ UNCHANGED <<mAllocated, mCells, mCount>>

Next ==
    \/ \E k \in Keys : \/ \E v \in Values : SetObjectForKey(k, v)
                       \/ RemoveObjectForKey(k)
                       \/ ObjectForKey(k)
    \/ RemoveAllObjects \/ Count \/ AllKeys

Spec == Init /\ [][Next]_vars

-----------------------------------------------------------------------------
(* Properties *)

(* The variables have values of their types, and every chain is there.      *)
HashMapTypeOK ==
    /\ mAllocated \in Nat \ {0}
    /\ mCells \in [Chains(mAllocated) -> SUBSET Cell]
    /\ mCount \in Nat

(* Every cell is in the chain of its key, however often the table grew      *)
(* (allocate, setObjectForKey).                                             *)
InItsChain ==
    \A i \in Chains(mAllocated) : \A c \in mCells[i] : c.func = Hash[c.key] /\ c.func % mAllocated = i

(* No key has two cells (setObjectForKey).                                  *)
OneCellOfAKey == \A c, d \in Cells : c.key = d.key => c = d

(* The count is that of the cells.                                          *)
Counted == IsFiniteSet(Cells) /\ mCount = Cardinality(Cells)

(* The chains have CHASH_MAXDEPTH cells each at the most, on average, but   *)
(* for the one that was added last (the test that calls allocate).          *)
LoadBounded == mCount <= mAllocated * CHASH_MAXDEPTH + 1

(* What setObjectForKey and removeObjectForKey rely on and keep: every cell   *)
(* is found, there is one for a key, they are counted, and the chains stay  *)
(* short.                                                                   *)
TableCorrect == HashMapTypeOK /\ InItsChain /\ OneCellOfAKey /\ Counted /\ LoadBounded

(* The map that the cells stand for.                                        *)
Map == [k \in {c.key : c \in Cells} |-> (CHOOSE c \in Cells : c.key = k).value]

Promise == INSTANCE ObjectMap WITH map <- Map

(* The table answers every question as a map from keys to objects does.     *)
ImplementsMap == Promise!Spec
=============================================================================
