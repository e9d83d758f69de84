-------------------------- MODULE ContainerProofs --------------------------
(***************************************************************************)
(* The containers of mailcore2.  HashMap is a map, for all keys and hash     *)
(* functions and all sizes of the first table and of the chains.  IndexSet   *)
(* keeps sorted ranges that its searches and conversions read rightly, and   *)
(* is a set of integers as long as no range is added that bridges others,   *)
(* for all message numbers and ranges of them.                              *)
(***************************************************************************)
EXTENDS Containers, QueueLemmas, FiniteSetTheorems, FunctionTheorems, TLAPS

(* A table of n chains whose cells are where a search looks for them.        *)
Table(cells, n) ==
    /\ n \in Nat \ {0}
    /\ cells \in [Chains(n) -> SUBSET Cell]
    /\ \A i \in Chains(n) : \A c \in cells[i] : c.func = Hash[c.key] /\ c.func % n = i

All(cells, n) == UNION {cells[i] : i \in Chains(n)}

(* The hash value of a key names a chain.                                   *)
LEMMA ChainOfKey ==
    ASSUME NEW k \in Keys, NEW n \in Nat \ {0}
    PROVE  Hash[k] \in Nat /\ Hash[k] % n \in Chains(n)
  <1>1. Hash[k] \in Nat
    BY HashMapAssumption
  <1>2. \A a \in Nat : a % n \in 0..(n - 1)
    BY SMT
  <1> QED
    BY <1>1, <1>2 DEF Chains

(* A search finds every cell of its key, in one chain.                      *)
LEMMA FoundIsAll ==
    ASSUME NEW cells, NEW n, Table(cells, n), NEW k \in Keys
    PROVE  Found(cells, n, k) = {c \in All(cells, n) : c.key = k}
  <1>1. Hash[k] % n \in Chains(n)
    BY ChainOfKey DEF Table
  <1>2. ASSUME NEW c \in Found(cells, n, k) PROVE c \in All(cells, n) /\ c.key = k
    BY <1>1, <1>2 DEF Found, All
  <1>3. ASSUME NEW c \in All(cells, n), c.key = k PROVE c \in Found(cells, n, k)
    <2>1. PICK i \in Chains(n) : c \in cells[i]
      BY <1>3 DEF All
    <2>2. c.func = Hash[k] /\ Hash[k] % n = i
      BY <2>1, <1>3 DEF Table
    <2> QED
      BY <2>1, <2>2, <1>3 DEF Found
  <1> QED
    BY <1>2, <1>3

(* A table with more chains has the same cells, each where it belongs       *)
(* (allocate).                                                              *)
LEMMA AllocateKeeps ==
    ASSUME Table(mCells, mAllocated), NEW n \in Nat \ {0}
    PROVE  Table(Allocate(n), n) /\ All(Allocate(n), n) = Cells
  <1>1. \A c \in Cells : c \in Cell /\ c.func = Hash[c.key]
    BY DEF Table, Cells
  <1>2. Allocate(n) \in [Chains(n) -> SUBSET Cell]
    BY <1>1 DEF Allocate
  <1>3. \A i \in Chains(n) : Allocate(n)[i] = {c \in Cells : c.func % n = i}
    BY DEF Allocate
  <1>4. Table(Allocate(n), n)
    BY <1>1, <1>2, <1>3 DEF Table
  <1>5. ASSUME NEW c \in Cells PROVE c \in All(Allocate(n), n)
    <2>1. c.key \in Keys /\ c.func % n \in Chains(n)
      BY <1>1, <1>5, ChainOfKey DEF Cell
    <2> QED
      BY <2>1, <1>3, <1>5 DEF All
  <1>6. All(Allocate(n), n) \subseteq Cells
    BY <1>3 DEF All
  <1> QED
    BY <1>4, <1>5, <1>6

CellsOf(k) == {c \in Cell : c.key = k /\ c.func = Hash[k]}

Replaced(cells, n, k, add) == [cells EXCEPT ![Hash[k] % n] = (@ \ Found(cells, n, k)) \cup add]

Without(S, k) == {c \in S : c.key # k}

(* The chain of a key is replaced by one with a cell for it, or without.    *)
LEMMA ReplaceChain ==
    ASSUME NEW cells, NEW n, Table(cells, n), NEW k \in Keys, NEW add \in SUBSET CellsOf(k)
    PROVE  /\ Table(Replaced(cells, n, k, add), n)
           /\ All(Replaced(cells, n, k, add), n) = Without(All(cells, n), k) \cup add
  <1> DEFINE indx == Hash[k] % n
             new == Replaced(cells, n, k, add)
  <1>0. /\ add \in SUBSET Cell /\ \A c \in add : c.key = k /\ c.func = Hash[k]
        /\ new = [cells EXCEPT ![indx] = (@ \ Found(cells, n, k)) \cup add]
    BY DEF CellsOf, Replaced
  <1> HIDE DEF new
  <1>1. indx \in Chains(n) /\ n \in Nat \ {0}
    BY ChainOfKey DEF Table
  <1>2. cells \in [Chains(n) -> SUBSET Cell]
    BY DEF Table
  <1>3. new[indx] = (cells[indx] \ Found(cells, n, k)) \cup add
    BY <1>0, <1>1, <1>2
  <1>4. \A i \in Chains(n) : i # indx => new[i] = cells[i]
    BY <1>0, <1>1, <1>2
  <1>5. new \in [Chains(n) -> SUBSET Cell]
    BY <1>0, <1>1, <1>2
  <1>6. Table(new, n)
    <2>1. ASSUME NEW i \in Chains(n), NEW c \in new[i]
          PROVE  c.func = Hash[c.key] /\ c.func % n = i
      BY <2>1, <1>0, <1>3, <1>4 DEF Table
    <2> QED
      BY <2>1, <1>1, <1>5 DEF Table
  <1>7. ASSUME NEW c \in All(new, n) PROVE c \in {d \in All(cells, n) : d.key # k} \cup add
    <2>1. PICK i \in Chains(n) : c \in new[i]
      BY <1>7 DEF All
    <2>2. CASE c \in add
      BY <2>2
    <2>3. CASE c \notin add
      <3>1. c \in cells[i] /\ c \notin Found(cells, n, k)
        <4>1. CASE i = indx
          BY <4>1, <2>1, <2>3, <1>3
        <4>2. CASE i # indx
          <5>1. c \in cells[i]
            BY <4>2, <2>1, <1>4
          <5>2. c.func % n = i
            BY <5>1 DEF Table
          <5> QED
            BY <5>1, <5>2, <4>2 DEF Found
        <4> QED
          BY <4>1, <4>2
      <3>2. c \in All(cells, n)
        BY <3>1 DEF All
      <3> QED
        BY <3>1, <3>2, FoundIsAll
    <2> QED
      BY <2>2, <2>3
  <1>8. ASSUME NEW c \in All(cells, n), c.key # k PROVE c \in All(new, n)
    <2>1. PICK i \in Chains(n) : c \in cells[i]
      BY <1>8 DEF All
    <2>2. c \in new[i]
      BY <2>1, <1>3, <1>4, <1>8 DEF Found
    <2> QED
      BY <2>2 DEF All
  <1>9. add \subseteq All(new, n)
    BY <1>1, <1>3 DEF All
  <1> QED
    BY <1>6, <1>7, <1>8, <1>9 DEF Without, new

-----------------------------------------------------------------------------
(* Sets of cells of which no two have the same key.                         *)
OneEach(S) == \A c, d \in S : c.key = d.key => c = d

(* Without the cell of a key there is one cell less, if there was one.      *)
LEMMA CountWithout ==
    ASSUME NEW S, IsFiniteSet(S), OneEach(S), NEW k
    PROVE  /\ IsFiniteSet(Without(S, k)) /\ OneEach(Without(S, k))
           /\ Cardinality(S) \in Nat /\ Cardinality(Without(S, k)) \in Nat
           /\ {c \in S : c.key = k} = {} => Cardinality(Without(S, k)) = Cardinality(S)
           /\ {c \in S : c.key = k} # {} => Cardinality(Without(S, k)) = Cardinality(S) - 1
  <1>1. IsFiniteSet(Without(S, k))
    BY FS_Subset DEF Without
  <1>2. OneEach(Without(S, k))
    BY DEF OneEach, Without
  <1>3. Cardinality(S) \in Nat /\ Cardinality(Without(S, k)) \in Nat
    BY <1>1, FS_CardinalityType
  <1>4. ASSUME {c \in S : c.key = k} = {} PROVE Cardinality(Without(S, k)) = Cardinality(S)
    <2>1. Without(S, k) = S
      BY <1>4 DEF Without
    <2> QED
      BY <2>1
  <1>5. ASSUME {c \in S : c.key = k} # {} PROVE Cardinality(Without(S, k)) = Cardinality(S) - 1
    <2>1. PICK d \in S : d.key = k
      BY <1>5
    <2>2. Without(S, k) = S \ {d}
      BY <2>1 DEF Without, OneEach
    <2> QED
      BY <2>1, <2>2, FS_RemoveElement
  <1> QED
    BY <1>1, <1>2, <1>3, <1>4, <1>5

(* A cell put in the place of its key's.                                    *)
LEMMA CountWith ==
    ASSUME NEW S, IsFiniteSet(S), OneEach(S), NEW cell
    PROVE  LET T == Without(S, cell.key) \cup {cell}
           IN  /\ IsFiniteSet(T) /\ OneEach(T)
               /\ Cardinality(T) = IF {c \in S : c.key = cell.key} = {} THEN Cardinality(S) + 1
                    ELSE Cardinality(S)
  <1> DEFINE W == Without(S, cell.key)
  <1>1. /\ IsFiniteSet(W) /\ OneEach(W) /\ Cardinality(S) \in Nat
        /\ {c \in S : c.key = cell.key} = {} => Cardinality(W) = Cardinality(S)
        /\ {c \in S : c.key = cell.key} # {} => Cardinality(W) = Cardinality(S) - 1
    BY CountWithout
  <1>2. \A c \in W : c.key # cell.key
    BY DEF Without
  <1>3. cell \notin W
    BY <1>2
  <1> HIDE DEF W
  <1>4. IsFiniteSet(W \cup {cell}) /\ Cardinality(W \cup {cell}) = Cardinality(W) + 1
    BY <1>1, <1>3, FS_AddElement
  <1>5. OneEach(W \cup {cell})
    BY <1>1, <1>2 DEF OneEach
  <1> QED
    BY <1>1, <1>4, <1>5 DEF W

(* There are as many keys as cells.                                         *)
LEMMA KeysCounted ==
    ASSUME NEW S, IsFiniteSet(S), OneEach(S)
    PROVE  Cardinality({c.key : c \in S}) = Cardinality(S)
  <1> DEFINE T == {c.key : c \in S}
             f == [c \in S |-> c.key]
  <1>1. f \in Bijection(S, T)
    <2>1. f = [c \in S |-> f[c]] /\ \A c \in S : f[c] = c.key
      OBVIOUS
    <2>2. \A c, d \in S : f[c] = f[d] => c = d
      BY <2>1 DEF OneEach
    <2>3. \A t \in T : \E c \in S : f[c] = t
      BY <2>1
    <2>4. \A c \in S : c.key \in T
      OBVIOUS
    <2> HIDE DEF f, T
    <2>5. f \in [S -> T]
      BY <2>1, <2>4
    <2>6. f \in Injection(S, T)
      BY <2>2, <2>5, Fun_IsInj
    <2>7. f \in Surjection(S, T)
      BY <2>3, <2>5, Fun_IsSurj
    <2> QED
      BY <2>6, <2>7 DEF Bijection
  <1>2. ExistsBijection(S, T)
    BY <1>1 DEF ExistsBijection
  <1> QED
    BY <1>2, FS_Bijection

-----------------------------------------------------------------------------
(* What TableCorrect says of the chains.                                    *)
LEMMA TableOfInv ==
    ASSUME TableCorrect
    PROVE  /\ Table(mCells, mAllocated) /\ All(mCells, mAllocated) = Cells
           /\ OneEach(Cells) /\ IsFiniteSet(Cells) /\ mCount = Cardinality(Cells)
  BY DEF TableCorrect, HashMapTypeOK, InItsChain, OneCellOfAKey, Counted, Table, All, Cells, OneEach

(* The new number of chains is enough for the cells there are (allocate).   *)
LEMMA AllocatedEnough ==
    ASSUME TableCorrect
    PROVE  Allocated \in Nat \ {0} /\ mCount <= Allocated * CHASH_MAXDEPTH
  <1>1. mAllocated \in Nat \ {0} /\ mCount \in Nat /\ CHASH_MAXDEPTH \in Nat \ {0}
    BY HashMapAssumption DEF TableCorrect, HashMapTypeOK
  <1>2. CASE Grows
    <2> DEFINE q == mCount \div CHASH_MAXDEPTH
    <2>1. \A a \in Nat : \A d \in Nat \ {0} : a \div d \in Nat /\ a < (a \div d) * d + d
      BY SMT
    <2>2. q \in Nat /\ mCount < q * CHASH_MAXDEPTH + CHASH_MAXDEPTH
      BY <1>1, <2>1
    <2>3. Allocated = q * 2 + 1
      BY <1>2 DEF Allocated
    <2>4. \A a \in Nat : \A d \in Nat \ {0} : (a * 2 + 1) * d = (a * d) + (a * d) + d /\ a * d \in Nat
      BY SMT
    <2>5. (q * 2 + 1) * CHASH_MAXDEPTH = (q * CHASH_MAXDEPTH) + (q * CHASH_MAXDEPTH) + CHASH_MAXDEPTH
          /\ q * CHASH_MAXDEPTH \in Nat
      BY <1>1, <2>2, <2>4
    <2>6. \A x, d, m, y \in Nat : (m < x + d /\ y = x + x + d) => m <= y
      BY SMT
    <2>7. (q * 2 + 1) * CHASH_MAXDEPTH \in Nat /\ q * 2 + 1 \in Nat \ {0}
      BY <1>1, <2>2
    <2> HIDE DEF q
    <2>8. mCount <= (q * 2 + 1) * CHASH_MAXDEPTH
      BY <1>1, <2>2, <2>5, <2>6, <2>7
    <2> QED
      BY <2>3, <2>7, <2>8
  <1>3. CASE ~Grows
    <2>1. Allocated = mAllocated
      BY <1>3 DEF Allocated
    <2>2. mAllocated * CHASH_MAXDEPTH \in Nat
      BY <1>1
    <2>3. mCount <= mAllocated * CHASH_MAXDEPTH
      BY <1>1, <1>3, <2>2 DEF Grows
    <2> QED
      BY <1>1, <2>1, <2>3
  <1> QED
    BY <1>2, <1>3

-----------------------------------------------------------------------------
(* The table is correct at first.                                           *)
LEMMA InitInv == Init => TableCorrect
  <1> SUFFICES ASSUME Init PROVE TableCorrect
    OBVIOUS
  <1>1. mAllocated = CHASH_DEFAULTSIZE /\ mAllocated \in Nat \ {0} /\ mCount = 0 /\ CHASH_MAXDEPTH \in Nat
    BY HashMapAssumption DEF Init
  <1>2. mCells = [i \in Chains(mAllocated) |-> {}]
    BY DEF Init
  <1>3. Cells = {}
    BY <1>2 DEF Cells
  <1>4. HashMapTypeOK /\ InItsChain
    BY <1>1, <1>2 DEF HashMapTypeOK, InItsChain
  <1>5. OneCellOfAKey /\ Counted
    BY <1>1, <1>3, FS_EmptySet DEF OneCellOfAKey, Counted
  <1>6. mAllocated * CHASH_MAXDEPTH \in Nat
    BY <1>1
  <1>7. LoadBounded
    BY <1>1, <1>6 DEF LoadBounded
  <1> QED
    BY <1>4, <1>5, <1>7 DEF TableCorrect

(* What the table is after a step, and that the invariant is kept.          *)
LEMMA InvOfTable ==
    ASSUME Table(mCells', mAllocated'), OneEach(Cells'), IsFiniteSet(Cells'),
           mCount' = Cardinality(Cells'), mCount' <= mAllocated' * CHASH_MAXDEPTH + 1
    PROVE  TableCorrect'
  <1>1. mCount' \in Nat
    BY FS_CardinalityType
  <1>2. HashMapTypeOK' /\ InItsChain'
    BY <1>1 DEF HashMapTypeOK, InItsChain, Table
  <1> QED
    BY <1>2 DEF TableCorrect, OneCellOfAKey, OneEach, Counted, LoadBounded

(* The cell of a key is put in its place, in a table that may have grown    *)
(* before (setObjectForKey).                                                *)
LEMMA SetObjectStep ==
    ASSUME TableCorrect, NEW k \in Keys, NEW v \in Values, SetObjectForKey(k, v)
    PROVE  /\ TableCorrect'
           /\ Cells' = Without(Cells, k) \cup {[func |-> Hash[k], key |-> k, value |-> v]}
  <1> DEFINE n == Allocated
             cells == IF Grows THEN Allocate(n) ELSE mCells
             cell == [func |-> Hash[k], key |-> k, value |-> v]
             old == Found(cells, n, k)
  <1>1. /\ mAllocated' = n
        /\ mCells' = [cells EXCEPT ![Hash[k] % n] = (@ \ old) \cup {cell}]
        /\ mCount' = IF old = {} THEN mCount + 1 ELSE mCount
    BY DEF SetObjectForKey
  <1>2. /\ Table(mCells, mAllocated) /\ All(mCells, mAllocated) = Cells
        /\ OneEach(Cells) /\ IsFiniteSet(Cells) /\ mCount = Cardinality(Cells)
    BY TableOfInv
  <1>3. n \in Nat \ {0} /\ mCount <= n * CHASH_MAXDEPTH
    BY AllocatedEnough
  <1>4. Table(cells, n) /\ All(cells, n) = Cells
    <2>1. CASE Grows
      BY <2>1, <1>2, <1>3, AllocateKeeps
    <2>2. CASE ~Grows
      <3>1. n = mAllocated /\ cells = mCells
        BY <2>2 DEF Allocated
      <3> QED
        BY <3>1, <1>2
    <2> QED
      BY <2>1, <2>2
  <1>5. cell \in Cell /\ cell.key = k /\ cell.func = Hash[k]
    BY HashMapAssumption DEF Cell
  <1> HIDE DEF n, cells, cell
  <1>6. Table(mCells', n) /\ All(mCells', n) = Without(Cells, k) \cup {cell}
    <2>1. {cell} \in SUBSET CellsOf(k)
      BY <1>5 DEF CellsOf
    <2>2. mCells' = Replaced(cells, n, k, {cell})
      BY <1>1 DEF Replaced
    <2> QED
      BY <1>4, <2>1, <2>2, ReplaceChain
  <1>7. Cells' = All(mCells', n)
    BY <1>1 DEF Cells, All
  <1>8. old = {c \in Cells : c.key = k}
    BY <1>4, FoundIsAll
  <1>9. /\ IsFiniteSet(Cells') /\ OneEach(Cells')
        /\ Cardinality(Cells') = IF old = {} THEN Cardinality(Cells) + 1 ELSE Cardinality(Cells)
    <2>1. LET T == Without(Cells, cell.key) \cup {cell}
          IN  /\ IsFiniteSet(T) /\ OneEach(T)
              /\ Cardinality(T) = IF {c \in Cells : c.key = cell.key} = {} THEN Cardinality(Cells) + 1
                   ELSE Cardinality(Cells)
      BY <1>2, CountWith
    <2>2. Cells' = Without(Cells, cell.key) \cup {cell}
      BY <1>5, <1>6, <1>7
    <2> QED
      BY <2>1, <2>2, <1>5, <1>8
  <1>10. mCount' = Cardinality(Cells')
    BY <1>1, <1>2, <1>9
  <1>11. mCount' <= mAllocated' * CHASH_MAXDEPTH + 1
    <2>1. mCount \in Nat /\ n * CHASH_MAXDEPTH \in Nat
      BY <1>3, HashMapAssumption DEF TableCorrect, HashMapTypeOK
    <2>2. mCount' = mCount + 1 \/ mCount' = mCount
      BY <1>1
    <2> QED
      BY <1>1, <1>3, <2>1, <2>2
  <1>12. TableCorrect'
    BY <1>1, <1>6, <1>9, <1>10, <1>11, InvOfTable
  <1> QED
    BY <1>6, <1>7, <1>12 DEF cell

(* A key's cell is taken out (removeObjectForKey).                          *)
LEMMA RemoveObjectStep ==
    ASSUME TableCorrect, NEW k \in Keys, RemoveObjectForKey(k)
    PROVE  TableCorrect' /\ Cells' = Without(Cells, k)
  <1> DEFINE old == Found(mCells, mAllocated, k)
  <1>1. /\ mAllocated' = mAllocated
        /\ mCells' = [mCells EXCEPT ![Hash[k] % mAllocated] = @ \ old]
        /\ mCount' = IF old = {} THEN mCount ELSE mCount - 1
    BY DEF RemoveObjectForKey
  <1>2. /\ Table(mCells, mAllocated) /\ All(mCells, mAllocated) = Cells
        /\ OneEach(Cells) /\ IsFiniteSet(Cells) /\ mCount = Cardinality(Cells)
    BY TableOfInv
  <1>3. mCells' = Replaced(mCells, mAllocated, k, {})
    BY <1>1 DEF Replaced
  <1>4. Table(mCells', mAllocated') /\ All(mCells', mAllocated') = Without(Cells, k)
    <2>1. {} \in SUBSET CellsOf(k)
      OBVIOUS
    <2>2. /\ Table(Replaced(mCells, mAllocated, k, {}), mAllocated)
          /\ All(Replaced(mCells, mAllocated, k, {}), mAllocated) = Without(All(mCells, mAllocated), k) \cup {}
      BY <1>2, <2>1, ReplaceChain
    <2> QED
      BY <1>1, <1>2, <1>3, <2>2
  <1>5. Cells' = Without(Cells, k)
    BY <1>4 DEF Cells, All
  <1>6. old = {c \in Cells : c.key = k}
    BY <1>2, FoundIsAll
  <1>7. /\ IsFiniteSet(Cells') /\ OneEach(Cells')
        /\ mCount' = Cardinality(Cells') /\ mCount' <= mCount
    <2> HIDE DEF old
    <2>1. /\ IsFiniteSet(Without(Cells, k)) /\ OneEach(Without(Cells, k))
          /\ Cardinality(Cells) \in Nat
          /\ old = {} => Cardinality(Without(Cells, k)) = Cardinality(Cells)
          /\ old # {} => Cardinality(Without(Cells, k)) = Cardinality(Cells) - 1
      BY <1>2, <1>6, CountWithout
    <2> QED
      BY <2>1, <1>1, <1>2, <1>5 DEF OneEach
  <1>8. mCount' <= mAllocated' * CHASH_MAXDEPTH + 1
    <2>1. mCount \in Nat /\ mCount' \in Nat /\ mAllocated * CHASH_MAXDEPTH \in Nat
      BY <1>7, FS_CardinalityType, HashMapAssumption DEF TableCorrect, HashMapTypeOK
    <2> QED
      BY <1>1, <1>7, <2>1 DEF TableCorrect, LoadBounded
  <1> QED
    BY <1>4, <1>5, <1>7, <1>8, InvOfTable

(* Every chain is emptied (removeAllObjects).                               *)
LEMMA RemoveAllStep ==
    ASSUME TableCorrect, RemoveAllObjects
    PROVE  TableCorrect' /\ Cells' = {}
  <1>1. /\ mAllocated' = mAllocated /\ mCount' = 0
        /\ mCells' = [i \in Chains(mAllocated) |-> {}]
    BY DEF RemoveAllObjects
  <1>2. mAllocated \in Nat \ {0} /\ mAllocated * CHASH_MAXDEPTH \in Nat
    BY HashMapAssumption DEF TableCorrect, HashMapTypeOK
  <1>3. Cells' = {}
    BY <1>1 DEF Cells
  <1>4. Table(mCells', mAllocated')
    BY <1>1, <1>2 DEF Table
  <1>5. OneEach(Cells') /\ IsFiniteSet(Cells') /\ mCount' = Cardinality(Cells')
    BY <1>1, <1>3, FS_EmptySet DEF OneEach
  <1>6. mCount' <= mAllocated' * CHASH_MAXDEPTH + 1
    BY <1>1, <1>2
  <1> QED
    BY <1>3, <1>4, <1>5, <1>6, InvOfTable

(* Every operation keeps the table correct.                                 *)
LEMMA NextInv == TableCorrect /\ [Next]_vars => TableCorrect'
  <1> SUFFICES ASSUME TableCorrect, [Next]_vars PROVE TableCorrect'
    OBVIOUS
  <1>1. ASSUME NEW k \in Keys, NEW v \in Values, SetObjectForKey(k, v) PROVE TableCorrect'
    BY <1>1, SetObjectStep
  <1>2. ASSUME NEW k \in Keys, RemoveObjectForKey(k) PROVE TableCorrect'
    BY <1>2, RemoveObjectStep
  <1>3. ASSUME RemoveAllObjects PROVE TableCorrect'
    BY <1>3, RemoveAllStep
  <1>4. ASSUME UNCHANGED <<mAllocated, mCells, mCount>> PROVE TableCorrect'
    BY <1>4 DEF TableCorrect, HashMapTypeOK, InItsChain, OneCellOfAKey, Counted, LoadBounded, Cells
  <1>5. ASSUME NEW k \in Keys, ObjectForKey(k) PROVE UNCHANGED <<mAllocated, mCells, mCount>>
    BY <1>5 DEF ObjectForKey
  <1>6. ASSUME Count \/ AllKeys \/ UNCHANGED vars PROVE UNCHANGED <<mAllocated, mCells, mCount>>
    BY <1>6 DEF Count, AllKeys, vars
  <1> QED
    BY <1>1, <1>2, <1>3, <1>4, <1>5, <1>6 DEF Next

(* The table is always correct: a cell is in the chain in which its key is  *)
(* searched, no key has two, they are counted and the chains stay short,    *)
(* whatever the keys, their hash values and the sizes (setObjectForKey,     *)
(* removeObjectForKey, allocate).  The conjunction is inductive as it is.   *)
THEOREM Correctness == Spec => []TableCorrect
  <1>1. Init => TableCorrect
    BY InitInv
  <1>2. TableCorrect /\ [Next]_vars => TableCorrect'
    BY NextInv
  <1> QED
    BY <1>1, <1>2, PTL DEF Spec

-----------------------------------------------------------------------------
KeysOf(S) == {c.key : c \in S}
MapOf(S) == [k \in KeysOf(S) |-> (CHOOSE c \in S : c.key = k).value]

(* The map is read in the cells.                                            *)
LEMMA MapAt ==
    ASSUME NEW S, OneEach(S), NEW c \in S
    PROVE  c.key \in KeysOf(S) /\ MapOf(S)[c.key] = c.value
  <1>1. c.key \in KeysOf(S)
    BY DEF KeysOf
  <1>2. (CHOOSE d \in S : d.key = c.key) = c
    BY DEF OneEach
  <1> QED
    BY <1>1, <1>2 DEF MapOf

(* The map without a key.                                                   *)
LEMMA MapOfWithout ==
    ASSUME NEW S, OneEach(S), NEW k
    PROVE  MapOf(Without(S, k)) = [x \in KeysOf(S) \ {k} |-> MapOf(S)[x]]
  <1> DEFINE T == Without(S, k)
  <1>1. OneEach(T) /\ KeysOf(T) = KeysOf(S) \ {k}
    BY DEF OneEach, Without, KeysOf
  <1>2. ASSUME NEW x \in KeysOf(T) PROVE MapOf(T)[x] = MapOf(S)[x]
    <2>1. PICK c \in T : c.key = x
      BY <1>2 DEF KeysOf
    <2>2. c \in S
      BY DEF Without
    <2> QED
      BY <2>1, <2>2, <1>1, MapAt
  <1> QED
    BY <1>1, <1>2 DEF MapOf

(* The map with a new object for a key.                                     *)
LEMMA MapOfWith ==
    ASSUME NEW S, OneEach(S), NEW cell
    PROVE  MapOf(Without(S, cell.key) \cup {cell}) =
             [x \in KeysOf(S) \cup {cell.key} |-> IF x = cell.key THEN cell.value ELSE MapOf(S)[x]]
  <1> DEFINE T == Without(S, cell.key) \cup {cell}
  <1>1. OneEach(T) /\ KeysOf(T) = KeysOf(S) \cup {cell.key}
    BY DEF OneEach, Without, KeysOf
  <1>2. ASSUME NEW x \in KeysOf(T)
        PROVE  MapOf(T)[x] = IF x = cell.key THEN cell.value ELSE MapOf(S)[x]
    <2>1. CASE x = cell.key
      <3>1. cell \in T
        OBVIOUS
      <3> QED
        BY <2>1, <3>1, <1>1, MapAt
    <2>2. CASE x # cell.key
      <3>1. PICK c \in T : c.key = x
        BY <1>2 DEF KeysOf
      <3>2. c \in S
        BY <2>2, <3>1 DEF Without
      <3> QED
        BY <2>2, <3>1, <3>2, <1>1, MapAt
    <2> QED
      BY <2>1, <2>2
  <1>3. MapOf(T) = [x \in KeysOf(T) |-> MapOf(T)[x]]
    BY DEF MapOf
  <1> HIDE DEF T
  <1>4. MapOf(T) = [x \in KeysOf(S) \cup {cell.key} |-> IF x = cell.key THEN cell.value ELSE MapOf(S)[x]]
    BY <1>1, <1>2, <1>3, SMT
  <1> QED
    BY <1>4 DEF T

(* The map is that of the cells.                                            *)
LEMMA MapOfCells == Map = MapOf(Cells) /\ Map' = MapOf(Cells')
  BY DEF Map, MapOf, KeysOf

(* What a search finds is what the map has (objectForKey).                  *)
LEMMA FoundInMap ==
    ASSUME TableCorrect, NEW k \in Keys
    PROVE  LET found == Found(mCells, mAllocated, k)
           IN  (IF found = {} THEN NULL ELSE (CHOOSE c \in found : TRUE).value)
                 = IF k \in DOMAIN Map THEN Map[k] ELSE NULL
  <1> DEFINE found == Found(mCells, mAllocated, k)
  <1>1. OneEach(Cells) /\ Map = MapOf(Cells)
    BY TableOfInv, MapOfCells
  <1>2. found = {c \in Cells : c.key = k}
    BY TableOfInv, FoundIsAll
  <1>3. DOMAIN Map = KeysOf(Cells)
    BY <1>1 DEF MapOf
  <1>4. CASE found = {}
    BY <1>2, <1>3, <1>4 DEF KeysOf
  <1>5. CASE found # {}
    <2> DEFINE c == CHOOSE d \in found : TRUE
    <2>1. c \in found
      BY <1>5
    <2> HIDE DEF c, found
    <2>2. c \in Cells /\ c.key = k
      BY <2>1, <1>2
    <2>3. k \in DOMAIN Map /\ Map[k] = c.value
      BY <2>2, <1>1, <1>3, MapAt
    <2>4. c = CHOOSE d \in found : TRUE
      BY DEF c
    <2> QED
      BY <1>5, <2>3, <2>4 DEF found
  <1> QED
    BY <1>4, <1>5

(* The table is an empty map at first.                                      *)
LEMMA InitRefines == Init => Promise!Init
  <1> SUFFICES ASSUME Init PROVE Promise!Init
    OBVIOUS
  <1>1. Cells = {}
    BY DEF Init, Cells
  <1>2. Map = [k \in {} |-> NULL]
    BY <1>1 DEF Map
  <1> QED
    BY <1>2 DEF Init, Promise!Init

(* Every operation is one of the map.                                       *)
LEMMA StepRefines == TableCorrect /\ [Next]_vars => [Promise!Next]_(Promise!vars)
  <1> SUFFICES ASSUME TableCorrect, [Next]_vars PROVE Promise!Next \/ UNCHANGED <<Map, result>>
    BY DEF Promise!vars
  <1>1. /\ Map = MapOf(Cells) /\ Map' = MapOf(Cells') /\ DOMAIN Map = KeysOf(Cells)
        /\ OneEach(Cells) /\ IsFiniteSet(Cells) /\ mCount = Cardinality(Cells)
    BY TableOfInv, MapOfCells DEF MapOf
  <1>2. ASSUME NEW k \in Keys, NEW v \in Values, SetObjectForKey(k, v)
        PROVE  Promise!SetObjectForKey(k, v)
    <2> DEFINE cell == [func |-> Hash[k], key |-> k, value |-> v]
    <2>1. Cells' = Without(Cells, k) \cup {cell}
      BY <1>2, SetObjectStep
    <2>2. cell.key = k /\ cell.value = v
      OBVIOUS
    <2> HIDE DEF cell
    <2>3. Map' = [x \in KeysOf(Cells) \cup {k} |-> IF x = k THEN v ELSE MapOf(Cells)[x]]
      BY <1>1, <2>1, <2>2, MapOfWith
    <2>4. Map' = [x \in DOMAIN Map \cup {k} |-> IF x = k THEN v ELSE Map[x]]
      BY <1>1, <2>3
    <2> QED
      BY <1>2, <2>4 DEF SetObjectForKey, Promise!SetObjectForKey
  <1>3. ASSUME NEW k \in Keys, RemoveObjectForKey(k)
        PROVE  Promise!RemoveObjectForKey(k)
    <2>1. Map' = [x \in KeysOf(Cells) \ {k} |-> MapOf(Cells)[x]]
      BY <1>1, <1>3, RemoveObjectStep, MapOfWithout
    <2>2. Map' = [x \in DOMAIN Map \ {k} |-> Map[x]]
      BY <1>1, <2>1
    <2> QED
      BY <1>3, <2>2 DEF RemoveObjectForKey, Promise!RemoveObjectForKey
  <1>4. ASSUME RemoveAllObjects PROVE Promise!RemoveAllObjects
    <2>1. Cells' = {}
      BY <1>4, RemoveAllStep
    <2>2. Map' = [k \in {} |-> NULL]
      BY <2>1 DEF Map
    <2> QED
      BY <1>4, <2>2 DEF RemoveAllObjects, Promise!RemoveAllObjects
  <1>5. ASSUME UNCHANGED <<mAllocated, mCells>> PROVE Map' = Map
    BY <1>5 DEF Map, Cells
  <1>6. ASSUME NEW k \in Keys, ObjectForKey(k) PROVE Promise!ObjectForKey(k)
    <2>1. Map' = Map
      BY <1>5, <1>6 DEF ObjectForKey
    <2>2. result' = <<"object", IF k \in DOMAIN Map THEN Map[k] ELSE NULL>>
      BY <1>6, FoundInMap DEF ObjectForKey
    <2> QED
      BY <2>1, <2>2 DEF Promise!ObjectForKey
  <1>7. ASSUME Count PROVE Promise!Count
    <2>1. Map' = Map
      BY <1>5, <1>7 DEF Count
    <2>2. mCount = Cardinality(DOMAIN Map)
      BY <1>1, KeysCounted DEF KeysOf
    <2> QED
      BY <1>7, <2>1, <2>2 DEF Count, Promise!Count, Cardinality, Promise!Cardinality
  <1>8. ASSUME AllKeys PROVE Promise!AllKeys
    <2>1. Map' = Map
      BY <1>5, <1>8 DEF AllKeys
    <2> QED
      BY <1>1, <1>8, <2>1 DEF AllKeys, Promise!AllKeys, KeysOf
  <1>9. ASSUME UNCHANGED vars PROVE UNCHANGED <<Map, result>>
    BY <1>5, <1>9 DEF vars
  <1> QED
    BY <1>2, <1>3, <1>4, <1>6, <1>7, <1>8, <1>9 DEF Next, Promise!Next

(* The table is a map: whatever is put in, taken out and asked, its answers *)
(* are those of a function from keys to objects.                            *)
THEOREM Refinement == Spec => ImplementsMap
  <1>1. Init => Promise!Init
    BY InitRefines
  <1>2. TableCorrect /\ [Next]_vars => [Promise!Next]_(Promise!vars)
    BY StepRefines
  <1> QED
    BY <1>1, <1>2, Correctness, PTL DEF Spec, ImplementsMap, Promise!Spec

-----------------------------------------------------------------------------
(* IndexSet: ranges. *)

(* Ranges that end well below MAX, or have no end; after a merge the length *)
(* of one without end may be what is left of the numbers.                   *)
Bounded ==
    {r \in [location : 0..(MAX - 2), length : 0..MAX] :
        r.length = MAX \/ r.location + r.length = MAX \/ r.location + r.length < MAX - 2}

(* Those of message numbers: none begins at 0.                              *)
Numbers == {r \in Bounded : r.location # 0}

(* Where a range can end.                                                   *)
Ends == {n \in 0..MAX : n = MAX \/ n < MAX - 2}

(* Numbers up to MAX are not wrapped.                                       *)
LEMMA NotWrapped == \A n \in 0..MAX : Set!Wrap(n) = n
<1>1. \A m, n \in Nat : n < m => n % m = n
  BY SMT
<1>2. MAX \in Nat
  BY IndexAssumption
<1> SUFFICES ASSUME NEW n \in 0..MAX PROVE Set!Wrap(n) = n
  OBVIOUS
<1>3. n \in Nat /\ MAX + 1 \in Nat /\ n < MAX + 1
  BY <1>2
<1> QED BY <1>1, <1>3 DEF Set!Wrap

(* The last number of a range.                                              *)
LEMMA RightBound ==
    \A r \in Bounded : /\ r.location \in 0..(MAX - 2)
                       /\ Set!RangeRightBound(r) \in Ends /\ r.location <= Set!RangeRightBound(r)
<1> SUFFICES ASSUME NEW r \in Bounded
             PROVE  /\ r.location \in 0..(MAX - 2)
                    /\ Set!RangeRightBound(r) \in Ends /\ r.location <= Set!RangeRightBound(r)
  OBVIOUS
<1>1. MAX \in Nat /\ r.location \in 0..(MAX - 2) /\ r.length \in 0..MAX
  BY IndexAssumption DEF Bounded
<1>2. CASE r.length = MAX
  BY <1>1, <1>2 DEF Set!RangeRightBound, Ends
<1>3. CASE r.length # MAX
  <2>1. r.location + r.length \in 0..MAX
        /\ (r.location + r.length = MAX \/ r.location + r.length < MAX - 2)
    BY <1>1, <1>3 DEF Bounded
  <2>2. Set!RangeRightBound(r) = r.location + r.length
    BY <1>3, <2>1, NotWrapped DEF Set!RangeRightBound
  <2> QED BY <1>1, <2>1, <2>2 DEF Ends
<1> QED BY <1>2, <1>3

(* A range made of its first and its last number.                           *)
LEMMA BetweenIs ==
    ASSUME NEW l \in 0..(MAX - 2), NEW e \in Ends, l <= e
    PROVE  /\ Set!RangeBetween(l, e) \in Bounded /\ Set!RangeBetween(l, e).location = l
           /\ Set!RangeRightBound(Set!RangeBetween(l, e)) = e
<1> DEFINE r == Set!RangeBetween(l, e)
<1>1. MAX \in Nat /\ e \in 0..MAX /\ l \in 0..MAX
  BY IndexAssumption DEF Ends
<1>2. CASE e = MAX
  <2>1. r = [location |-> l, length |-> MAX]
    BY <1>1, <1>2, NotWrapped DEF Set!RangeBetween, Set!RangeMake
  <2>2. r \in Bounded
    BY <1>1, <2>1 DEF Bounded
  <2> HIDE DEF r
  <2>3. Set!RangeRightBound(r) = MAX
    BY <2>1 DEF Set!RangeRightBound
  <2> QED BY <1>2, <2>1, <2>2, <2>3 DEF r
<1>3. CASE e # MAX
  <2>1. e - l \in 0..MAX /\ e - l # MAX /\ l + (e - l) = e /\ e < MAX - 2
    BY <1>1, <1>3 DEF Ends
  <2>2. r = [location |-> l, length |-> e - l]
    BY <1>1, <1>3, <2>1, NotWrapped DEF Set!RangeBetween, Set!RangeMake
  <2> HIDE DEF r
  <2>3. r \in Bounded
    BY <1>1, <2>1, <2>2 DEF Bounded
  <2>4. Set!RangeRightBound(r) = e
    BY <1>1, <2>1, <2>2, NotWrapped DEF Set!RangeRightBound
  <2> QED BY <2>2, <2>3, <2>4 DEF r
<1> QED BY <1>2, <1>3

(* Two ranges have numbers in common if neither ends before the other        *)
(* begins; what they have in common is a range.                             *)
Meet(r1, r2) == r1.location <= Set!RangeRightBound(r2) /\ r2.location <= Set!RangeRightBound(r1)

(* The numbers that two ranges have in common, or the empty range.          *)
LEMMA IntersectionIs ==
    ASSUME NEW r1 \in Bounded, NEW r2 \in Bounded
    PROVE  LET common == Set!RangeIntersection(r1, r2)
           IN  /\ Set!RangeHasIntersection(r1, r2) <=> Meet(r1, r2)
               /\ Meet(r1, r2) =>
                     /\ common.location = IF r1.location > r2.location THEN r1.location ELSE r2.location
                     /\ Set!RangeRightBound(common) = IF Set!RangeRightBound(r1) < Set!RangeRightBound(r2)
                                                      THEN Set!RangeRightBound(r1) ELSE Set!RangeRightBound(r2)
<1> DEFINE common == Set!RangeIntersection(r1, r2)
           l == IF r1.location > r2.location THEN r1.location ELSE r2.location
           e == IF Set!RangeRightBound(r1) < Set!RangeRightBound(r2)
                THEN Set!RangeRightBound(r1) ELSE Set!RangeRightBound(r2)
<1>1. /\ r1.location \in 0..(MAX - 2) /\ Set!RangeRightBound(r1) \in Ends
           /\ r1.location <= Set!RangeRightBound(r1)
      /\ r2.location \in 0..(MAX - 2) /\ Set!RangeRightBound(r2) \in Ends
           /\ r2.location <= Set!RangeRightBound(r2)
      /\ MAX \in Nat
  BY RightBound, IndexAssumption
<1>2. l \in 0..(MAX - 2) /\ e \in Ends
  BY <1>1 DEF Ends
<1>3. CASE Meet(r1, r2)
  <2>1. l <= e
    BY <1>1, <1>3 DEF Meet, Ends
  <2>2. common = Set!RangeBetween(l, e)
    <3>1. ~ (Set!RangeRightBound(r2) < r1.location \/ Set!RangeRightBound(r1) < r2.location)
      BY <1>1, <1>3 DEF Meet, Ends
    <3> QED BY <3>1 DEF Set!RangeIntersection
  <2>3. common.location = l /\ Set!RangeRightBound(common) = e
    <3> HIDE DEF l, e
    <3> QED BY <1>2, <2>1, <2>2, BetweenIs
  <2>4. common.location # MAX
    BY <1>1, <1>2, <2>3
  <2> QED BY <1>3, <2>3, <2>4 DEF Set!RangeHasIntersection
<1>4. CASE ~ Meet(r1, r2)
  <2>1. Set!RangeRightBound(r2) < r1.location \/ Set!RangeRightBound(r1) < r2.location
    BY <1>1, <1>4 DEF Meet, Ends
  <2>2. common = Set!RangeMake(MAX, 0)
    BY <2>1 DEF Set!RangeIntersection, Set!RangeEmpty
  <2>3. common.location = MAX
    BY <1>1, <2>2, NotWrapped DEF Set!RangeMake
  <2> QED BY <1>4, <2>3 DEF Set!RangeHasIntersection
<1> QED BY <1>3, <1>4

(* The union of two ranges, and what is between them.                       *)
LEMMA UnionIs ==
    ASSUME NEW r1 \in Bounded, NEW r2 \in Bounded
    PROVE  /\ Set!RangeUnion(r1, r2) \in Bounded
           /\ Set!RangeUnion(r1, r2).location = IF r1.location < r2.location THEN r1.location ELSE r2.location
           /\ Set!RangeRightBound(Set!RangeUnion(r1, r2)) = IF Set!RangeRightBound(r1) > Set!RangeRightBound(r2)
                                                            THEN Set!RangeRightBound(r1)
                                                            ELSE Set!RangeRightBound(r2)
<1> DEFINE l == IF r1.location < r2.location THEN r1.location ELSE r2.location
           e == IF Set!RangeRightBound(r1) > Set!RangeRightBound(r2)
                THEN Set!RangeRightBound(r1) ELSE Set!RangeRightBound(r2)
<1>1. /\ r1.location \in 0..(MAX - 2) /\ Set!RangeRightBound(r1) \in Ends
           /\ r1.location <= Set!RangeRightBound(r1)
      /\ r2.location \in 0..(MAX - 2) /\ Set!RangeRightBound(r2) \in Ends
           /\ r2.location <= Set!RangeRightBound(r2)
      /\ MAX \in Nat
  BY RightBound, IndexAssumption
<1>2. l \in 0..(MAX - 2) /\ e \in Ends /\ l <= e
  BY <1>1 DEF Ends
<1>3. Set!RangeUnion(r1, r2) = Set!RangeBetween(l, e)
  BY DEF Set!RangeUnion
<1> HIDE DEF l, e
<1>4. /\ Set!RangeUnion(r1, r2) \in Bounded /\ Set!RangeUnion(r1, r2).location = l
      /\ Set!RangeRightBound(Set!RangeUnion(r1, r2)) = e
  BY <1>2, <1>3, BetweenIs
<1> QED BY <1>4 DEF l, e

(* A range that was used is not empty.                                      *)
LEMMA RangeFacts ==
    \A r \in Bounded :
        /\ r.location \in Nat /\ Set!RangeRightBound(r) \in Nat /\ r.location <= Set!RangeRightBound(r)
        /\ Set!RangeRightBound(r) <= MAX
        /\ r.location \in Set!Indexes(r) /\ Set!RangeRightBound(r) \in Set!Indexes(r)
        /\ \A x : x \in Set!Indexes(r) <=> x \in Nat /\ r.location <= x /\ x <= Set!RangeRightBound(r)
<1> SUFFICES ASSUME NEW r \in Bounded
             PROVE  /\ r.location \in Nat /\ Set!RangeRightBound(r) \in Nat
                    /\ r.location <= Set!RangeRightBound(r) /\ Set!RangeRightBound(r) <= MAX
                    /\ r.location \in Set!Indexes(r) /\ Set!RangeRightBound(r) \in Set!Indexes(r)
                    /\ \A x : x \in Set!Indexes(r)
                         <=> x \in Nat /\ r.location <= x /\ x <= Set!RangeRightBound(r)
  OBVIOUS
<1>1. /\ r.location \in 0..(MAX - 2) /\ Set!RangeRightBound(r) \in Ends
      /\ r.location <= Set!RangeRightBound(r) /\ MAX \in Nat
  BY RightBound, IndexAssumption
<1>2. r.location \in Nat /\ Set!RangeRightBound(r) \in Nat /\ Set!RangeRightBound(r) <= MAX
  BY <1>1 DEF Ends
<1> QED BY <1>1, <1>2 DEF Set!Indexes

-----------------------------------------------------------------------------
(* IndexSet: arrays of ranges. *)

(* The arrays in order.                                                     *)
IndexSets == {q \in Seq(Numbers) : Set!Ordered(q)}

(* The elements of an array, and what it holds.                             *)
LEMMA ArrayFacts ==
    \A q \in Seq(Numbers) :
        /\ Len(q) \in Nat /\ DOMAIN q = 1 .. Len(q)
        /\ \A k \in 1 .. Len(q) : q[k] \in Numbers /\ q[k] \in Bounded
        /\ \A x : x \in Set!Contents(q) <=> \E k \in 1 .. Len(q) : x \in Set!Indexes(q[k])
        /\ Set!Contents(q) \subseteq Nat
<1> SUFFICES ASSUME NEW q \in Seq(Numbers)
             PROVE  /\ Len(q) \in Nat /\ DOMAIN q = 1 .. Len(q)
                    /\ \A k \in 1 .. Len(q) : q[k] \in Numbers /\ q[k] \in Bounded
                    /\ \A x : x \in Set!Contents(q) <=> \E k \in 1 .. Len(q) : x \in Set!Indexes(q[k])
                    /\ Set!Contents(q) \subseteq Nat
  OBVIOUS
<1>1. /\ Len(q) \in Nat /\ DOMAIN q = 1 .. Len(q)
      /\ \A k \in 1 .. Len(q) : q[k] \in Numbers
  BY LenProperties, ElementOfSeq
<1>2. \A k \in 1 .. Len(q) : q[k] \in Bounded
  BY <1>1 DEF Numbers
<1>3. \A x : x \in Set!Contents(q) <=> \E k \in 1 .. Len(q) : x \in Set!Indexes(q[k])
  BY <1>1 DEF Set!Contents
<1>4. Set!Contents(q) \subseteq Nat
  BY <1>2, <1>3, RangeFacts
<1> QED BY <1>1, <1>2, <1>3, <1>4

(* Of an array in order the ranges of smaller index hold smaller numbers.   *)
LEMMA InOrder ==
    ASSUME NEW q \in IndexSets
    PROVE  /\ q \in Seq(Numbers)
           /\ \A i, j \in 1 .. Len(q) : i < j => Set!RangeRightBound(q[i]) < q[j].location
BY ArrayFacts DEF IndexSets, Set!Ordered

(* One array after another.                                                 *)
LEMMA ArraysJoined ==
    ASSUME NEW p \in IndexSets, NEW q \in IndexSets,
           \A x \in Set!Contents(p), y \in Set!Contents(q) : x < y
    PROVE  /\ p \o q \in IndexSets
           /\ Set!Contents(p \o q) = Set!Contents(p) \cup Set!Contents(q)
<1> DEFINE m == Len(p)
           n == Len(q)
           pq == p \o q
<1>1. /\ p \in Seq(Numbers) /\ q \in Seq(Numbers) /\ m \in Nat /\ n \in Nat
      /\ \A k \in 1 .. m : p[k] \in Bounded
      /\ \A k \in 1 .. n : q[k] \in Bounded
  BY InOrder, ArrayFacts
<1>2. /\ pq \in Seq(Numbers) /\ Len(pq) = m + n
      /\ \A k \in 1 .. m + n : pq[k] = IF k <= m THEN p[k] ELSE q[k - m]
  BY <1>1, ConcatProperties
<1> HIDE DEF pq
<1>3. \A k \in 1 .. m : k \in 1 .. m + n /\ pq[k] = p[k]
  <2> HIDE DEF m, n
  <2>1. \A k \in 1 .. m : k \in 1 .. m + n /\ k <= m
    BY <1>1
  <2> QED BY <1>2, <2>1
<1>4. \A k \in 1 .. n : m + k \in 1 .. m + n /\ pq[m + k] = q[k]
  <2> SUFFICES ASSUME NEW k \in 1 .. n PROVE m + k \in 1 .. m + n /\ pq[m + k] = q[k]
    OBVIOUS
  <2>1. m + k \in 1 .. m + n /\ ~ (m + k <= m) /\ (m + k) - m = k
    BY <1>1
  <2> QED BY <1>2, <2>1
<1>5. \A k \in 1 .. m + n : k \in 1 .. m \/ \E l \in 1 .. n : k = m + l
  <2> SUFFICES ASSUME NEW k \in 1 .. m + n, k \notin 1 .. m PROVE \E l \in 1 .. n : k = m + l
    OBVIOUS
  <2>1. k - m \in 1 .. n /\ k = m + (k - m)
    BY <1>1
  <2> QED BY <2>1
<1> HIDE DEF m, n
<1>6. \A x : x \in Set!Contents(pq) <=> x \in Set!Contents(p) \/ x \in Set!Contents(q)
  <2>1. /\ \A x : x \in Set!Contents(pq) <=> \E k \in 1 .. m + n : x \in Set!Indexes(pq[k])
        /\ \A x : x \in Set!Contents(p) <=> \E k \in 1 .. m : x \in Set!Indexes(p[k])
        /\ \A x : x \in Set!Contents(q) <=> \E k \in 1 .. n : x \in Set!Indexes(q[k])
    BY <1>1, <1>2, ArrayFacts DEF m, n
  <2> QED BY <1>3, <1>4, <1>5, <2>1
<1>7. ASSUME NEW i \in 1 .. m + n, NEW j \in 1 .. m + n, i < j
      PROVE  Set!RangeRightBound(pq[i]) < pq[j].location
  <2>1. CASE i \in 1 .. m /\ j \in 1 .. m
    BY <1>3, <1>7, <2>1, InOrder DEF m
  <2>2. CASE i \in 1 .. m /\ j \notin 1 .. m
    <3>1. PICK l \in 1 .. n : j = m + l
      BY <1>5, <2>2
    <3>2. pq[i] = p[i] /\ pq[j] = q[l]
      BY <1>3, <1>4, <2>2, <3>1
    <3>3. Set!RangeRightBound(p[i]) \in Set!Contents(p) /\ q[l].location \in Set!Contents(q)
      BY <1>1, <2>2, ArrayFacts, RangeFacts DEF m, n
    <3> QED BY <3>2, <3>3
  <2>3. CASE i \notin 1 .. m
    <3>1. PICK k \in 1 .. n : i = m + k
      BY <1>5, <2>3
    <3>2. j \notin 1 .. m
      BY <1>1, <1>7, <3>1
    <3>3. PICK l \in 1 .. n : j = m + l
      BY <1>5, <3>2
    <3>4. k < l
      BY <1>1, <1>7, <3>1, <3>3
    <3>5. Set!RangeRightBound(q[k]) < q[l].location
      BY <3>4, InOrder DEF n
    <3> QED BY <1>4, <3>1, <3>3, <3>5
  <2> QED BY <2>1, <2>2, <2>3
<1>8. pq \in IndexSets
  BY <1>1, <1>2, <1>7, ArrayFacts DEF IndexSets, Set!Ordered
<1> QED BY <1>6, <1>8 DEF pq

(* The elements of a part of an array.                                      *)
LEMMA PartElements ==
    ASSUME NEW q \in Seq(Numbers), NEW a \in Nat \ {0}, NEW b \in Nat, a <= b + 1, b <= Len(q)
    PROVE  /\ SubSeq(q, a, b) \in Seq(Numbers) /\ Len(SubSeq(q, a, b)) = b + 1 - a
           /\ \A k \in 1 .. b + 1 - a : SubSeq(q, a, b)[k] = q[a + k - 1]
<1> DEFINE n == b + 1 - a
           p == SubSeq(q, a, b)
<1>1. Len(q) \in Nat /\ \A k \in 1 .. Len(q) : q[k] \in Numbers
  BY ArrayFacts
<1>2. n \in Nat /\ \A k \in 1 .. n : a + k - 1 \in 1 .. Len(q) /\ k + a - 1 = a + k - 1
  BY <1>1
<1>3. p = [k \in 1 .. n |-> q[k + a - 1]]
  <2>1. b - a + 1 = n
    OBVIOUS
  <2> QED BY <2>1
<1>4. p \in [1 .. n -> Numbers] /\ \A k \in 1 .. n : p[k] = q[a + k - 1]
  BY <1>1, <1>2, <1>3
<1> HIDE DEF p, n
<1>5. p \in Seq(Numbers) /\ Len(p) = n
  BY <1>2, <1>4, SeqDef, LenProperties
<1> QED BY <1>4, <1>5 DEF p, n

(* A part of an array.                                                      *)
LEMMA ArrayPart ==
    ASSUME NEW q \in IndexSets, NEW a \in Nat, NEW b \in Nat, 1 <= a, a <= b + 1, b <= Len(q)
    PROVE  /\ SubSeq(q, a, b) \in IndexSets
           /\ Len(SubSeq(q, a, b)) = b - a + 1
           /\ \A k \in 1 .. b - a + 1 : SubSeq(q, a, b)[k] = q[a + k - 1]
           /\ \A x : x \in Set!Contents(SubSeq(q, a, b)) <=> \E k \in a .. b : x \in Set!Indexes(q[k])
<1> DEFINE n == b - a + 1
           p == SubSeq(q, a, b)
<1>1. q \in Seq(Numbers) /\ Len(q) \in Nat /\ \A k \in 1 .. Len(q) : q[k] \in Numbers
  BY InOrder, ArrayFacts
<1>2. n \in Nat /\ \A k \in 1 .. n : a + k - 1 \in 1 .. Len(q) /\ a + k - 1 \in a .. b
  BY <1>1
<1>3. p \in Seq(Numbers) /\ Len(p) = b + 1 - a /\ \A k \in 1 .. b + 1 - a : p[k] = q[a + k - 1]
  BY <1>1, PartElements
<1>4. b + 1 - a = n
  OBVIOUS
<1> HIDE DEF p, n
<1>5. p \in Seq(Numbers) /\ Len(p) = n /\ \A k \in 1 .. n : p[k] = q[a + k - 1]
  BY <1>3, <1>4
<1>6. p \in IndexSets
  <2>1. ASSUME NEW i \in 1 .. n, NEW j \in 1 .. n, i < j PROVE Set!RangeRightBound(p[i]) < p[j].location
    <3>1. a + i - 1 < a + j - 1
      BY <1>2, <2>1
    <3> QED BY <1>2, <1>5, <3>1, InOrder
  <2> QED BY <1>5, <2>1, ArrayFacts DEF IndexSets, Set!Ordered
<1>7. \A x : x \in Set!Contents(p) <=> \E k \in a .. b : x \in Set!Indexes(q[k])
  <2>1. \A x : x \in Set!Contents(p) <=> \E k \in 1 .. n : x \in Set!Indexes(p[k])
    BY <1>5, ArrayFacts, Zenon
  <2>2. \A k \in a .. b : k - a + 1 \in 1 .. n /\ a + (k - a + 1) - 1 = k
    BY <1>1 DEF n
  <2>3. \A k \in a .. b : k - a + 1 \in 1 .. n /\ p[k - a + 1] = q[k]
    BY <1>5, <2>2
  <2>4. \A k \in 1 .. n : a + k - 1 \in a .. b /\ p[k] = q[a + k - 1]
    BY <1>2, <1>5
  <2> QED BY <2>1, <2>3, <2>4, Zenon
<1> QED BY <1>5, <1>6, <1>7 DEF p, n

(* Parts that follow each other hold numbers that do.                       *)
LEMMA PartsInOrder ==
    ASSUME NEW q \in IndexSets, NEW i \in 1 .. Len(q), NEW j \in 1 .. Len(q), i < j,
           NEW x \in Set!Indexes(q[i]), NEW y \in Set!Indexes(q[j])
    PROVE  x < y
<1>1. q[i] \in Bounded /\ q[j] \in Bounded /\ Set!RangeRightBound(q[i]) < q[j].location
  BY InOrder, ArrayFacts
<1> QED BY <1>1, RangeFacts

(* One range, and none.                                                     *)
LEMMA OneRange ==
    /\ \A r \in Numbers : <<r>> \in IndexSets /\ Set!Contents(<<r>>) = Set!Indexes(r)
    /\ <<>> \in IndexSets /\ Set!Contents(<<>>) = {}
<1>1. ASSUME NEW r \in Numbers PROVE <<r>> \in IndexSets /\ Set!Contents(<<r>>) = Set!Indexes(r)
  <2>1. <<r>> \in Seq(Numbers) /\ Len(<<r>>) = 1 /\ <<r>>[1] = r
    OBVIOUS
  <2>2. \A x : x \in Set!Contents(<<r>>) <=> x \in Set!Indexes(r)
    <3> DEFINE q == <<r>>
    <3>1. q \in Seq(Numbers) /\ Len(q) = 1 /\ q[1] = r
      BY <2>1
    <3> HIDE DEF q
    <3>2. \A x : x \in Set!Contents(q) <=> \E k \in 1 .. 1 : x \in Set!Indexes(q[k])
      BY <3>1, ArrayFacts
    <3>3. \A k \in 1 .. 1 : k = 1
      OBVIOUS
    <3>4. 1 \in 1 .. 1
      OBVIOUS
    <3>5. \A x : x \in Set!Contents(q) <=> x \in Set!Indexes(r)
      BY <3>1, <3>2, <3>3, <3>4, Zenon
    <3> QED BY <3>5 DEF q
  <2>3. Set!Ordered(<<r>>)
    <3> DEFINE q == <<r>>
    <3>1. DOMAIN q = 1 .. 1
      OBVIOUS
    <3> HIDE DEF q
    <3>2. \A i, j \in 1 .. 1 : ~ (i < j)
      OBVIOUS
    <3>3. Set!Ordered(q)
      BY <3>1, <3>2 DEF Set!Ordered
    <3> QED BY <3>3 DEF q
  <2> QED BY <2>1, <2>2, <2>3 DEF IndexSets
<1>2. <<>> \in IndexSets /\ Set!Contents(<<>>) = {}
  <2>1. <<>> \in Seq(Numbers) /\ Len(<<>>) = 0
    BY EmptySeq
  <2>2. Set!Contents(<<>>) = {}
    <3> DEFINE q == <<>>
    <3>1. q \in Seq(Numbers) /\ Len(q) = 0
      BY <2>1
    <3> HIDE DEF q
    <3>2. \A x : x \in Set!Contents(q) <=> \E k \in 1 .. 0 : x \in Set!Indexes(q[k])
      BY <3>1, ArrayFacts
    <3>3. 1 .. 0 = {}
      OBVIOUS
    <3>4. Set!Contents(q) = {}
      BY <3>2, <3>3, Zenon
    <3> QED BY <3>4 DEF q
  <2> QED BY <2>1, <2>2, ArrayFacts DEF IndexSets, Set!Ordered
<1> QED BY <1>1, <1>2

-----------------------------------------------------------------------------
(* IndexSet: the searches. *)

(* Where halving two bounds leads.                                          *)
LEMMA Halves ==
    ASSUME NEW q \in Seq(Numbers), NEW b \in Set!Bounds(q)
    PROVE  LET middle == (b[1] + b[2]) \div 2
           IN  /\ b[1] \in 1 .. Len(q) /\ b[2] \in 1 .. Len(q) /\ b[1] <= b[2]
               /\ middle \in b[1] .. b[2]
               /\ b[1] # b[2] => middle < b[2] /\ <<middle + 1, b[2]>> \in Set!Bounds(q)
               /\ <<b[1], middle>> \in Set!Bounds(q)
<1> DEFINE middle == (b[1] + b[2]) \div 2
<1>1. Len(q) \in Nat /\ b[1] \in 1 .. Len(q) /\ b[2] \in 1 .. Len(q) /\ b[1] <= b[2]
  BY ArrayFacts DEF Set!Bounds
<1>2. \A l, r \in Nat : l <= r => /\ (l + r) \div 2 \in l .. r
                                  /\ l # r => (l + r) \div 2 < r
  OBVIOUS
<1>3. middle \in b[1] .. b[2] /\ (b[1] # b[2] => middle < b[2])
  BY <1>1, <1>2
<1> HIDE DEF middle
<1>4. middle \in 1 .. Len(q) /\ b[1] <= middle
      /\ (b[1] # b[2] => middle + 1 \in 1 .. Len(q) /\ middle + 1 <= b[2])
  BY <1>1, <1>3
<1>5. <<b[1], middle>> \in Set!Bounds(q)
  BY <1>1, <1>4 DEF Set!Bounds
<1>6. b[1] # b[2] => <<middle + 1, b[2]>> \in Set!Bounds(q)
  BY <1>1, <1>4 DEF Set!Bounds
<1> QED BY <1>1, <1>3, <1>5, <1>6 DEF middle

(* Within the bounds b, the ranges before i end before idx and the others    *)
(* do not.                                                                  *)
Splits(q, idx, b, i) ==
    /\ i \in b[1] .. b[2] + 1
    /\ \A j \in b[1] .. i - 1 : ~ (idx <= Set!RangeRightBound(q[j]))
    /\ \A j \in i .. b[2] : idx <= Set!RangeRightBound(q[j])

(* There is one such index.                                                 *)
LEMMA OneSplits ==
    ASSUME NEW q \in IndexSets, NEW idx \in Nat, NEW b \in Set!Bounds(q)
    PROVE  /\ \E i \in Nat : Splits(q, idx, b, i)
           /\ \A i, j \in Nat : Splits(q, idx, b, i) /\ Splits(q, idx, b, j) => i = j
<1> DEFINE reaches(j) == idx <= Set!RangeRightBound(q[j])
           N == {j \in b[1] .. b[2] : reaches(j)}
<1>1. /\ q \in Seq(Numbers) /\ Len(q) \in Nat
      /\ b[1] \in 1 .. Len(q) /\ b[2] \in 1 .. Len(q) /\ b[1] <= b[2]
  BY InOrder, Halves, ArrayFacts
<1>2. ASSUME NEW i \in 1 .. Len(q), NEW j \in 1 .. Len(q), i < j, reaches(i) PROVE reaches(j)
  <2>1. /\ Set!RangeRightBound(q[i]) < q[j].location /\ q[j].location <= Set!RangeRightBound(q[j])
        /\ Set!RangeRightBound(q[i]) \in Nat /\ q[j].location \in Nat /\ Set!RangeRightBound(q[j]) \in Nat
    BY <1>1, <1>2, InOrder, ArrayFacts, RangeFacts
  <2> QED BY <1>2, <2>1
<1>3. \E i \in Nat : Splits(q, idx, b, i)
  <2>1. CASE N = {}
    <3>1. Splits(q, idx, b, b[2] + 1)
      BY <1>1, <2>1 DEF Splits
    <3> QED BY <1>1, <3>1
  <2>2. CASE N # {}
    <3>1. N \subseteq Nat
      BY <1>1
    <3>2. PICK i \in N : \A j \in N : i <= j
      <4> HIDE DEF N
      <4> QED BY <2>2, <3>1, SmallestNumber
    <3>3. i \in b[1] .. b[2] /\ reaches(i)
      OBVIOUS
    <3> HIDE DEF reaches
    <3>4. ASSUME NEW j \in b[1] .. i - 1 PROVE ~ reaches(j)
      <4>1. j \in b[1] .. b[2] /\ ~ (i <= j)
        BY <1>1, <3>3
      <4> QED BY <3>2, <4>1
    <3>5. ASSUME NEW j \in i .. b[2] PROVE reaches(j)
      <4>1. CASE j = i
        BY <3>3, <4>1
      <4>2. CASE j # i
        <5>1. i \in 1 .. Len(q) /\ j \in 1 .. Len(q) /\ i < j
          BY <1>1, <3>3, <4>2
        <5> QED BY <1>2, <3>3, <5>1
      <4> QED BY <4>1, <4>2
    <3>6. i \in b[1] .. b[2] + 1 /\ i \in Nat
      BY <1>1, <3>3
    <3> QED BY <3>4, <3>5, <3>6 DEF Splits, reaches
  <2> QED BY <2>1, <2>2
<1>4. ASSUME NEW i \in Nat, NEW j \in Nat, Splits(q, idx, b, i), Splits(q, idx, b, j), i < j PROVE FALSE
  <2>1. i \in b[1] .. j - 1 /\ i \in i .. b[2]
    BY <1>1, <1>4 DEF Splits
  <2> QED BY <1>4, <2>1 DEF Splits
<1>5. \A i, j \in Nat : Splits(q, idx, b, i) /\ Splits(q, idx, b, j) => i = j
  <2> SUFFICES ASSUME NEW i \in Nat, NEW j \in Nat, Splits(q, idx, b, i), Splits(q, idx, b, j)
               PROVE  i = j
    OBVIOUS
  <2>1. i < j \/ j < i \/ i = j
    OBVIOUS
  <2> QED BY <1>4, <2>1
<1> QED BY <1>3, <1>5

(* It is found in the half in which leftRangeIndexForIndexWithBounds goes    *)
(* on.                                                                      *)
LEMMA HalfSplits ==
    ASSUME NEW q \in IndexSets, NEW idx \in Nat, NEW b \in Set!Bounds(q), NEW i \in Nat
    PROVE  LET middle == (b[1] + b[2]) \div 2
               reaches == idx <= Set!RangeRightBound(q[middle])
           IN  /\ b[1] = b[2] => Splits(q, idx, b, IF reaches THEN b[1] ELSE b[1] + 1)
               /\ reaches /\ Splits(q, idx, <<b[1], middle>>, i) => Splits(q, idx, b, i)
               /\ b[1] # b[2] /\ ~ reaches /\ Splits(q, idx, <<middle + 1, b[2]>>, i) => Splits(q, idx, b, i)
<1> DEFINE middle == (b[1] + b[2]) \div 2
           reach(j) == idx <= Set!RangeRightBound(q[j])
           l == b[1]
           r == b[2]
<1>1. /\ q \in Seq(Numbers) /\ Len(q) \in Nat
      /\ l \in 1 .. Len(q) /\ r \in 1 .. Len(q) /\ l <= r /\ middle \in l .. r
      /\ l # r => middle < r
  BY InOrder, Halves, ArrayFacts
<1>2. ASSUME NEW j \in 1 .. Len(q), NEW k \in 1 .. Len(q), j < k
      PROVE  reach(j) => reach(k)
  <2>1. /\ Set!RangeRightBound(q[j]) < q[k].location /\ q[k].location <= Set!RangeRightBound(q[k])
        /\ Set!RangeRightBound(q[j]) \in Nat /\ q[k].location \in Nat /\ Set!RangeRightBound(q[k]) \in Nat
    BY <1>1, <1>2, InOrder, ArrayFacts, RangeFacts
  <2> QED BY <1>2, <2>1
<1> HIDE DEF middle
<1>3. ASSUME l = r PROVE Splits(q, idx, b, IF reach(middle) THEN l ELSE l + 1)
  <2>1. middle = l
    BY <1>1, <1>3
  <2> HIDE DEF reach
  <2>2. CASE reach(middle)
    <3>1. \A j \in l .. l - 1 : FALSE
      BY <1>1
    <3>2. l \in l .. r + 1 /\ \A j \in l .. r : j = l
      BY <1>1, <1>3
    <3> QED BY <2>1, <2>2, <3>1, <3>2 DEF Splits, reach
  <2>3. CASE ~ reach(middle)
    <3>1. \A j \in l + 1 .. r : FALSE
      BY <1>1, <1>3
    <3>2. l + 1 \in l .. r + 1 /\ \A j \in l .. (l + 1) - 1 : j = l
      BY <1>1, <1>3
    <3> QED BY <2>1, <2>3, <3>1, <3>2 DEF Splits, reach
  <2> QED BY <2>2, <2>3
<1> HIDE DEF reach, l, r
<1>4. ASSUME reach(middle), Splits(q, idx, <<l, middle>>, i) PROVE Splits(q, idx, b, i)
  <2>1. /\ i \in l .. middle + 1
        /\ \A j \in l .. i - 1 : ~ reach(j)
        /\ \A j \in i .. middle : reach(j)
    BY <1>4 DEF Splits, reach
  <2>2. i # middle + 1
    <3> SUFFICES ASSUME i = middle + 1 PROVE FALSE
      OBVIOUS
    <3>1. middle \in l .. i - 1
      BY <1>1
    <3> QED BY <1>4, <2>1, <3>1
  <2>3. ASSUME NEW j \in i .. r PROVE reach(j)
    <3>1. CASE j <= middle
      <4>1. j \in i .. middle
        BY <3>1
      <4> QED BY <2>1, <4>1
    <3>2. CASE ~ (j <= middle)
      <4>1. middle \in 1 .. Len(q) /\ j \in 1 .. Len(q) /\ middle < j
        BY <1>1, <2>1, <3>2
      <4> QED BY <1>2, <1>4, <4>1
    <3> QED BY <3>1, <3>2
  <2>4. i \in l .. r + 1
    BY <1>1, <2>1, <2>2
  <2> QED BY <2>1, <2>3, <2>4 DEF Splits, reach, l, r
<1>5. ASSUME l # r, ~ reach(middle), Splits(q, idx, <<middle + 1, r>>, i) PROVE Splits(q, idx, b, i)
  <2>1. /\ i \in middle + 1 .. r + 1
        /\ \A j \in middle + 1 .. i - 1 : ~ reach(j)
        /\ \A j \in i .. r : reach(j)
    BY <1>5 DEF Splits, reach
  <2>2. ASSUME NEW j \in l .. i - 1 PROVE ~ reach(j)
    <3>1. CASE middle < j
      <4>1. j \in middle + 1 .. i - 1
        BY <1>1, <3>1
      <4> QED BY <2>1, <4>1
    <3>2. CASE j = middle
      BY <1>5, <3>2
    <3>3. CASE j < middle
      <4>1. middle \in 1 .. Len(q) /\ j \in 1 .. Len(q)
        BY <1>1, <3>3
      <4> QED BY <1>2, <1>5, <3>3, <4>1
    <3>4. middle < j \/ j = middle \/ j < middle
      BY <1>1
    <3> QED BY <3>1, <3>2, <3>3, <3>4
  <2>3. i \in l .. r + 1
    BY <1>1, <2>1
  <2> QED BY <2>1, <2>2, <2>3 DEF Splits, reach, l, r
<1> QED BY <1>3, <1>4, <1>5 DEF reach, l, r, middle

(* What holds of bounds that are equal, and of others when it holds of      *)
(* their halves, holds of all.                                              *)
LEMMA Halving ==
    ASSUME NEW q \in Seq(Numbers), NEW T,
           \A b \in Set!Bounds(q) :
               LET middle == (b[1] + b[2]) \div 2
               IN  /\ b[1] = b[2] => b \in T
                   /\ b[1] # b[2] /\ <<b[1], middle>> \in T /\ <<middle + 1, b[2]>> \in T => b \in T
    PROVE  \A b \in Set!Bounds(q) : b \in T
<1> DEFINE W == {n \in Nat : \E b \in Set!Bounds(q) : b \notin T /\ n = b[2] - b[1]}
<1>1. \A b \in Set!Bounds(q) : b[1] \in Nat /\ b[2] \in Nat /\ b[2] - b[1] \in Nat
  <2> SUFFICES ASSUME NEW b \in Set!Bounds(q) PROVE b[1] \in Nat /\ b[2] \in Nat /\ b[2] - b[1] \in Nat
    OBVIOUS
  <2>1. Len(q) \in Nat /\ b[1] \in 1 .. Len(q) /\ b[2] \in 1 .. Len(q) /\ b[1] <= b[2]
    BY ArrayFacts, Halves
  <2> QED BY <2>1
<1>2. SUFFICES ASSUME W # {} PROVE FALSE
  <2> SUFFICES ASSUME NEW b \in Set!Bounds(q), b \notin T PROVE W # {}
    OBVIOUS
  <2>1. b[2] - b[1] \in W
    BY <1>1
  <2> QED BY <2>1
<1>3. W \subseteq Nat
  OBVIOUS
<1>4. PICK n \in W : \A m \in W : n <= m
  <2> HIDE DEF W
  <2> QED BY <1>2, <1>3, SmallestNumber
<1>5. PICK b \in Set!Bounds(q) : b \notin T /\ n = b[2] - b[1]
  OBVIOUS
<1> DEFINE middle == (b[1] + b[2]) \div 2
           lower == <<b[1], middle>>
           upper == <<middle + 1, b[2]>>
<1>6. b[1] # b[2]
  BY <1>5
<1>7. /\ lower \in Set!Bounds(q) /\ upper \in Set!Bounds(q) /\ middle \in b[1] .. b[2] /\ middle < b[2]
  BY <1>6, Halves
<1>8. b[1] \in Nat /\ b[2] \in Nat /\ middle \in Nat
  BY <1>1, <1>7
<1> HIDE DEF middle
<1>9. lower[2] - lower[1] < n /\ upper[2] - upper[1] < n
  BY <1>5, <1>7, <1>8
<1> HIDE DEF lower, upper
<1>10. ASSUME NEW c \in Set!Bounds(q), c[2] - c[1] < n PROVE c \in T
  <2> SUFFICES ASSUME c \notin T PROVE FALSE
    OBVIOUS
  <2>1. c[2] - c[1] \in W
    BY <1>1
  <2>2. n <= c[2] - c[1] /\ n \in Nat /\ c[2] - c[1] \in Nat
    BY <1>1, <1>3, <1>4, <2>1
  <2> QED BY <1>10, <2>2
<1>11. lower \in T /\ upper \in T
  BY <1>7, <1>9, <1>10
<1> QED BY <1>5, <1>6, <1>11 DEF middle, lower, upper

(* leftRangeIndexForIndexWithBounds finds the index.                        *)
LEMMA LeftSearch ==
    ASSUME NEW q \in IndexSets, NEW idx \in Nat, NEW b \in Set!Bounds(q)
    PROVE  Splits(q, idx, b, Set!LeftRangeIndexForIndexWithBounds(q, idx)[b])
<1> DEFINE middle(c) == (c[1] + c[2]) \div 2
           reaches(c) == idx <= Set!RangeRightBound(q[middle(c)])
           Body(a, c) == IF c[1] = c[2] THEN IF reaches(c) THEN c[1] ELSE c[1] + 1
                         ELSE IF reaches(c) THEN a[<<c[1], middle(c)>>]
                         ELSE a[<<middle(c) + 1, c[2]>>]
           F(a) == [c \in Set!Bounds(q) |-> Body(a, c)]
           search == CHOOSE a : a = F(a)
           g == [c \in Set!Bounds(q) |-> CHOOSE i \in Nat : Splits(q, idx, c, i)]
<1>1. Set!LeftRangeIndexForIndexWithBounds(q, idx) = search
  BY DEF Set!LeftRangeIndexForIndexWithBounds
<1>2. \A c \in Set!Bounds(q) : g[c] \in Nat /\ Splits(q, idx, c, g[c])
  <2> SUFFICES ASSUME NEW c \in Set!Bounds(q) PROVE g[c] \in Nat /\ Splits(q, idx, c, g[c])
    OBVIOUS
  <2>1. \E i \in Nat : Splits(q, idx, c, i)
    BY OneSplits
  <2> QED BY <2>1
<1>3. q \in Seq(Numbers) /\ Len(q) \in Nat
  BY InOrder, ArrayFacts
<1>4. ASSUME NEW a, NEW c \in Set!Bounds(q),
             c[1] # c[2] => /\ a[<<c[1], middle(c)>>] \in Nat
                            /\ Splits(q, idx, <<c[1], middle(c)>>, a[<<c[1], middle(c)>>])
                            /\ a[<<middle(c) + 1, c[2]>>] \in Nat
                            /\ Splits(q, idx, <<middle(c) + 1, c[2]>>, a[<<middle(c) + 1, c[2]>>])
      PROVE  Body(a, c) \in Nat /\ Splits(q, idx, c, Body(a, c))
  <2>1. CASE c[1] = c[2]
    <3>1. c[1] \in 1 .. Len(q) /\ c[1] + 1 \in Nat
      <4>1. c[1] \in 1 .. Len(q)
        BY <1>3, Halves
      <4> QED BY <1>3, <4>1
    <3>2. Splits(q, idx, c, IF reaches(c) THEN c[1] ELSE c[1] + 1)
      BY <2>1, HalfSplits
    <3> QED BY <2>1, <3>1, <3>2
  <2>2. CASE c[1] # c[2] /\ reaches(c)
    <3> DEFINE i == a[<<c[1], middle(c)>>]
    <3>1. i \in Nat /\ Splits(q, idx, <<c[1], middle(c)>>, i) /\ Body(a, c) = i
      BY <1>4, <2>2
    <3> HIDE DEF i
    <3> QED BY <2>2, <3>1, HalfSplits
  <2>3. CASE c[1] # c[2] /\ ~ reaches(c)
    <3> DEFINE i == a[<<middle(c) + 1, c[2]>>]
    <3>1. i \in Nat /\ Splits(q, idx, <<middle(c) + 1, c[2]>>, i) /\ Body(a, c) = i
      BY <1>4, <2>3
    <3> HIDE DEF i
    <3> QED BY <2>3, <3>1, HalfSplits
  <2> QED BY <2>1, <2>2, <2>3
<1>5. \A c \in Set!Bounds(q) : c[1] # c[2]
        => <<c[1], middle(c)>> \in Set!Bounds(q) /\ <<middle(c) + 1, c[2]>> \in Set!Bounds(q)
  BY <1>3, Halves
<1> HIDE DEF Body
<1>6. search = F(search)
  <2>1. ASSUME NEW c \in Set!Bounds(q) PROVE g[c] = Body(g, c)
    <3>1. Body(g, c) \in Nat /\ Splits(q, idx, c, Body(g, c))
      <4> HIDE DEF g, middle
      <4> QED BY <1>2, <1>4, <1>5
    <3> HIDE DEF g
    <3> QED BY <1>2, <3>1, OneSplits
  <2>2. g = F(g)
    BY <2>1
  <2> HIDE DEF F, g
  <2> QED BY <2>2
<1>7. \A c \in Set!Bounds(q) : search[c] = Body(search, c)
  <2> HIDE DEF search
  <2> QED BY <1>6
<1> HIDE DEF search, F, g
<1> DEFINE T == {c \in Set!Bounds(q) : search[c] \in Nat /\ Splits(q, idx, c, search[c])}
<1>8. ASSUME NEW c \in Set!Bounds(q)
      PROVE  /\ c[1] = c[2] => c \in T
             /\ c[1] # c[2] /\ <<c[1], middle(c)>> \in T /\ <<middle(c) + 1, c[2]>> \in T => c \in T
  <2>1. SUFFICES ASSUME c[1] # c[2] => <<c[1], middle(c)>> \in T /\ <<middle(c) + 1, c[2]>> \in T
                 PROVE  c \in T
    OBVIOUS
  <2>2. Body(search, c) \in Nat /\ Splits(q, idx, c, Body(search, c))
    <3> HIDE DEF middle
    <3> QED BY <1>4, <2>1
  <2> QED BY <1>7, <2>2
<1>9. \A c \in Set!Bounds(q) : c \in T
  <2> HIDE DEF T
  <2> QED BY <1>3, <1>8, Halving
<1> QED BY <1>1, <1>9

(* Ranges before i end before idx, and the others do not.                   *)
StartsAt(q, idx, i) ==
    /\ i \in 1 .. Len(q) + 1
    /\ \A j \in 1 .. Len(q) : IF j < i THEN Set!RangeRightBound(q[j]) < idx
         ELSE idx <= Set!RangeRightBound(q[j])

(* The search for the first range that does not end before a number.        *)
LEMMA LeftIndex ==
    ASSUME NEW q \in IndexSets, NEW idx \in Nat
    PROVE  StartsAt(q, idx, Set!LeftRangeIndexForIndex(q, idx))
<1> DEFINE i == Set!LeftRangeIndexForIndex(q, idx)
<1>1. q \in Seq(Numbers) /\ Len(q) \in Nat /\ \A j \in 1 .. Len(q) : Set!RangeRightBound(q[j]) \in Nat
  BY InOrder, ArrayFacts, RangeFacts
<1>2. CASE q = <<>>
  <2>1. i = 1 /\ Len(q) = 0
    BY <1>2 DEF Set!LeftRangeIndexForIndex
  <2> QED BY <2>1 DEF StartsAt
<1>3. CASE q # <<>>
  <2>1. Len(q) # 0
    BY <1>1, <1>3, EmptySeq
  <2>2. <<1, Len(q)>> \in Set!Bounds(q)
    BY <1>1, <2>1 DEF Set!Bounds
  <2>3. i = Set!LeftRangeIndexForIndexWithBounds(q, idx)[<<1, Len(q)>>]
    BY <1>3 DEF Set!LeftRangeIndexForIndex
  <2> HIDE DEF i
  <2>4. Splits(q, idx, <<1, Len(q)>>, i)
    BY <2>2, <2>3, LeftSearch
  <2>5. /\ i \in 1 .. Len(q) + 1
        /\ \A j \in 1 .. i - 1 : ~ (idx <= Set!RangeRightBound(q[j]))
        /\ \A j \in i .. Len(q) : idx <= Set!RangeRightBound(q[j])
    BY <2>4 DEF Splits
  <2>6. ASSUME NEW j \in 1 .. Len(q)
        PROVE  IF j < i THEN Set!RangeRightBound(q[j]) < idx ELSE idx <= Set!RangeRightBound(q[j])
    <3>1. CASE j < i
      <4>1. j \in 1 .. i - 1
        BY <2>5, <3>1
      <4> QED BY <1>1, <2>5, <3>1, <4>1
    <3>2. CASE ~ (j < i)
      <4>1. j \in i .. Len(q)
        BY <2>5, <3>2
      <4> QED BY <2>5, <3>2, <4>1
    <3> QED BY <3>1, <3>2
  <2> QED BY <2>5, <2>6 DEF StartsAt, i
<1> QED BY <1>2, <1>3

(* Within the bounds b, i is the range that holds idx, or 0.                *)
Holds(q, idx, b, i) ==
    \/ i = 0 /\ \A j \in b[1] .. b[2] : idx \notin Set!Indexes(q[j])
    \/ i \in b[1] .. b[2] /\ idx \in Set!Indexes(q[i])

(* There is one such index.                                                 *)
LEMMA OneHolds ==
    ASSUME NEW q \in IndexSets, NEW idx \in Nat, NEW b \in Set!Bounds(q)
    PROVE  /\ \E i \in Nat : Holds(q, idx, b, i)
           /\ \A i, j \in Nat : Holds(q, idx, b, i) /\ Holds(q, idx, b, j) => i = j
<1>1. /\ q \in Seq(Numbers) /\ Len(q) \in Nat
      /\ b[1] \in 1 .. Len(q) /\ b[2] \in 1 .. Len(q) /\ b[1] <= b[2]
  BY InOrder, Halves, ArrayFacts
<1>2. \E i \in Nat : Holds(q, idx, b, i)
  <2>1. CASE \E i \in b[1] .. b[2] : idx \in Set!Indexes(q[i])
    <3>1. PICK i \in b[1] .. b[2] : idx \in Set!Indexes(q[i])
      BY <2>1
    <3>2. i \in Nat
      BY <1>1
    <3> QED BY <3>1, <3>2 DEF Holds
  <2>2. CASE ~ \E i \in b[1] .. b[2] : idx \in Set!Indexes(q[i])
    BY <2>2 DEF Holds
  <2> QED BY <2>1, <2>2
<1>3. ASSUME NEW i \in Nat, NEW j \in Nat, Holds(q, idx, b, i), Holds(q, idx, b, j), i < j PROVE FALSE
  <2>1. j # 0 /\ j \in b[1] .. b[2] /\ idx \in Set!Indexes(q[j])
    BY <1>1, <1>3 DEF Holds
  <2>2. i # 0 /\ i \in b[1] .. b[2] /\ idx \in Set!Indexes(q[i])
    BY <1>1, <1>3, <2>1 DEF Holds
  <2>3. i \in 1 .. Len(q) /\ j \in 1 .. Len(q)
    BY <1>1, <2>1, <2>2
  <2>4. idx < idx
    BY <1>3, <2>1, <2>2, <2>3, PartsInOrder
  <2> QED BY <2>4
<1>4. \A i, j \in Nat : Holds(q, idx, b, i) /\ Holds(q, idx, b, j) => i = j
  <2> SUFFICES ASSUME NEW i \in Nat, NEW j \in Nat, Holds(q, idx, b, i), Holds(q, idx, b, j)
               PROVE  i = j
    OBVIOUS
  <2>1. i < j \/ j < i \/ i = j
    OBVIOUS
  <2> QED BY <1>3, <2>1
<1> QED BY <1>2, <1>4

(* It is found in the half in which rangeIndexForIndexWithBounds goes on.   *)
LEMMA HalfHolds ==
    ASSUME NEW q \in IndexSets, NEW idx \in Nat, NEW b \in Set!Bounds(q), NEW i
    PROVE  LET middle == (b[1] + b[2]) \div 2
               range == q[middle]
               here == range.location <= idx /\ idx <= Set!RangeRightBound(range)
           IN  /\ here => Holds(q, idx, b, middle)
               /\ ~ here /\ b[1] = b[2] => Holds(q, idx, b, 0)
               /\ ~ here /\ idx < range.location /\ Holds(q, idx, <<b[1], middle>>, i) => Holds(q, idx, b, i)
               /\ ~ here /\ ~ (idx < range.location) /\ Holds(q, idx, <<middle + 1, b[2]>>, i)
                     => Holds(q, idx, b, i)
<1> DEFINE middle == (b[1] + b[2]) \div 2
           range == q[middle]
           here == range.location <= idx /\ idx <= Set!RangeRightBound(range)
<1>1. /\ q \in Seq(Numbers) /\ Len(q) \in Nat
      /\ b[1] \in 1 .. Len(q) /\ b[2] \in 1 .. Len(q) /\ b[1] <= b[2] /\ middle \in b[1] .. b[2]
  BY InOrder, Halves, ArrayFacts
<1> HIDE DEF middle
<1>2. middle \in 1 .. Len(q)
  BY <1>1
<1>3. /\ here <=> idx \in Set!Indexes(range)
      /\ range.location \in Nat /\ Set!RangeRightBound(range) \in Nat
           /\ range.location <= Set!RangeRightBound(range)
      /\ range.location \in Set!Indexes(range) /\ Set!RangeRightBound(range) \in Set!Indexes(range)
  BY <1>1, <1>2, ArrayFacts, RangeFacts
<1>4. ASSUME NEW j \in 1 .. Len(q), NEW x \in Set!Indexes(q[j])
      PROVE  (j < middle => x < range.location) /\ (middle < j => Set!RangeRightBound(range) < x)
  BY <1>2, <1>3, <1>4, PartsInOrder
<1> HIDE DEF range
<1>5. here => Holds(q, idx, b, middle)
  BY <1>1, <1>3 DEF Holds, range
<1>6. ASSUME ~ here, b[1] = b[2] PROVE Holds(q, idx, b, 0)
  <2>1. \A j \in b[1] .. b[2] : j = middle
    BY <1>1, <1>6
  <2> QED BY <1>3, <1>6, <2>1 DEF Holds, range
<1>7. ASSUME ~ here, idx < range.location, Holds(q, idx, <<b[1], middle>>, i) PROVE Holds(q, idx, b, i)
  <2>1. \/ i = 0 /\ \A j \in b[1] .. middle : idx \notin Set!Indexes(q[j])
        \/ i \in b[1] .. middle /\ idx \in Set!Indexes(q[i])
    BY <1>7 DEF Holds
  <2>2. CASE i \in b[1] .. middle /\ idx \in Set!Indexes(q[i])
    BY <1>1, <2>2 DEF Holds
  <2>3. CASE i = 0 /\ \A j \in b[1] .. middle : idx \notin Set!Indexes(q[j])
    <3>1. ASSUME NEW j \in b[1] .. b[2], idx \in Set!Indexes(q[j]) PROVE FALSE
      <4>1. j \in 1 .. Len(q) /\ (j \in b[1] .. middle \/ middle < j)
        BY <1>1
      <4>2. middle < j
        BY <2>3, <3>1, <4>1
      <4>3. Set!RangeRightBound(range) < idx
        BY <1>4, <3>1, <4>1, <4>2
      <4> QED BY <1>3, <1>7, <4>3
    <3> QED BY <2>3, <3>1 DEF Holds
  <2> QED BY <2>1, <2>2, <2>3
<1>8. ASSUME ~ here, ~ (idx < range.location), Holds(q, idx, <<middle + 1, b[2]>>, i)
      PROVE  Holds(q, idx, b, i)
  <2>1. \/ i = 0 /\ \A j \in middle + 1 .. b[2] : idx \notin Set!Indexes(q[j])
        \/ i \in middle + 1 .. b[2] /\ idx \in Set!Indexes(q[i])
    BY <1>8 DEF Holds
  <2>2. CASE i \in middle + 1 .. b[2] /\ idx \in Set!Indexes(q[i])
    BY <1>1, <2>2 DEF Holds
  <2>3. CASE i = 0 /\ \A j \in middle + 1 .. b[2] : idx \notin Set!Indexes(q[j])
    <3>1. ASSUME NEW j \in b[1] .. b[2], idx \in Set!Indexes(q[j]) PROVE FALSE
      <4>1. j \in 1 .. Len(q) /\ (j \in middle + 1 .. b[2] \/ j = middle \/ j < middle)
        BY <1>1
      <4>2. CASE j = middle
        BY <1>3, <1>8, <3>1, <4>2 DEF range
      <4>3. CASE j < middle
        <5>1. idx < range.location
          BY <1>4, <3>1, <4>1, <4>3
        <5> QED BY <1>8, <5>1
      <4> QED BY <2>3, <3>1, <4>1, <4>2, <4>3
    <3> QED BY <2>3, <3>1 DEF Holds
  <2> QED BY <2>1, <2>2, <2>3
<1> QED BY <1>5, <1>6, <1>7, <1>8 DEF range, middle

(* rangeIndexForIndexWithBounds finds the index.                            *)
LEMMA Search ==
    ASSUME NEW q \in IndexSets, NEW idx \in Nat, NEW b \in Set!Bounds(q)
    PROVE  Holds(q, idx, b, Set!RangeIndexForIndexWithBounds(q, idx)[b])
<1> DEFINE middle(c) == (c[1] + c[2]) \div 2
           range(c) == q[middle(c)]
           here(c) == range(c).location <= idx /\ idx <= Set!RangeRightBound(range(c))
           Body(a, c) == IF here(c) THEN middle(c)
                         ELSE IF c[1] = c[2] THEN 0
                         ELSE IF idx < range(c).location THEN a[<<c[1], middle(c)>>]
                         ELSE a[<<middle(c) + 1, c[2]>>]
           F(a) == [c \in Set!Bounds(q) |-> Body(a, c)]
           search == CHOOSE a : a = F(a)
           g == [c \in Set!Bounds(q) |-> CHOOSE i \in Nat : Holds(q, idx, c, i)]
<1>1. Set!RangeIndexForIndexWithBounds(q, idx) = search
  BY DEF Set!RangeIndexForIndexWithBounds
<1>2. \A c \in Set!Bounds(q) : g[c] \in Nat /\ Holds(q, idx, c, g[c])
  <2> SUFFICES ASSUME NEW c \in Set!Bounds(q) PROVE g[c] \in Nat /\ Holds(q, idx, c, g[c])
    OBVIOUS
  <2>1. \E i \in Nat : Holds(q, idx, c, i)
    BY OneHolds
  <2> QED BY <2>1
<1>3. q \in Seq(Numbers) /\ Len(q) \in Nat
  BY InOrder, ArrayFacts
<1>4. ASSUME NEW a, NEW c \in Set!Bounds(q),
             c[1] # c[2] => /\ a[<<c[1], middle(c)>>] \in Nat
                            /\ Holds(q, idx, <<c[1], middle(c)>>, a[<<c[1], middle(c)>>])
                            /\ a[<<middle(c) + 1, c[2]>>] \in Nat
                            /\ Holds(q, idx, <<middle(c) + 1, c[2]>>, a[<<middle(c) + 1, c[2]>>])
      PROVE  Body(a, c) \in Nat /\ Holds(q, idx, c, Body(a, c))
  <2>1. CASE here(c)
    <3>1. Body(a, c) = middle(c)
      BY <2>1
    <3>2. c[1] \in 1 .. Len(q) /\ c[2] \in 1 .. Len(q) /\ middle(c) \in c[1] .. c[2]
      BY <1>3, Halves
    <3>3. middle(c) \in Nat
      <4> HIDE DEF middle
      <4> QED BY <1>3, <3>2
    <3>4. Holds(q, idx, c, middle(c))
      BY <2>1, HalfHolds
    <3> HIDE DEF Body, middle
    <3> QED BY <3>1, <3>3, <3>4
  <2>2. CASE ~ here(c) /\ c[1] = c[2]
    <3>1. Body(a, c) = 0
      BY <2>2
    <3>2. Holds(q, idx, c, 0)
      BY <2>2, HalfHolds
    <3> HIDE DEF Body
    <3> QED BY <3>1, <3>2
  <2>3. CASE ~ here(c) /\ c[1] # c[2] /\ idx < range(c).location
    <3> DEFINE i == a[<<c[1], middle(c)>>]
    <3>1. i \in Nat /\ Holds(q, idx, <<c[1], middle(c)>>, i) /\ Body(a, c) = i
      BY <1>4, <2>3
    <3> HIDE DEF i, Body
    <3>2. Holds(q, idx, c, i)
      BY <2>3, <3>1, HalfHolds
    <3> QED BY <3>1, <3>2
  <2>4. CASE ~ here(c) /\ c[1] # c[2] /\ ~ (idx < range(c).location)
    <3> DEFINE i == a[<<middle(c) + 1, c[2]>>]
    <3>1. i \in Nat /\ Holds(q, idx, <<middle(c) + 1, c[2]>>, i) /\ Body(a, c) = i
      BY <1>4, <2>4
    <3> HIDE DEF i, Body
    <3>2. Holds(q, idx, c, i)
      BY <2>4, <3>1, HalfHolds
    <3> QED BY <3>1, <3>2
  <2> HIDE DEF Body, here, range
  <2> QED BY <2>1, <2>2, <2>3, <2>4
<1>5. \A c \in Set!Bounds(q) : c[1] # c[2]
        => <<c[1], middle(c)>> \in Set!Bounds(q) /\ <<middle(c) + 1, c[2]>> \in Set!Bounds(q)
  BY <1>3, Halves
<1> HIDE DEF Body
<1>6. search = F(search)
  <2>1. ASSUME NEW c \in Set!Bounds(q) PROVE g[c] = Body(g, c)
    <3>1. Body(g, c) \in Nat /\ Holds(q, idx, c, Body(g, c))
      <4> HIDE DEF g, middle
      <4> QED BY <1>2, <1>4, <1>5
    <3> HIDE DEF g
    <3> QED BY <1>2, <3>1, OneHolds
  <2>2. g = F(g)
    BY <2>1
  <2> HIDE DEF F, g
  <2> QED BY <2>2
<1>7. \A c \in Set!Bounds(q) : search[c] = Body(search, c)
  <2> HIDE DEF search
  <2> QED BY <1>6
<1> HIDE DEF search, F, g
<1> DEFINE T == {c \in Set!Bounds(q) : search[c] \in Nat /\ Holds(q, idx, c, search[c])}
<1>8. ASSUME NEW c \in Set!Bounds(q)
      PROVE  /\ c[1] = c[2] => c \in T
             /\ c[1] # c[2] /\ <<c[1], middle(c)>> \in T /\ <<middle(c) + 1, c[2]>> \in T => c \in T
  <2>1. SUFFICES ASSUME c[1] # c[2] => <<c[1], middle(c)>> \in T /\ <<middle(c) + 1, c[2]>> \in T
                 PROVE  c \in T
    OBVIOUS
  <2>2. Body(search, c) \in Nat /\ Holds(q, idx, c, Body(search, c))
    <3> HIDE DEF middle
    <3> QED BY <1>4, <2>1
  <2> QED BY <1>7, <2>2
<1>9. \A c \in Set!Bounds(q) : c \in T
  <2> HIDE DEF T
  <2> QED BY <1>3, <1>8, Halving
<1> QED BY <1>1, <1>9

(* containsIndex finds what the ranges hold.                                *)
LEMMA ContainsIs ==
    ASSUME NEW q \in IndexSets, NEW idx \in Nat
    PROVE  Set!ContainsIndex(q, idx) <=> idx \in Set!Contents(q)
<1>1. /\ q \in Seq(Numbers) /\ Len(q) \in Nat
      /\ idx \in Set!Contents(q) <=> \E k \in 1 .. Len(q) : idx \in Set!Indexes(q[k])
  BY InOrder, ArrayFacts
<1>2. CASE q = <<>>
  <2>1. 1 .. Len(q) = {}
    BY <1>2
  <2> QED BY <1>1, <1>2, <2>1 DEF Set!ContainsIndex
<1>3. CASE q # <<>>
  <2> DEFINE i == Set!RangeIndexForIndexWithBounds(q, idx)[<<1, Len(q)>>]
  <2>1. Len(q) # 0
    BY <1>1, <1>3, EmptySeq
  <2>2. <<1, Len(q)>> \in Set!Bounds(q)
    BY <1>1, <2>1 DEF Set!Bounds
  <2>3. Holds(q, idx, <<1, Len(q)>>, i)
    BY <2>2, Search
  <2>4. Set!ContainsIndex(q, idx) <=> i # 0
    BY <1>3 DEF Set!ContainsIndex
  <2> HIDE DEF i
  <2>5. \/ i = 0 /\ \A j \in 1 .. Len(q) : idx \notin Set!Indexes(q[j])
        \/ i \in 1 .. Len(q) /\ i # 0 /\ idx \in Set!Indexes(q[i])
    BY <2>3 DEF Holds
  <2> QED BY <1>1, <2>4, <2>5
<1> QED BY <1>2, <1>3

-----------------------------------------------------------------------------
(* IndexSet: the changes. *)

(* The ranges from i to the end of the run have an intersection with r, and *)
(* the one after it has none.                                               *)
LEMMA Run ==
    ASSUME NEW q \in Seq(Numbers), NEW i \in 1 .. Len(q) + 1, NEW r
    PROVE  LET next == Set!RunEnd(q, i, r)
           IN  /\ next \in i .. Len(q) + 1
               /\ \A j \in i .. next - 1 : Set!RangeHasIntersection(q[j], r)
               /\ next # Len(q) + 1 => ~ Set!RangeHasIntersection(q[next], r)
<1> DEFINE meets(j) == Set!RangeHasIntersection(q[j], r)
           N == {j \in i .. Len(q) + 1 : j = Len(q) + 1 \/ ~ meets(j)}
           End(k) == /\ \A j \in i .. k - 1 : meets(j)
                     /\ k \in DOMAIN q => ~ meets(k)
           next == Set!RunEnd(q, i, r)
<1>1. Len(q) \in Nat /\ DOMAIN q = 1 .. Len(q)
  BY ArrayFacts
<1>2. next = CHOOSE k \in i .. Len(q) + 1 : End(k)
  BY DEF Set!RunEnd
<1> HIDE DEF meets
<1>3. N \subseteq Nat /\ N # {}
  <2>1. Len(q) + 1 \in N
    BY <1>1
  <2> QED BY <1>1, <2>1
<1>4. PICK k \in N : \A j \in N : k <= j
  <2> HIDE DEF N
  <2> QED BY <1>3, SmallestNumber
<1>5. k \in i .. Len(q) + 1 /\ (k = Len(q) + 1 \/ ~ meets(k))
  OBVIOUS
<1>6. ASSUME NEW j \in i .. k - 1 PROVE meets(j)
  <2> SUFFICES ASSUME ~ meets(j) PROVE FALSE
    OBVIOUS
  <2>1. j \in N /\ ~ (k <= j)
    BY <1>1, <1>5
  <2> QED BY <1>4, <2>1
<1>7. End(k)
  BY <1>1, <1>5, <1>6
<1>8. next \in i .. Len(q) + 1 /\ End(next)
  <2> HIDE DEF End, next
  <2> QED BY <1>2, <1>5, <1>7
<1> HIDE DEF next
<1>9. next # Len(q) + 1 => next \in 1 .. Len(q)
  BY <1>1, <1>8
<1> QED BY <1>1, <1>8, <1>9 DEF next, meets

(* removeRange of one range: what is before r2 and what is after it.        *)
LEMMA RangeRemoved ==
    ASSUME NEW r1 \in Numbers, NEW r2 \in Bounded
    PROVE  /\ Set!RangeRemoveRange(r1, r2) \in IndexSets
           /\ Set!Contents(Set!RangeRemoveRange(r1, r2)) = Set!Indexes(r1) \ Set!Indexes(r2)
<1> DEFINE common == Set!RangeIntersection(r1, r2)
           left == common.location
           right == Set!RangeRightBound(common)
           l1 == r1.location
           e1 == Set!RangeRightBound(r1)
           l2 == r2.location
           e2 == Set!RangeRightBound(r2)
           before == IF left > l1 THEN <<Set!RangeBetween(l1, left - 1)>> ELSE <<>>
           after == IF right < e1 THEN <<Set!RangeBetween(right + 1, e1)>> ELSE <<>>
<1>1. r1 \in Bounded /\ r1.location # 0
  BY DEF Numbers
<1>2. /\ l1 \in 1 .. (MAX - 2) /\ e1 \in Ends /\ l1 <= e1
      /\ l2 \in 0 .. (MAX - 2) /\ e2 \in Ends /\ l2 <= e2
      /\ MAX \in Nat
  <2>1. /\ l1 \in 0 .. (MAX - 2) /\ e1 \in Ends /\ l1 <= e1
        /\ l2 \in 0 .. (MAX - 2) /\ e2 \in Ends /\ l2 <= e2
        /\ MAX \in Nat
    BY <1>1, RightBound, IndexAssumption
  <2> QED BY <1>1, <2>1
<1>3. /\ \A x : x \in Set!Indexes(r1) <=> x \in Nat /\ l1 <= x /\ x <= e1
      /\ \A x : x \in Set!Indexes(r2) <=> x \in Nat /\ l2 <= x /\ x <= e2
  BY <1>1, RangeFacts
<1>4. CASE Meet(r1, r2)
  <2>1. /\ Set!RangeRemoveRange(r1, r2) = before \o after
        /\ left = IF l1 > l2 THEN l1 ELSE l2
        /\ right = IF e1 < e2 THEN e1 ELSE e2
        /\ l1 <= e2 /\ l2 <= e1
    BY <1>1, <1>4, IntersectionIs DEF Set!RangeRemoveRange, Meet
  <2> HIDE DEF l1, e1, l2, e2, left, right
  <2>2. /\ before \in IndexSets
        /\ \A x : x \in Set!Contents(before) <=> x \in Nat /\ l1 <= x /\ x < left
    <3>1. CASE left > l1
      <4> DEFINE r == Set!RangeBetween(l1, left - 1)
      <4>1. l1 \in 0 .. (MAX - 2) /\ left - 1 \in Ends /\ l1 <= left - 1
        BY <1>2, <2>1, <3>1 DEF Ends
      <4>2. r \in Bounded /\ r.location = l1 /\ Set!RangeRightBound(r) = left - 1
        BY <4>1, BetweenIs
      <4> HIDE DEF r
      <4>3. r \in Numbers
        BY <1>2, <4>2 DEF Numbers
      <4>4. \A x : x \in Set!Indexes(r) <=> x \in Nat /\ l1 <= x /\ x <= left - 1
        BY <4>2, RangeFacts
      <4>5. \A x \in Nat : x <= left - 1 <=> x < left
        BY <1>2, <2>1
      <4>6. before = <<r>>
        BY <3>1 DEF r
      <4> HIDE DEF before
      <4> QED BY <4>3, <4>4, <4>5, <4>6, OneRange
    <3>2. CASE ~ (left > l1)
      <4>1. before = <<>>
        BY <3>2
      <4>2. \A x \in Nat : ~ (l1 <= x /\ x < left)
        BY <1>2, <2>1, <3>2
      <4> HIDE DEF before
      <4> QED BY <4>1, <4>2, OneRange
    <3> QED BY <3>1, <3>2
  <2>3. /\ after \in IndexSets
        /\ \A x : x \in Set!Contents(after) <=> x \in Nat /\ right < x /\ x <= e1
    <3>1. CASE right < e1
      <4> DEFINE r == Set!RangeBetween(right + 1, e1)
      <4>1. right + 1 \in 0 .. (MAX - 2) /\ e1 \in Ends /\ right + 1 <= e1 /\ right + 1 # 0
        BY <1>2, <2>1, <3>1 DEF Ends
      <4>2. r \in Bounded /\ r.location = right + 1 /\ Set!RangeRightBound(r) = e1
        BY <4>1, BetweenIs
      <4> HIDE DEF r
      <4>3. r \in Numbers
        BY <4>1, <4>2 DEF Numbers
      <4>4. \A x : x \in Set!Indexes(r) <=> x \in Nat /\ right + 1 <= x /\ x <= e1
        BY <4>2, RangeFacts
      <4>5. \A x \in Nat : right + 1 <= x <=> right < x
        BY <1>2, <2>1 DEF Ends
      <4>6. after = <<r>>
        BY <3>1 DEF r
      <4> HIDE DEF after
      <4> QED BY <4>3, <4>4, <4>5, <4>6, OneRange
    <3>2. CASE ~ (right < e1)
      <4>1. after = <<>>
        BY <3>2
      <4>2. \A x \in Nat : ~ (right < x /\ x <= e1)
        BY <1>2, <2>1, <3>2 DEF Ends
      <4> HIDE DEF after
      <4> QED BY <4>1, <4>2, OneRange
    <3> QED BY <3>1, <3>2
  <2> HIDE DEF before, after
  <2>4. \A x \in Set!Contents(before), y \in Set!Contents(after) : x < y
    <3>1. \A x, y \in Nat : x < left /\ right < y => x < y
      BY <1>2, <2>1 DEF Ends
    <3> QED BY <2>2, <2>3, <3>1
  <2>5. /\ before \o after \in IndexSets
        /\ Set!Contents(before \o after) = Set!Contents(before) \cup Set!Contents(after)
    BY <2>2, <2>3, <2>4, ArraysJoined
  <2>6. \A x \in Nat : (l1 <= x /\ x < left) \/ (right < x /\ x <= e1)
                       <=> (l1 <= x /\ x <= e1) /\ ~ (l2 <= x /\ x <= e2)
    BY <1>2, <2>1 DEF Ends
  <2>7. \A x : x \in Set!Contents(before \o after) <=> x \in Set!Indexes(r1) /\ x \notin Set!Indexes(r2)
    BY <1>3, <2>2, <2>3, <2>5, <2>6
  <2> QED BY <2>1, <2>5, <2>7
<1>5. CASE ~ Meet(r1, r2)
  <2>1. Set!RangeRemoveRange(r1, r2) = <<r1>>
    BY <1>1, <1>5, IntersectionIs DEF Set!RangeRemoveRange
  <2>2. \A x \in Nat : ~ (l1 <= x /\ x <= e1 /\ l2 <= x /\ x <= e2)
    BY <1>2, <1>5 DEF Meet, Ends
  <2>3. Set!Indexes(r1) \ Set!Indexes(r2) = Set!Indexes(r1)
    BY <1>3, <2>2
  <2> QED BY <2>1, <2>3, OneRange
<1> QED BY <1>4, <1>5

(* The elements of one array after another.                                 *)
LEMMA JoinedElements ==
    ASSUME NEW p \in Seq(Numbers), NEW q \in Seq(Numbers)
    PROVE  /\ p \o q \in Seq(Numbers) /\ Len(p \o q) = Len(p) + Len(q)
           /\ \A k \in 1 .. Len(p) : (p \o q)[k] = p[k]
           /\ \A k \in 1 .. Len(q) : (p \o q)[Len(p) + k] = q[k]
<1> DEFINE m == Len(p)
           n == Len(q)
           pq == p \o q
<1>1. m \in Nat /\ n \in Nat
  BY ArrayFacts
<1>2. /\ pq \in Seq(Numbers) /\ Len(pq) = m + n
      /\ \A k \in 1 .. m + n : pq[k] = IF k <= m THEN p[k] ELSE q[k - m]
  BY ConcatProperties
<1> HIDE DEF pq, m, n
<1>3. \A k \in 1 .. m : k \in 1 .. m + n /\ pq[k] = p[k]
  BY <1>1, <1>2
<1>4. ASSUME NEW k \in 1 .. n PROVE pq[m + k] = q[k]
  <2>1. m + k \in 1 .. m + n /\ ~ (m + k <= m) /\ (m + k) - m = k
    BY <1>1
  <2> QED BY <1>2, <2>1
<1> QED BY <1>2, <1>3, <1>4 DEF pq, m, n

(* An array with the range x instead of those between a and b.              *)
Spliced(q, a, x, b) == (SubSeq(q, 1, a) \o <<x>>) \o SubSeq(q, b, Len(q))

(* What the elements of such an array p are.                                *)
SplicedIn(p, q, a, x, b) ==
    /\ p \in Seq(Numbers) /\ Len(p) = a + 1 + (Len(q) + 1 - b)
    /\ \A k \in 1 .. a : p[k] = q[k]
    /\ p[a + 1] = x
    /\ \A k \in b .. Len(q) : p[a + 2 + (k - b)] = q[k]

(* Which elements an array has after a part of it is replaced.              *)
LEMMA ReplacedElements ==
    ASSUME NEW q \in Seq(Numbers), NEW x \in Numbers, NEW a \in Nat, NEW b \in Nat \ {0},
           a <= Len(q), b <= Len(q) + 1
    PROVE  SplicedIn(Spliced(q, a, x, b), q, a, x, b)
<1> DEFINE p1 == SubSeq(q, 1, a)
           p2 == SubSeq(q, b, Len(q))
           s == <<x>>
           m == Len(q) + 1 - b
<1>1. Len(q) \in Nat /\ m \in Nat
  BY ArrayFacts
<1>2. p1 \in Seq(Numbers) /\ Len(p1) = a /\ \A k \in 1 .. a : p1[k] = q[k]
  <2>1. 1 <= a + 1 /\ a + 1 - 1 = a /\ \A k \in 1 .. a : 1 + k - 1 = k
    OBVIOUS
  <2>2. /\ p1 \in Seq(Numbers) /\ Len(p1) = a + 1 - 1
        /\ \A k \in 1 .. a + 1 - 1 : p1[k] = q[1 + k - 1]
    BY <2>1, PartElements
  <2> HIDE DEF p1
  <2> QED BY <2>1, <2>2
<1>3. p2 \in Seq(Numbers) /\ Len(p2) = m /\ \A k \in 1 .. m : p2[k] = q[b + k - 1]
  BY <1>1, PartElements
<1>4. s \in Seq(Numbers) /\ Len(s) = 1 /\ s[1] = x
  OBVIOUS
<1>5. Spliced(q, a, x, b) = (p1 \o s) \o p2
  BY DEF Spliced
<1> DEFINE t == p1 \o s
           p == t \o p2
<1> HIDE DEF p1, p2, s
<1>6. /\ t \in Seq(Numbers) /\ Len(t) = a + 1 /\ t[a + 1] = x
      /\ \A k \in 1 .. a : t[k] = q[k]
  <2>1. /\ t \in Seq(Numbers) /\ Len(t) = Len(p1) + Len(s)
        /\ \A k \in 1 .. Len(p1) : t[k] = p1[k]
        /\ \A k \in 1 .. Len(s) : t[Len(p1) + k] = s[k]
    BY <1>2, <1>4, JoinedElements
  <2> HIDE DEF t
  <2>2. 1 \in 1 .. Len(s)
    BY <1>4
  <2> QED BY <1>2, <1>4, <2>1, <2>2
<1> HIDE DEF t
<1>7. /\ p \in Seq(Numbers) /\ Len(p) = Len(t) + Len(p2)
      /\ \A k \in 1 .. Len(t) : p[k] = t[k]
      /\ \A k \in 1 .. Len(p2) : p[Len(t) + k] = p2[k]
  BY <1>3, <1>6, JoinedElements
<1> HIDE DEF p
<1>8. a + 1 \in 1 .. Len(t) /\ \A k \in 1 .. a : k \in 1 .. Len(t)
  BY <1>6
<1>9. ASSUME NEW k \in b .. Len(q) PROVE p[a + 2 + (k - b)] = q[k]
  <2>1. /\ k - b + 1 \in 1 .. m /\ b + (k - b + 1) - 1 = k
        /\ (a + 1) + (k - b + 1) = a + 2 + (k - b)
    BY <1>1
  <2>2. p[Len(t) + (k - b + 1)] = p2[k - b + 1]
    BY <1>3, <1>7, <2>1
  <2>3. p2[k - b + 1] = q[k]
    BY <1>3, <2>1
  <2>4. Len(t) + (k - b + 1) = a + 2 + (k - b)
    BY <1>6, <2>1
  <2> QED BY <2>2, <2>3, <2>4
<1>10. Len(p) = a + 1 + m
  BY <1>3, <1>6, <1>7
<1>11. p[a + 1] = x /\ \A k \in 1 .. a : p[k] = q[k]
  BY <1>6, <1>7, <1>8
<1>12. Spliced(q, a, x, b) = p
  BY <1>5 DEF p, t
<1> QED BY <1>7, <1>9, <1>10, <1>11, <1>12 DEF SplicedIn

(* It leaves the array in order.                                            *)
LEMMA Replacement ==
    ASSUME NEW q \in IndexSets, NEW x \in Numbers, NEW a \in Nat, NEW b \in Nat,
           a < b, b <= Len(q) + 1,
           \A j \in 1 .. a : Set!RangeRightBound(q[j]) < x.location,
           \A j \in b .. Len(q) : Set!RangeRightBound(x) < q[j].location
    PROVE  /\ Spliced(q, a, x, b) \in IndexSets
           /\ Len(Spliced(q, a, x, b)) = a + 1 + (Len(q) + 1 - b)
           /\ \A y : y \in Set!Contents(Spliced(q, a, x, b)) <=>
                        \/ y \in Set!Indexes(x)
                        \/ \E k \in 1 .. a : y \in Set!Indexes(q[k])
                        \/ \E k \in b .. Len(q) : y \in Set!Indexes(q[k])
<1> DEFINE n == Len(q)
           p1 == SubSeq(q, 1, a)
           p2 == SubSeq(q, b, n)
<1>1. q \in Seq(Numbers) /\ n \in Nat /\ x \in Bounded
  BY InOrder, ArrayFacts DEF Numbers
<1>2. \A k \in 1 .. n : q[k] \in Bounded
  BY <1>1, ArrayFacts
<1>3. /\ p1 \in IndexSets /\ Len(p1) = a
      /\ \A y : y \in Set!Contents(p1) <=> \E k \in 1 .. a : y \in Set!Indexes(q[k])
  <2>1. 1 \in Nat /\ 1 <= a + 1 /\ a <= n /\ a - 1 + 1 = a
    BY <1>1
  <2> QED BY <2>1, ArrayPart
<1>4. /\ p2 \in IndexSets /\ Len(p2) = n + 1 - b
      /\ \A y : y \in Set!Contents(p2) <=> \E k \in b .. n : y \in Set!Indexes(q[k])
  <2>1. 1 <= b /\ b <= n + 1 /\ n <= n /\ n - b + 1 = n + 1 - b
    BY <1>1
  <2> QED BY <1>1, <2>1, ArrayPart
<1>5. <<x>> \in IndexSets /\ Set!Contents(<<x>>) = Set!Indexes(x) /\ Len(<<x>>) = 1
  BY OneRange
<1>6. \A k \in 1 .. a : k \in 1 .. n
  BY <1>1
<1>7. \A k \in b .. n : k \in 1 .. n
  BY <1>1
<1> HIDE DEF p1, p2
<1>8. ASSUME NEW y \in Set!Contents(p1), NEW z \in Set!Contents(<<x>>) PROVE y < z
  <2>1. PICK k \in 1 .. a : y \in Set!Indexes(q[k])
    BY <1>3
  <2>2. /\ y \in Nat /\ y <= Set!RangeRightBound(q[k]) /\ Set!RangeRightBound(q[k]) \in Nat
        /\ z \in Nat /\ x.location <= z /\ x.location \in Nat
    BY <1>1, <1>2, <1>5, <1>6, <2>1, RangeFacts
  <2>3. Set!RangeRightBound(q[k]) < x.location
    OBVIOUS
  <2> QED BY <2>2, <2>3
<1> DEFINE p == p1 \o <<x>>
<1>9. /\ p \in IndexSets /\ Set!Contents(p) = Set!Contents(p1) \cup Set!Indexes(x)
      /\ Len(p) = a + 1
  <2> DEFINE s == <<x>>
  <2>1. s \in IndexSets /\ Set!Contents(s) = Set!Indexes(x) /\ Len(s) = 1
        /\ \A y \in Set!Contents(p1), z \in Set!Contents(s) : y < z
    BY <1>5, <1>8
  <2> HIDE DEF s
  <2>2. p1 \o s \in IndexSets /\ Set!Contents(p1 \o s) = Set!Contents(p1) \cup Set!Contents(s)
    BY <1>3, <2>1, ArraysJoined
  <2>3. Len(p1 \o s) = a + 1
    <3>1. p1 \in Seq(Numbers) /\ s \in Seq(Numbers)
      BY <1>3, <2>1 DEF IndexSets
    <3>2. Len(p1 \o s) = Len(p1) + Len(s)
      BY <3>1, ConcatProperties
    <3> QED BY <1>3, <2>1, <3>2
  <2> QED BY <2>1, <2>2, <2>3 DEF s
<1> HIDE DEF p
<1>10. ASSUME NEW y \in Set!Contents(p), NEW z \in Set!Contents(p2) PROVE y < z
  <2>1. PICK l \in b .. n : z \in Set!Indexes(q[l])
    BY <1>4
  <2>2. l \in 1 .. n
    BY <1>7
  <2>3. CASE y \in Set!Contents(p1)
    <3>1. PICK k \in 1 .. a : y \in Set!Indexes(q[k])
      BY <1>3, <2>3
    <3>2. k \in 1 .. n /\ k < l
      BY <1>1, <1>6
    <3> QED BY <2>1, <2>2, <3>1, <3>2, PartsInOrder
  <2>4. CASE y \in Set!Indexes(x)
    <3>1. /\ z \in Nat /\ q[l].location <= z /\ q[l].location \in Nat
          /\ y \in Nat /\ y <= Set!RangeRightBound(x) /\ Set!RangeRightBound(x) \in Nat
      BY <1>1, <1>2, <2>1, <2>2, <2>4, RangeFacts
    <3>2. Set!RangeRightBound(x) < q[l].location
      OBVIOUS
    <3> QED BY <3>1, <3>2
  <2> QED BY <1>9, <2>3, <2>4
<1>11. /\ p \o p2 \in IndexSets /\ Set!Contents(p \o p2) = Set!Contents(p) \cup Set!Contents(p2)
  BY <1>4, <1>9, <1>10, ArraysJoined
<1>12. Len(p \o p2) = a + 1 + (n + 1 - b)
  <2>1. p \in Seq(Numbers) /\ p2 \in Seq(Numbers)
    BY <1>4, <1>9 DEF IndexSets
  <2>2. Len(p \o p2) = Len(p) + Len(p2)
    BY <2>1, ConcatProperties
  <2> QED BY <1>4, <1>9, <2>2
<1>13. Spliced(q, a, x, b) = p \o p2
  BY DEF Spliced, p, p1, p2
<1> QED BY <1>3, <1>4, <1>9, <1>11, <1>12, <1>13

(* tryToMergeAdjacentRanges changes nothing of what the array holds.        *)
LEMMA NeighboursMerged ==
    ASSUME NEW q \in IndexSets, NEW i \in 1 .. Len(q) - 1
    PROVE  /\ Set!TryToMergeAdjacentRanges(q, i) \in IndexSets
           /\ Set!Contents(Set!TryToMergeAdjacentRanges(q, i)) = Set!Contents(q)
<1>1. /\ q \in Seq(Numbers) /\ Len(q) \in Nat
      /\ \A k \in 1 .. Len(q) : q[k] \in Numbers /\ q[k] \in Bounded
      /\ i \in Nat /\ i \in 1 .. Len(q) /\ i + 1 \in 1 .. Len(q) /\ i - 1 \in Nat
  BY InOrder, ArrayFacts
<1> DEFINE l == q[i].location
           e == Set!RangeRightBound(q[i])
           l2 == q[i + 1].location
           e2 == Set!RangeRightBound(q[i + 1])
<1>2. CASE e = MAX \/ e + 1 # l2
  BY <1>2 DEF Set!TryToMergeAdjacentRanges
<1>3. CASE ~ (e = MAX \/ e + 1 # l2)
  <2> DEFINE x == [q[i] EXCEPT !.length = e2 - l]
             removed == Set!RemoveAt(q, i + 1)
             merged == [removed EXCEPT ![i].length = e2 - l]
             p == Spliced(q, i - 1, x, i + 2)
             m == Len(q) - 1
  <2>1. Set!TryToMergeAdjacentRanges(q, i) = merged
    BY <1>3 DEF Set!TryToMergeAdjacentRanges
  <2>2. /\ l \in 1 .. (MAX - 2) /\ l <= e /\ e \in Ends
        /\ l2 <= e2 /\ e2 \in Ends /\ e + 1 = l2 /\ MAX \in Nat /\ e < l2
    <3>1. q[i].location # 0 /\ q[i] \in Bounded /\ q[i + 1] \in Bounded
      BY <1>1 DEF Numbers
    <3>2. l \in 0 .. (MAX - 2) /\ l <= e /\ e \in Ends /\ l2 <= e2 /\ e2 \in Ends
      BY <3>1, RightBound
    <3> QED BY <1>3, <3>1, <3>2, IndexAssumption DEF Ends
  <2>3. /\ x \in Numbers /\ x.location = l /\ Set!RangeRightBound(x) = e2
    <3>1. q[i] \in [location : 0 .. (MAX - 2), length : 0 .. MAX]
      BY <1>1 DEF Bounded
    <3>2. x = [location |-> l, length |-> e2 - l]
      BY <3>1
    <3> HIDE DEF x
    <3>3. e2 - l \in 0 .. MAX /\ l + (e2 - l) = e2 /\ e2 - l # MAX /\ e2 \in 0 .. MAX
      BY <2>2 DEF Ends
    <3>4. x \in Numbers
      <4>1. l \in 0 .. (MAX - 2) /\ l # 0 /\ (e2 = MAX \/ e2 < MAX - 2)
        BY <2>2 DEF Ends
      <4> HIDE DEF l, e2
      <4> QED BY <3>2, <3>3, <4>1 DEF Numbers, Bounded
    <3>5. Set!RangeRightBound(x) = e2
      <4> HIDE DEF l, e2
      <4> QED BY <3>2, <3>3, NotWrapped DEF Set!RangeRightBound
    <3> QED BY <3>2, <3>4, <3>5
  <2>4. x = [q[i] EXCEPT !.length = e2 - l]
    OBVIOUS
  <2> HIDE DEF l, e, l2, e2, x
  <2>5. /\ removed \in Seq(Numbers) /\ Len(removed) = m
        /\ \A k \in 1 .. m : removed[k] = IF k <= i THEN q[k] ELSE q[k + 1]
    <3> DEFINE p1 == SubSeq(q, 1, i)
               p2 == SubSeq(q, i + 2, Len(q))
               n == Len(q) + 1 - (i + 2)
    <3>1. p1 \in Seq(Numbers) /\ Len(p1) = i /\ \A k \in 1 .. i : p1[k] = q[k]
      <4>1. /\ 1 <= i + 1 /\ i <= Len(q) /\ i + 1 - 1 = i /\ \A k \in 1 .. i : 1 + k - 1 = k
        BY <1>1
      <4>2. /\ p1 \in Seq(Numbers) /\ Len(p1) = i + 1 - 1
            /\ \A k \in 1 .. i + 1 - 1 : p1[k] = q[1 + k - 1]
        BY <1>1, <4>1, PartElements
      <4> HIDE DEF p1
      <4> QED BY <4>1, <4>2
    <3>2. p2 \in Seq(Numbers) /\ Len(p2) = n /\ \A k \in 1 .. n : p2[k] = q[(i + 2) + k - 1]
      <4>1. i + 2 \in Nat \ {0} /\ i + 2 <= Len(q) + 1 /\ Len(q) <= Len(q)
        BY <1>1
      <4> QED BY <1>1, <4>1, PartElements
    <3>3. removed = p1 \o p2
      <4>1. (i + 1) - 1 = i /\ (i + 1) + 1 = i + 2
        BY <1>1
      <4> QED BY <4>1 DEF Set!RemoveAt
    <3> HIDE DEF p1, p2, removed
    <3>4. /\ removed \in Seq(Numbers) /\ Len(removed) = Len(p1) + Len(p2)
          /\ \A k \in 1 .. Len(p1) : removed[k] = p1[k]
          /\ \A k \in 1 .. Len(p2) : removed[Len(p1) + k] = p2[k]
      BY <3>1, <3>2, <3>3, JoinedElements
    <3>5. i + n = m
      BY <1>1
    <3>6. ASSUME NEW k \in 1 .. m PROVE removed[k] = IF k <= i THEN q[k] ELSE q[k + 1]
      <4>1. CASE k <= i
        <5>1. k \in 1 .. i
          BY <4>1
        <5> QED BY <3>1, <3>4, <4>1, <5>1
      <4>2. CASE ~ (k <= i)
        <5>1. k - i \in 1 .. n /\ (i + 2) + (k - i) - 1 = k + 1 /\ i + (k - i) = k
          BY <1>1, <4>2
        <5>2. removed[i + (k - i)] = p2[k - i]
          BY <3>1, <3>2, <3>4, <5>1
        <5>3. p2[k - i] = q[k + 1]
          BY <3>2, <5>1
        <5> QED BY <4>2, <5>1, <5>2, <5>3
      <4> QED BY <4>1, <4>2
    <3> QED BY <3>1, <3>2, <3>4, <3>5, <3>6
  <2>6. removed[i] = q[i] /\ i \in 1 .. m
    BY <1>1, <2>5
  <2> HIDE DEF removed
  <2>7. merged = [removed EXCEPT ![i] = x]
    BY <2>4, <2>6
  <2>8. /\ merged \in Seq(Numbers) /\ Len(merged) = m
        /\ \A k \in 1 .. m : merged[k] = IF k = i THEN x ELSE removed[k]
    <3>1. i \in 1 .. Len(removed)
      BY <2>5, <2>6
    <3>2. removed \in [1 .. m -> Numbers]
      BY <2>5, LenProperties
    <3>3. merged \in [1 .. m -> Numbers] /\ \A k \in 1 .. m : merged[k] = IF k = i THEN x ELSE removed[k]
      <4> HIDE DEF m, merged
      <4> QED BY <2>3, <2>7, <3>2
    <3>4. m \in Nat
      BY <1>1
    <3> HIDE DEF m, merged
    <3>5. merged \in Seq(Numbers) /\ Len(merged) = m
      BY <3>3, <3>4, SeqDef, LenProperties
    <3> QED BY <3>3, <3>5
  <2> HIDE DEF merged
  <2>9. /\ p \in Seq(Numbers) /\ Len(p) = m
        /\ \A k \in 1 .. i - 1 : p[k] = q[k]
        /\ p[i] = x
        /\ \A k \in i + 2 .. Len(q) : p[k - 1] = q[k]
    <3>1. /\ i - 1 \in Nat /\ i + 2 \in Nat \ {0} /\ i - 1 <= Len(q) /\ i + 2 <= Len(q) + 1
          /\ (i - 1) + 1 + (Len(q) + 1 - (i + 2)) = m /\ (i - 1) + 1 = i
      BY <1>1
    <3>2. \A k \in i + 2 .. Len(q) : (i - 1) + 2 + (k - (i + 2)) = k - 1
      BY <1>1
    <3>3. /\ p \in Seq(Numbers) /\ Len(p) = (i - 1) + 1 + (Len(q) + 1 - (i + 2))
          /\ \A k \in 1 .. i - 1 : p[k] = q[k]
          /\ p[(i - 1) + 1] = x
          /\ \A k \in i + 2 .. Len(q) : p[(i - 1) + 2 + (k - (i + 2))] = q[k]
      <4> DEFINE a == i - 1
                 b == i + 2
      <4>1. a \in Nat /\ b \in Nat \ {0} /\ a <= Len(q) /\ b <= Len(q) + 1
        BY <3>1
      <4> HIDE DEF a, b
      <4>2. SplicedIn(Spliced(q, a, x, b), q, a, x, b)
        BY <1>1, <2>3, <4>1, ReplacedElements
      <4> QED BY <4>2 DEF SplicedIn, a, b
    <3> HIDE DEF p, m
    <3> QED BY <3>1, <3>2, <3>3
  <2>10. merged = p
    <3>1. ASSUME NEW k \in 1 .. m PROVE merged[k] = p[k]
      <4>1. CASE k < i
        <5>1. k \in 1 .. i - 1 /\ k <= i /\ k # i
          BY <1>1, <4>1
        <5> HIDE DEF p, m
        <5> QED BY <2>5, <2>8, <2>9, <5>1
      <4>2. CASE k = i
        <5> HIDE DEF p, m
        <5> QED BY <2>8, <2>9, <4>2
      <4>3. CASE k > i
        <5>1. k + 1 \in i + 2 .. Len(q) /\ ~ (k <= i) /\ k # i /\ (k + 1) - 1 = k
          BY <1>1, <4>3
        <5> HIDE DEF p, m
        <5> QED BY <2>5, <2>8, <2>9, <5>1
      <4> QED BY <1>1, <4>1, <4>2, <4>3
    <3> HIDE DEF p, m
    <3> QED BY <2>8, <2>9, <3>1, SeqEqual
  <2>11. /\ p \in IndexSets
         /\ \A y : y \in Set!Contents(p) <=> \/ y \in Set!Indexes(x)
                                             \/ \E k \in 1 .. i - 1 : y \in Set!Indexes(q[k])
                                             \/ \E k \in i + 2 .. Len(q) : y \in Set!Indexes(q[k])
    <3>1. ASSUME NEW j \in 1 .. i - 1 PROVE Set!RangeRightBound(q[j]) < x.location
      <4>1. j \in 1 .. Len(q) /\ j < i
        BY <1>1
      <4> QED BY <1>1, <2>3, <4>1, InOrder DEF l
    <3>2. ASSUME NEW j \in i + 2 .. Len(q) PROVE Set!RangeRightBound(x) < q[j].location
      <4>1. j \in 1 .. Len(q) /\ i + 1 < j
        BY <1>1
      <4> QED BY <1>1, <2>3, <4>1, InOrder DEF e2
    <3>3. i - 1 \in Nat /\ i + 2 \in Nat /\ i - 1 < i + 2 /\ i + 2 <= Len(q) + 1
      BY <1>1
    <3> QED BY <2>3, <3>1, <3>2, <3>3, Replacement
  <2>12. \A y : y \in Set!Indexes(x) <=> y \in Set!Indexes(q[i]) \/ y \in Set!Indexes(q[i + 1])
    <3>1. x \in Bounded /\ q[i] \in Bounded /\ q[i + 1] \in Bounded
      BY <1>1, <2>3 DEF Numbers
    <3>2. /\ \A y : y \in Set!Indexes(x) <=> y \in Nat /\ l <= y /\ y <= e2
          /\ \A y : y \in Set!Indexes(q[i]) <=> y \in Nat /\ l <= y /\ y <= e
          /\ \A y : y \in Set!Indexes(q[i + 1]) <=> y \in Nat /\ l2 <= y /\ y <= e2
      BY <2>3, <3>1, RangeFacts DEF l, e, l2, e2
    <3>3. \A y \in Nat : (l <= y /\ y <= e2) <=> (l <= y /\ y <= e) \/ (l2 <= y /\ y <= e2)
      BY <2>2 DEF Ends
    <3> QED BY <3>2, <3>3
  <2>13. \A k : k \in 1 .. Len(q) <=> \/ k \in 1 .. i - 1 \/ k = i \/ k = i + 1
                                      \/ k \in i + 2 .. Len(q)
    BY <1>1
  <2>14. \A y : y \in Set!Contents(q) <=> \E k \in 1 .. Len(q) : y \in Set!Indexes(q[k])
    BY <1>1, ArrayFacts
  <2>15. \A y : y \in Set!Contents(p) <=> y \in Set!Contents(q)
    BY <2>11, <2>12, <2>13, <2>14
  <2> QED BY <2>1, <2>10, <2>11, <2>15
<1> QED BY <1>2, <1>3

(* insertRangeAtIndex.                                                      *)
Inserted(p, q, i, r) ==
    /\ p \in Seq(Numbers) /\ Len(p) = Len(q) + 1
    /\ \A k \in 1 .. i - 1 : p[k] = q[k]
    /\ p[i] = r
    /\ \A k \in i .. Len(q) : p[k + 1] = q[k]

(* Which elements an array has after one is inserted.                       *)
LEMMA Insertion ==
    ASSUME NEW q \in Seq(Numbers), NEW i \in 1 .. Len(q) + 1, NEW r \in Numbers
    PROVE  Inserted(Set!InsertAt(q, i, r), q, i, r)
<1> DEFINE a == i - 1
           p == Set!InsertAt(q, i, r)
<1>1. Len(q) \in Nat
  BY ArrayFacts
<1>2. a \in Nat /\ i \in Nat \ {0} /\ a <= Len(q) /\ i <= Len(q) + 1 /\ a + 1 = i
  BY <1>1
<1>3. p = Spliced(q, a, r, i)
  BY DEF Set!InsertAt, Spliced
<1> HIDE DEF a, p
<1>4. SplicedIn(p, q, a, r, i)
  BY <1>2, <1>3, ReplacedElements
<1>5. a + 1 + (Len(q) + 1 - i) = Len(q) + 1
  BY <1>1, <1>2
<1>6. \A k \in i .. Len(q) : a + 2 + (k - i) = k + 1
  BY <1>1, <1>2
<1>7. \A k \in i .. Len(q) : p[k + 1] = q[k]
  BY <1>4, <1>6 DEF SplicedIn
<1>8. p[i] = r
  BY <1>2, <1>4 DEF SplicedIn
<1> QED BY <1>4, <1>5, <1>7, <1>8 DEF SplicedIn, Inserted, a, p

(* mergeRanges after that: the part of the array that r reaches becomes one *)
(* range.                                                                   *)
LEMMA MergedIs ==
    ASSUME NEW q \in Seq(Numbers), NEW i \in 1 .. Len(q) + 1, NEW r \in Numbers
    PROVE  \E m \in i .. Len(q) + 1 :
              /\ \A j \in i .. m - 1 : Set!RangeHasIntersection(q[j], r)
              /\ m # Len(q) + 1 => ~ Set!RangeHasIntersection(q[m], r)
              /\ Set!MergeRanges(Set!InsertAt(q, i, r), i)
                        = Spliced(q, i - 1, IF m = i THEN r ELSE Set!RangeUnion(r, q[m - 1]), m)
<1> DEFINE p == Set!InsertAt(q, i, r)
           n == Len(q)
           next == Set!RunEnd(p, i, r)
           m == next - 1
           x == IF m = i THEN r ELSE Set!RangeUnion(r, q[m - 1])
<1>1. n \in Nat /\ i \in Nat
  BY ArrayFacts
<1>2. Inserted(p, q, i, r)
  BY Insertion
<1> HIDE DEF p
<1>3. /\ p \in Seq(Numbers) /\ Len(p) = n + 1
      /\ \A k \in 1 .. i - 1 : p[k] = q[k]
      /\ p[i] = r
      /\ \A k \in i .. n : p[k + 1] = q[k]
  BY <1>2 DEF Inserted
<1>4. /\ next \in i .. n + 2
      /\ \A j \in i .. next - 1 : Set!RangeHasIntersection(p[j], r)
      /\ next # n + 2 => ~ Set!RangeHasIntersection(p[next], r)
  <2>1. i \in 1 .. Len(p) + 1 /\ Len(p) + 1 = n + 2
    BY <1>1, <1>3
  <2> HIDE DEF n
  <2> QED BY <1>3, <2>1, Run
<1>5. next # i
  <2>1. Set!RangeHasIntersection(r, r)
    <3>1. r \in Bounded /\ r.location <= Set!RangeRightBound(r)
      BY RangeFacts DEF Numbers
    <3>2. Meet(r, r)
      BY <3>1 DEF Meet
    <3> QED BY <3>1, <3>2, IntersectionIs
  <2>2. i # n + 2
    BY <1>1
  <2> QED BY <1>3, <1>4, <2>1, <2>2
<1> HIDE DEF next
<1>6. m \in i .. n + 1 /\ m + 1 = next /\ next \in Nat /\ m \in Nat
  BY <1>1, <1>4, <1>5
<1>7. ASSUME NEW j \in i .. m - 1 PROVE Set!RangeHasIntersection(q[j], r)
  <2>1. j + 1 \in i .. next - 1 /\ j \in i .. n
    BY <1>1, <1>6
  <2> QED BY <1>3, <1>4, <2>1
<1>8. ASSUME m # n + 1 PROVE ~ Set!RangeHasIntersection(q[m], r)
  <2>1. m \in i .. n /\ next # n + 2
    BY <1>1, <1>6, <1>8
  <2> QED BY <1>3, <1>4, <1>6, <2>1
<1>9. x = IF next = i + 1 THEN p[i] ELSE Set!RangeUnion(p[i], p[next - 1])
  <2>1. CASE m = i
    <3>1. next = i + 1
      BY <1>1, <1>6, <2>1
    <3> QED BY <1>3, <2>1, <3>1
  <2>2. CASE m # i
    <3>1. next # i + 1 /\ m - 1 \in i .. n /\ next - 1 = (m - 1) + 1
      BY <1>1, <1>6, <2>2
    <3>2. p[next - 1] = q[m - 1]
      <4> HIDE DEF m
      <4> QED BY <1>3, <3>1
    <3> QED BY <1>3, <2>2, <3>1, <3>2
  <2> QED BY <2>1, <2>2
<1>10. Set!MergeRanges(p, i) = (SubSeq(p, 1, i - 1) \o <<x>>) \o SubSeq(p, next, n + 1)
  <2> DEFINE y == IF next = i + 1 THEN p[i] ELSE Set!RangeUnion(p[i], p[next - 1])
  <2>1. Set!MergeRanges(p, i) = (SubSeq(p, 1, i - 1) \o <<y>>) \o SubSeq(p, next, Len(p))
    BY <1>3 DEF Set!MergeRanges, next
  <2> HIDE DEF y, x, n
  <2>2. x = y
    BY <1>9 DEF y
  <2> QED BY <1>3, <2>1, <2>2
<1> HIDE DEF x
<1>11. SubSeq(p, 1, i - 1) = SubSeq(q, 1, i - 1)
  <2> DEFINE a == i - 1
             s == SubSeq(p, 1, a)
             t == SubSeq(q, 1, a)
  <2>1. a \in Nat /\ 1 <= a + 1 /\ a <= Len(p) /\ a <= n /\ a + 1 - 1 = a
        /\ \A k \in 1 .. a : 1 + k - 1 = k
    BY <1>1, <1>3
  <2> HIDE DEF a
  <2>2. /\ s \in Seq(Numbers) /\ Len(s) = a + 1 - 1 /\ \A k \in 1 .. a + 1 - 1 : s[k] = p[1 + k - 1]
        /\ t \in Seq(Numbers) /\ Len(t) = a + 1 - 1 /\ \A k \in 1 .. a + 1 - 1 : t[k] = q[1 + k - 1]
    BY <1>3, <2>1, PartElements
  <2> HIDE DEF s, t
  <2>3. \A k \in 1 .. a : s[k] = t[k]
    BY <1>3, <2>1, <2>2 DEF a
  <2>4. s = t
    BY <2>1, <2>2, <2>3, SeqEqual
  <2> QED BY <2>4 DEF s, t, a
<1>12. SubSeq(p, next, n + 1) = SubSeq(q, m, n)
  <2> DEFINE s == SubSeq(p, next, n + 1)
             t == SubSeq(q, m, n)
             l == n + 1 - m
  <2>1. /\ next \in Nat \ {0} /\ n + 1 \in Nat /\ next <= (n + 1) + 1 /\ n + 1 <= Len(p)
        /\ m \in Nat \ {0} /\ m <= n + 1 /\ n <= Len(q) /\ (n + 1) + 1 - next = l
    BY <1>1, <1>3, <1>6
  <2>2. s \in Seq(Numbers) /\ Len(s) = (n + 1) + 1 - next
          /\ \A k \in 1 .. (n + 1) + 1 - next : s[k] = p[next + k - 1]
    <3> HIDE DEF n
    <3> QED BY <1>3, <2>1, PartElements
  <2>3. t \in Seq(Numbers) /\ Len(t) = l /\ \A k \in 1 .. l : t[k] = q[m + k - 1]
    <3> HIDE DEF m
    <3> QED BY <1>1, <2>1, PartElements
  <2> HIDE DEF s, t
  <2>4. ASSUME NEW k \in 1 .. l PROVE s[k] = t[k]
    <3>1. m + k - 1 \in i .. n /\ next + k - 1 = (m + k - 1) + 1
      BY <1>1, <1>6
    <3>2. p[(m + k - 1) + 1] = q[m + k - 1]
      <4> HIDE DEF m
      <4> QED BY <1>3, <3>1
    <3> HIDE DEF l, m
    <3> QED BY <2>1, <2>2, <2>3, <3>1, <3>2
  <2>5. s = t
    <3> HIDE DEF l
    <3> QED BY <2>1, <2>2, <2>3, <2>4, SeqEqual
  <2> QED BY <2>5 DEF s, t
<1>13. Set!MergeRanges(p, i) = Spliced(q, i - 1, x, m)
  BY <1>10, <1>11, <1>12 DEF Spliced
<1> HIDE DEF m
<1> QED BY <1>6, <1>7, <1>8, <1>13 DEF x, p

(* The range r and those of q that it reaches, merged, are in order with    *)
(* the others, and hold what they held if r bridges none.                   *)
LEMMA MergedHolds ==
    ASSUME NEW q \in IndexSets, NEW r \in Numbers, NEW i, StartsAt(q, r.location, i)
    PROVE  LET p == Set!MergeRanges(Set!InsertAt(q, i, r), i)
           IN  /\ p \in IndexSets /\ Len(p) \in Nat /\ i <= Len(p)
               /\ ~ Set!Bridges(q, r) => Set!Contents(p) = Set!Contents(q) \cup Set!Indexes(r)
<1> DEFINE p == Set!MergeRanges(Set!InsertAt(q, i, r), i)
           n == Len(q)
           l == r.location
           e == Set!RangeRightBound(r)
<1>1. /\ q \in Seq(Numbers) /\ n \in Nat /\ DOMAIN q = 1 .. n
      /\ \A k \in 1 .. n : q[k] \in Bounded /\ q[k] \in Numbers
  BY InOrder, ArrayFacts
<1>2. /\ i \in 1 .. n + 1 /\ i \in Nat
      /\ \A j \in 1 .. n : IF j < i THEN Set!RangeRightBound(q[j]) < l ELSE l <= Set!RangeRightBound(q[j])
  BY <1>1 DEF StartsAt
<1>3. r \in Bounded /\ l \in Nat /\ e \in Nat /\ l <= e /\ l # 0
      /\ \A y : y \in Set!Indexes(r) <=> y \in Nat /\ l <= y /\ y <= e
  BY RangeFacts DEF Numbers
<1> HIDE DEF l, e, n
<1>4. PICK m \in i .. n + 1 :
         /\ \A j \in i .. m - 1 : Set!RangeHasIntersection(q[j], r)
         /\ m # n + 1 => ~ Set!RangeHasIntersection(q[m], r)
         /\ p = Spliced(q, i - 1, IF m = i THEN r ELSE Set!RangeUnion(r, q[m - 1]), m)
  BY <1>1, <1>2, MergedIs DEF n
<1> HIDE DEF p
<1> DEFINE x == IF m = i THEN r ELSE Set!RangeUnion(r, q[m - 1])
           left(j) == q[j].location
           right(j) == Set!RangeRightBound(q[j])
<1>5. \A j \in 1 .. n : /\ left(j) \in Nat /\ right(j) \in Nat /\ left(j) <= right(j) /\ left(j) # 0
                        /\ Set!RangeHasIntersection(q[j], r) <=> left(j) <= e /\ l <= right(j)
                        /\ \A y : y \in Set!Indexes(q[j]) <=> y \in Nat /\ left(j) <= y /\ y <= right(j)
  <2> SUFFICES ASSUME NEW j \in 1 .. n
               PROVE  /\ left(j) \in Nat /\ right(j) \in Nat /\ left(j) <= right(j) /\ left(j) # 0
                      /\ Set!RangeHasIntersection(q[j], r) <=> left(j) <= e /\ l <= right(j)
                      /\ \A y : y \in Set!Indexes(q[j]) <=> y \in Nat /\ left(j) <= y /\ y <= right(j)
    OBVIOUS
  <2>1. q[j] \in Bounded /\ left(j) # 0
    BY <1>1 DEF Numbers
  <2>2. Set!RangeHasIntersection(q[j], r) <=> left(j) <= e /\ l <= right(j)
    BY <1>3, <2>1, IntersectionIs DEF Meet, l, e
  <2> QED BY <2>1, <2>2, RangeFacts
<1>6. \A j, k \in 1 .. n : j < k => right(j) < left(k)
  BY InOrder DEF n
<1>7. \A j \in 1 .. n : IF j < i THEN right(j) < l ELSE l <= right(j)
  BY <1>2
<1>8. m \in Nat /\ i <= m /\ m <= n + 1 /\ (m # i => m - 1 \in 1 .. n /\ m - 1 \in i .. m - 1)
  BY <1>1, <1>2
<1>9. x \in Numbers
      /\ x.location = (IF m = i THEN l ELSE IF l < left(m - 1) THEN l ELSE left(m - 1))
      /\ Set!RangeRightBound(x) = (IF m = i THEN e ELSE IF e > right(m - 1) THEN e ELSE right(m - 1))
  <2>1. CASE m = i
    BY <2>1 DEF l, e
  <2>2. CASE m # i
    <3>1. q[m - 1] \in Bounded /\ m - 1 \in 1 .. n
      BY <1>1, <1>8, <2>2
    <3>2. /\ Set!RangeUnion(r, q[m - 1]) \in Bounded
          /\ Set!RangeUnion(r, q[m - 1]).location = IF l < left(m - 1) THEN l ELSE left(m - 1)
          /\ Set!RangeRightBound(Set!RangeUnion(r, q[m - 1])) = IF e > right(m - 1) THEN e ELSE right(m - 1)
      BY <1>3, <3>1, UnionIs DEF l, e
    <3>3. Set!RangeUnion(r, q[m - 1]) \in Numbers
      BY <1>3, <1>5, <3>1, <3>2 DEF Numbers
    <3> QED BY <2>2, <3>2, <3>3
  <2> QED BY <2>1, <2>2
<1>10. p = Spliced(q, i - 1, x, m)
  BY <1>4
<1> HIDE DEF x, left, right
<1>11. ASSUME NEW j \in 1 .. i - 1 PROVE right(j) < x.location
  <2>1. j \in 1 .. n /\ j < i
    BY <1>1, <1>2
  <2>2. right(j) < l
    BY <1>7, <2>1
  <2>3. m # i => right(j) < left(m - 1)
    <3> SUFFICES ASSUME m # i PROVE right(j) < left(m - 1)
      OBVIOUS
    <3>1. m - 1 \in 1 .. n /\ j < m - 1
      BY <1>2, <1>8, <2>1
    <3> QED BY <1>6, <2>1, <3>1
  <2> QED BY <1>9, <2>2, <2>3
<1>12. ASSUME NEW k \in m .. n PROVE Set!RangeRightBound(x) < left(k)
  <2>1. k \in 1 .. n /\ m \in 1 .. n /\ m # n + 1 /\ ~ (m < i) /\ i \in Nat
    BY <1>1, <1>2, <1>8
  <2>2. ~ (left(m) <= e) /\ l <= right(m)
    BY <1>4, <1>5, <1>7, <2>1
  <2>3. left(m) <= left(k) /\ left(m) \in Nat /\ left(k) \in Nat
    <3>1. CASE k = m
      BY <1>5, <2>1, <3>1
    <3>2. CASE k # m
      <4>1. m < k
        BY <2>1, <3>2
      <4>2. right(m) < left(k) /\ left(m) <= right(m) /\ left(m) \in Nat /\ left(k) \in Nat /\ right(m) \in Nat
        BY <1>5, <1>6, <2>1, <4>1
      <4> QED BY <4>2
    <3> QED BY <3>1, <3>2
  <2>4. e < left(k)
    BY <1>3, <2>2, <2>3
  <2>5. m # i => right(m - 1) < left(k)
    <3> SUFFICES ASSUME m # i PROVE right(m - 1) < left(k)
      OBVIOUS
    <3>1. m - 1 \in 1 .. n /\ m - 1 < k
      BY <1>8, <2>1
    <3> QED BY <1>6, <2>1, <3>1
  <2> QED BY <1>9, <2>4, <2>5
<1>13. /\ p \in IndexSets
       /\ Len(p) = (i - 1) + 1 + (n + 1 - m)
       /\ \A y : y \in Set!Contents(p) <=> \/ y \in Set!Indexes(x)
                                           \/ \E k \in 1 .. i - 1 : y \in Set!Indexes(q[k])
                                           \/ \E k \in m .. n : y \in Set!Indexes(q[k])
  <2>1. i - 1 \in Nat /\ i - 1 < m /\ m <= n + 1
    BY <1>2, <1>8
  <2>2. /\ \A j \in 1 .. i - 1 : Set!RangeRightBound(q[j]) < x.location
        /\ \A j \in m .. Len(q) : Set!RangeRightBound(x) < q[j].location
    BY <1>11, <1>12 DEF left, right, n
  <2>3. x \in Numbers /\ m \in Nat /\ m <= Len(q) + 1
    BY <1>8, <1>9 DEF n
  <2> QED BY <1>10, <2>1, <2>2, <2>3, Replacement DEF n
<1>14. Len(p) \in Nat /\ i <= Len(p)
  BY <1>1, <1>2, <1>8, <1>13
<1>15. ASSUME ~ Set!Bridges(q, r) PROVE Set!Contents(p) = Set!Contents(q) \cup Set!Indexes(r)
  <2>1. \A j \in i .. m - 1 : j \in 1 .. n /\ left(j) <= e /\ l <= right(j)
    <3> SUFFICES ASSUME NEW j \in i .. m - 1 PROVE j \in 1 .. n /\ left(j) <= e /\ l <= right(j)
      OBVIOUS
    <3>1. j \in 1 .. n
      BY <1>1, <1>2, <1>8
    <3> QED BY <1>4, <1>5, <3>1
  <2>2. ASSUME m # i, m - 1 # i PROVE l <= left(i)
    <3>1. i \in 1 .. n /\ m - 1 \in 1 .. n /\ i < m - 1 /\ i \in i .. m - 1
      BY <1>1, <1>2, <1>8, <2>2
    <3>2. Set!RangeHasIntersection(q[m - 1], r)
      BY <1>4, <1>8, <2>2
    <3>3. ~ (left(i) < l /\ l <= right(i))
      BY <1>1, <1>15, <3>1, <3>2 DEF Set!Bridges, left, right, l
    <3>4. l <= right(i) /\ left(i) \in Nat
      BY <1>5, <2>1, <3>1
    <3> QED BY <1>3, <3>3, <3>4
  <2>3. \A y : y \in Set!Indexes(x) <=> y \in Nat /\ x.location <= y /\ y <= Set!RangeRightBound(x)
    BY <1>9, RangeFacts DEF Numbers
  <2>4. \A y : y \in Set!Indexes(x) <=> y \in Set!Indexes(r) \/ \E j \in i .. m - 1 : y \in Set!Indexes(q[j])
    <3>1. CASE m = i
      <4>1. \A j \in i .. m - 1 : FALSE
        BY <1>2, <3>1
      <4>2. x = r
        BY <3>1 DEF x
      <4> QED BY <4>1, <4>2
    <3>2. CASE m # i
      <4> DEFINE z == m - 1
      <4>1. /\ z \in i .. m - 1 /\ z \in 1 .. n /\ left(z) \in Nat /\ right(z) \in Nat
            /\ left(z) <= right(z) /\ left(z) <= e /\ l <= right(z)
            /\ \A y : y \in Set!Indexes(q[z]) <=> y \in Nat /\ left(z) <= y /\ y <= right(z)
        BY <1>5, <1>8, <2>1, <3>2
      <4>2. /\ x.location = IF l < left(z) THEN l ELSE left(z)
            /\ Set!RangeRightBound(x) = IF e > right(z) THEN e ELSE right(z)
        BY <1>9, <3>2
      <4>3. \A j \in i .. m - 1 : j = z \/ j < z
        BY <1>2, <1>8
      <4> HIDE DEF z
      <4>4. ASSUME NEW j \in i .. m - 1, NEW y \in Set!Indexes(q[j]) PROVE y \in Set!Indexes(x)
        <5>1. CASE j = z
          <6>1. y \in Nat /\ left(z) <= y /\ y <= right(z)
            BY <4>1, <4>4, <5>1
          <6>2. x.location <= y /\ y <= Set!RangeRightBound(x)
            BY <1>3, <4>1, <4>2, <6>1
          <6> QED BY <2>3, <6>1, <6>2
        <5>2. CASE j < z
          <6>1. j \in 1 .. n /\ left(j) \in Nat /\ right(j) \in Nat /\ right(j) < left(z)
                /\ y \in Nat /\ left(j) <= y /\ y <= right(j)
            BY <1>5, <1>6, <2>1, <4>1, <4>4, <5>2
          <6>2. l <= left(i) /\ i \in 1 .. n /\ (i = j \/ i < j)
            <7>1. m - 1 # i /\ i \in 1 .. n /\ (i = j \/ i < j)
              BY <1>1, <1>2, <1>8, <5>2 DEF z
            <7> QED BY <2>2, <3>2, <7>1
          <6>3. left(i) <= left(j) /\ left(i) \in Nat
            <7>1. CASE i = j
              BY <6>1, <7>1
            <7>2. CASE i < j
              <8>1. right(i) < left(j) /\ left(i) <= right(i) /\ left(i) \in Nat /\ right(i) \in Nat
                BY <1>5, <1>6, <6>1, <6>2, <7>2
              <8> QED BY <6>1, <8>1
            <7> QED BY <6>2, <7>1, <7>2
          <6>4. l <= y
            BY <1>3, <6>1, <6>2, <6>3
          <6>5. l < left(z)
            BY <1>3, <4>1, <6>1, <6>4
          <6>6. x.location <= y /\ y <= Set!RangeRightBound(x)
            BY <1>3, <4>1, <4>2, <6>1, <6>4, <6>5
          <6> QED BY <2>3, <6>1, <6>6
        <5> QED BY <4>3, <5>1, <5>2
      <4>5. \A y : y \in Set!Indexes(x) <=> y \in Set!Indexes(r) \/ y \in Set!Indexes(q[z])
        <5>1. \A y \in Nat : x.location <= y /\ y <= Set!RangeRightBound(x)
                               <=> (l <= y /\ y <= e) \/ (left(z) <= y /\ y <= right(z))
          BY <1>3, <4>1, <4>2
        <5> QED BY <1>3, <2>3, <4>1, <5>1
      <4> QED BY <4>1, <4>4, <4>5
    <3> QED BY <3>1, <3>2
  <2>5. \A k : k \in 1 .. n <=> k \in 1 .. i - 1 \/ k \in i .. m - 1 \/ k \in m .. n
    BY <1>1, <1>2, <1>8
  <2>6. \A y : y \in Set!Contents(q) <=> \E k \in 1 .. n : y \in Set!Indexes(q[k])
    BY <1>1, ArrayFacts DEF n
  <2>7. \A y : y \in Set!Contents(p) <=> y \in Set!Contents(q) \/ y \in Set!Indexes(r)
    BY <1>13, <2>4, <2>5, <2>6
  <2> QED BY <2>7
<1> QED BY <1>13, <1>14, <1>15 DEF p

(* addRange leaves the array in order, and adds r if it bridges no ranges.  *)
LEMMA WithRangeIs ==
    ASSUME NEW q \in IndexSets, NEW r \in Numbers
    PROVE  /\ Set!WithRange(q, r) \in IndexSets
           /\ ~ Set!Bridges(q, r) => Set!Contents(Set!WithRange(q, r)) = Set!Contents(q) \cup Set!Indexes(r)
<1> DEFINE i == Set!LeftRangeIndexForIndex(q, r.location)
           merged == Set!MergeRanges(Set!InsertAt(q, i, r), i)
           leftDone == IF i > 1 THEN Set!TryToMergeAdjacentRanges(merged, i - 1) ELSE merged
           done == IF i < Len(leftDone) THEN Set!TryToMergeAdjacentRanges(leftDone, i) ELSE leftDone
<1>1. Set!WithRange(q, r) = done
  BY DEF Set!WithRange
<1>2. StartsAt(q, r.location, i)
  <2>1. r.location \in Nat
    BY RangeFacts DEF Numbers
  <2> QED BY <2>1, LeftIndex
<1> HIDE DEF i
<1>3. /\ merged \in IndexSets /\ Len(merged) \in Nat /\ i <= Len(merged)
      /\ ~ Set!Bridges(q, r) => Set!Contents(merged) = Set!Contents(q) \cup Set!Indexes(r)
  BY <1>2, MergedHolds
<1> HIDE DEF merged
<1>4. i \in Nat /\ i >= 1
  <2>1. Len(q) \in Nat /\ i \in 1 .. Len(q) + 1
    BY <1>2, InOrder, ArrayFacts DEF StartsAt
  <2> QED BY <2>1
<1>5. leftDone \in IndexSets /\ Set!Contents(leftDone) = Set!Contents(merged)
  <2>1. CASE i > 1
    <3>1. i - 1 \in 1 .. Len(merged) - 1
      BY <1>3, <1>4, <2>1
    <3> QED BY <1>3, <2>1, <3>1, NeighboursMerged
  <2>2. CASE ~ (i > 1)
    BY <1>3, <2>2
  <2> QED BY <2>1, <2>2
<1> HIDE DEF leftDone
<1>6. done \in IndexSets /\ Set!Contents(done) = Set!Contents(leftDone)
  <2>1. CASE i < Len(leftDone)
    <3>1. Len(leftDone) \in Nat
      BY <1>5, InOrder, ArrayFacts
    <3>2. i \in 1 .. Len(leftDone) - 1
      BY <1>4, <2>1, <3>1
    <3> QED BY <1>5, <2>1, <3>2, NeighboursMerged
  <2>2. CASE ~ (i < Len(leftDone))
    BY <1>5, <2>2
  <2> QED BY <2>1, <2>2
<1> HIDE DEF done
<1> QED BY <1>1, <1>3, <1>5, <1>6

(* A function of 1, ..., n is a sequence.                                   *)
LEMMA FunctionIsSeq ==
    ASSUME NEW S, NEW n \in Nat, NEW s \in [1 .. n -> S]
    PROVE  s \in Seq(S) /\ Len(s) = n
BY SeqDef, LenProperties

(* A sequence of sequences, one after another.                              *)
Joined(f, s, S) ==
    /\ f \in [0 .. Len(s) -> Seq(S)] /\ f[0] = <<>>
    /\ \A k \in 1 .. Len(s) : f[k] = f[k - 1] \o s[k]

(* The arrays of a sequence, one after the other.                           *)
LEMMA Flattened ==
    ASSUME NEW S, NEW s \in Seq(Seq(S))
    PROVE  \E f : Joined(f, s, S) /\ Set!FlattenSeq(s) = f[Len(s)]
<1> DEFINE n == Len(s)
           G == [k \in 1 .. n |-> [v \in Seq(S) |-> v \o s[k]]]
           H(a) == [k \in 1 .. n |-> IF k = 1 THEN s[k] ELSE a[k - 1] \o s[k]]
           flatten == CHOOSE a : a = H(a)
<1>1. n \in Nat /\ \A k \in 1 .. n : s[k] \in Seq(S)
  BY LenProperties, ElementOfSeq
<1>2. G \in [1 .. n -> [Seq(S) -> Seq(S)]]
  <2>1. \A k \in 1 .. n : \A v \in Seq(S) : v \o s[k] \in Seq(S)
    BY <1>1, ConcatProperties
  <2> QED BY <2>1
<1>3. <<>> \in Seq(S)
  BY EmptySeq
<1>4. PICK f : RunOf(f, n, Seq(S), <<>>, G)
  <2> DEFINE e == <<>>
  <2> HIDE DEF G, n, e
  <2>1. e \in Seq(S)
    BY <1>3 DEF e
  <2>2. \E f : RunOf(f, n, Seq(S), e, G)
    BY <1>1, <1>2, <2>1, RunExists
  <2> QED BY <2>2 DEF e
<1>5. Joined(f, s, S)
  <2>1. ASSUME NEW k \in 1 .. n PROVE f[k] = f[k - 1] \o s[k]
    <3>1. k - 1 \in 0 .. n
      BY <1>1
    <3>2. f[k - 1] \in Seq(S)
      BY <1>4, <3>1 DEF RunOf
    <3>3. G[k][f[k - 1]] = f[k - 1] \o s[k]
      BY <3>2
    <3> QED BY <1>4, <3>3 DEF RunOf
  <2> QED BY <1>4, <2>1 DEF RunOf, Joined
<1> HIDE DEF G
<1>6. CASE n = 0
  <2>1. Set!FlattenSeq(s) = s /\ s = <<>>
    BY <1>6, EmptySeq DEF Set!FlattenSeq
  <2> QED BY <1>5, <1>6, <2>1 DEF Joined
<1>7. CASE n # 0
  <2>1. Set!FlattenSeq(s) = flatten[n]
    BY <1>7 DEF Set!FlattenSeq
  <2>2. f[0] = <<>> /\ \A k \in 1 .. n : f[k] = f[k - 1] \o s[k]
    BY <1>5 DEF Joined
  <2>3. ASSUME NEW k \in 1 .. n, k = 1 PROVE f[k] = s[k]
    <3>1. k - 1 = 0 /\ s[k] \in Seq(S)
      BY <1>1, <2>3
    <3>2. f[k] = <<>> \o s[k]
      BY <2>2, <3>1
    <3> QED BY <3>1, <3>2, ConcatEmptySeq
  <2>4. flatten = H(flatten)
    <3> DEFINE a == [k \in 1 .. n |-> f[k]]
    <3>1. ASSUME NEW k \in 1 .. n PROVE a[k] = IF k = 1 THEN s[k] ELSE a[k - 1] \o s[k]
      <4>1. CASE k = 1
        BY <2>3, <4>1
      <4>2. CASE k # 1
        <5>1. k - 1 \in 1 .. n
          BY <1>1, <4>2
        <5>2. a[k - 1] = f[k - 1] /\ a[k] = f[k]
          BY <5>1
        <5> HIDE DEF a
        <5> QED BY <2>2, <4>2, <5>2
      <4> QED BY <4>1, <4>2
    <3>2. a = H(a)
      BY <3>1
    <3> HIDE DEF H, a
    <3> QED BY <3>2
  <2>5. \A k \in 1 .. n : flatten[k] = IF k = 1 THEN s[k] ELSE flatten[k - 1] \o s[k]
    <3> HIDE DEF flatten
    <3> QED BY <2>4
  <2> HIDE DEF flatten, H
  <2> DEFINE T == {k \in 0 .. n : k = 0 \/ flatten[k] = f[k]}
  <2>6. 0 \in T
    BY <1>1
  <2>7. ASSUME NEW k \in 1 .. n, k - 1 \in T PROVE k \in T
    <3>1. k \in 0 .. n /\ (k = 1 <=> k - 1 = 0)
      BY <1>1
    <3>2. CASE k = 1
      <4>1. flatten[k] = s[k] /\ f[k] = s[k]
        BY <2>3, <2>5, <3>2
      <4> QED BY <3>1, <4>1
    <3>3. CASE k # 1
      <4>1. flatten[k - 1] = f[k - 1]
        BY <2>7, <3>1, <3>3
      <4>2. flatten[k] = f[k]
        BY <2>2, <2>5, <3>3, <4>1
      <4> QED BY <3>1, <4>2
    <3> QED BY <3>2, <3>3
  <2>8. \A k \in 0 .. n : k \in T
    <3> HIDE DEF T, n
    <3> QED BY <1>1, <2>6, <2>7, UpTo
  <2>9. flatten[n] = f[n]
    BY <1>1, <1>7, <2>8
  <2> QED BY <1>5, <2>1, <2>9
<1> QED BY <1>6, <1>7

(* The ranges from i to the one before next, each without r.                *)
LEMMA Cut ==
    ASSUME NEW q \in IndexSets, NEW r \in Bounded, NEW i \in Nat \ {0}, NEW next \in Nat,
           i <= next, next <= Len(q) + 1
    PROVE  LET p == Set!FlattenSeq([k \in 1 .. next - i |-> Set!RangeRemoveRange(q[i + k - 1], r)])
           IN  /\ p \in IndexSets
               /\ \A x : x \in Set!Contents(p)
                    <=> \E k \in i .. next - 1 : x \in Set!Indexes(q[k]) /\ x \notin Set!Indexes(r)
<1> DEFINE n == next - i
           s == [k \in 1 .. n |-> Set!RangeRemoveRange(q[i + k - 1], r)]
<1>1. q \in Seq(Numbers) /\ Len(q) \in Nat /\ n \in Nat /\ \A k \in 1 .. Len(q) : q[k] \in Numbers
  BY InOrder, ArrayFacts
<1>2. \A k \in 1 .. n : i + k - 1 \in 1 .. Len(q) /\ i + k - 1 \in i .. next - 1
  BY <1>1
<1>3. \A k \in 1 .. n : s[k] \in IndexSets /\ Set!Contents(s[k]) = Set!Indexes(q[i + k - 1]) \ Set!Indexes(r)
  <2> SUFFICES ASSUME NEW k \in 1 .. n
               PROVE  s[k] \in IndexSets /\ Set!Contents(s[k]) = Set!Indexes(q[i + k - 1]) \ Set!Indexes(r)
    OBVIOUS
  <2>1. q[i + k - 1] \in Numbers /\ s[k] = Set!RangeRemoveRange(q[i + k - 1], r)
    BY <1>1, <1>2
  <2> QED BY <2>1, RangeRemoved
<1>4. s \in Seq(Seq(Numbers)) /\ Len(s) = n
  <2>1. \A k \in 1 .. n : s[k] \in Seq(Numbers)
    BY <1>3, InOrder
  <2>2. s \in [1 .. n -> Seq(Numbers)]
    BY <2>1
  <2> HIDE DEF s
  <2> QED BY <1>1, <2>2, FunctionIsSeq
<1> HIDE DEF s, n
<1>5. PICK f : Joined(f, s, Numbers) /\ Set!FlattenSeq(s) = f[Len(s)]
  BY <1>4, Flattened
<1> DEFINE Holding(p, k) == \A x : x \in Set!Contents(p)
             <=> \E j \in i .. i + k - 1 : x \in Set!Indexes(q[j]) /\ x \notin Set!Indexes(r)
           T == {k \in 0 .. n : f[k] \in IndexSets /\ Holding(f[k], k)}
<1>6. 0 \in T
  <2>1. f[0] = <<>>
    BY <1>5 DEF Joined
  <2>2. f[0] \in IndexSets /\ Set!Contents(f[0]) = {}
    BY <2>1, OneRange
  <2>3. \A j \in i .. i + 0 - 1 : FALSE
    OBVIOUS
  <2> QED BY <1>1, <2>2, <2>3
<1>7. ASSUME NEW k \in 1 .. n, k - 1 \in T PROVE k \in T
  <2> DEFINE u == f[k - 1]
             v == s[k]
             z == i + k - 1
  <2>1. f[k] = u \o v
    BY <1>4, <1>5 DEF Joined
  <2>2. u \in IndexSets /\ Holding(u, k - 1)
    BY <1>7
  <2>3. v \in IndexSets /\ Set!Contents(v) = Set!Indexes(q[z]) \ Set!Indexes(r) /\ z \in 1 .. Len(q)
    BY <1>2, <1>3
  <2>4. \A j : j \in i .. i + k - 1 <=> j \in i .. i + (k - 1) - 1 \/ j = z
    BY <1>1
  <2>5. \A j \in i .. i + (k - 1) - 1 : j \in 1 .. Len(q) /\ j < z
    BY <1>1, <2>3
  <2> HIDE DEF u, v, z
  <2>6. ASSUME NEW x \in Set!Contents(u), NEW y \in Set!Contents(v) PROVE x < y
    <3>1. PICK j \in i .. i + (k - 1) - 1 : x \in Set!Indexes(q[j])
      BY <2>2
    <3>2. y \in Set!Indexes(q[z])
      BY <2>3
    <3> QED BY <2>3, <2>5, <3>1, <3>2, PartsInOrder
  <2>7. u \o v \in IndexSets /\ Set!Contents(u \o v) = Set!Contents(u) \cup Set!Contents(v)
    BY <2>2, <2>3, <2>6, ArraysJoined
  <2>8. Holding(u \o v, k)
    BY <2>2, <2>3, <2>4, <2>7
  <2>9. k \in 0 .. n
    BY <1>1
  <2> HIDE DEF Holding
  <2> QED BY <2>1, <2>7, <2>8, <2>9
<1>8. \A k \in 0 .. n : k \in T
  <2> HIDE DEF T
  <2> QED BY <1>1, <1>6, <1>7, UpTo
<1>9. n \in 0 .. n /\ i + n - 1 = next - 1
  BY <1>1 DEF n
<1>10. f[n] \in IndexSets /\ Holding(f[n], n)
  <2> HIDE DEF Holding
  <2> QED BY <1>8, <1>9
<1>11. Set!FlattenSeq(s) = f[n]
  BY <1>4, <1>5
<1> QED BY <1>9, <1>10, <1>11 DEF s, n

(* removeRange removes r.                                                   *)
LEMMA WithoutRangeIs ==
    ASSUME NEW q \in IndexSets, NEW r \in Bounded
    PROVE  /\ Set!WithoutRange(q, r) \in IndexSets
           /\ Set!Contents(Set!WithoutRange(q, r)) = Set!Contents(q) \ Set!Indexes(r)
<1> DEFINE i == Set!LeftRangeIndexForIndex(q, r.location)
           next == Set!RunEnd(q, i, r)
           n == Len(q)
           l == r.location
           e == Set!RangeRightBound(r)
           before == SubSeq(q, 1, i - 1)
           cut == Set!FlattenSeq([k \in 1 .. next - i |-> Set!RangeRemoveRange(q[i + k - 1], r)])
           after == SubSeq(q, next, n)
<1>1. /\ q \in Seq(Numbers) /\ n \in Nat
      /\ \A k \in 1 .. n : q[k] \in Bounded
  BY InOrder, ArrayFacts
<1>2. l \in Nat /\ e \in Nat /\ l <= e /\ \A y : y \in Set!Indexes(r) <=> y \in Nat /\ l <= y /\ y <= e
  BY RangeFacts
<1>3. \A k \in 1 .. n : /\ q[k].location \in Nat /\ Set!RangeRightBound(q[k]) \in Nat
                        /\ q[k].location <= Set!RangeRightBound(q[k])
                        /\ \A y : y \in Set!Indexes(q[k])
                             <=> y \in Nat /\ q[k].location <= y /\ y <= Set!RangeRightBound(q[k])
  BY <1>1, RangeFacts
<1>4. /\ i \in 1 .. n + 1 /\ i \in Nat
      /\ \A j \in 1 .. n : IF j < i THEN Set!RangeRightBound(q[j]) < l ELSE l <= Set!RangeRightBound(q[j])
  <2>1. StartsAt(q, l, i)
    BY <1>2, LeftIndex
  <2> QED BY <1>1, <2>1 DEF StartsAt
<1>5. Set!WithoutRange(q, r) = IF i > n THEN q ELSE (before \o cut) \o after
  BY DEF Set!WithoutRange
<1>6. /\ next \in i .. n + 1
      /\ next # n + 1 => ~ Set!RangeHasIntersection(q[next], r)
  BY <1>1, <1>4, Run
<1> HIDE DEF i, next, l, e, n
<1>7. ASSUME NEW j \in 1 .. n, j < i, NEW y \in Set!Indexes(q[j]) PROVE y \notin Set!Indexes(r)
  <2>1. y \in Nat /\ y <= Set!RangeRightBound(q[j]) /\ Set!RangeRightBound(q[j]) < l
          /\ Set!RangeRightBound(q[j]) \in Nat
    BY <1>3, <1>4, <1>7
  <2> QED BY <1>2, <2>1
<1>8. \A x : x \in Set!Contents(q) <=> \E k \in 1 .. n : x \in Set!Indexes(q[k])
  BY <1>1, ArrayFacts DEF n
<1>9. CASE i > n
  <2>1. \A j \in 1 .. n : j < i
    BY <1>1, <1>4, <1>9
  <2>2. Set!Contents(q) \ Set!Indexes(r) = Set!Contents(q)
    BY <1>7, <1>8, <2>1
  <2> QED BY <1>5, <1>9, <2>2
<1>10. CASE ~ (i > n)
  <2>1. /\ i \in Nat \ {0} /\ next \in Nat /\ i <= next /\ next <= n + 1 /\ next \in Nat \ {0}
        /\ i - 1 \in Nat /\ 1 <= (i - 1) + 1 /\ i - 1 <= n /\ n <= n /\ 1 \in Nat
    BY <1>1, <1>4, <1>6
  <2>2. /\ before \in IndexSets
        /\ \A x : x \in Set!Contents(before) <=> \E k \in 1 .. i - 1 : x \in Set!Indexes(q[k])
    BY <2>1, ArrayPart DEF n
  <2>3. /\ after \in IndexSets
        /\ \A x : x \in Set!Contents(after) <=> \E k \in next .. n : x \in Set!Indexes(q[k])
    <3>1. 1 <= next /\ n \in Nat
      BY <1>1, <2>1
    <3> QED BY <2>1, <3>1, ArrayPart DEF n
  <2>4. /\ cut \in IndexSets
        /\ \A x : x \in Set!Contents(cut)
             <=> \E k \in i .. next - 1 : x \in Set!Indexes(q[k]) /\ x \notin Set!Indexes(r)
    BY <2>1, Cut DEF n
  <2> HIDE DEF before, cut, after
  <2>5. \A k \in 1 .. i - 1 : k \in 1 .. n /\ k < i
    BY <1>1, <1>4, <2>1
  <2>6. \A k \in i .. next - 1 : k \in 1 .. n /\ i <= k /\ k < next
    BY <1>1, <1>4, <2>1
  <2>7. \A k \in next .. n : k \in 1 .. n /\ next <= k
    BY <1>1, <2>1
  <2>8. \A x \in Set!Contents(before), y \in Set!Contents(cut) : x < y
    <3> SUFFICES ASSUME NEW x \in Set!Contents(before), NEW y \in Set!Contents(cut) PROVE x < y
      OBVIOUS
    <3>1. PICK j \in 1 .. i - 1 : x \in Set!Indexes(q[j])
      BY <2>2
    <3>2. PICK k \in i .. next - 1 : y \in Set!Indexes(q[k])
      BY <2>4
    <3>3. j \in 1 .. n /\ k \in 1 .. n /\ j < k
      BY <2>1, <2>5, <2>6
    <3> QED BY <3>1, <3>2, <3>3, PartsInOrder DEF n
  <2>9. before \o cut \in IndexSets /\ Set!Contents(before \o cut) = Set!Contents(before) \cup Set!Contents(cut)
    BY <2>2, <2>4, <2>8, ArraysJoined
  <2>10. ASSUME NEW x \in Set!Contents(before \o cut), NEW y \in Set!Contents(after) PROVE x < y
    <3>1. PICK j \in 1 .. next - 1 : x \in Set!Indexes(q[j])
      <4>1. PICK j : x \in Set!Indexes(q[j]) /\ (j \in 1 .. i - 1 \/ j \in i .. next - 1)
        BY <2>2, <2>4, <2>9, <2>10
      <4>2. j \in 1 .. next - 1
        BY <1>1, <2>1, <4>1
      <4> QED BY <4>1, <4>2
    <3>2. PICK k \in next .. n : y \in Set!Indexes(q[k])
      BY <2>3, <2>10
    <3>3. j \in 1 .. n /\ k \in 1 .. n /\ j < k
      BY <1>1, <2>1
    <3> QED BY <3>1, <3>2, <3>3, PartsInOrder DEF n
  <2>11. /\ (before \o cut) \o after \in IndexSets
         /\ Set!Contents((before \o cut) \o after) = Set!Contents(before \o cut) \cup Set!Contents(after)
    BY <2>3, <2>9, <2>10, ArraysJoined
  <2>12. ASSUME NEW k \in next .. n, NEW y \in Set!Indexes(q[k]) PROVE y \notin Set!Indexes(r)
    <3>1. next \in 1 .. n /\ next # n + 1 /\ ~ (next < i) /\ k \in 1 .. n
      BY <1>1, <1>4, <2>1
    <3>2. ~ Meet(q[next], r)
      BY <1>1, <1>6, <3>1, IntersectionIs
    <3>3. ~ (q[next].location <= e)
      BY <1>4, <3>1, <3>2 DEF Meet, l, e
    <3>4. q[next].location <= y /\ y \in Nat /\ q[next].location \in Nat
      <4>1. CASE k = next
        BY <1>3, <2>12, <3>1, <4>1
      <4>2. CASE k # next
        <5>1. next < k
          BY <1>1, <2>1, <4>2
        <5>2. q[next].location \in Set!Indexes(q[next]) /\ q[next].location \in Nat
          BY <1>3, <3>1
        <5>3. q[next].location < y
          BY <2>12, <3>1, <5>1, <5>2, PartsInOrder DEF n
        <5> QED BY <1>3, <2>12, <3>1, <5>2, <5>3
      <4> QED BY <4>1, <4>2
    <3> QED BY <1>2, <3>3, <3>4
  <2>13. \A k : k \in 1 .. n <=> k \in 1 .. i - 1 \/ k \in i .. next - 1 \/ k \in next .. n
    BY <1>1, <1>4, <2>1
  <2>14. \A x : x \in Set!Contents((before \o cut) \o after)
           <=> x \in Set!Contents(q) /\ x \notin Set!Indexes(r)
    BY <1>7, <1>8, <2>2, <2>3, <2>4, <2>5, <2>9, <2>11, <2>12, <2>13
  <2> QED BY <1>5, <1>10, <2>11, <2>14
<1> QED BY <1>9, <1>10

(* intersectsRange keeps what is in r.                                      *)
LEMMA KeepingRangeIs ==
    ASSUME NEW q \in IndexSets, NEW r \in Numbers
    PROVE  /\ Set!KeepingRange(q, r) \in IndexSets
           /\ Set!Contents(Set!KeepingRange(q, r)) = Set!Contents(q) \cap Set!Indexes(r)
<1> DEFINE l == r.location
           e == Set!RangeRightBound(r)
           r1 == Set!RangeMake(0, l - 1)
           r2 == Set!RangeMake(e + 1, MAX)
           before == Set!WithoutRange(q, r1)
           both == Set!WithoutRange(before, r2)
<1>1. r \in Bounded /\ l # 0 /\ \A y : y \in Set!Indexes(r) <=> y \in Nat /\ l <= y /\ y <= e
  BY RangeFacts DEF Numbers
<1>2. l \in 1 .. (MAX - 2) /\ e \in Ends /\ l <= e /\ MAX \in Nat
  BY <1>1, RightBound, IndexAssumption
<1>3. Set!KeepingRange(q, r) = IF e = MAX THEN before ELSE both
  BY DEF Set!KeepingRange
<1> HIDE DEF l, e
<1>4. r1 \in Bounded /\ \A y : y \in Set!Indexes(r1) <=> y \in Nat /\ y < l
  <2>1. 0 \in 0 .. MAX /\ l - 1 \in 0 .. MAX
    BY <1>2
  <2>2. r1 = [location |-> 0, length |-> l - 1]
    BY <2>1, NotWrapped DEF Set!RangeMake
  <2> HIDE DEF r1
  <2>3. r1 \in Bounded /\ r1.location = 0
    BY <1>2, <2>1, <2>2 DEF Bounded
  <2>4. Set!RangeRightBound(r1) = l - 1
    <3>1. l - 1 # MAX /\ 0 + (l - 1) = l - 1
      BY <1>2
    <3> QED BY <2>1, <2>2, <3>1, NotWrapped DEF Set!RangeRightBound
  <2>5. \A y \in Nat : 0 <= y /\ y <= l - 1 <=> y < l
    BY <1>2
  <2> QED BY <2>3, <2>4, <2>5, RangeFacts
<1>5. before \in IndexSets /\ Set!Contents(before) = Set!Contents(q) \ Set!Indexes(r1)
  BY <1>4, WithoutRangeIs
<1> HIDE DEF r1, before
<1>6. \A y \in Set!Contents(q) : y \in Nat /\ y <= MAX
  <2> SUFFICES ASSUME NEW y \in Set!Contents(q) PROVE y \in Nat /\ y <= MAX
    OBVIOUS
  <2>1. PICK k \in 1 .. Len(q) : y \in Set!Indexes(q[k])
    BY InOrder, ArrayFacts
  <2>2. q[k] \in Bounded
    BY InOrder, ArrayFacts
  <2>3. y \in Nat /\ y <= Set!RangeRightBound(q[k]) /\ Set!RangeRightBound(q[k]) <= MAX
          /\ Set!RangeRightBound(q[k]) \in Nat
    BY <2>1, <2>2, RangeFacts
  <2> QED BY <1>2, <2>3
<1>7. CASE e = MAX
  <2>1. \A y : y \in Set!Contents(before) <=> y \in Set!Contents(q) /\ y \in Set!Indexes(r)
    <3>1. \A y \in Nat : y <= MAX => (~ (y < l) <=> l <= y /\ y <= e)
      BY <1>2, <1>7
    <3> QED BY <1>1, <1>4, <1>5, <1>6, <3>1
  <2>2. Set!Contents(before) = Set!Contents(q) \cap Set!Indexes(r)
    BY <2>1
  <2> QED BY <1>3, <1>5, <1>7, <2>2
<1>8. CASE e # MAX
  <2>1. r2 \in Bounded /\ \A y : y \in Set!Indexes(r2) <=> y \in Nat /\ e < y /\ y <= MAX
    <3>1. e + 1 \in 0 .. MAX /\ MAX \in 0 .. MAX /\ e + 1 \in 0 .. (MAX - 2)
      BY <1>2, <1>8 DEF Ends
    <3>2. r2 = [location |-> e + 1, length |-> MAX]
      BY <3>1, NotWrapped DEF Set!RangeMake
    <3> HIDE DEF r2
    <3>3. r2 \in Bounded /\ r2.location = e + 1
      BY <3>1, <3>2 DEF Bounded
    <3>4. Set!RangeRightBound(r2) = MAX
      BY <3>2 DEF Set!RangeRightBound
    <3>5. \A y \in Nat : e + 1 <= y <=> e < y
      BY <1>2 DEF Ends
    <3> QED BY <3>3, <3>4, <3>5, RangeFacts
  <2>2. both \in IndexSets /\ Set!Contents(both) = Set!Contents(before) \ Set!Indexes(r2)
    BY <1>5, <2>1, WithoutRangeIs
  <2> HIDE DEF r2, both
  <2>3. \A y : y \in Set!Contents(both) <=> y \in Set!Contents(q) /\ y \in Set!Indexes(r)
    <3>1. \A y \in Nat : y <= MAX => (~ (y < l) /\ ~ (e < y /\ y <= MAX) <=> l <= y /\ y <= e)
      BY <1>2 DEF Ends
    <3> QED BY <1>1, <1>4, <1>5, <1>6, <2>1, <2>2, <3>1
  <2>4. Set!Contents(both) = Set!Contents(q) \cap Set!Indexes(r)
    BY <2>3
  <2> QED BY <1>3, <1>8, <2>2, <2>4
<1> QED BY <1>7, <1>8

-----------------------------------------------------------------------------
(* IndexSet: operations on two sets. *)

(* addIndexSet adds one range after the other.                              *)
Sums(sum, q, other) ==
    /\ sum[0] = q
    /\ \A k \in 0 .. Len(other) : sum[k] \in IndexSets
    /\ \A k \in 1 .. Len(other) : sum[k] = Set!WithRange(sum[k - 1], other[k])

(* addIndexSet adds the ranges of the other set one by one.                 *)
LEMMA AdditionsAre ==
    ASSUME NEW q \in IndexSets, NEW other \in IndexSets
    PROVE  Sums(Set!Additions(q, other), q, other)
<1> DEFINE n == Len(other)
           F(a) == [k \in 0 .. n |-> IF k = 0 THEN q ELSE Set!WithRange(a[k - 1], other[k])]
           sum == CHOOSE a : a = F(a)
           G == [k \in 1 .. n |-> [v \in IndexSets |-> Set!WithRange(v, other[k])]]
<1>1. Set!Additions(q, other) = sum
  BY DEF Set!Additions
<1>2. n \in Nat /\ \A k \in 1 .. n : other[k] \in Numbers
  BY InOrder, ArrayFacts
<1>3. ASSUME NEW v \in IndexSets, NEW k \in 1 .. n PROVE Set!WithRange(v, other[k]) \in IndexSets
  BY <1>2, WithRangeIs
<1>4. sum = F(sum)
  <2>1. G \in [1 .. n -> [IndexSets -> IndexSets]]
    BY <1>3
  <2>2. PICK f : RunOf(f, n, IndexSets, q, G)
    <3> HIDE DEF G, n
    <3> QED BY <1>2, <2>1, RunExists
  <2>3. ASSUME NEW k \in 0 .. n PROVE f[k] = IF k = 0 THEN q ELSE Set!WithRange(f[k - 1], other[k])
    <3>1. CASE k = 0
      BY <2>2, <3>1 DEF RunOf
    <3>2. CASE k # 0
      <4>1. k \in 1 .. n /\ k - 1 \in 0 .. n
        BY <1>2, <3>2
      <4>2. f[k - 1] \in IndexSets
        BY <2>2, <4>1 DEF RunOf
      <4>3. G[k][f[k - 1]] = Set!WithRange(f[k - 1], other[k])
        BY <4>1, <4>2
      <4> QED BY <2>2, <3>2, <4>1, <4>3 DEF RunOf
    <3> QED BY <3>1, <3>2
  <2>4. f = F(f)
    BY <2>2, <2>3 DEF RunOf
  <2> HIDE DEF F
  <2> QED BY <2>4
<1>5. \A k \in 0 .. n : sum[k] = IF k = 0 THEN q ELSE Set!WithRange(sum[k - 1], other[k])
  <2> HIDE DEF sum
  <2> QED BY <1>4
<1> HIDE DEF sum, F, G
<1>6. sum[0] = q /\ \A k \in 1 .. n : sum[k] = Set!WithRange(sum[k - 1], other[k])
  BY <1>2, <1>5
<1> DEFINE T == {k \in 0 .. n : sum[k] \in IndexSets}
<1>7. 0 \in T
  BY <1>2, <1>6
<1>8. ASSUME NEW k \in 1 .. n, k - 1 \in T PROVE k \in T
  <2>1. k \in 0 .. n
    BY <1>2
  <2> QED BY <1>3, <1>6, <1>8, <2>1
<1>9. \A k \in 0 .. n : k \in T
  <2> HIDE DEF T, n
  <2> QED BY <1>2, <1>7, <1>8, UpTo
<1> QED BY <1>1, <1>6, <1>9 DEF Sums

(* What the first k ranges of other and those of q hold.                    *)
Together(p, q, other, k) ==
    \A x : x \in Set!Contents(p) <=> x \in Set!Contents(q) \/ \E j \in 1 .. k : x \in Set!Indexes(other[j])

(* One more range is added, which bridges none.                             *)
LEMMA OneAddition ==
    ASSUME NEW q \in IndexSets, NEW other \in IndexSets, NEW k \in 1 .. Len(other),
           NEW p \in IndexSets, Together(p, q, other, k - 1), ~ Set!Bridges(p, other[k])
    PROVE  Together(Set!WithRange(p, other[k]), q, other, k)
<1>1. Len(other) \in Nat /\ other[k] \in Numbers
  BY InOrder, ArrayFacts
<1>2. Set!Contents(Set!WithRange(p, other[k])) = Set!Contents(p) \cup Set!Indexes(other[k])
  BY <1>1, WithRangeIs
<1>3. \A j : j \in 1 .. k <=> j \in 1 .. k - 1 \/ j = k
  BY <1>1
<1> QED BY <1>2, <1>3 DEF Together

(* When all are added the sum holds what either set holds.                  *)
LEMMA AllTogether ==
    ASSUME NEW q \in IndexSets, NEW other \in IndexSets, NEW p, Together(p, q, other, Len(other))
    PROVE  Set!Contents(p) = Set!Contents(q) \cup Set!Contents(other)
<1>1. \A x : x \in Set!Contents(other) <=> \E j \in 1 .. Len(other) : x \in Set!Indexes(other[j])
  BY InOrder, ArrayFacts
<1> QED BY <1>1 DEF Together

(* Before the first the sum is the set itself.                              *)
LEMMA NoneTogether ==
    ASSUME NEW q, NEW other PROVE Together(q, q, other, 0)
<1>1. \A j \in 1 .. 0 : FALSE
  OBVIOUS
<1> QED BY <1>1 DEF Together

(* It adds the other set if no range bridges.                               *)
LEMMA WithIndexSetIs ==
    ASSUME NEW q \in IndexSets, NEW other \in IndexSets
    PROVE  /\ Set!WithIndexSet(q, other) \in IndexSets
           /\ ~ Set!BridgesAny(q, other) =>
                     Set!Contents(Set!WithIndexSet(q, other)) = Set!Contents(q) \cup Set!Contents(other)
<1> DEFINE n == Len(other)
           sum == Set!Additions(q, other)
<1>1. n \in Nat /\ DOMAIN other = 1 .. n
  BY InOrder, ArrayFacts
<1>2. /\ sum[0] = q
      /\ \A k \in 0 .. n : sum[k] \in IndexSets
      /\ \A k \in 1 .. n : sum[k] = Set!WithRange(sum[k - 1], other[k])
  BY AdditionsAre DEF Sums
<1>3. Set!WithIndexSet(q, other) = sum[n] /\ sum[n] \in IndexSets
  BY <1>1, <1>2 DEF Set!WithIndexSet
<1>4. ASSUME ~ Set!BridgesAny(q, other) PROVE Set!Contents(sum[n]) = Set!Contents(q) \cup Set!Contents(other)
  <2>1. \A k \in 1 .. n : ~ Set!Bridges(sum[k - 1], other[k])
    BY <1>1, <1>4 DEF Set!BridgesAny
  <2> HIDE DEF sum
  <2> DEFINE T == {k \in 0 .. n : Together(sum[k], q, other, k)}
  <2>2. 0 \in T
    BY <1>1, <1>2, NoneTogether
  <2>3. ASSUME NEW k \in 1 .. n, k - 1 \in T PROVE k \in T
    <3>1. k \in 0 .. n /\ k - 1 \in 0 .. n /\ sum[k - 1] \in IndexSets /\ Together(sum[k - 1], q, other, k - 1)
      BY <1>1, <1>2, <2>3
    <3>2. Together(Set!WithRange(sum[k - 1], other[k]), q, other, k)
      BY <2>1, <3>1, OneAddition
    <3> QED BY <1>2, <3>1, <3>2
  <2>4. \A k \in 0 .. n : k \in T
    <3> HIDE DEF T, n
    <3> QED BY <1>1, <2>2, <2>3, UpTo
  <2>5. Together(sum[n], q, other, n)
    BY <1>1, <2>4
  <2> QED BY <2>5, AllTogether
<1> QED BY <1>3, <1>4

(* Larger numbers bridge nothing.                                           *)
LEMMA LargerAdded ==
    ASSUME NEW q \in IndexSets, NEW other \in IndexSets,
           \A x \in Set!Contents(q), y \in Set!Contents(other) : x < y
    PROVE  /\ Set!WithIndexSet(q, other) \in IndexSets
           /\ Set!Contents(Set!WithIndexSet(q, other)) = Set!Contents(q) \cup Set!Contents(other)
<1> DEFINE n == Len(other)
           sum == Set!Additions(q, other)
<1>1. n \in Nat /\ DOMAIN other = 1 .. n /\ \A k \in 1 .. n : other[k] \in Bounded
      /\ \A x : x \in Set!Contents(other) <=> \E j \in 1 .. n : x \in Set!Indexes(other[j])
  BY InOrder, ArrayFacts
<1>2. /\ sum[0] = q
      /\ \A k \in 0 .. n : sum[k] \in IndexSets
      /\ \A k \in 1 .. n : sum[k] = Set!WithRange(sum[k - 1], other[k])
  BY AdditionsAre DEF Sums
<1>3. Set!WithIndexSet(q, other) = sum[n] /\ sum[n] \in IndexSets
  BY <1>1, <1>2 DEF Set!WithIndexSet
<1> HIDE DEF sum
<1>4. ASSUME NEW k \in 1 .. n, NEW p \in IndexSets, Together(p, q, other, k - 1)
      PROVE  ~ Set!Bridges(p, other[k])
  <2> SUFFICES ASSUME Set!Bridges(p, other[k]) PROVE FALSE
    OBVIOUS
  <2>1. PICK i \in DOMAIN p : other[k].location <= Set!RangeRightBound(p[i])
    BY DEF Set!Bridges
  <2> DEFINE x == Set!RangeRightBound(p[i])
             l == other[k].location
  <2>2. p[i] \in Bounded /\ i \in 1 .. Len(p)
    BY InOrder, ArrayFacts
  <2>3. x \in Set!Indexes(p[i]) /\ x \in Nat
    BY <2>2, RangeFacts
  <2>4. x \in Set!Contents(p)
    BY <2>2, <2>3, InOrder, ArrayFacts
  <2>5. l \in Nat /\ l \in Set!Indexes(other[k]) /\ l \in Set!Contents(other)
    BY <1>1, RangeFacts
  <2> HIDE DEF x, l
  <2>6. CASE x \in Set!Contents(q)
    <3>1. x < l
      BY <2>5, <2>6
    <3> QED BY <2>1, <2>3, <2>5, <3>1 DEF x, l
  <2>7. CASE \E j \in 1 .. k - 1 : x \in Set!Indexes(other[j])
    <3>1. PICK j \in 1 .. k - 1 : x \in Set!Indexes(other[j])
      BY <2>7
    <3>2. j \in 1 .. n /\ j < k
      BY <1>1
    <3>3. x < l
      BY <2>5, <3>1, <3>2, PartsInOrder
    <3> QED BY <2>1, <2>3, <2>5, <3>3 DEF x, l
  <2> QED BY <1>4, <2>4, <2>6, <2>7 DEF Together
<1> DEFINE T == {k \in 0 .. n : Together(sum[k], q, other, k)}
<1>5. 0 \in T
  BY <1>1, <1>2, NoneTogether
<1>6. ASSUME NEW k \in 1 .. n, k - 1 \in T PROVE k \in T
  <2>1. k \in 0 .. n /\ k - 1 \in 0 .. n /\ sum[k - 1] \in IndexSets /\ Together(sum[k - 1], q, other, k - 1)
    BY <1>1, <1>2, <1>6
  <2>2. Together(Set!WithRange(sum[k - 1], other[k]), q, other, k)
    BY <1>4, <2>1, OneAddition
  <2> QED BY <1>2, <2>1, <2>2
<1>7. \A k \in 0 .. n : k \in T
  <2> HIDE DEF T, n
  <2> QED BY <1>1, <1>5, <1>6, UpTo
<1>8. Together(sum[n], q, other, n)
  BY <1>1, <1>7
<1>9. Set!Contents(sum[n]) = Set!Contents(q) \cup Set!Contents(other)
  BY <1>8, AllTogether
<1> QED BY <1>3, <1>9

(* removeIndexSet removes the other set.                                    *)
LEMMA WithoutIndexSetIs ==
    ASSUME NEW q \in IndexSets, NEW other \in IndexSets
    PROVE  /\ Set!WithoutIndexSet(q, other) \in IndexSets
           /\ Set!Contents(Set!WithoutIndexSet(q, other)) = Set!Contents(q) \ Set!Contents(other)
<1> DEFINE n == Len(other)
           F(a) == [k \in 0 .. n |-> IF k = 0 THEN q ELSE Set!WithoutRange(a[k - 1], other[k])]
           rest == CHOOSE a : a = F(a)
           G == [k \in 1 .. n |-> [v \in IndexSets |-> Set!WithoutRange(v, other[k])]]
<1>1. Set!WithoutIndexSet(q, other) = rest[n]
  BY DEF Set!WithoutIndexSet
<1>2. /\ n \in Nat
      /\ \A k \in 1 .. n : other[k] \in Numbers /\ other[k] \in Bounded
      /\ \A x : x \in Set!Contents(other) <=> \E j \in 1 .. n : x \in Set!Indexes(other[j])
  BY InOrder, ArrayFacts
<1>3. ASSUME NEW v \in IndexSets, NEW k \in 1 .. n PROVE Set!WithoutRange(v, other[k]) \in IndexSets
  BY <1>2, WithoutRangeIs
<1>4. q \in IndexSets
  BY OneRange
<1>5. rest = F(rest)
  <2>1. G \in [1 .. n -> [IndexSets -> IndexSets]]
    BY <1>3
  <2>2. PICK f : RunOf(f, n, IndexSets, q, G)
    <3> DEFINE b == q
    <3> HIDE DEF G, n, b
    <3>1. b \in IndexSets
      BY <1>4 DEF b
    <3>2. \E f : RunOf(f, n, IndexSets, b, G)
      BY <1>2, <2>1, <3>1, RunExists
    <3> QED BY <3>2 DEF b
  <2>3. ASSUME NEW k \in 0 .. n PROVE f[k] = IF k = 0 THEN q ELSE Set!WithoutRange(f[k - 1], other[k])
    <3>1. CASE k = 0
      BY <2>2, <3>1 DEF RunOf
    <3>2. CASE k # 0
      <4>1. k \in 1 .. n /\ k - 1 \in 0 .. n
        BY <1>2, <3>2
      <4>2. f[k - 1] \in IndexSets
        BY <2>2, <4>1 DEF RunOf
      <4>3. G[k][f[k - 1]] = Set!WithoutRange(f[k - 1], other[k])
        BY <4>1, <4>2
      <4> QED BY <2>2, <3>2, <4>1, <4>3 DEF RunOf
    <3> QED BY <3>1, <3>2
  <2>4. f = F(f)
    BY <2>2, <2>3 DEF RunOf
  <2> HIDE DEF F
  <2> QED BY <2>4
<1>6. \A k \in 0 .. n : rest[k] = IF k = 0 THEN q ELSE Set!WithoutRange(rest[k - 1], other[k])
  <2> HIDE DEF rest
  <2> QED BY <1>5
<1> HIDE DEF rest, F, G
<1>7. rest[0] = q /\ \A k \in 1 .. n : rest[k] = Set!WithoutRange(rest[k - 1], other[k])
  BY <1>2, <1>6
<1> DEFINE Left(p, k) == \A x : x \in Set!Contents(p)
             <=> x \in Set!Contents(q) /\ \A j \in 1 .. k : x \notin Set!Indexes(other[j])
           T == {k \in 0 .. n : rest[k] \in IndexSets /\ Left(rest[k], k)}
<1>8. 0 \in T
  <2>1. \A j \in 1 .. 0 : FALSE
    OBVIOUS
  <2> QED BY <1>2, <1>7, <2>1
<1>9. ASSUME NEW k \in 1 .. n, k - 1 \in T PROVE k \in T
  <2>1. k \in 0 .. n /\ rest[k - 1] \in IndexSets /\ Left(rest[k - 1], k - 1) /\ other[k] \in Bounded
    BY <1>2, <1>9
  <2>2. rest[k] \in IndexSets /\ Set!Contents(rest[k]) = Set!Contents(rest[k - 1]) \ Set!Indexes(other[k])
    BY <1>7, <2>1, WithoutRangeIs
  <2>3. \A j : j \in 1 .. k <=> j \in 1 .. k - 1 \/ j = k
    BY <1>2
  <2>4. Left(rest[k], k)
    BY <2>1, <2>2, <2>3
  <2> HIDE DEF Left
  <2> QED BY <2>1, <2>2, <2>4
<1>10. \A k \in 0 .. n : k \in T
  <2> HIDE DEF T, n
  <2> QED BY <1>2, <1>8, <1>9, UpTo
<1>11. rest[n] \in IndexSets /\ Left(rest[n], n)
  <2> HIDE DEF Left
  <2> QED BY <1>2, <1>10
<1>12. Set!Contents(rest[n]) = Set!Contents(q) \ Set!Contents(other)
  <2>1. \A x : x \in Set!Contents(rest[n]) <=> x \in Set!Contents(q) /\ x \notin Set!Contents(other)
    BY <1>2, <1>11
  <2> QED BY <2>1
<1> QED BY <1>1, <1>11, <1>12

(* intersectsIndexSet keeps what is in the other set.                       *)
LEMMA KeepingIndexSetIs ==
    ASSUME NEW q \in IndexSets, NEW other \in IndexSets
    PROVE  /\ Set!KeepingIndexSet(q, other) \in IndexSets
           /\ Set!Contents(Set!KeepingIndexSet(q, other)) = Set!Contents(q) \cap Set!Contents(other)
<1> DEFINE n == Len(other)
           F(a) == [k \in 0 .. n |->
                      IF k = 0 THEN <<>> ELSE Set!WithIndexSet(a[k - 1], Set!KeepingRange(q, other[k]))]
           parts == CHOOSE a : a = F(a)
           G == [k \in 1 .. n |-> [v \in IndexSets |-> Set!WithIndexSet(v, Set!KeepingRange(q, other[k]))]]
<1>1. Set!KeepingIndexSet(q, other) = parts[n]
  BY DEF Set!KeepingIndexSet
<1>2. /\ n \in Nat
      /\ \A k \in 1 .. n : other[k] \in Numbers /\ other[k] \in Bounded
      /\ \A x : x \in Set!Contents(other) <=> \E j \in 1 .. n : x \in Set!Indexes(other[j])
  BY InOrder, ArrayFacts
<1>3. ASSUME NEW v \in IndexSets, NEW k \in 1 .. n
      PROVE Set!WithIndexSet(v, Set!KeepingRange(q, other[k])) \in IndexSets
  BY <1>2, KeepingRangeIs, WithIndexSetIs
<1>4. <<>> \in IndexSets
  BY OneRange
<1>5. parts = F(parts)
  <2>1. G \in [1 .. n -> [IndexSets -> IndexSets]]
    BY <1>3
  <2>2. PICK f : RunOf(f, n, IndexSets, <<>>, G)
    <3> DEFINE b == <<>>
    <3> HIDE DEF G, n, b
    <3>1. b \in IndexSets
      BY <1>4 DEF b
    <3>2. \E f : RunOf(f, n, IndexSets, b, G)
      BY <1>2, <2>1, <3>1, RunExists
    <3> QED BY <3>2 DEF b
  <2>3. ASSUME NEW k \in 0 .. n
        PROVE  f[k] = IF k = 0 THEN <<>> ELSE Set!WithIndexSet(f[k - 1], Set!KeepingRange(q, other[k]))
    <3>1. CASE k = 0
      BY <2>2, <3>1 DEF RunOf
    <3>2. CASE k # 0
      <4>1. k \in 1 .. n /\ k - 1 \in 0 .. n
        BY <1>2, <3>2
      <4>2. f[k - 1] \in IndexSets
        BY <2>2, <4>1 DEF RunOf
      <4>3. G[k][f[k - 1]] = Set!WithIndexSet(f[k - 1], Set!KeepingRange(q, other[k]))
        BY <4>1, <4>2
      <4> QED BY <2>2, <3>2, <4>1, <4>3 DEF RunOf
    <3> QED BY <3>1, <3>2
  <2>4. f = F(f)
    BY <2>2, <2>3 DEF RunOf
  <2> HIDE DEF F
  <2> QED BY <2>4
<1>6. \A k \in 0 .. n : parts[k]
        = IF k = 0 THEN <<>> ELSE Set!WithIndexSet(parts[k - 1], Set!KeepingRange(q, other[k]))
  <2> HIDE DEF parts
  <2> QED BY <1>5
<1> HIDE DEF parts, F, G
<1>7. parts[0] = <<>> /\ \A k \in 1 .. n : parts[k] = Set!WithIndexSet(parts[k - 1], Set!KeepingRange(q, other[k]))
  BY <1>2, <1>6
<1> DEFINE Kept(p, k) == \A x : x \in Set!Contents(p)
             <=> x \in Set!Contents(q) /\ \E j \in 1 .. k : x \in Set!Indexes(other[j])
           T == {k \in 0 .. n : parts[k] \in IndexSets /\ Kept(parts[k], k)}
<1>8. 0 \in T
  <2>1. parts[0] \in IndexSets /\ Set!Contents(parts[0]) = {}
    BY <1>7, OneRange
  <2>2. \A j \in 1 .. 0 : FALSE
    OBVIOUS
  <2> QED BY <1>2, <2>1, <2>2
<1>9. ASSUME NEW k \in 1 .. n, k - 1 \in T PROVE k \in T
  <2> DEFINE p == parts[k - 1]
             more == Set!KeepingRange(q, other[k])
  <2>1. k \in 0 .. n /\ p \in IndexSets /\ Kept(p, k - 1) /\ parts[k] = Set!WithIndexSet(p, more)
    BY <1>2, <1>7, <1>9
  <2>2. more \in IndexSets /\ Set!Contents(more) = Set!Contents(q) \cap Set!Indexes(other[k])
    BY <1>2, KeepingRangeIs
  <2> HIDE DEF p, more
  <2>3. \A j : j \in 1 .. k <=> j \in 1 .. k - 1 \/ j = k
    BY <1>2
  <2>4. ASSUME NEW x \in Set!Contents(p), NEW y \in Set!Contents(more) PROVE x < y
    <3>1. PICK j \in 1 .. k - 1 : x \in Set!Indexes(other[j])
      BY <2>1
    <3>2. j \in 1 .. n /\ j < k /\ y \in Set!Indexes(other[k])
      BY <1>2, <2>2
    <3> QED BY <3>1, <3>2, PartsInOrder
  <2>5. parts[k] \in IndexSets /\ Set!Contents(parts[k]) = Set!Contents(p) \cup Set!Contents(more)
    BY <2>1, <2>2, <2>4, LargerAdded
  <2>6. Kept(parts[k], k)
    BY <2>1, <2>2, <2>3, <2>5
  <2> HIDE DEF Kept
  <2> QED BY <2>1, <2>5, <2>6
<1>10. \A k \in 0 .. n : k \in T
  <2> HIDE DEF T, n
  <2> QED BY <1>2, <1>8, <1>9, UpTo
<1>11. parts[n] \in IndexSets /\ Kept(parts[n], n)
  <2> HIDE DEF Kept
  <2> QED BY <1>2, <1>10
<1>12. Set!Contents(parts[n]) = Set!Contents(q) \cap Set!Contents(other)
  <2>1. \A x : x \in Set!Contents(parts[n]) <=> x \in Set!Contents(q) /\ x \in Set!Contents(other)
    BY <1>2, <1>11
  <2> QED BY <2>1
<1> QED BY <1>1, <1>11, <1>12

-----------------------------------------------------------------------------
(* IndexSet: the conversions. *)

(* What splitSet takes apart, FlattenSeq puts together.                     *)
LEMMA SplitKeeps ==
    ASSUME NEW S, NEW s \in Seq(S)
    PROVE  Set!FlattenSeq(Set!SplitSet(s, 2)) = s
<1> DEFINE n == Len(s)
           m == (n + 2 - 1) \div 2
           e(k) == IF k * 2 < n THEN k * 2 ELSE n
           parts == Set!SplitSet(s, 2)
<1>1. n \in Nat /\ \A k \in 1 .. n : s[k] \in S
  BY LenProperties, ElementOfSeq
<1>2. m \in Nat /\ m * 2 >= n /\ \A k \in 1 .. m : (k - 1) * 2 < n
  <2>1. \A l \in Nat : /\ (l + 2 - 1) \div 2 \in Nat
                       /\ ((l + 2 - 1) \div 2) * 2 >= l
                       /\ ((l + 2 - 1) \div 2) * 2 <= l + 1
    OBVIOUS
  <2>2. m \in Nat /\ m * 2 >= n /\ m * 2 <= n + 1
    BY <1>1, <2>1
  <2> HIDE DEF m
  <2>3. \A k \in 1 .. m : (k - 1) * 2 < n
    BY <1>1, <2>2
  <2> QED BY <2>2, <2>3
<1>3. parts = [k \in 1 .. m |-> SubSeq(s, (k - 1) * 2 + 1, e(k))]
  BY DEF Set!SplitSet
<1> HIDE DEF parts, m
<1>4. \A k \in 1 .. m : parts[k] \in Seq(S)
  <2> SUFFICES ASSUME NEW k \in 1 .. m PROVE parts[k] \in Seq(S)
    OBVIOUS
  <2> DEFINE a == (k - 1) * 2 + 1
             b == e(k)
  <2>1. a \in Int /\ b \in Int /\ a >= 1 /\ b <= n
    BY <1>1, <1>2
  <2>2. parts[k] = SubSeq(s, a, b)
    BY <1>3
  <2> HIDE DEF a, b
  <2>3. \A j \in a .. b : s[j] \in S
    BY <1>1, <2>1
  <2> QED BY <2>1, <2>2, <2>3, SubSeqProperties
<1>5. parts \in Seq(Seq(S)) /\ Len(parts) = m
  <2>1. parts \in [1 .. m -> Seq(S)]
    BY <1>3, <1>4
  <2> QED BY <1>2, <2>1, FunctionIsSeq
<1>6. PICK f : Joined(f, parts, S) /\ Set!FlattenSeq(parts) = f[Len(parts)]
  BY <1>5, Flattened
<1>7. f[0] = <<>> /\ \A k \in 1 .. m : f[k] = f[k - 1] \o parts[k]
  BY <1>5, <1>6 DEF Joined
<1> DEFINE T == {k \in 0 .. m : f[k] = SubSeq(s, 1, e(k))}
<1>8. 0 \in T
  <2>1. e(0) = 0
    BY <1>1
  <2>2. SubSeq(s, 1, 0) = <<>>
    BY SubSeqEmpty
  <2> HIDE DEF e
  <2>3. f[0] = SubSeq(s, 1, e(0))
    BY <1>7, <2>1, <2>2
  <2>4. 0 \in 0 .. m
    BY <1>2
  <2> QED BY <2>3, <2>4, Zenon
<1>9. ASSUME NEW k \in 1 .. m, k - 1 \in T PROVE k \in T
  <2> DEFINE a == (k - 1) * 2
             b == e(k)
  <2>1. a \in 0 .. n /\ b \in a .. n /\ e(k - 1) = a /\ k \in 0 .. m
    BY <1>1, <1>2
  <2>2. f[k - 1] = SubSeq(s, 1, a)
    BY <1>9, <2>1
  <2>3. parts[k] = SubSeq(s, a + 1, b)
    BY <1>3
  <2>4. f[k] = SubSeq(s, 1, a) \o SubSeq(s, a + 1, b)
    BY <1>7, <2>2, <2>3
  <2> HIDE DEF a, b
  <2>5. SubSeq(s, 1, a) \o SubSeq(s, a + 1, b) = SubSeq(s, 1, b)
    <3>1. 1 \in 1 .. Len(s) + 1 /\ a \in 1 - 1 .. Len(s) /\ b \in a .. Len(s)
      BY <1>1, <2>1
    <3> QED BY <3>1, ConcatAdjacentSubSeq
  <2> QED BY <2>1, <2>4, <2>5 DEF b
<1>10. \A k \in 0 .. m : k \in T
  <2> HIDE DEF T
  <2> QED BY <1>2, <1>8, <1>9, UpTo
<1>11. f[m] = SubSeq(s, 1, n)
  <2>1. m \in 0 .. m /\ e(m) = n
    BY <1>1, <1>2
  <2> QED BY <1>10, <2>1
<1>12. SubSeq(s, 1, n) = s
  BY SubSeqFull
<1>13. Set!FlattenSeq(parts) = s
  BY <1>5, <1>6, <1>11, <1>12
<1> QED BY <1>13 DEF parts

(* Converted to the set of a command, split, and converted back.            *)
LEMMA ConversionKeeps ==
    ASSUME NEW q \in IndexSets
    PROVE  Set!Contents(Set!IndexSetFromSet(Set!FlattenSeq(Set!SplitSet(Set!SetFromIndexSet(q), 2)))) = Set!Contents(q)
<1> DEFINE n == Len(q)
           s == Set!SetFromIndexSet(q)
           p == [k \in DOMAIN s |->
                    Set!RangeMake(s[k].first, IF s[k].last = 0 THEN MAX ELSE s[k].last - s[k].first)]
<1>1. /\ q \in Seq(Numbers) /\ n \in Nat /\ DOMAIN q = 1 .. n
      /\ \A k \in 1 .. n : q[k] \in Numbers /\ q[k] \in Bounded
  BY InOrder, ArrayFacts
<1>2. MAX \in Nat
  BY IndexAssumption
<1>3. \A k \in 1 .. n : /\ q[k].location \in 0 .. (MAX - 2) /\ q[k].location # 0
                        /\ Set!RangeRightBound(q[k]) \in Ends /\ Set!RangeRightBound(q[k]) \in Nat
                        /\ q[k].location <= Set!RangeRightBound(q[k])
  <2> SUFFICES ASSUME NEW k \in 1 .. n
               PROVE  /\ q[k].location \in 0 .. (MAX - 2) /\ q[k].location # 0
                      /\ Set!RangeRightBound(q[k]) \in Ends /\ Set!RangeRightBound(q[k]) \in Nat
                      /\ q[k].location <= Set!RangeRightBound(q[k])
    OBVIOUS
  <2>1. q[k] \in Bounded /\ q[k].location # 0
    BY <1>1 DEF Numbers
  <2> QED BY <2>1, RightBound, RangeFacts
<1>4. /\ s \in [1 .. n -> [first : Nat, last : Nat]]
      /\ \A k \in 1 .. n : /\ s[k].first = q[k].location
                           /\ s[k].last = IF Set!RangeRightBound(q[k]) = MAX THEN 0
                                ELSE Set!RangeRightBound(q[k])
  BY <1>1, <1>2, <1>3 DEF Set!SetFromIndexSet
<1>5. s \in Seq([first : Nat, last : Nat]) /\ DOMAIN s = 1 .. n
  BY <1>1, <1>4, FunctionIsSeq
<1> HIDE DEF s
<1>6. Set!FlattenSeq(Set!SplitSet(s, 2)) = s
  BY <1>5, SplitKeeps
<1>7. Set!IndexSetFromSet(s) = Set!WithIndexSet(<<>>, p)
  BY DEF Set!IndexSetFromSet
<1>8. ASSUME NEW k \in 1 .. n
      PROVE  /\ p[k] \in Numbers /\ p[k].location = q[k].location
             /\ Set!RangeRightBound(p[k]) = Set!RangeRightBound(q[k])
  <2> DEFINE l == q[k].location
             e == Set!RangeRightBound(q[k])
  <2>1. l \in 0 .. (MAX - 2) /\ l # 0 /\ e \in Ends /\ e \in Nat /\ l <= e
    BY <1>3
  <2>2. s[k].first = l /\ s[k].last = (IF e = MAX THEN 0 ELSE e)
    BY <1>4
  <2> HIDE DEF l, e
  <2>3. p[k] = Set!RangeMake(l, IF s[k].last = 0 THEN MAX ELSE s[k].last - l)
    BY <1>5, <2>2
  <2>4. (IF s[k].last = 0 THEN MAX ELSE s[k].last - l) = IF e = MAX THEN MAX ELSE e - l
    BY <2>1, <2>2
  <2>5. p[k] = Set!RangeBetween(l, e)
    BY <2>3, <2>4 DEF Set!RangeBetween
  <2> HIDE DEF p
  <2>6. p[k] \in Bounded /\ p[k].location = l /\ Set!RangeRightBound(p[k]) = e
    BY <2>1, <2>5, BetweenIs
  <2>7. p[k] \in Numbers
    BY <2>1, <2>6 DEF Numbers
  <2> QED BY <2>6, <2>7 DEF l, e
<1>9. p \in Seq(Numbers) /\ Len(p) = n
  <2>1. p \in [1 .. n -> Numbers]
    BY <1>5, <1>8
  <2> HIDE DEF p
  <2> QED BY <1>1, <2>1, FunctionIsSeq
<1> HIDE DEF p
<1>10. p \in IndexSets
  <2>1. \A i, j \in 1 .. n : i < j => Set!RangeRightBound(p[i]) < p[j].location
    BY <1>8, InOrder
  <2> QED BY <1>9, <2>1, ArrayFacts DEF IndexSets, Set!Ordered
<1>11. Set!Contents(p) = Set!Contents(q)
  <2>1. \A k \in 1 .. n : Set!Indexes(p[k]) = Set!Indexes(q[k])
    BY <1>8 DEF Set!Indexes
  <2>2. /\ \A x : x \in Set!Contents(p) <=> \E k \in 1 .. n : x \in Set!Indexes(p[k])
        /\ \A x : x \in Set!Contents(q) <=> \E k \in 1 .. n : x \in Set!Indexes(q[k])
    BY <1>1, <1>9, ArrayFacts
  <2> QED BY <2>1, <2>2
<1>12. Set!Contents(Set!WithIndexSet(<<>>, p)) = Set!Contents(p)
  <2> DEFINE none == <<>>
  <2>1. none \in IndexSets /\ Set!Contents(none) = {}
    BY OneRange
  <2> HIDE DEF none
  <2>2. Set!Contents(Set!WithIndexSet(none, p)) = Set!Contents(none) \cup Set!Contents(p)
    BY <1>10, <2>1, LargerAdded
  <2> QED BY <2>1, <2>2 DEF none
<1> QED BY <1>6, <1>7, <1>11, <1>12 DEF s

-----------------------------------------------------------------------------
(* IndexSet: the theorems. *)

(* What every operation keeps.                                              *)
SetsInOrder == mRanges \in [Names -> IndexSets]

(* The ranges of message numbers are among those the lemmas are about.      *)
LEMMA UsedRanges == \A r \in Ranges \cup KeptRanges : r \in Numbers
BY IndexAssumption DEF Numbers, Bounded

(* Every operation leaves sorted ranges, bridging additions included.       *)
LEMMA OrderKept == SetsInOrder /\ [Set!Next]_mRanges => SetsInOrder'
<1> SUFFICES ASSUME SetsInOrder, [Set!Next]_mRanges PROVE SetsInOrder'
  OBVIOUS
<1>1. \A s \in Names : mRanges[s] \in IndexSets
  BY DEF SetsInOrder
<1>2. \A s \in Names, q \in IndexSets : Set!Becomes(s, q) => SetsInOrder'
  BY DEF SetsInOrder, Set!Becomes
<1>3. ASSUME NEW s \in Names, NEW r \in Ranges, Set!AddRange(s, r) PROVE SetsInOrder'
  <2>1. Set!WithRange(mRanges[s], r) \in IndexSets
    BY <1>1, UsedRanges, WithRangeIs
  <2> QED BY <1>2, <1>3, <2>1 DEF Set!AddRange
<1>4. ASSUME NEW s \in Names, NEW r \in Ranges, Set!RemoveRange(s, r) PROVE SetsInOrder'
  <2>1. r \in Bounded
    BY UsedRanges DEF Numbers
  <2>2. Set!WithoutRange(mRanges[s], r) \in IndexSets
    BY <1>1, <2>1, WithoutRangeIs
  <2> QED BY <1>2, <1>4, <2>2 DEF Set!RemoveRange
<1>5. ASSUME NEW s \in Names, NEW r \in KeptRanges, Set!IntersectsRange(s, r) PROVE SetsInOrder'
  <2>1. Set!KeepingRange(mRanges[s], r) \in IndexSets
    BY <1>1, UsedRanges, KeepingRangeIs
  <2> QED BY <1>2, <1>5, <2>1 DEF Set!IntersectsRange
<1>6. ASSUME NEW s \in Names, Set!RemoveAllIndexes(s) PROVE SetsInOrder'
  <2> DEFINE none == <<>>
  <2>1. none \in IndexSets /\ Set!Becomes(s, none)
    BY <1>6, OneRange DEF Set!RemoveAllIndexes
  <2> HIDE DEF none
  <2> QED BY <1>2, <2>1
<1>7. ASSUME NEW s \in Names, NEW t \in Names, Set!AddIndexSet(s, t) PROVE SetsInOrder'
  <2>1. Set!WithIndexSet(mRanges[s], mRanges[t]) \in IndexSets
    BY <1>1, WithIndexSetIs
  <2> QED BY <1>2, <1>7, <2>1 DEF Set!AddIndexSet
<1>8. ASSUME NEW s \in Names, NEW t \in Names, Set!RemoveIndexSet(s, t) PROVE SetsInOrder'
  <2>1. Set!WithoutIndexSet(mRanges[s], mRanges[t]) \in IndexSets
    BY <1>1, WithoutIndexSetIs
  <2> QED BY <1>2, <1>8, <2>1 DEF Set!RemoveIndexSet
<1>9. ASSUME NEW s \in Names, NEW t \in Names, Set!IntersectsIndexSet(s, t) PROVE SetsInOrder'
  <2>1. Set!KeepingIndexSet(mRanges[s], mRanges[t]) \in IndexSets
    BY <1>1, KeepingIndexSetIs
  <2> QED BY <1>2, <1>9, <2>1 DEF Set!IntersectsIndexSet
<1>10. CASE UNCHANGED mRanges
  BY <1>10 DEF SetsInOrder
<1> QED BY <1>3, <1>4, <1>5, <1>6, <1>7, <1>8, <1>9, <1>10 DEF Set!Next

(* Empty sets are sorted.                                                   *)
LEMMA OrderAtFirst == Set!Init => SetsInOrder
<1> DEFINE none == <<>>
<1>1. none \in IndexSets
  BY OneRange
<1>2. Set!Init => mRanges = [s \in Names |-> none]
  BY DEF Set!Init
<1> HIDE DEF none
<1> QED BY <1>1, <1>2 DEF SetsInOrder

(* Sorted ranges are searched and converted rightly.                        *)
LEMMA OrderedRead == SetsInOrder => ReadsWhatItHolds
<1> SUFFICES ASSUME SetsInOrder, NEW s \in Names
             PROVE  /\ Set!Ordered(mRanges[s])
                    /\ \A idx \in 0 .. MAX : Set!ContainsIndex(mRanges[s], idx)
                         <=> idx \in Set!Contents(mRanges[s])
                    /\ Set!Contents(Set!IndexSetFromSet(Set!FlattenSeq(Set!SplitSet(Set!SetFromIndexSet(mRanges[s]), 2))))
                              = Set!Contents(mRanges[s])
  BY DEF ReadsWhatItHolds, Set!ReadsWhatItHolds, Set!RangesOrdered, Set!SearchFindsExactly,
           Set!ConversionKeepsContents
<1>1. mRanges[s] \in IndexSets
  BY DEF SetsInOrder
<1>2. \A idx \in 0 .. MAX : idx \in Nat
  OBVIOUS
<1>3. \A idx \in 0 .. MAX : Set!ContainsIndex(mRanges[s], idx) <=> idx \in Set!Contents(mRanges[s])
  BY <1>1, <1>2, ContainsIs
<1> QED BY <1>1, <1>3, ConversionKeeps DEF IndexSets

(* The ranges are sorted and apart after any operations; containsIndex finds  *)
(* the numbers in them, and the conversion to the set of an IMAP command    *)
(* and back, split in between, keeps them.                                  *)
THEOREM IndexSetsRead == Set!Spec => []ReadsWhatItHolds
<1>1. Set!Init => SetsInOrder
  BY OrderAtFirst
<1>2. SetsInOrder /\ [Set!Next]_mRanges => SetsInOrder'
  BY OrderKept
<1>3. SetsInOrder => ReadsWhatItHolds
  BY OrderedRead
<1> QED BY <1>1, <1>2, <1>3, PTL DEF Set!Spec

(* What the objects hold.                                                   *)
Held == [s \in Names |-> Set!Contents(mRanges[s])]

(* One object becomes another array, and holds what it holds.               *)
LEMMA HeldBecomes ==
    ASSUME SetsInOrder, NEW s \in Names, NEW q, Set!Becomes(s, q)
    PROVE  Held' = [Held EXCEPT ![s] = Set!Contents(q)]
BY DEF SetsInOrder, Set!Becomes, Held

(* A range holds the numbers between two.                                   *)
LEMMA RangeHolds ==
    ASSUME NEW r \in Ranges \cup KeptRanges
    PROVE  \E left, right \in 0 .. MAX : Set!Indexes(r) = left .. right
<1>1. r \in Bounded
  BY UsedRanges DEF Numbers
<1>2. r.location \in 0 .. (MAX - 2) /\ Set!RangeRightBound(r) \in Ends /\ MAX \in Nat
  BY <1>1, RightBound, IndexAssumption
<1>3. r.location \in 0 .. MAX /\ Set!RangeRightBound(r) \in 0 .. MAX
  BY <1>2 DEF Ends
<1> QED BY <1>3 DEF Set!Indexes

(* addRange of a range that bridges no others.                              *)
LEMMA RangeAdded ==
    ASSUME SetsInOrder, NEW s \in Names, NEW r \in Ranges,
           ~ Set!Bridges(mRanges[s], r), Set!AddRange(s, r)
    PROVE  Held' = [Held EXCEPT ![s] = Held[s] \cup Set!Indexes(r)]
<1>1. mRanges[s] \in IndexSets /\ Held[s] = Set!Contents(mRanges[s])
  BY DEF SetsInOrder, Held
<1>2. Set!Contents(Set!WithRange(mRanges[s], r)) = Held[s] \cup Set!Indexes(r)
  BY <1>1, UsedRanges, WithRangeIs
<1> QED BY <1>2, HeldBecomes DEF Set!AddRange

(* removeRange.                                                             *)
LEMMA RangeTaken ==
    ASSUME SetsInOrder, NEW s \in Names, NEW r \in Ranges, Set!RemoveRange(s, r)
    PROVE  Held' = [Held EXCEPT ![s] = Held[s] \ Set!Indexes(r)]
<1>1. mRanges[s] \in IndexSets /\ Held[s] = Set!Contents(mRanges[s])
  BY DEF SetsInOrder, Held
<1>2. r \in Bounded
  BY UsedRanges DEF Numbers
<1>3. Set!Contents(Set!WithoutRange(mRanges[s], r)) = Held[s] \ Set!Indexes(r)
  BY <1>1, <1>2, WithoutRangeIs
<1> QED BY <1>3, HeldBecomes DEF Set!RemoveRange

(* intersectsRange.                                                         *)
LEMMA RangeKept ==
    ASSUME SetsInOrder, NEW s \in Names, NEW r \in KeptRanges, Set!IntersectsRange(s, r)
    PROVE  Held' = [Held EXCEPT ![s] = Held[s] \cap Set!Indexes(r)]
<1>1. mRanges[s] \in IndexSets /\ Held[s] = Set!Contents(mRanges[s])
  BY DEF SetsInOrder, Held
<1>2. Set!Contents(Set!KeepingRange(mRanges[s], r)) = Held[s] \cap Set!Indexes(r)
  BY <1>1, UsedRanges, KeepingRangeIs
<1> QED BY <1>2, HeldBecomes DEF Set!IntersectsRange

(* Each operation with a range adds, removes or keeps the numbers of that    *)
(* range and no others, addRange unless it bridges two ranges; and the other  *)
(* objects keep what they hold.  Earlier additions may have bridged.        *)
HoldsInstead(s, S) == Held' = [Held EXCEPT ![s] = S]

RangesExact ==
    [][\A s \in Names :
          /\ \A r \in Ranges :
                 /\ Set!AddRange(s, r) /\ ~ Set!Bridges(mRanges[s], r)
                        => HoldsInstead(s, Held[s] \cup Set!Indexes(r))
                 /\ Set!RemoveRange(s, r) => HoldsInstead(s, Held[s] \ Set!Indexes(r))
          /\ \A r \in KeptRanges :
                 Set!IntersectsRange(s, r) => HoldsInstead(s, Held[s] \cap Set!Indexes(r))]_mRanges

(* IntegerSet leaves open which range is meant; the operations do not.      *)
THEOREM OperationsExact == Set!Spec => RangesExact
<1> DEFINE Exact ==
              \A s \in Names :
                 /\ \A r \in Ranges :
                        /\ Set!AddRange(s, r) /\ ~ Set!Bridges(mRanges[s], r)
                               => HoldsInstead(s, Held[s] \cup Set!Indexes(r))
                        /\ Set!RemoveRange(s, r) => HoldsInstead(s, Held[s] \ Set!Indexes(r))
                 /\ \A r \in KeptRanges :
                        Set!IntersectsRange(s, r) => HoldsInstead(s, Held[s] \cap Set!Indexes(r))
<1>1. Set!Init => SetsInOrder
  BY OrderAtFirst
<1>2. SetsInOrder /\ [Set!Next]_mRanges => SetsInOrder'
  BY OrderKept
<1>3. SetsInOrder => Exact
  <2> SUFFICES ASSUME SetsInOrder, NEW s \in Names
               PROVE  /\ \A r \in Ranges :
                             /\ Set!AddRange(s, r) /\ ~ Set!Bridges(mRanges[s], r)
                                    => HoldsInstead(s, Held[s] \cup Set!Indexes(r))
                             /\ Set!RemoveRange(s, r) => HoldsInstead(s, Held[s] \ Set!Indexes(r))
                      /\ \A r \in KeptRanges :
                             Set!IntersectsRange(s, r) => HoldsInstead(s, Held[s] \cap Set!Indexes(r))
    OBVIOUS
  <2>1. \A r \in Ranges : /\ Set!AddRange(s, r) /\ ~ Set!Bridges(mRanges[s], r)
                                => HoldsInstead(s, Held[s] \cup Set!Indexes(r))
                          /\ Set!RemoveRange(s, r) => HoldsInstead(s, Held[s] \ Set!Indexes(r))
    BY RangeAdded, RangeTaken DEF HoldsInstead
  <2>2. \A r \in KeptRanges :
           Set!IntersectsRange(s, r) => HoldsInstead(s, Held[s] \cap Set!Indexes(r))
    BY RangeKept DEF HoldsInstead
  <2> QED BY <2>1, <2>2
<1> QED BY <1>1, <1>2, <1>3, PTL DEF Set!Spec, RangesExact

(* The operations do to what the objects hold what those of sets of         *)
(* integers do.                                                             *)
LEMMA StepsOfSets == SetsInOrder /\ [Set!UnbridgedNext]_mRanges => [Set!Sets!Next]_Held
<1> SUFFICES ASSUME SetsInOrder, Set!UnbridgedNext PROVE Set!Sets!Next
  <2>1. UNCHANGED mRanges => UNCHANGED Held
    BY DEF Held
  <2> QED BY <2>1
<1>1. \A s \in Names : mRanges[s] \in IndexSets /\ Held[s] = Set!Contents(mRanges[s])
  BY DEF SetsInOrder, Held
<1>2. ASSUME NEW s \in Names, NEW r \in Ranges, ~ Set!Bridges(mRanges[s], r), Set!AddRange(s, r)
      PROVE  Set!Sets!AddRange(s)
  <2>1. PICK left \in 0 .. MAX, right \in 0 .. MAX : Set!Indexes(r) = left .. right
    BY RangeHolds
  <2>2. Held' = [Held EXCEPT ![s] = Held[s] \cup left .. right]
    BY <1>2, <2>1, RangeAdded
  <2> QED BY <2>2, Zenon DEF Set!Sets!AddRange, Set!Sets!Becomes, Held
<1>3. ASSUME NEW s \in Names, NEW r \in Ranges, Set!RemoveRange(s, r)
      PROVE  Set!Sets!RemoveRange(s)
  <2>1. PICK left \in 0 .. MAX, right \in 0 .. MAX : Set!Indexes(r) = left .. right
    BY RangeHolds
  <2>2. Held' = [Held EXCEPT ![s] = Held[s] \ left .. right]
    BY <1>3, <2>1, RangeTaken
  <2> QED BY <2>2, Zenon DEF Set!Sets!RemoveRange, Set!Sets!Becomes, Held
<1>4. ASSUME NEW s \in Names, NEW r \in KeptRanges, Set!IntersectsRange(s, r)
      PROVE  Set!Sets!IntersectsRange(s)
  <2>1. PICK left \in 0 .. MAX, right \in 0 .. MAX : Set!Indexes(r) = left .. right
    BY RangeHolds
  <2>2. Held' = [Held EXCEPT ![s] = Held[s] \cap left .. right]
    BY <1>4, <2>1, RangeKept
  <2> QED BY <2>2, Zenon DEF Set!Sets!IntersectsRange, Set!Sets!Becomes, Held
<1>5. ASSUME NEW s \in Names, Set!RemoveAllIndexes(s) PROVE Set!Sets!RemoveAllIndexes(s)
  <2> DEFINE none == <<>>
  <2>1. Set!Contents(none) = {} /\ Set!Becomes(s, none)
    BY <1>5, OneRange DEF Set!RemoveAllIndexes
  <2> HIDE DEF none
  <2>2. Held' = [Held EXCEPT ![s] = {}]
    BY <2>1, HeldBecomes
  <2> QED BY <2>2 DEF Set!Sets!RemoveAllIndexes, Set!Sets!Becomes, Held
<1>6. ASSUME NEW s \in Names, NEW t \in Names, ~ Set!BridgesAny(mRanges[s], mRanges[t]), Set!AddIndexSet(s, t)
      PROVE  Set!Sets!AddIndexSet(s, t)
  <2>1. Set!Contents(Set!WithIndexSet(mRanges[s], mRanges[t])) = Held[s] \cup Held[t]
    BY <1>1, <1>6, WithIndexSetIs
  <2>2. Held' = [Held EXCEPT ![s] = Held[s] \cup Held[t]]
    BY <1>6, <2>1, HeldBecomes DEF Set!AddIndexSet
  <2> QED BY <2>2 DEF Set!Sets!AddIndexSet, Set!Sets!Becomes, Held
<1>7. ASSUME NEW s \in Names, NEW t \in Names, Set!RemoveIndexSet(s, t) PROVE Set!Sets!RemoveIndexSet(s, t)
  <2>1. Set!Contents(Set!WithoutIndexSet(mRanges[s], mRanges[t])) = Held[s] \ Held[t]
    BY <1>1, WithoutIndexSetIs
  <2>2. Held' = [Held EXCEPT ![s] = Held[s] \ Held[t]]
    BY <1>7, <2>1, HeldBecomes DEF Set!RemoveIndexSet
  <2> QED BY <2>2 DEF Set!Sets!RemoveIndexSet, Set!Sets!Becomes, Held
<1>8. ASSUME NEW s \in Names, NEW t \in Names, Set!IntersectsIndexSet(s, t)
      PROVE Set!Sets!IntersectsIndexSet(s, t)
  <2>1. Set!Contents(Set!KeepingIndexSet(mRanges[s], mRanges[t])) = Held[s] \cap Held[t]
    BY <1>1, KeepingIndexSetIs
  <2>2. Held' = [Held EXCEPT ![s] = Held[s] \cap Held[t]]
    BY <1>8, <2>1, HeldBecomes DEF Set!IntersectsIndexSet
  <2> QED BY <2>2 DEF Set!Sets!IntersectsIndexSet, Set!Sets!Becomes, Held
<1>9. PICK s \in Names :
        \/ \E r \in Ranges : (~ Set!Bridges(mRanges[s], r) /\ Set!AddRange(s, r)) \/ Set!RemoveRange(s, r)
        \/ \E r \in KeptRanges : Set!IntersectsRange(s, r)
        \/ Set!RemoveAllIndexes(s)
        \/ \E t \in Names : \/ ~ Set!BridgesAny(mRanges[s], mRanges[t]) /\ Set!AddIndexSet(s, t)
                            \/ Set!RemoveIndexSet(s, t) \/ Set!IntersectsIndexSet(s, t)
  BY DEF Set!UnbridgedNext
<1>10. \/ Set!Sets!AddRange(s) \/ Set!Sets!RemoveRange(s) \/ Set!Sets!IntersectsRange(s)
            \/ Set!Sets!RemoveAllIndexes(s)
       \/ \E t \in Names : Set!Sets!AddIndexSet(s, t) \/ Set!Sets!RemoveIndexSet(s, t)
            \/ Set!Sets!IntersectsIndexSet(s, t)
  BY <1>2, <1>3, <1>4, <1>5, <1>6, <1>7, <1>8, <1>9
<1> QED BY <1>10 DEF Set!Sets!Next

(* As long as no range is added that bridges two others, the objects hold     *)
(* the sets of integers that MCOIndexSet.h describes.                       *)
THEOREM IndexSetsAreSets == Set!Init /\ [][Set!UnbridgedNext]_mRanges => ImplementsIntegerSet
<1>1. Set!Init => SetsInOrder
  BY OrderAtFirst
<1>2. SetsInOrder /\ [Set!UnbridgedNext]_mRanges => SetsInOrder'
  <2>1. Set!UnbridgedNext => Set!Next
    BY DEF Set!UnbridgedNext, Set!Next
  <2> QED BY <2>1, OrderKept
<1>3. SetsInOrder /\ [Set!UnbridgedNext]_mRanges => [Set!Sets!Next]_Held
  BY StepsOfSets
<1>4. Set!Init => Set!Sets!Init
  <2> DEFINE none == <<>>
  <2>1. Set!Contents(none) = {}
    BY OneRange
  <2>2. Set!Init => mRanges = [s \in Names |-> none]
    BY DEF Set!Init
  <2> HIDE DEF none
  <2> QED BY <2>1, <2>2 DEF Set!Sets!Init
<1> QED BY <1>1, <1>2, <1>3, <1>4, PTL DEF ImplementsIntegerSet, Set!ImplementsIntegerSet, Set!Sets!Spec, Held
=============================================================================
