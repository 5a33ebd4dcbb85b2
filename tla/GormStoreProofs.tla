--------------------------- MODULE GormStoreProofs ---------------------------
(* The index rows agree with the resources, and queries and their pages are     *)
(* exact, for any keys, resources, index functions and numbers of concurrent     *)
(* calls and starting replicas.                                                   *)
EXTENDS GormStore, FiniteSetTheorems, SequenceTheorems, TLAPS

\* The tables and the calls that write them; queries change neither.
TablesOK ==
  /\ rows \in Table
  /\ indices \subseteq Keys \X IndexValues
  /\ write \in [Writers -> Writes \cup {New, Over}]
  /\ loaded \in [Starters -> {{}} \cup {{t} : t \in Table}]

IndexInv == TablesOK /\ IndexAgrees

\* The entries of a key are pairs of that key with index values.
LEMMA EntriesType ==
  ASSUME NEW t \in Table, NEW k \in Keys
  PROVE  Entries(t, k) \subseteq {k} \X IndexValues
BY StoreAssumption, Zenon DEF Entries, Table

\* Seen from key j, rebuilding the rows of all keys gives exactly the entries of j.
LEMMA RebuiltEntries ==
  ASSUME NEW t \in Table, NEW j \in Keys
  PROVE  {e \in UNION {Entries(t, k) : k \in Keys} : e[1] = j} = Entries(t, j)
<1>1. \A k \in Keys : \A e \in Entries(t, k) : e[1] = k
  BY EntriesType, Zenon DEF Entries
<1> QED
  BY <1>1, Zenon

LEMMA InitIndexInv ==
  ASSUME Init
  PROVE  IndexInv
<1>1. TablesOK
  BY EntriesType DEF Init, TablesOK
<1>2. IndexAgrees
  BY RebuiltEntries, Zenon DEF Init, IndexAgrees, EntriesOf
<1> QED
  BY <1>1, <1>2, Zenon DEF IndexInv

\* A call that has reached its transaction knows its key and resource.
LEMMA WriteArguments ==
  ASSUME TablesOK, NEW w \in Writers
  PROVE  /\ write[w].at \in {"count", "create", "get", "update"}
              => write[w].key \in Keys /\ write[w].to \in Resources
         /\ write[w].at = "delete" => write[w].key \in Keys
BY DEF TablesOK, Writes, New, Over

LEMMA StepIndexInv ==
  ASSUME IndexInv, Step
  PROVE  IndexInv'
<1> USE DEF IndexInv
<1>1. ASSUME NEW w \in Writers, BeginWrite(w) PROVE IndexInv'
  <2>1. TablesOK'
    BY <1>1 DEF BeginWrite, TablesOK, Writes
  <2> QED
    BY <1>1, <2>1, Zenon DEF BeginWrite, IndexAgrees, EntriesOf, Entries
<1>2. ASSUME NEW w \in Writers, AddCount(w) \/ UpdateGet(w) PROVE IndexInv'
  <2>1. TablesOK'
    BY <1>2, WriteArguments DEF AddCount, UpdateGet, At, Goto, Return, TablesOK, Writes
  <2> QED
    BY <1>2, <2>1, Zenon DEF AddCount, UpdateGet, IndexAgrees, EntriesOf, Entries
<1>3. ASSUME NEW w \in Writers, AddTx(w) PROVE IndexInv'
  <2> DEFINE k == write[w].key
             t == [rows EXCEPT ![k] = write[w].to]
  <2>1. k \in Keys /\ t \in Table
    BY <1>3, WriteArguments, Zenon DEF AddTx, At, TablesOK, Table
  <2>2. TablesOK'
    BY <1>3, <2>1, EntriesType DEF AddTx, AddEntries, Return, TablesOK
  <2>3. CASE UNCHANGED <<rows, indices>>
    BY <1>3, <2>2, <2>3, Zenon DEF AddTx, IndexAgrees, EntriesOf, Entries
  <2>4. CASE rows[k] = None /\ rows' = t /\ indices' = indices \cup Entries(t, k)
    <3> SUFFICES ASSUME NEW j \in Keys \ suspect
                 PROVE  EntriesOf(j)' = Entries(rows', j)
      BY <1>3, <2>2, Zenon DEF AddTx, IndexAgrees
    <3>1. EntriesOf(j) = Entries(rows, j)
      BY Zenon DEF IndexAgrees
    <3>2. \A e \in Entries(t, k) : e[1] = k
      BY <2>1, EntriesType, Zenon
    <3>3. CASE j = k
      BY <2>4, <3>1, <3>2, <3>3 DEF EntriesOf, Entries
    <3>4. CASE j # k
      <4>1. rows'[j] = rows[j]
        BY <2>1, <2>4, <3>4, Zenon DEF TablesOK, Table
      <4>2. EntriesOf(j)' = EntriesOf(j)
        BY <2>4, <3>2, <3>4, Zenon DEF EntriesOf
      <4> QED
        BY <3>1, <4>1, <4>2, Zenon DEF Entries
    <3> QED
      BY <3>3, <3>4, Zenon
  <2> QED
    BY <1>3, <2>3, <2>4, Zenon DEF AddTx, AddEntries
<1>4. ASSUME NEW w \in Writers, UpdateTx(w) PROVE IndexInv'
  <2> DEFINE k == write[w].key
             t == [rows EXCEPT ![k] = write[w].to]
  <2>1. k \in Keys /\ t \in Table
    BY <1>4, WriteArguments, Zenon DEF UpdateTx, At, TablesOK, Table
  <2>2. TablesOK'
    BY <1>4, <2>1, EntriesType DEF UpdateTx, ReplaceEntries, Return, TablesOK
  <2>3. CASE UNCHANGED <<rows, indices, suspect>>
    BY <2>2, <2>3, Zenon DEF IndexAgrees, EntriesOf, Entries
  <2>4. CASE rows' = t /\ indices' = (indices \ EntriesOf(k)) \cup Entries(t, k)
             /\ suspect' = suspect \ {k}
    <3> SUFFICES ASSUME NEW j \in Keys \ (suspect \ {k})
                 PROVE  EntriesOf(j)' = Entries(rows', j)
      BY <2>2, <2>4, Zenon DEF IndexAgrees
    <3>1. \A e \in Entries(t, k) : e[1] = k
      BY <2>1, EntriesType, Zenon
    <3>2. EntriesOf(j)' = IF j = k THEN Entries(t, k) ELSE EntriesOf(j)
      BY <2>4, <3>1, Zenon DEF EntriesOf
    <3>3. CASE j = k
      BY <2>4, <3>2, <3>3, Zenon
    <3>4. CASE j # k
      <4>1. rows'[j] = rows[j]
        BY <2>1, <2>4, <3>4, Zenon DEF TablesOK, Table
      <4> QED
        BY <3>2, <3>4, <4>1, Zenon DEF IndexAgrees, Entries
    <3> QED
      BY <3>3, <3>4, Zenon
  <2> QED
    BY <1>4, <2>3, <2>4, Zenon DEF UpdateTx, ReplaceEntries
<1>5. ASSUME NEW w \in Writers, DeleteTx(w) PROVE IndexInv'
  <2> DEFINE k == write[w].key
             t == [rows EXCEPT ![k] = None]
  <2>1. k \in Keys /\ t \in Table
    BY <1>5, WriteArguments, Zenon DEF DeleteTx, At, TablesOK, Table
  <2>2. TablesOK'
    BY <1>5, <2>1, Zenon DEF DeleteTx, DeleteEntries, Return, TablesOK
  <2>3. CASE UNCHANGED <<rows, indices, suspect>>
    BY <2>2, <2>3, Zenon DEF IndexAgrees, EntriesOf, Entries
  <2>4. CASE rows' = t /\ indices' = indices \ EntriesOf(k) /\ suspect' = suspect \ {k}
    <3> SUFFICES ASSUME NEW j \in Keys \ (suspect \ {k})
                 PROVE  EntriesOf(j)' = Entries(rows', j)
      BY <2>2, <2>4, Zenon DEF IndexAgrees
    <3>1. EntriesOf(j)' = IF j = k THEN {} ELSE EntriesOf(j)
      BY <2>4, Zenon DEF EntriesOf
    <3>2. CASE j = k
      BY <2>1, <2>4, <3>1, <3>2, Zenon DEF Entries, TablesOK, Table
    <3>3. CASE j # k
      <4>1. rows'[j] = rows[j]
        BY <2>1, <2>4, <3>3, Zenon DEF TablesOK, Table
      <4> QED
        BY <3>1, <3>3, <4>1, Zenon DEF IndexAgrees, Entries
    <3> QED
      BY <3>2, <3>3, Zenon
  <2> QED
    BY <1>5, <2>3, <2>4, Zenon DEF DeleteTx, DeleteEntries
<1>6. ASSUME NEW w \in Writers, WriteFails(w) PROVE IndexInv'
  BY <1>6, Zenon DEF WriteFails, Return, TablesOK, IndexAgrees, EntriesOf, Entries
<1>7. ASSUME NEW s \in Starters, LoadModels(s) PROVE IndexInv'
  BY <1>7, Zenon DEF LoadModels, TablesOK, IndexAgrees, EntriesOf, Entries
<1>8. ASSUME NEW s \in Starters, Rebuild(s) PROVE IndexInv'
  <2>1. PICK t \in loaded[s] :
          /\ indices' = UNION {Entries(t, k) : k \in Keys}
          /\ suspect' = {k \in Keys : t[k] # rows[k]}
          /\ loaded' = [loaded EXCEPT ![s] = {}]
          /\ UNCHANGED <<rows, write>>
    BY <1>8, Zenon DEF Rebuild
  <2>2. t \in Table
    BY <2>1 DEF TablesOK
  <2>3. TablesOK'
    BY <2>1, <2>2, EntriesType DEF TablesOK
  <2>4. ASSUME NEW j \in Keys, j \notin suspect' PROVE EntriesOf(j)' = Entries(rows', j)
    <3>1. EntriesOf(j)' = Entries(t, j)
      BY <2>1, <2>2, RebuiltEntries, Zenon DEF EntriesOf
    <3> QED
      BY <2>1, <2>4, <3>1, Zenon DEF Entries
  <2> QED
    BY <2>3, <2>4, Zenon DEF IndexAgrees
<1>9. ASSUME NEW s \in Starters, RebuildFails(s) PROVE IndexInv'
  BY <1>9, Zenon DEF RebuildFails, TablesOK, IndexAgrees, EntriesOf, Entries
<1>10. ASSUME NEW r \in Readers,
              BeginQuery(r) \/ Lookup(r) \/ Recheck(r) \/ Fetch(r) \/ QueryFails(r)
       PROVE  IndexInv'
  <2>1. UNCHANGED <<rows, indices, write, loaded, suspect>>
    BY <1>10, Zenon DEF BeginQuery, Lookup, Recheck, Fetch, QueryFails
  <2> QED
    BY <2>1, Zenon DEF TablesOK, IndexAgrees, EntriesOf, Entries
<1> QED
  BY <1>1, <1>2, <1>3, <1>4, <1>5, <1>6, <1>7, <1>8, <1>9, <1>10, Zenon DEF Step

\* The index rows of every key agree with its resource, however many calls and
\* backfills interleave, except for a key that a backfill has overtaken.
THEOREM IndexRowsAgree == Spec => []IndexAgrees
<1>1. Init => IndexInv
  BY InitIndexInv, Zenon
<1>2. IndexInv /\ [Next]_vars => IndexInv'
  <2>1. ASSUME IndexInv, UNCHANGED vars PROVE IndexInv'
    BY <2>1, Zenon DEF vars, IndexInv, TablesOK, IndexAgrees, EntriesOf, Entries
  <2> QED
    BY <2>1, StepIndexInv, Zenon DEF Next
<1>3. IndexInv => IndexAgrees
  BY Zenon DEF IndexInv
<1> QED
  BY <1>1, <1>2, <1>3, PTL DEF Spec
-----------------------------------------------------------------------------
(* Pages                                                                    *)

\* How many keys of S come before k.
Rank(S, k) == Cardinality({j \in S : j < k})

LEMMA RankIsSmall ==
  ASSUME NEW S \in SUBSET Nat, IsFiniteSet(S), NEW k \in S
  PROVE  Rank(S, k) \in 0 .. Cardinality(S) - 1
<1> DEFINE before == {j \in S : j < k}
<1>1. before \subseteq S \ {k} /\ IsFiniteSet(S \ {k}) /\ Cardinality(S \ {k}) = Cardinality(S) - 1
  BY FS_RemoveElement
<1>2. IsFiniteSet(before) /\ Cardinality(before) <= Cardinality(S \ {k})
  BY <1>1, FS_Subset, Zenon
<1>3. Cardinality(before) \in Nat /\ Cardinality(S) \in Nat
  BY <1>2, FS_CardinalityType, Zenon
<1> QED BY <1>1, <1>2, <1>3 DEF Rank

\* Ranks follow the order of the keys.
LEMMA RankIsMonotone ==
  ASSUME NEW S \in SUBSET Nat, IsFiniteSet(S), NEW k \in S, NEW l \in S, k < l
  PROVE  Rank(S, k) < Rank(S, l)
<1> DEFINE low == {j \in S : j < k}
           high == {j \in S : j < l}
<1>1. IsFiniteSet(low) /\ IsFiniteSet(high)
  BY FS_Subset, Zenon
<1>2. low \cup {k} \subseteq high /\ k \notin low
  <2>1. ~(k < k) /\ \A j \in S : j < k => j < l
    OBVIOUS
  <2> QED BY <2>1, Zenon
<1>3. IsFiniteSet(low \cup {k}) /\ Cardinality(low \cup {k}) = Cardinality(low) + 1
  BY <1>1, <1>2, FS_AddElement, Zenon
<1>4. Cardinality(low \cup {k}) <= Cardinality(high)
  BY <1>1, <1>2, FS_Subset, Zenon
<1>5. Cardinality(low) \in Nat /\ Cardinality(high) \in Nat
  BY <1>1, FS_CardinalityType, Zenon
<1> QED BY <1>3, <1>4, <1>5 DEF Rank

\* A finite set of keys can be sorted, and key i of the result has i - 1 keys
\* before it.
LEMMA SortedKeys ==
  ASSUME NEW S \in SUBSET Nat, IsFiniteSet(S)
  PROVE  /\ Cardinality(S) \in Nat
         /\ Sorted(S) \in [1 .. Cardinality(S) -> S]
         /\ \A i \in 1 .. Cardinality(S) : Rank(S, Sorted(S)[i]) = i - 1
         /\ \A k \in S : \E i \in 1 .. Cardinality(S) : Sorted(S)[i] = k
<1> DEFINE n == Cardinality(S)
           rank == [k \in S |-> Rank(S, k) + 1]
<1>1. n \in Nat /\ IsFiniteSet(1 .. n) /\ Cardinality(1 .. n) = n
  BY FS_CardinalityType, FS_Interval
<1>2. \A k \in S : Rank(S, k) \in 0 .. n - 1
  BY RankIsSmall, Zenon
<1>3. \A k, l \in S : k < l => Rank(S, k) < Rank(S, l)
  BY RankIsMonotone, Zenon
<1>4. \A k, l \in S : Rank(S, k) = Rank(S, l) => k = l
  <2> SUFFICES ASSUME NEW k \in S, NEW l \in S, k # l PROVE Rank(S, k) # Rank(S, l)
    BY Zenon
  <2>1. k < l \/ l < k
    OBVIOUS
  <2>2. Rank(S, k) \in Nat /\ Rank(S, l) \in Nat
    BY <1>1, <1>2
  <2> QED BY <1>3, <2>1, <2>2
<1>5. rank \in Surjection(S, 1 .. n)
  <2>1. rank \in [S -> 1 .. n]
    BY <1>1, <1>2
  <2>2. rank \in Injection(S, 1 .. n)
    BY <1>1, <1>2, <1>4, <2>1, SMTT(60) DEF Injection, IsInjective
  <2> QED BY <1>1, <2>2, FS_Injection, Zenon
<1>6. \A i \in 1 .. n : \E k \in S : Rank(S, k) + 1 = i
  BY <1>5, Zenon DEF Surjection
<1> HIDE DEF n, rank
<1> DEFINE at(i) == CHOOSE k \in S : Rank(S, k) + 1 = i
           f == [i \in 1 .. n |-> at(i)]
<1>7. \A i \in 1 .. n : at(i) \in S /\ Rank(S, at(i)) + 1 = i
  BY <1>6, Zenon
<1> HIDE DEF at
<1>8. f \in [1 .. n -> S] /\ \A i \in 1 .. n : Rank(S, f[i]) + 1 = i
  BY <1>7, Zenon
<1> HIDE DEF f
<1>9. \A i, j \in 1 .. n : i < j => f[i] < f[j]
  <2> SUFFICES ASSUME NEW i \in 1 .. n, NEW j \in 1 .. n, i < j PROVE f[i] < f[j]
    BY Zenon
  <2>1. f[i] \in S /\ f[j] \in S /\ Rank(S, f[i]) \in 0 .. n - 1 /\ Rank(S, f[j]) \in 0 .. n - 1
    BY <1>2, <1>8, Zenon
  <2>2. Rank(S, f[i]) + 1 = i /\ Rank(S, f[j]) + 1 = j
    BY <1>8, Zenon
  <2>3. Rank(S, f[i]) < Rank(S, f[j])
    BY <1>1, <2>1, <2>2
  <2>4. f[i] # f[j] /\ ~(Rank(S, f[j]) < Rank(S, f[i]))
    BY <1>1, <2>1, <2>3
  <2>5. ~(f[j] < f[i])
    BY <1>3, <2>1, <2>4, Zenon
  <2>6. f[i] \in Nat /\ f[j] \in Nat
    BY <2>1, Zenon
  <2> QED BY <2>4, <2>5, <2>6
<1>10. f \in Bijection(1 .. n, S)
  <2>1. \A i, j \in 1 .. n : f[i] = f[j] => i = j
    <3> SUFFICES ASSUME NEW i \in 1 .. n, NEW j \in 1 .. n, f[i] = f[j] PROVE i = j
      BY Zenon
    <3>1. Rank(S, f[i]) + 1 = i /\ Rank(S, f[j]) + 1 = j
      BY <1>8, Zenon
    <3> QED BY <3>1, Zenon
  <2>2. f \in Injection(1 .. n, S)
    BY <1>8, <2>1, Zenon DEF Injection, IsInjective
  <2> QED BY <1>1, <2>2, FS_Injection, Zenon DEF Bijection, n
<1> DEFINE s == Sorted(S)
<1>11. s \in Bijection(1 .. n, S) /\ \A i, j \in DOMAIN s : i < j => s[i] < s[j]
  <2>1. DOMAIN f = 1 .. n
    BY <1>8, Zenon
  <2> QED BY <1>9, <1>10, <2>1, Zenon DEF Sorted, n
<1> HIDE DEF s
<1>12. s \in [1 .. n -> S] /\ \A i, j \in 1 .. n : s[i] = s[j] => i = j
  BY <1>11, Zenon DEF Bijection, Injection, IsInjective
<1>13. \A k \in S : \E i \in 1 .. n : s[i] = k
  BY <1>11, Zenon DEF Bijection, Surjection
<1>14. ASSUME NEW i \in 1 .. n PROVE Rank(S, s[i]) = i - 1
  <2> DEFINE low == {j \in S : j < s[i]}
             head == [m \in 1 .. i - 1 |-> s[m]]
  <2>1. \A m \in 1 .. n : s[m] < s[i] <=> m < i
    <3> SUFFICES ASSUME NEW m \in 1 .. n PROVE s[m] < s[i] <=> m < i
      BY Zenon
    <3>1. s[m] \in Nat /\ s[i] \in Nat
      BY <1>12, Zenon
    <3>2. m < i => s[m] < s[i]
      BY <1>11, <1>12, Zenon
    <3>3. i < m => s[i] < s[m]
      BY <1>11, <1>12, Zenon
    <3>4. m < i \/ m = i \/ i < m
      BY <1>1
    <3> QED BY <3>1, <3>2, <3>3, <3>4
  <2>2. head \in [1 .. i - 1 -> low]
    BY <1>1, <1>12, <2>1
  <2>3. \A k \in low : \E m \in 1 .. i - 1 : head[m] = k
    <3> SUFFICES ASSUME NEW k \in S, k < s[i] PROVE \E m \in 1 .. i - 1 : head[m] = k
      BY Zenon
    <3>1. PICK m \in 1 .. n : s[m] = k
      BY <1>13, Zenon
    <3>2. m \in 1 .. i - 1
      BY <1>1, <2>1, <3>1
    <3> QED BY <3>1, <3>2, Zenon
  <2>4. \A a, b \in 1 .. i - 1 : head[a] = head[b] => a = b
    BY <1>1, <1>12
  <2>5. head \in Bijection(1 .. i - 1, low)
    BY <2>2, <2>3, <2>4, Zenon DEF Bijection, Injection, IsInjective, Surjection
  <2>6. IsFiniteSet(1 .. i - 1) /\ Cardinality(1 .. i - 1) = i - 1
    BY <1>1, FS_Interval
  <2>7. Cardinality(low) = i - 1
    <3> HIDE DEF head, low
    <3> QED BY <2>5, <2>6, FS_Bijection DEF ExistsBijection
  <2> QED BY <2>7, Zenon DEF Rank
<1> QED BY <1>1, <1>12, <1>13, <1>14, Zenon DEF n, s

\* keys[offset:end] are the keys whose rank falls on the page.
LEMMA PageByRank ==
  ASSUME NEW S \in SUBSET Nat, IsFiniteSet(S), NEW p \in [offset : Nat, size : Nat]
  PROVE  Page(S, p) = {k \in S : Rank(S, k) \in p.offset .. p.offset + p.size - 1}
<1> DEFINE s == Sorted(S)
           n == Cardinality(S)
           o == p.offset
           e == Min({p.offset + p.size, Len(s)})
<1>1. /\ n \in Nat /\ s \in [1 .. n -> S]
      /\ \A i \in 1 .. n : Rank(S, s[i]) = i - 1
      /\ \A k \in S : \E i \in 1 .. n : s[i] = k
  BY SortedKeys, Zenon
<1> HIDE DEF s, n
<1>2. s \in Seq(S) /\ Len(s) = n
  BY <1>1, SeqDef, LenProperties
<1>3. o \in Nat /\ p.size \in Nat
  BY Zenon
<1>4. e \in Nat /\ e <= n /\ e <= o + p.size /\ (e = n \/ e = o + p.size)
  <2> DEFINE a == p.offset + p.size
  <2>1. a \in Nat /\ n \in Nat /\ a = o + p.size
    BY <1>1, <1>3
  <2> HIDE DEF a, o
  <2>2. \E x \in {a, n} : \A y \in {a, n} : x <= y
    BY <2>1
  <2>3. Min({a, n}) \in {a, n} /\ \A y \in {a, n} : Min({a, n}) <= y
    BY <2>2, Zenon DEF Min
  <2>4. e = Min({a, n})
    BY <1>2, Zenon DEF a
  <2> HIDE DEF e
  <2> QED BY <2>1, <2>3, <2>4, Zenon
<1> HIDE DEF e, o
<1>5. CASE o >= n
  <2>1. Page(S, p) = {}
    BY <1>2, <1>5, Zenon DEF Page, s, o
  <2>2. \A k \in S : Rank(S, k) < o
    BY <1>1, <1>3, <1>5
  <2>3. \A k \in S : Rank(S, k) \notin o .. o + p.size - 1
    BY <1>1, <1>3, <2>2
  <2> QED BY <2>1, <2>3, Zenon DEF o
<1>6. CASE o < n
  <2> DEFINE t == SubSeq(s, o + 1, e)
  <2>1. Page(S, p) = Range(t)
    BY <1>1, <1>2, <1>3, <1>6 DEF Page, s, o, e
  <2>2. /\ DOMAIN t = 1 .. e - o
        /\ \A i \in 1 .. e - o : t[i] = s[o + i]
    BY <1>1, <1>2, <1>3, <1>4, SubSeqProperties
  <2> HIDE DEF t
  <2>3. ASSUME NEW k \in Range(t)
        PROVE  k \in S /\ Rank(S, k) \in o .. o + p.size - 1
    <3>1. PICK i \in 1 .. e - o : k = s[o + i]
      BY <2>2, Zenon DEF Range
    <3>2. PICK m \in 1 .. n : m = o + i
      BY <1>1, <1>3, <1>4
    <3>3. k = s[m] /\ s[m] \in S /\ Rank(S, s[m]) = m - 1
      BY <1>1, <3>1, <3>2, Zenon
    <3>4. m - 1 \in o .. o + p.size - 1
      BY <1>1, <1>3, <1>4, <3>2
    <3> QED BY <3>3, <3>4, Zenon
  <2>4. ASSUME NEW k \in S, Rank(S, k) \in o .. o + p.size - 1
        PROVE  k \in Range(t)
    <3>1. PICK i \in 1 .. n : s[i] = k /\ Rank(S, k) = i - 1
      BY <1>1, Zenon
    <3>2. i - o \in 1 .. e - o /\ t[i - o] = s[i]
      <4>1. i - o \in 1 .. e - o
        BY <1>1, <1>3, <1>4, <2>4, <3>1, SMTT(60)
      <4>2. o + (i - o) = i
        BY <1>3
      <4> QED BY <2>2, <4>1, <4>2, Zenon
    <3> QED BY <2>2, <3>1, <3>2, Zenon DEF Range
  <2> QED BY <2>1, <2>3, <2>4, Zenon DEF o
<1> QED BY <1>1, <1>3, <1>5, <1>6
-----------------------------------------------------------------------------
(* Queries                                                                  *)

QueriesOK ==
  /\ query \in [Readers -> Queries \cup {New, Over}]
  /\ lasting \in [Readers -> SUBSET Keys]
  /\ seen \in [Readers -> [Condition -> SUBSET Keys]]
  /\ suspect \subseteq Keys

\* The conditions left are some of the request's, and none when the keys are
\* fetched.
PlaceOf(r) ==
  /\ query[r].at \in {"lookup", "recheck"} =>
       /\ query[r].request # <<>> /\ query[r].todo # <<>>
       /\ Range(query[r].todo) \subseteq Range(query[r].request)
  /\ query[r].at \in {"fetch", "done"} /\ query[r].request # <<>> => query[r].todo = <<>>

\* The histories of a running query speak of the present state.
HistoryOf(r) ==
  Running(r) =>
    /\ \A k \in lasting[r] : k \notin suspect /\ \A c \in Range(query[r].request) : Matches(c, k)
    /\ \A c \in Range(query[r].request) :
         suspect \subseteq seen[r][c] /\ \A k \in Keys : Matches(c, k) => k \in seen[r][c]

\* The keys found are among those seen for every condition looked up, and keep
\* every lasting key.
FoundOf(r) ==
  query[r].at \in {"lookup", "recheck", "fetch", "done"} /\ query[r].request # <<>> =>
    /\ lasting[r] \subseteq query[r].keys
    /\ \A c \in Range(query[r].request) :
         c \in Range(query[r].todo) \/ query[r].keys \subseteq seen[r][c]
    /\ query[r].at = "recheck" =>
         /\ lasting[r] \subseteq query[r].candidates
         /\ query[r].candidates \subseteq seen[r][Head(query[r].todo)]

\* The keys a query is asked for, of those it has found.
Picked(q) == (UNION {Page(q.keys, p) : p \in q.page}) \cup {k \in q.keys : q.page = {}}

ResultOf(r) ==
  Answered(r) => /\ query[r].result \subseteq Picked(query[r])
                 /\ lasting[r] \cap Picked(query[r]) \subseteq query[r].result

QueryInv ==
  /\ QueriesOK
  /\ \A r \in Readers : PlaceOf(r) /\ HistoryOf(r) /\ FoundOf(r) /\ ResultOf(r)

\* A page holds keys of the ones found.
LEMMA PickedKeys ==
  ASSUME NEW q \in Queries
  PROVE  Picked(q) \subseteq q.keys /\ (q.page = {} => Picked(q) = q.keys)
<1>1. q.keys \in SUBSET Nat /\ IsFiniteSet(q.keys) /\ q.page \subseteq [offset : Nat, size : Nat]
  <2>1. q.keys \subseteq Keys /\ q.page \subseteq Pages
    BY Zenon DEF Queries
  <2> QED BY <2>1, StoreAssumption, FS_Subset, Zenon
<1>2. \A p \in q.page : Page(q.keys, p) \subseteq q.keys
  BY <1>1, PageByRank, Zenon
<1> DEFINE paged == UNION {Page(q.keys, p) : p \in q.page}
<1>3. paged \subseteq q.keys /\ (q.page = {} => paged = {})
  BY <1>2, Zenon
<1>4. Picked(q) = paged \cup {k \in q.keys : q.page = {}}
  BY Zenon DEF Picked
<1> HIDE DEF paged
<1> QED BY <1>3, <1>4, Zenon

\* The first condition and the others.
LEMMA FirstCondition ==
  ASSUME NEW s \in Seq(Condition), s # <<>>
  PROVE  /\ Head(s) \in Condition /\ Head(s) \in Range(s) /\ Tail(s) \in Seq(Condition)
         /\ Range(s) = {Head(s)} \cup Range(Tail(s))
         /\ Len(s) = 1 <=> Tail(s) = <<>>
<1>1. /\ Len(s) \in Nat \ {0} /\ DOMAIN s = 1 .. Len(s) /\ Head(s) = s[1] /\ Head(s) \in Condition
      /\ Tail(s) \in Seq(Condition) /\ Len(Tail(s)) = Len(s) - 1
      /\ DOMAIN Tail(s) = 1 .. Len(s) - 1
      /\ \A i \in 1 .. Len(s) - 1 : Tail(s)[i] = s[i + 1]
  BY HeadTailProperties, LenProperties, EmptySeq
<1>2. Range(s) \subseteq {Head(s)} \cup Range(Tail(s))
  <2> SUFFICES ASSUME NEW i \in 1 .. Len(s), i # 1 PROVE s[i] \in Range(Tail(s))
    BY <1>1 DEF Range
  <2>1. i - 1 \in 1 .. Len(s) - 1 /\ Tail(s)[i - 1] = s[i]
    BY <1>1
  <2> QED BY <1>1, <2>1, Zenon DEF Range
<1>3. {Head(s)} \cup Range(Tail(s)) \subseteq Range(s)
  <2>1. 1 \in DOMAIN s
    BY <1>1
  <2>2. ASSUME NEW i \in 1 .. Len(s) - 1 PROVE Tail(s)[i] \in Range(s)
    <3>1. i + 1 \in DOMAIN s
      BY <1>1
    <3> QED BY <1>1, <3>1, Zenon DEF Range
  <2> QED BY <1>1, <2>1, <2>2, Zenon DEF Range
<1>4. Len(s) = 1 <=> Tail(s) = <<>>
  <2>1. \A t \in Seq(Condition) : t = <<>> <=> Len(t) = 0
    BY EmptySeq, Zenon
  <2>2. Tail(s) = <<>> <=> Len(s) - 1 = 0
    BY <1>1, <2>1, Zenon
  <2> QED BY <1>1, <2>2
<1> QED BY <1>1, <1>2, <1>3, <1>4, Zenon

\* An index row stands for a resource that matches, or for a suspect key.
LEMMA IndexedKeys ==
  ASSUME IndexInv, NEW c \in Condition, NEW k \in Keys
  PROVE  /\ k \in Indexed(c) => k \in suspect \/ Matches(c, k)
         /\ Matches(c, k) => k \in suspect \/ k \in Indexed(c)
<1> SUFFICES ASSUME k \notin suspect PROVE k \in Indexed(c) <=> Matches(c, k)
  BY Zenon
<1>1. EntriesOf(k) = Entries(rows, k)
  BY Zenon DEF IndexInv, IndexAgrees
<1>2. \A v : <<k, v>> \in indices <=> <<k, v>> \in Entries(rows, k)
  BY <1>1, Zenon DEF EntriesOf
<1>3. \A v : <<k, v>> \in Entries(rows, k) <=> rows[k] # None /\ v \in IndexFuncs[rows[k]]
  BY Zenon DEF Entries
<1> QED BY <1>2, <1>3, Zenon DEF Indexed, Matches

\* What the histories keep of a query that goes on, and of one that has ended.
LEMMA ObserveQuery ==
  ASSUME QueriesOK, QueriesOK', Observe, NEW r \in Readers
  PROVE  /\ HistoryOf(r)'
         /\ ~Running(r)' => lasting'[r] = lasting[r] /\ seen'[r] = seen[r]
         /\ Running(r) /\ Running(r)' /\ query'[r].request = query[r].request =>
              /\ lasting'[r] \subseteq lasting[r]
              /\ \A c \in Range(query[r].request) : seen[r][c] \subseteq seen'[r][c]
<1>1. ~Running(r)' => lasting'[r] = lasting[r]
  BY Zenon DEF Observe
<1>2. ~Running(r)' => seen'[r] = seen[r]
  <2> SUFFICES ASSUME ~Running(r)' PROVE seen'[r] = seen[r]
    BY Zenon
  <2>1. seen'[r] = [c \in Condition |-> seen[r][c]]
    BY Zenon DEF Observe
  <2> QED BY <2>1, Zenon DEF QueriesOK
<1>3. ASSUME Running(r)'
      PROVE  /\ lasting'[r] = {k \in (IF ~Running(r) THEN Keys ELSE lasting[r]) \ suspect' :
                                 \A c \in Range(query'[r].request) : Matches(c, k)'}
             /\ \A c \in Condition : c \in Range(query'[r].request) =>
                  seen'[r][c] = (IF ~Running(r) THEN {} ELSE seen[r][c]) \cup suspect'
                                  \cup {k \in Keys : Matches(c, k)'}
  BY <1>3, Zenon DEF Observe
<1>4. Running(r)' => Range(query'[r].request) \subseteq Condition
  <2> SUFFICES ASSUME Running(r)' PROVE Range(query'[r].request) \subseteq Condition
    BY Zenon
  <2>1. query'[r] \in Queries
    BY DEF QueriesOK, Running, New, Over
  <2>2. query'[r].request \in Seq(Condition)
    BY <2>1, StoreAssumption, Zenon DEF Queries
  <2> QED BY <2>2, LenProperties, ElementOfSeq DEF Range
<1>5. HistoryOf(r)'
  <2> SUFFICES ASSUME Running(r)'
               PROVE  /\ \A k \in lasting'[r] : k \notin suspect' /\ \A c \in Range(query'[r].request) : Matches(c, k)'
                      /\ \A c \in Range(query'[r].request) :
                           suspect' \subseteq seen'[r][c] /\ \A k \in Keys : Matches(c, k)' => k \in seen'[r][c]
    BY Zenon DEF HistoryOf
  <2> QED BY <1>3, <1>4, Zenon
<1>6. ASSUME Running(r), Running(r)', query'[r].request = query[r].request
      PROVE  /\ lasting'[r] \subseteq lasting[r]
             /\ \A c \in Range(query[r].request) : seen[r][c] \subseteq seen'[r][c]
  BY <1>3, <1>4, <1>6, Zenon
<1> QED BY <1>1, <1>2, <1>5, <1>6, Zenon
\* The step of a reader: its query begins, goes on or ends.
LEMMA NextOfCondition ==
  ASSUME QueriesOK, NEW r \in Readers, query[r] \in Queries, query[r].todo # <<>>, NEW S \in SUBSET Keys,
         NextCondition(r, S)
  PROVE  /\ query'[r] = [at |-> IF Tail(query[r].todo) = <<>> THEN "fetch" ELSE "lookup",
                         request |-> query[r].request, todo |-> Tail(query[r].todo),
                         keys |-> query[r].keys \cap S, candidates |-> {}, page |-> query[r].page,
                         result |-> query[r].result]
         /\ query'[r] \in Queries
         /\ \A x \in Readers \ {r} : query'[x] = query[x]
         /\ query' \in [Readers -> Queries \cup {New, Over}]
<1> DEFINE q == query[r]
           at == IF Len(q.todo) = 1 THEN "fetch" ELSE "lookup"
<1>1. /\ query' = [query EXCEPT ![r] = [q EXCEPT !.keys = q.keys \cap S, !.todo = Tail(q.todo),
                                                 !.candidates = {}, !.at = at]]
  BY Zenon DEF QueriesOK, Queries, NextCondition, Combine
<1>2. q.todo \in Seq(Condition)
  BY Zenon DEF Queries
<1>3. Tail(q.todo) \in Seq(Condition) /\ (Len(q.todo) = 1 <=> Tail(q.todo) = <<>>)
  BY <1>2, FirstCondition, Zenon
<1>4. query'[r] = [at |-> at, request |-> q.request, todo |-> Tail(q.todo), keys |-> q.keys \cap S,
                   candidates |-> {}, page |-> q.page, result |-> q.result]
  BY <1>1, Zenon DEF QueriesOK, Queries
<1>5. query'[r] \in Queries
  BY <1>3, <1>4 DEF Queries
<1>6. /\ \A x \in Readers \ {r} : query'[x] = query[x]
      /\ query' \in [Readers -> Queries \cup {New, Over}]
  BY <1>1, <1>5, Zenon DEF QueriesOK
<1> QED BY <1>3, <1>4, <1>5, <1>6, Zenon

LEMMA ReaderTypes ==
  ASSUME QueriesOK, \A r \in Readers : PlaceOf(r), NEW r \in Readers,
         BeginQuery(r) \/ Lookup(r) \/ Recheck(r) \/ Fetch(r) \/ QueryFails(r)
  PROVE  /\ query' \in [Readers -> Queries \cup {New, Over}]
         /\ \A x \in Readers \ {r} : query'[x] = query[x]
         /\ UNCHANGED <<rows, indices, write, loaded, suspect>>
<1>1. UNCHANGED <<rows, indices, write, loaded, suspect>>
  BY Zenon DEF BeginQuery, Lookup, Recheck, Fetch, QueryFails
<1>2. query[r].at \in {"lookup", "recheck", "fetch"} => query[r] \in Queries
  BY DEF QueriesOK, New, Over
<1>3. query[r].at \in {"lookup", "recheck"} => query[r].todo \in Seq(Condition) /\ query[r].todo # <<>>
  BY <1>2, Zenon DEF PlaceOf, Queries
<1>4. CASE BeginQuery(r)
  <2>1. PICK q \in Requests, p \in {{}} \cup {{page} : page \in Pages} :
          query' = [query EXCEPT ![r] =
            [at |-> IF q = <<>> THEN "fetch" ELSE "lookup", request |-> q, todo |-> q,
             keys |-> IF q = <<>> THEN {} ELSE Keys, candidates |-> {}, page |-> p,
             result |-> {}]]
    BY <1>4, Zenon DEF BeginQuery
  <2>2. q \in Seq(Condition) /\ p \subseteq Pages
    BY StoreAssumption, Zenon
  <2>3. query'[r] \in Queries
    BY <2>1, <2>2, Zenon DEF Queries, QueriesOK
  <2> QED BY <1>1, <2>1, <2>3, Zenon DEF QueriesOK
<1>5. CASE Lookup(r)
  <2>1. Head(query[r].todo) \in Condition
    BY <1>3, <1>5, FirstCondition, Zenon DEF Lookup, Asking
  <2>2. Indexed(Head(query[r].todo)) \in SUBSET Keys
    BY Zenon DEF Indexed
  <2>3. CASE NextCondition(r, Indexed(Head(query[r].todo)))
    BY <1>1, <1>2, <1>3, <1>5, <2>2, <2>3, NextOfCondition, Zenon DEF Lookup, Asking
  <2>4. CASE query' = [query EXCEPT ![r].at = "recheck", ![r].candidates = Indexed(Head(query[r].todo))]
    <3>1. query[r] \in Queries
      BY <1>2, <1>5, Zenon DEF Lookup, Asking
    <3>2. query'[r] \in Queries
      BY <2>2, <2>4, <3>1, Zenon DEF Queries, QueriesOK
    <3> QED BY <1>1, <2>4, <3>2, Zenon DEF QueriesOK
  <2> QED BY <1>5, <2>3, <2>4, Zenon DEF Lookup
<1>6. CASE Recheck(r)
  <2>1. Present(query[r].candidates) \in SUBSET Keys
    BY <1>2, <1>6, Zenon DEF Present, Queries, Recheck, Asking
  <2> QED BY <1>1, <1>2, <1>3, <1>6, <2>1, NextOfCondition, Zenon DEF Recheck, Asking
<1>7. CASE Fetch(r)
  <2>1. query[r] \in Queries
    BY <1>2, <1>7, Zenon DEF Fetch, Asking
  <2>2. query' = [query EXCEPT ![r].at = "done", ![r].result = Present(Picked(query[r]))]
    BY <1>7, Zenon DEF Fetch, Picked
  <2>3. Present(Picked(query[r])) \subseteq Keys
    BY <2>1, PickedKeys, Zenon DEF Present, Queries
  <2>4. query'[r] \in Queries
    BY <2>1, <2>2, <2>3, Zenon DEF Queries, QueriesOK
  <2> QED BY <1>1, <2>2, <2>4, Zenon DEF QueriesOK
<1>8. CASE QueryFails(r)
  BY <1>1, <1>8, Zenon DEF QueryFails, QueriesOK
<1> QED BY <1>4, <1>5, <1>6, <1>7, <1>8, Zenon

LEMMA StepQueriesOK ==
  ASSUME IndexInv, QueriesOK, \A r \in Readers : PlaceOf(r), Next
  PROVE  QueriesOK'
<1>1. query' \in [Readers -> Queries \cup {New, Over}]
  <2>1. CASE UNCHANGED query
    BY <2>1, Zenon DEF QueriesOK
  <2>2. CASE \E r \in Readers : BeginQuery(r) \/ Lookup(r) \/ Recheck(r) \/ Fetch(r) \/ QueryFails(r)
    BY <2>2, ReaderTypes, Zenon
  <2> QED BY <2>1, <2>2, Zenon DEF Next, Step, BeginWrite, AddCount, UpdateGet, AddTx, UpdateTx, DeleteTx,
                            WriteFails, LoadModels, Rebuild, RebuildFails
<1>2. suspect' \subseteq Keys
  BY Zenon DEF QueriesOK, Next, Step, BeginWrite, AddCount, UpdateGet, AddTx, UpdateTx, DeleteTx,
         WriteFails, LoadModels, Rebuild, RebuildFails, BeginQuery, Lookup, Recheck, Fetch, QueryFails
<1>3. lasting' \in [Readers -> SUBSET Keys]
  BY Zenon DEF QueriesOK, Next, Observe
<1>4. seen' \in [Readers -> [Condition -> SUBSET Keys]]
  BY <1>2 DEF QueriesOK, Next, Observe
<1> QED BY <1>1, <1>2, <1>3, <1>4, Zenon DEF QueriesOK
\* A query that another call's step leaves alone.
LEMMA OtherReader ==
  ASSUME IndexInv, QueryInv, Next, QueriesOK', NEW r \in Readers, query'[r] = query[r]
  PROVE  PlaceOf(r)' /\ FoundOf(r)' /\ ResultOf(r)'
<1>1. PlaceOf(r)'
  BY Zenon DEF QueryInv, PlaceOf
<1>2. /\ ~Running(r)' => lasting'[r] = lasting[r] /\ seen'[r] = seen[r]
      /\ Running(r) /\ Running(r)' =>
           /\ lasting'[r] \subseteq lasting[r]
           /\ \A c \in Range(query[r].request) : seen[r][c] \subseteq seen'[r][c]
  BY ObserveQuery, Zenon DEF QueryInv, Next
<1>3. Running(r)' <=> Running(r)
  BY SMTT(60) DEF Running
<1>4. FoundOf(r)'
  <2> SUFFICES ASSUME query[r].at \in {"lookup", "recheck", "fetch", "done"}, query[r].request # <<>>
               PROVE  /\ lasting'[r] \subseteq query[r].keys
                      /\ \A c \in Range(query[r].request) :
                           c \in Range(query[r].todo) \/ query[r].keys \subseteq seen'[r][c]
                      /\ query[r].at = "recheck" =>
                           /\ lasting'[r] \subseteq query[r].candidates
                           /\ query[r].candidates \subseteq seen'[r][Head(query[r].todo)]
    BY Zenon DEF FoundOf
  <2>1. FoundOf(r) /\ PlaceOf(r) /\ (query[r].at = "recheck" => query[r] \in Queries)
    BY DEF QueryInv, QueriesOK, New, Over
  <2>2. query[r].at = "recheck" => Head(query[r].todo) \in Range(query[r].request)
    BY <2>1, FirstCondition, SMTT(60) DEF PlaceOf, Queries
  <2>3. CASE Running(r)
    BY <1>2, <1>3, <2>1, <2>2, <2>3, Zenon DEF FoundOf
  <2>4. CASE ~Running(r)
    BY <1>2, <1>3, <2>1, <2>4, Zenon DEF FoundOf
  <2> QED BY <2>3, <2>4, Zenon
<1>5. ResultOf(r)'
  <2> SUFFICES ASSUME query[r].at = "done", query[r].request # <<>>
               PROVE  /\ query[r].result \subseteq Picked(query[r])
                      /\ lasting'[r] \cap Picked(query[r]) \subseteq query[r].result
    BY Zenon DEF ResultOf, Answered
  <2>1. ~Running(r)' /\ ResultOf(r)
    BY Zenon DEF Running, QueryInv
  <2> QED BY <1>2, <2>1, Zenon DEF ResultOf, Answered
<1> QED BY <1>1, <1>4, <1>5, Zenon

\* The conditions of a request are conditions.
LEMMA RequestConditions ==
  ASSUME NEW q \in Queries
  PROVE  q.request \in Seq(Condition) /\ Range(q.request) \subseteq Condition
<1>1. q.request \in Seq(Condition)
  BY StoreAssumption, Zenon DEF Queries
<1>2. \A i \in DOMAIN q.request : q.request[i] \in Condition
  BY <1>1, ElementOfSeq, LenProperties, Zenon
<1> QED BY <1>1, <1>2, Zenon DEF Range

\* The keys of one condition keep the lasting ones and hold only seen ones.
LEMMA ConditionDone ==
  ASSUME IndexInv, QueryInv, Next, QueriesOK', NEW r \in Readers,
         query[r].at \in {"lookup", "recheck"}, NEW S \in SUBSET Keys,
         lasting[r] \subseteq S, S \subseteq seen[r][Head(query[r].todo)], NextCondition(r, S)
  PROVE  PlaceOf(r)' /\ FoundOf(r)' /\ ResultOf(r)'
<1> DEFINE q == query[r]
           t == query'[r]
<1>1. q \in Queries /\ q.todo # <<>> /\ q.request # <<>> /\ Range(q.todo) \subseteq Range(q.request)
  <2>1. QueriesOK /\ PlaceOf(r)
    BY Zenon DEF QueryInv
  <2>2. q \in Queries
    BY <2>1 DEF QueriesOK, New, Over
  <2> QED BY <2>1, <2>2, Zenon DEF PlaceOf
<1>2. /\ t = [at |-> IF Tail(q.todo) = <<>> THEN "fetch" ELSE "lookup",
              request |-> q.request, todo |-> Tail(q.todo),
              keys |-> q.keys \cap S, candidates |-> {}, page |-> q.page, result |-> q.result]
  BY <1>1, NextOfCondition, Zenon DEF QueryInv
<1>3. /\ Head(q.todo) \in Range(q.todo) /\ Range(q.todo) = {Head(q.todo)} \cup Range(Tail(q.todo))
  BY <1>1, FirstCondition, Zenon DEF Queries
<1>4. /\ t.at \in {"fetch", "lookup"} /\ t.request = q.request /\ t.todo = Tail(q.todo)
      /\ t.keys = q.keys \cap S
      /\ t.at = "fetch" => Tail(q.todo) = <<>>
      /\ t.at = "lookup" => Tail(q.todo) # <<>>
  BY <1>2
<1>5. Running(r) /\ Running(r)'
  BY <1>4, Zenon DEF Running
<1>6. /\ lasting'[r] \subseteq lasting[r]
      /\ \A c \in Range(q.request) : seen[r][c] \subseteq seen'[r][c]
  BY <1>4, <1>5, ObserveQuery, Zenon DEF QueryInv, Next
<1>7. /\ lasting[r] \subseteq q.keys
      /\ \A c \in Range(q.request) : c \in Range(q.todo) \/ q.keys \subseteq seen[r][c]
  BY <1>1, Zenon DEF QueryInv, FoundOf
<1> HIDE DEF q, t
<1>8. PlaceOf(r)'
  BY <1>1, <1>3, <1>4, Zenon DEF PlaceOf, t
<1>9. FoundOf(r)'
  <2>1. lasting'[r] \subseteq t.keys
    BY <1>4, <1>6, <1>7, Zenon
  <2>2. ASSUME NEW c \in Range(t.request) PROVE c \in Range(t.todo) \/ t.keys \subseteq seen'[r][c]
    <3>1. c \in Range(q.request) /\ seen[r][c] \subseteq seen'[r][c]
      BY <1>4, <1>6, Zenon
    <3>2. c = Head(q.todo) \/ c \in Range(t.todo) \/ q.keys \subseteq seen[r][c]
      BY <1>3, <1>4, <1>7, <3>1, Zenon
    <3> QED BY <1>4, <3>1, <3>2, Zenon DEF q
  <2> QED BY <1>4, <2>1, <2>2, Zenon DEF FoundOf, t
<1>10. ResultOf(r)'
  BY <1>4, Zenon DEF ResultOf, Answered, t
<1> QED BY <1>8, <1>9, <1>10, Zenon

LEMMA StepOfReader ==
  ASSUME IndexInv, QueryInv, Next, QueriesOK', NEW r \in Readers,
         BeginQuery(r) \/ Lookup(r) \/ Recheck(r) \/ Fetch(r) \/ QueryFails(r)
  PROVE  PlaceOf(r)' /\ FoundOf(r)' /\ ResultOf(r)'
<1>0. /\ QueriesOK /\ PlaceOf(r) /\ HistoryOf(r) /\ FoundOf(r)
      /\ query \in [Readers -> Queries \cup {New, Over}]
  BY Zenon DEF QueryInv, QueriesOK
<1>a. UNCHANGED <<rows, indices, suspect>>
  BY Zenon DEF BeginQuery, Lookup, Recheck, Fetch, QueryFails
<1>1. CASE BeginQuery(r)
  <2>1. PICK q \in Requests, p \in {{}} \cup {{page} : page \in Pages} :
          query' = [query EXCEPT ![r] =
            [at |-> IF q = <<>> THEN "fetch" ELSE "lookup", request |-> q, todo |-> q,
             keys |-> IF q = <<>> THEN {} ELSE Keys, candidates |-> {}, page |-> p,
             result |-> {}]]
    BY <1>1, Zenon DEF BeginQuery
  <2>2. /\ query'[r].at = IF q = <<>> THEN "fetch" ELSE "lookup"
        /\ query'[r].request = q /\ query'[r].todo = q
        /\ query'[r].keys = IF q = <<>> THEN {} ELSE Keys
    BY <1>0, <2>1, Zenon
  <2>3. lasting'[r] \subseteq Keys
    BY Zenon DEF QueriesOK
  <2> QED BY <2>2, <2>3, Zenon DEF PlaceOf, FoundOf, ResultOf, Answered
<1>2. CASE Lookup(r)
  <2> DEFINE c == Head(query[r].todo)
             S == Indexed(c)
  <2>1. /\ query[r].at = "lookup" /\ query[r] \in Queries /\ query[r].todo # <<>>
        /\ query[r].request # <<>> /\ Range(query[r].todo) \subseteq Range(query[r].request)
    BY <1>0, <1>2 DEF Lookup, Asking, New, Over, PlaceOf
  <2>2. c \in Condition /\ c \in Range(query[r].request)
    BY <2>1, FirstCondition, Zenon DEF Queries
  <2>3. /\ \A k \in lasting[r] : k \notin suspect /\ Matches(c, k)
        /\ suspect \subseteq seen[r][c] /\ \A k \in Keys : Matches(c, k) => k \in seen[r][c]
    BY <1>0, <2>1, <2>2, Zenon DEF HistoryOf, Running
  <2> HIDE DEF c
  <2>4. S \in SUBSET Keys /\ lasting[r] \subseteq Keys
    BY <1>0, Zenon DEF Indexed, QueriesOK
  <2>5. lasting[r] \subseteq S /\ S \subseteq seen[r][c]
    BY <2>2, <2>3, <2>4, IndexedKeys, Zenon
  <2>6. CASE NextCondition(r, S)
    BY <2>1, <2>4, <2>5, <2>6, ConditionDone, Zenon DEF c
  <2>7. CASE query' = [query EXCEPT ![r].at = "recheck", ![r].candidates = S]
    <3>1. /\ query'[r].at = "recheck" /\ query'[r].candidates = S
          /\ query'[r].request = query[r].request /\ query'[r].todo = query[r].todo
          /\ query'[r].keys = query[r].keys
      BY <1>0, <2>1, <2>7, Zenon DEF Queries
    <3>2. Running(r) /\ Running(r)'
      BY <2>1, <3>1, Zenon DEF Running
    <3>3. /\ lasting'[r] \subseteq lasting[r]
          /\ \A d \in Range(query[r].request) : seen[r][d] \subseteq seen'[r][d]
      BY <1>0, <3>1, <3>2, ObserveQuery, Zenon DEF Next
    <3>4. PlaceOf(r)'
      BY <2>1, <3>1, Zenon DEF PlaceOf
    <3>5. FoundOf(r)'
      <4>1. lasting'[r] \subseteq query[r].keys
        BY <1>0, <2>1, <3>3, SMTT(60) DEF FoundOf
      <4>2. \A d \in Range(query[r].request) : d \in Range(query[r].todo) \/ query[r].keys \subseteq seen'[r][d]
        BY <1>0, <2>1, <3>3, Zenon DEF FoundOf
      <4>3. lasting'[r] \subseteq S /\ S \subseteq seen'[r][Head(query[r].todo)]
        BY <2>2, <2>5, <3>3, SMTT(60) DEF c
      <4> QED BY <3>1, <4>1, <4>2, <4>3, SMTT(60) DEF FoundOf
    <3>6. ResultOf(r)'
      BY <3>1, SMTT(60) DEF ResultOf, Answered
    <3> QED BY <3>4, <3>5, <3>6, Zenon
  <2> QED BY <1>2, <2>6, <2>7, Zenon DEF Lookup, c
<1>3. CASE Recheck(r)
  <2> DEFINE S == Present(query[r].candidates)
  <2>1. /\ query[r].at = "recheck" /\ query[r] \in Queries /\ query[r].todo # <<>>
        /\ query[r].request # <<>> /\ Range(query[r].todo) \subseteq Range(query[r].request)
    BY <1>0, <1>3 DEF Recheck, Asking, New, Over, PlaceOf
  <2>2. Head(query[r].todo) \in Range(query[r].request)
    BY <2>1, FirstCondition, Zenon DEF Queries
  <2>3. \A k \in lasting[r] : rows[k] # None
    BY <1>0, <2>1, <2>2, Zenon DEF HistoryOf, Running, Matches
  <2>4. S \in SUBSET Keys
    BY <2>1, Zenon DEF Present, Queries
  <2>5. lasting[r] \subseteq S /\ S \subseteq seen[r][Head(query[r].todo)]
    BY <1>0, <2>1, <2>3, Zenon DEF FoundOf, Present
  <2> QED BY <1>3, <2>1, <2>4, <2>5, ConditionDone, SMTT(60) DEF Recheck
<1>4. CASE Fetch(r)
  <2>1. query[r].at = "fetch" /\ query[r] \in Queries
    BY <1>0, <1>4 DEF Fetch, Asking, New, Over
  <2>2. query' = [query EXCEPT ![r].at = "done", ![r].result = Present(Picked(query[r]))]
    BY <1>4, Zenon DEF Fetch, Picked
  <2>3. /\ query'[r].at = "done" /\ query'[r].result = Present(Picked(query[r]))
        /\ query'[r].request = query[r].request /\ query'[r].todo = query[r].todo
        /\ query'[r].keys = query[r].keys /\ query'[r].page = query[r].page
    BY <1>0, <2>1, <2>2, Zenon DEF Queries
  <2>4. lasting'[r] = lasting[r] /\ seen'[r] = seen[r]
    BY <1>0, <2>3, ObserveQuery, Zenon DEF Running, Next
  <2>5. PlaceOf(r)'
    BY <1>0, <2>1, <2>3, SMTT(60) DEF PlaceOf
  <2>6. FoundOf(r)'
    BY <1>0, <2>1, <2>3, <2>4, SMTT(60) DEF FoundOf
  <2>7. Picked(query'[r]) = Picked(query[r])
    BY <2>3, Zenon DEF Picked
  <2>8. ASSUME query[r].request # <<>>, NEW k \in lasting[r] PROVE rows[k] # None
    <3>1. Range(query[r].request) # {}
      <4>1. query[r].request \in Seq(Condition)
        BY <2>1, RequestConditions, SMTT(60)
      <4> QED BY <2>8, <4>1, FirstCondition, Zenon
    <3> QED BY <1>0, <2>1, <3>1, Zenon DEF HistoryOf, Running, Matches
  <2>9. ResultOf(r)'
    <3>1. Present(Picked(query[r])) \subseteq Picked(query[r])
      BY Zenon DEF Present
    <3>2. query[r].request # <<>> => lasting[r] \cap Picked(query[r]) \subseteq Present(Picked(query[r]))
      BY <2>8, Zenon DEF Present
    <3> QED BY <2>3, <2>4, <2>7, <3>1, <3>2 DEF ResultOf, Answered
  <2> QED BY <2>5, <2>6, <2>9, Zenon
<1>5. CASE QueryFails(r)
  <2>1. query'[r].at = "over"
    BY <1>0, <1>5, Zenon DEF QueryFails, Over
  <2> QED BY <2>1, Zenon DEF PlaceOf, FoundOf, ResultOf, Answered
<1> QED BY <1>1, <1>2, <1>3, <1>4, <1>5, Zenon
LEMMA InitQueryInv == Init => QueryInv
<1> SUFFICES ASSUME Init PROVE QueryInv
  BY Zenon
<1>1. QueriesOK
  BY Zenon DEF Init, QueriesOK
<1>2. \A r \in Readers : query[r].at = "new"
  BY Zenon DEF Init, New
<1> QED BY <1>1, <1>2, Zenon DEF QueryInv, PlaceOf, HistoryOf, FoundOf, ResultOf, Running, Answered

LEMMA StepQueryInv == IndexInv /\ QueryInv /\ [Next]_vars => QueryInv'
<1> SUFFICES ASSUME IndexInv, QueryInv, [Next]_vars PROVE QueryInv'
  BY Zenon
<1>1. CASE UNCHANGED vars
  <2>1. UNCHANGED <<rows, query, lasting, seen, suspect>>
    BY <1>1, Zenon DEF vars
  <2>2. QueriesOK'
    BY <2>1, Zenon DEF QueryInv, QueriesOK
  <2>3. \A r \in Readers : PlaceOf(r)' /\ HistoryOf(r)'
    BY <2>1, Zenon DEF QueryInv, PlaceOf, HistoryOf, Running, Matches
  <2>4. \A r \in Readers : FoundOf(r)' /\ ResultOf(r)'
    BY <2>1, Zenon DEF QueryInv, FoundOf, ResultOf, Answered
  <2> QED BY <2>2, <2>3, <2>4, Zenon DEF QueryInv
<1>2. CASE Next
  <2>1. QueriesOK'
    BY <1>2, StepQueriesOK, Zenon DEF QueryInv
  <2>2. ASSUME NEW x \in Readers PROVE PlaceOf(x)' /\ FoundOf(x)' /\ ResultOf(x)'
    <3>1. CASE query'[x] = query[x]
      BY <1>2, <2>1, <3>1, OtherReader, Zenon
    <3>2. ASSUME NEW r \in Readers,
                 BeginQuery(r) \/ Lookup(r) \/ Recheck(r) \/ Fetch(r) \/ QueryFails(r)
          PROVE  x = r \/ query'[x] = query[x]
      BY <3>2, ReaderTypes, Zenon DEF QueryInv
    <3>3. CASE BeginQuery(x) \/ Lookup(x) \/ Recheck(x) \/ Fetch(x) \/ QueryFails(x)
      BY <1>2, <2>1, <3>3, StepOfReader, Zenon
    <3>4. CASE UNCHANGED query
      BY <3>1, <3>4, Zenon
    <3> QED BY <1>2, <3>1, <3>2, <3>3, <3>4, Zenon
            DEF Next, Step, BeginWrite, AddCount, UpdateGet, AddTx, UpdateTx, DeleteTx,
                WriteFails, LoadModels, Rebuild, RebuildFails
  <2>3. \A x \in Readers : HistoryOf(x)'
    BY <1>2, <2>1, ObserveQuery, SMTT(60) DEF QueryInv, Next
  <2> QED BY <2>1, <2>2, <2>3, Zenon DEF QueryInv
<1> QED BY <1>1, <1>2, Zenon

\* What an answered query has found, when its request has a condition.
LEMMA AnswerOfQuery ==
  ASSUME QueryInv, NEW r \in Readers, Answered(r)
  PROVE  /\ query[r] \in Queries
         /\ lasting[r] \subseteq query[r].keys
         /\ \A c \in Range(query[r].request) : query[r].keys \subseteq seen[r][c]
         /\ query[r].result \subseteq Picked(query[r])
         /\ lasting[r] \cap Picked(query[r]) \subseteq query[r].result
<1>1. QueriesOK /\ PlaceOf(r) /\ FoundOf(r) /\ ResultOf(r)
  BY Zenon DEF QueryInv
<1>2. query[r] \in Queries
  BY <1>1 DEF Answered, QueriesOK, New, Over
<1>3. Range(query[r].todo) = {}
  BY <1>1 DEF Answered, PlaceOf, Range
<1> QED BY <1>1, <1>2, <1>3, Zenon DEF Answered, FoundOf, ResultOf

\* ListByIndexes and PageListByIndexes read the index rows of each condition and
\* the resources in statements of their own, beside any number of writers and
\* starting replicas: no key that matched all the time is missed, no key is
\* returned that failed a condition all the time, and a page of an unchanged set
\* of keys holds exactly the keys of its ranks.
THEOREM QueriesAnswerExactly == Spec => []QueriesAreExact
<1>1. Spec => []IndexInv
  <2>1. IndexInv /\ [Next]_vars => IndexInv'
    <3>1. ASSUME IndexInv, UNCHANGED vars PROVE IndexInv'
      BY <3>1, Zenon DEF vars, IndexInv, TablesOK, IndexAgrees, EntriesOf, Entries
    <3> QED BY <3>1, StepIndexInv, Zenon DEF Next
  <2> QED BY <2>1, InitIndexInv, PTL DEF Spec
<1>2. ASSUME IndexInv, QueryInv PROVE QueriesAreExact
  <2>1. TypeOK
    BY <1>2, SMTT(60) DEF TypeOK, IndexInv, TablesOK, QueryInv, QueriesOK
  <2>2. ListIsComplete
    <3> SUFFICES ASSUME NEW r \in Readers, Answered(r), query[r].page = {}
                 PROVE  lasting[r] \subseteq query[r].result
      BY SMTT(60) DEF ListIsComplete
    <3>1. Picked(query[r]) = query[r].keys
      BY <1>2, AnswerOfQuery, PickedKeys, Zenon
    <3> QED BY <1>2, <3>1, AnswerOfQuery
  <2>3. ListIsSound
    <3> SUFFICES ASSUME NEW r \in Readers, Answered(r),
                        NEW k \in query[r].result, NEW c \in Range(query[r].request)
                 PROVE  k \in seen[r][c]
      BY Zenon DEF ListIsSound
    <3>1. k \in query[r].keys
      BY <1>2, AnswerOfQuery, PickedKeys, Zenon
    <3> QED BY <1>2, <3>1, AnswerOfQuery, Zenon
  <2>4. PageIsExact
    <3> SUFFICES ASSUME NEW r \in Readers, NEW p \in Pages, Answered(r), query[r].page = {p},
                        \A k \in Keys \ lasting[r] : \E c \in Range(query[r].request) : k \notin seen[r][c]
                 PROVE  query[r].result =
                          {k \in lasting[r] :
                             Cardinality({j \in lasting[r] : j < k}) \in p.offset .. p.offset + p.size - 1}
      BY Zenon DEF PageIsExact
    <3>1. query[r] \in Queries /\ query[r].keys \subseteq Keys
      BY <1>2, AnswerOfQuery, Zenon DEF Queries
    <3>2. query[r].keys = lasting[r]
      BY <1>2, <3>1, AnswerOfQuery, Zenon
    <3>3. Picked(query[r]) = Page(lasting[r], p)
      BY <3>2, Zenon DEF Picked
    <3>4. lasting[r] \in SUBSET Nat /\ IsFiniteSet(lasting[r]) /\ p \in [offset : Nat, size : Nat]
      BY <3>1, <3>2, StoreAssumption, FS_Subset, Zenon
    <3>5. Page(lasting[r], p) = {k \in lasting[r] : Rank(lasting[r], k) \in p.offset .. p.offset + p.size - 1}
      BY <3>4, PageByRank, SMTT(60)
    <3>6. query[r].result = Page(lasting[r], p)
      BY <1>2, <3>3, <3>5, AnswerOfQuery
    <3> QED BY <3>5, <3>6, Zenon DEF Rank
  <2> QED BY <2>1, <2>2, <2>3, <2>4, Zenon DEF QueriesAreExact
<1> QED BY <1>1, <1>2, InitQueryInv, StepQueryInv, PTL DEF Spec
=============================================================================
