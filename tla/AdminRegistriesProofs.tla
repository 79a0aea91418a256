------------------------ MODULE AdminRegistriesProofs ------------------------
(***************************************************************************)
(* The registries of the Issuer Admin API and the queries on them, for     *)
(* every number of DIDs, holders and definitions and every query: the map, *)
(* the index and the order of the holders agree, a party has one record    *)
(* and one decision, records keep their identity, the sort is stable and a *)
(* walk through the pages returns each holder once.                        *)
(***************************************************************************)
EXTENDS AdminRegistries, TLAPS, FiniteSetTheorems, SequenceTheorems

-----------------------------------------------------------------------------
(* Arranging the elements of a finite set *)

\* The elements of S that go before i, and a strict total order on S.
Before(S, R, i) == {j \in S : <<j, i>> \in R}

Orders(R, S) ==
    /\ \A a \in S : <<a, a>> \notin R
    /\ \A a, b, c \in S : <<a, b>> \in R /\ <<b, c>> \in R => <<a, c>> \in R
    /\ \A a, b \in S : a # b => <<a, b>> \in R \/ <<b, a>> \in R

\* What goes before an element is a finite set without the element, and the
\* later of two elements has more before it.
LEMMA BeforeGrows ==
    ASSUME NEW S, IsFiniteSet(S), NEW R, Orders(R, S)
    PROVE  /\ \A i \in S : /\ IsFiniteSet(Before(S, R, i))
                           /\ Cardinality(Before(S, R, i)) \in Nat
                           /\ Cardinality(Before(S, R, i)) < Cardinality(S)
           /\ \A i, j \in S : <<i, j>> \in R =>
                 Cardinality(Before(S, R, i)) < Cardinality(Before(S, R, j))
<1>1. ASSUME NEW T, IsFiniteSet(T), NEW U \in SUBSET T, NEW x \in T, x \notin U
      PROVE  /\ IsFiniteSet(U)
             /\ Cardinality(U) \in Nat
             /\ Cardinality(U) < Cardinality(T)
  <2>1. /\ IsFiniteSet(U)
        /\ Cardinality(U) <= Cardinality(T)
        /\ Cardinality(T) = Cardinality(U) => T = U
    BY <1>1, FS_Subset
  <2>2. Cardinality(U) \in Nat /\ Cardinality(T) \in Nat
    BY <1>1, <2>1, FS_CardinalityType
  <2>. QED
    BY <1>1, <2>1, <2>2
<1>2. ASSUME NEW i \in S
      PROVE  /\ IsFiniteSet(Before(S, R, i))
             /\ Cardinality(Before(S, R, i)) \in Nat
             /\ Cardinality(Before(S, R, i)) < Cardinality(S)
  <2>1. Before(S, R, i) \in SUBSET S /\ i \notin Before(S, R, i)
    BY DEF Before, Orders
  <2>. QED
    BY <1>1, <2>1
<1>3. ASSUME NEW i \in S, NEW j \in S, <<i, j>> \in R
      PROVE  Cardinality(Before(S, R, i)) < Cardinality(Before(S, R, j))
  <2>1. /\ Before(S, R, i) \in SUBSET Before(S, R, j)
        /\ i \in Before(S, R, j)
        /\ i \notin Before(S, R, i)
    BY <1>3 DEF Before, Orders
  <2>2. IsFiniteSet(Before(S, R, j))
    BY <1>2
  <2>. QED
    BY <1>1, <2>1, <2>2
<1>. QED
  BY <1>2, <1>3

\* Every place is taken by one element of S.
LEMMA PlaceTaken ==
    ASSUME NEW S, IsFiniteSet(S), NEW R, Orders(R, S),
           NEW k \in 1 .. Cardinality(S)
    PROVE  \E i \in S : Cardinality(Before(S, R, i)) = k - 1
<1>. DEFINE n == Cardinality(S)
            T == 0 .. (n - 1)
            f == [i \in S |-> Cardinality(Before(S, R, i))]
<1>1. n \in Nat
  BY FS_CardinalityType
<1>2. /\ \A i \in S : f[i] \in T
      /\ \A i, j \in S : f[i] = f[j] => i = j
  <2>1. \A i \in S : f[i] \in Nat /\ f[i] < n
    BY BeforeGrows
  <2>2. \A i, j \in S : <<i, j>> \in R => f[i] < f[j]
    BY BeforeGrows
  <2>3. ASSUME NEW i \in S, NEW j \in S, i # j
        PROVE  f[i] # f[j]
    <3>1. <<i, j>> \in R \/ <<j, i>> \in R
      BY <2>3 DEF Orders
    <3>. HIDE DEF f
    <3>. QED
      BY <2>1, <2>2, <3>1
  <2>. HIDE DEF n, f
  <2>. QED
    BY <1>1, <2>1, <2>3
<1>3. f \in Injection(S, T)
  BY <1>2 DEF Injection, IsInjective
<1>4. IsFiniteSet(T) /\ Cardinality(T) = n
  <2>. HIDE DEF n
  <2>1. 0 \in Int /\ n - 1 \in Int
    BY <1>1
  <2>. QED
    BY <1>1, <2>1, FS_Interval
<1>5. f \in Surjection(S, T)
  <2>. HIDE DEF f, T
  <2>. QED
    BY <1>3, <1>4, FS_Injection
<1>6. k - 1 \in T
  BY <1>1
<1>. QED
  BY <1>5, <1>6 DEF Surjection

\* The arranged elements are those of S, each one at the place that the ones
\* before it leave it, so that the earlier of two places has the smaller one.
LEMMA ArrangedOrder ==
    ASSUME NEW S, IsFiniteSet(S), NEW R, Orders(R, S)
    PROVE  /\ Cardinality(S) \in Nat
           /\ Arranged(S, R) \in Seq(S)
           /\ Len(Arranged(S, R)) = Cardinality(S)
           /\ DOMAIN Arranged(S, R) = 1 .. Cardinality(S)
           /\ \A k \in 1 .. Cardinality(S) :
                 /\ Arranged(S, R)[k] \in S
                 /\ Cardinality(Before(S, R, Arranged(S, R)[k])) = k - 1
           /\ \A i \in S, k \in 1 .. Cardinality(S) :
                 Cardinality(Before(S, R, i)) = k - 1 => Arranged(S, R)[k] = i
           /\ \A k, l \in 1 .. Cardinality(S) :
                 k < l => <<Arranged(S, R)[k], Arranged(S, R)[l]>> \in R
           /\ \A i \in S : \E k \in 1 .. Cardinality(S) : Arranged(S, R)[k] = i
<1>. DEFINE n == Cardinality(S)
            p == Arranged(S, R)
<1>1. n \in Nat
  BY FS_CardinalityType
<1>2. p = [k \in 1 .. n |-> CHOOSE i \in S : Cardinality(Before(S, R, i)) = k - 1]
  BY DEF Arranged, Before
<1>. HIDE DEF n, p
<1>3. ASSUME NEW k \in 1 .. n
      PROVE  p[k] \in S /\ Cardinality(Before(S, R, p[k])) = k - 1
  <2>1. \E i \in S : Cardinality(Before(S, R, i)) = k - 1
    BY PlaceTaken DEF n
  <2>. QED
    BY <1>2, <2>1
<1>4. \A i, j \in S : <<i, j>> \in R =>
         Cardinality(Before(S, R, i)) < Cardinality(Before(S, R, j))
  BY BeforeGrows
<1>5. \A i \in S : Cardinality(Before(S, R, i)) \in Nat
                   /\ Cardinality(Before(S, R, i)) < n
  BY BeforeGrows DEF n
<1>6. ASSUME NEW i \in S, NEW k \in 1 .. n,
             Cardinality(Before(S, R, i)) = k - 1
      PROVE  p[k] = i
  <2>1. ~ (<<p[k], i>> \in R) /\ ~ (<<i, p[k]>> \in R)
    BY <1>3, <1>4, <1>5, <1>6
  <2>. QED
    BY <1>3, <2>1 DEF Orders
<1>7. ASSUME NEW k \in 1 .. n, NEW l \in 1 .. n, k < l
      PROVE  <<p[k], p[l]>> \in R
  <2>1. p[k] # p[l] /\ ~ (<<p[l], p[k]>> \in R)
    BY <1>1, <1>3, <1>4, <1>7
  <2>. QED
    BY <1>3, <2>1 DEF Orders
<1>8. ASSUME NEW i \in S
      PROVE  \E k \in 1 .. n : p[k] = i
  <2>. DEFINE k == Cardinality(Before(S, R, i)) + 1
  <2>1. k \in 1 .. n /\ Cardinality(Before(S, R, i)) = k - 1
    BY <1>1, <1>5
  <2>. HIDE DEF k
  <2>. QED
    BY <1>6, <2>1
<1>9. p \in Seq(S) /\ Len(p) = n /\ DOMAIN p = 1 .. n
  <2>1. p \in [1 .. n -> S]
    BY <1>2, <1>3
  <2>. QED
    BY <1>1, <2>1
<1>. QED
  BY <1>1, <1>3, <1>6, <1>7, <1>8, <1>9 DEF n, p

-----------------------------------------------------------------------------
(* Filtering a sequence *)

\* The positions in S in ascending order, the order a filter keeps.
Ascending(S) == Arranged(S, {p \in S \X S : p[1] < p[2]})

\* The ascending positions are those of S, in order, and a position is where
\* the number of the smaller ones puts it.
LEMMA AscendingOrder ==
    ASSUME NEW n \in Nat, NEW S \in SUBSET (1 .. n)
    PROVE  /\ IsFiniteSet(S)
           /\ Cardinality(S) \in Nat
           /\ Ascending(S) \in Seq(S)
           /\ Len(Ascending(S)) = Cardinality(S)
           /\ DOMAIN Ascending(S) = 1 .. Cardinality(S)
           /\ \A k \in 1 .. Cardinality(S) :
                 /\ Ascending(S)[k] \in S
                 /\ Cardinality({j \in S : j < Ascending(S)[k]}) = k - 1
           /\ \A i \in S, k \in 1 .. Cardinality(S) :
                 Cardinality({j \in S : j < i}) = k - 1 => Ascending(S)[k] = i
           /\ \A k, l \in 1 .. Cardinality(S) :
                 k < l => Ascending(S)[k] < Ascending(S)[l]
           /\ \A i \in S : \E k \in 1 .. Cardinality(S) : Ascending(S)[k] = i
<1>. DEFINE R == {p \in S \X S : p[1] < p[2]}
            c == Cardinality(S)
            a == Ascending(S)
<1>1. \A i, j \in S : <<i, j>> \in R <=> i < j
  OBVIOUS
<1>2. Ascending(S) = Arranged(S, R)
  BY DEF Ascending
<1>. HIDE DEF R
<1>3. IsFiniteSet(S)
  <2>1. IsFiniteSet(1 .. n)
    BY FS_Interval
  <2>. QED
    BY <2>1, FS_Subset
<1>4. Orders(R, S)
  BY <1>1 DEF Orders
<1>5. \A i \in S : Before(S, R, i) = {j \in S : j < i}
  BY <1>1 DEF Before
<1>6. /\ c \in Nat
      /\ a \in Seq(S)
      /\ Len(a) = c
      /\ DOMAIN a = 1 .. c
      /\ \A k \in 1 .. c : a[k] \in S /\ Cardinality(Before(S, R, a[k])) = k - 1
      /\ \A i \in S, k \in 1 .. c :
            Cardinality(Before(S, R, i)) = k - 1 => a[k] = i
      /\ \A k, l \in 1 .. c : k < l => <<a[k], a[l]>> \in R
      /\ \A i \in S : \E k \in 1 .. c : a[k] = i
  BY <1>2, <1>3, <1>4, ArrangedOrder
<1>7. a \in Seq(S) /\ Len(a) = c /\ DOMAIN a = 1 .. c /\ c \in Nat
  BY <1>6
<1>8. \A k \in 1 .. c : a[k] \in S /\ Cardinality({j \in S : j < a[k]}) = k - 1
  BY <1>5, <1>6
<1>9. \A i \in S, k \in 1 .. c : Cardinality({j \in S : j < i}) = k - 1 => a[k] = i
  BY <1>5, <1>6
<1>10. \A k, l \in 1 .. c : k < l => a[k] < a[l]
  BY <1>1, <1>6
<1>11. \A i \in S : \E k \in 1 .. c : a[k] = i
  BY <1>6
<1>. HIDE DEF a, c
<1>. QED
  BY <1>3, <1>7, <1>8, <1>9, <1>10, <1>11 DEF a, c

\* Positions behind the last one of S do not move those of S.
LEMMA AscendingPrefix ==
    ASSUME NEW n \in Nat, NEW S \in SUBSET (1 .. n), NEW T \in SUBSET (1 .. n),
           S \subseteq T, \A i \in S, j \in T \ S : i < j
    PROVE  /\ Cardinality(S) <= Cardinality(T)
           /\ \A k \in 1 .. Cardinality(S) : Ascending(T)[k] = Ascending(S)[k]
<1>. DEFINE c == Cardinality(S)
            d == Cardinality(T)
<1>1. c \in Nat /\ d \in Nat /\ c <= d
  <2>1. IsFiniteSet(T) /\ c \in Nat /\ d \in Nat
    BY AscendingOrder
  <2>. QED
    BY <2>1, FS_Subset
<1>2. ASSUME NEW k \in 1 .. c
      PROVE  Ascending(T)[k] = Ascending(S)[k]
  <2>. DEFINE i == Ascending(S)[k]
  <2>1. i \in S /\ Cardinality({j \in S : j < i}) = k - 1
    BY AscendingOrder
  <2>. HIDE DEF i
  <2>2. {j \in T : j < i} = {j \in S : j < i}
    <3>1. ASSUME NEW j \in T, j < i
          PROVE  j \in S
      <4>1. i \in Int /\ j \in Int
        BY <2>1
      <4>2. j \notin S => i < j
        BY <2>1
      <4>. QED
        BY <3>1, <4>1, <4>2
    <3>. QED
      BY <3>1
  <2>3. i \in T /\ k \in 1 .. d
    BY <1>1, <2>1
  <2>4. Cardinality({j \in T : j < i}) = k - 1
    BY <2>1, <2>2
  <2>5. \A x \in T, l \in 1 .. d :
           Cardinality({j \in T : j < x}) = l - 1 => Ascending(T)[l] = x
    BY AscendingOrder
  <2>6. Ascending(T)[k] = i
    BY <2>3, <2>4, <2>5
  <2>. QED
    BY <2>6 DEF i
<1>. QED
  BY <1>1, <1>2

\* A function on the first n positions is a sequence of length n.
LEMMA FunctionIsSeq ==
    ASSUME NEW V, NEW n \in Nat, NEW s \in [1 .. n -> V]
    PROVE  s \in Seq(V) /\ Len(s) = n /\ DOMAIN s = 1 .. n
OBVIOUS

\* What a filter keeps of a sequence.
LEMMA KeptItems ==
    ASSUME NEW V, NEW items \in Seq(V), NEW S \in SUBSET (DOMAIN items)
    PROVE  /\ Kept(items, S) \in Seq(V)
           /\ Len(Kept(items, S)) = Cardinality(S)
           /\ DOMAIN Kept(items, S) = 1 .. Cardinality(S)
           /\ \A k \in 1 .. Cardinality(S) :
                 Kept(items, S)[k] = items[Ascending(S)[k]]
<1>. DEFINE c == Cardinality(S)
            a == Ascending(S)
            n == Len(items)
<1>1. n \in Nat /\ S \in SUBSET (1 .. n)
  OBVIOUS
<1>2. c \in Nat /\ DOMAIN a = 1 .. c /\ \A k \in 1 .. c : a[k] \in S
  BY <1>1, AscendingOrder
<1>3. Kept(items, S) = [k \in DOMAIN a |-> items[a[k]]]
  BY DEF Kept, At, Ascending
<1>. HIDE DEF a, c
<1>4. Kept(items, S) \in [1 .. c -> V]
  <2>1. \A k \in 1 .. c : items[a[k]] \in V
    BY <1>2
  <2>. QED
    BY <1>2, <1>3, <2>1
<1>5. \A k \in 1 .. c : Kept(items, S)[k] = items[a[k]]
  BY <1>2, <1>3
<1>. QED
  BY <1>2, <1>4, <1>5 DEF a, c

\* A filter that keeps everything, or a sort by the position, is the identity.
LEMMA AscendingAll ==
    ASSUME NEW n \in Nat
    PROVE  Cardinality(1 .. n) = n /\ \A k \in 1 .. n : Ascending(1 .. n)[k] = k
<1>1. Cardinality(1 .. n) = n
  BY FS_Interval
<1>2. ASSUME NEW k \in 1 .. n
      PROVE  Ascending(1 .. n)[k] = k
  <2>1. {j \in 1 .. n : j < k} = 1 .. (k - 1)
    OBVIOUS
  <2>2. Cardinality(1 .. (k - 1)) = k - 1
    <3>1. 1 \in Int /\ k - 1 \in Int
      OBVIOUS
    <3>2. Cardinality(1 .. (k - 1)) = IF 1 > k - 1 THEN 0 ELSE (k - 1) - 1 + 1
      BY <3>1, FS_Interval
    <3>. QED
      BY <3>2
  <2>3. Cardinality({j \in 1 .. n : j < k}) = k - 1
    BY <2>1, <2>2
  <2>4. \A x \in 1 .. n, l \in 1 .. Cardinality(1 .. n) :
           Cardinality({j \in 1 .. n : j < x}) = l - 1 => Ascending(1 .. n)[l] = x
    <3>1. 1 .. n \in SUBSET (1 .. n)
      OBVIOUS
    <3>. QED
      BY <3>1, AscendingOrder
  <2>. QED
    BY <1>1, <2>3, <2>4
<1>. QED
  BY <1>1, <1>2

-----------------------------------------------------------------------------
(* The registries *)

\* The holders: the map, the index and the order agree, and the order lists a
\* holder once.
HolderInv ==
    /\ DOMAIN holders \subseteq HolderIds
    /\ holders \in [DOMAIN holders -> Holder]
    /\ byDid \in [DOMAIN byDid -> HolderIds]
    /\ order \in Seq(HolderIds)
    /\ IsFiniteSet(DOMAIN holders)
    /\ Cardinality(DOMAIN holders) <= MaxHolders
    /\ \A i, j \in DOMAIN order : order[i] = order[j] => i = j
    /\ IndexAgrees

\* The catalog: no two definitions have the same id.
CatalogInv ==
    /\ definitions \in Seq(Definition)
    /\ Len(definitions) <= MaxDefinitions
    /\ \A i, j \in DOMAIN definitions :
          definitions[i].id = definitions[j].id => i = j

\* Appending something new to a sequence without duplicates adds one element
\* at its end.
LEMMA AppendNew ==
    ASSUME NEW V, NEW s \in Seq(V), NEW x \in V, x \notin ToSet(s),
           \A i, j \in DOMAIN s : s[i] = s[j] => i = j
    PROVE  /\ Append(s, x) \in Seq(V)
           /\ Len(Append(s, x)) = Len(s) + 1
           /\ ToSet(Append(s, x)) = ToSet(s) \cup {x}
           /\ \A i, j \in DOMAIN Append(s, x) :
                 Append(s, x)[i] = Append(s, x)[j] => i = j
<1>. DEFINE t == Append(s, x)
            n == Len(s)
<1>1. /\ n \in Nat /\ DOMAIN s = 1 .. n
      /\ t \in Seq(V) /\ Len(t) = n + 1 /\ DOMAIN t = 1 .. (n + 1)
      /\ \A i \in 1 .. n : t[i] = s[i]
      /\ t[n + 1] = x
  OBVIOUS
<1>. HIDE DEF t, n
<1>2. \A i \in 1 .. n : s[i] # x
  BY <1>1 DEF ToSet
<1>3. ToSet(t) = ToSet(s) \cup {x}
  <2>1. ASSUME NEW y \in ToSet(t)
        PROVE  y \in ToSet(s) \cup {x}
    <3>1. PICK i \in 1 .. (n + 1) : y = t[i]
      BY <1>1 DEF ToSet
    <3>2. i \in 1 .. n \/ i = n + 1
      BY <1>1
    <3>. QED
      BY <1>1, <3>1, <3>2 DEF ToSet
  <2>2. x \in ToSet(t)
    <3>1. n + 1 \in DOMAIN t
      BY <1>1
    <3>. QED
      BY <1>1, <3>1 DEF ToSet
  <2>3. ASSUME NEW i \in 1 .. n
        PROVE  s[i] \in ToSet(t)
    <3>1. i \in DOMAIN t
      BY <1>1
    <3>. QED
      BY <1>1, <3>1 DEF ToSet
  <2>. QED
    BY <1>1, <2>1, <2>2, <2>3 DEF ToSet
<1>4. \A i, j \in DOMAIN t : t[i] = t[j] => i = j
  <2>1. \A i \in 1 .. (n + 1) : i \in 1 .. n \/ i = n + 1
    BY <1>1
  <2>. QED
    BY <1>1, <1>2, <2>1
<1>. QED
  BY <1>1, <1>3, <1>4 DEF t, n

\* `insert` keeps the registry consistent: the index gets one entry for the
\* one record.
LEMMA InsertKeeps ==
    ASSUME HolderInv, NEW id \in HolderIds, NEW did \in Dids,
           NEW name \in Names \cup {Absent}, NEW status \in Statuses,
           NEW t \in 0 .. MaxTime,
           CanInsert(id, did), Insert(id, did, name, status, t)
    PROVE  HolderInv'
<1>. DEFINE D == DOMAIN holders
            r == [did |-> did, name |-> name, status |-> status, created |-> t]
            k == HolderKey(did)
<1>1. /\ DOMAIN holders' = D \cup {id}
      /\ \A x \in D : holders'[x] = holders[x]
      /\ holders'[id] = r
      /\ id \notin D
  BY DEF Insert, Extend, CanInsert
<1>2. /\ DOMAIN byDid' = DOMAIN byDid \cup {k}
      /\ \A x \in DOMAIN byDid : byDid'[x] = byDid[x]
      /\ byDid'[k] = id
      /\ k \notin DOMAIN byDid
  BY DEF Insert, Extend, CanInsert, Known
<1>3. holders' \in [DOMAIN holders' -> Holder]
  <2>1. r \in Holder
    BY DEF Holder
  <2>2. holders' = [x \in D \cup {id} |-> IF x = id THEN r ELSE holders[x]]
    BY DEF Insert, Extend
  <2>3. \A x \in D : holders[x] \in Holder
    BY DEF HolderInv
  <2>. HIDE DEF r, D
  <2>. QED
    BY <2>1, <2>2, <2>3 DEF D
<1>4. byDid' \in [DOMAIN byDid' -> HolderIds]
  <2>1. byDid' = [x \in DOMAIN byDid \cup {k} |-> IF x = k THEN id ELSE byDid[x]]
    BY DEF Insert, Extend
  <2>. HIDE DEF k
  <2>. QED
    BY <2>1 DEF HolderInv
<1>5. /\ order' \in Seq(HolderIds)
      /\ Len(order') = Len(order) + 1
      /\ ToSet(order') = ToSet(order) \cup {id}
      /\ \A i, j \in DOMAIN order' : order'[i] = order'[j] => i = j
  <2>1. order' = Append(order, id)
    BY DEF Insert
  <2>2. /\ order \in Seq(HolderIds) /\ id \notin ToSet(order)
        /\ \A i, j \in DOMAIN order : order[i] = order[j] => i = j
    BY <1>1 DEF HolderInv, IndexAgrees
  <2>. QED
    BY <2>1, <2>2, AppendNew
<1>6. /\ IsFiniteSet(DOMAIN holders')
      /\ Cardinality(DOMAIN holders') = Cardinality(D) + 1
      /\ Cardinality(DOMAIN holders') <= MaxHolders
  <2>1. IsFiniteSet(D) /\ Cardinality(D) \in Nat
    BY FS_CardinalityType DEF HolderInv
  <2>2. /\ IsFiniteSet(D \cup {id})
        /\ Cardinality(D \cup {id}) = Cardinality(D) + 1
    BY <1>1, <2>1, FS_AddElement
  <2>3. Cardinality(D) < MaxHolders
    BY DEF CanInsert, HasRoom
  <2>4. MaxHolders \in Nat
    BY RegistriesAssumption
  <2>. HIDE DEF D
  <2>. QED
    BY <1>1, <2>1, <2>2, <2>3, <2>4
<1>7. \A x \in DOMAIN holders' :
         /\ HolderKey(holders'[x].did) \in DOMAIN byDid'
         /\ byDid'[HolderKey(holders'[x].did)] = x
  <2>1. \A x \in D : /\ HolderKey(holders[x].did) \in DOMAIN byDid
                     /\ byDid[HolderKey(holders[x].did)] = x
    BY DEF HolderInv, IndexAgrees, Known, ByDid
  <2>2. HolderKey(holders'[id].did) = k
    BY <1>1
  <2>. HIDE DEF D, k, r
  <2>. QED
    BY <1>1, <1>2, <2>1, <2>2
<1>8. {byDid'[x] : x \in DOMAIN byDid'} = DOMAIN holders'
  <2>1. {byDid[x] : x \in DOMAIN byDid} = D
    BY DEF HolderInv, IndexAgrees
  <2>. HIDE DEF D, k, r
  <2>. QED
    BY <1>1, <1>2, <2>1
<1>9. ToSet(order') = DOMAIN holders' /\ Len(order') = Cardinality(DOMAIN holders')
  BY <1>1, <1>5, <1>6 DEF HolderInv, IndexAgrees
<1>10. IndexAgrees'
  BY <1>7, <1>8, <1>9 DEF IndexAgrees, Known, ByDid, HolderKey
<1>11. DOMAIN holders' \subseteq HolderIds
  BY <1>1 DEF HolderInv
<1>. QED
  BY <1>3, <1>4, <1>5, <1>6, <1>10, <1>11 DEF HolderInv

\* A change of a holder's status or name leaves the index and the order alone.
LEMMA ChangeKeeps ==
    ASSUME HolderInv, NEW id \in DOMAIN holders, NEW r \in Holder,
           r.did = holders[id].did, holders' = [holders EXCEPT ![id] = r],
           UNCHANGED <<byDid, order>>
    PROVE  HolderInv'
<1>1. /\ DOMAIN holders' = DOMAIN holders
      /\ \A x \in DOMAIN holders : holders'[x].did = holders[x].did
      /\ holders' \in [DOMAIN holders' -> Holder]
  BY DEF HolderInv
<1>2. IndexAgrees'
  <2>1. \A x \in DOMAIN holders : /\ HolderKey(holders[x].did) \in DOMAIN byDid
                                 /\ byDid[HolderKey(holders[x].did)] = x
    BY DEF HolderInv, IndexAgrees, Known, ByDid
  <2>2. \A x \in DOMAIN holders' :
           /\ HolderKey(holders'[x].did) \in DOMAIN byDid'
           /\ byDid'[HolderKey(holders'[x].did)] = x
    BY <1>1, <2>1
  <2>3. /\ {byDid'[k] : k \in DOMAIN byDid'} = DOMAIN holders'
        /\ ToSet(order') = DOMAIN holders'
        /\ Len(order') = Cardinality(DOMAIN holders')
    BY <1>1 DEF HolderInv, IndexAgrees
  <2>. QED
    BY <2>2, <2>3 DEF IndexAgrees, Known, ByDid, HolderKey
<1>. QED
  BY <1>1, <1>2 DEF HolderInv

\* The catalog starts with one definition and no step gives two definitions
\* one id.
LEMMA CreateKeeps ==
    ASSUME CatalogInv, NEW id \in DefinitionIds, NEW validity \in Validities,
           NEW t \in 0 .. MaxTime, CreateDefinition(id, validity, t)
    PROVE  CatalogInv'
<1>. DEFINE d == IntoDefinition(id, validity, t)
            n == Len(definitions)
<1>1. d \in Definition /\ d.id = id
  <2>1. d.validity \in Nat \ {0}
    BY RegistriesAssumption DEF IntoDefinition, CreateDefinition, Acceptable,
       Validities
  <2>. QED
    BY <2>1 DEF IntoDefinition, Definition
<1>2. /\ n \in Nat /\ DOMAIN definitions = 1 .. n
      /\ \A i \in 1 .. n : definitions[i].id # id
      /\ n < MaxDefinitions
      /\ definitions' = Append(definitions, d)
  BY DEF CatalogInv, CreateDefinition, DefinitionsOf
<1>. HIDE DEF d
<1>3. /\ definitions' \in Seq(Definition)
      /\ Len(definitions') = n + 1 /\ DOMAIN definitions' = 1 .. (n + 1)
      /\ \A i \in 1 .. n : definitions'[i] = definitions[i]
      /\ definitions'[n + 1] = d
  BY <1>1, <1>2 DEF CatalogInv
<1>. HIDE DEF n
<1>4. \A i, j \in DOMAIN definitions' :
         definitions'[i].id = definitions'[j].id => i = j
  <2>1. \A i \in 1 .. (n + 1) : i \in 1 .. n \/ i = n + 1
    BY <1>2
  <2>2. \A i, j \in 1 .. n : definitions[i].id = definitions[j].id => i = j
    BY <1>2 DEF CatalogInv
  <2>. QED
    BY <1>1, <1>2, <1>3, <2>1, <2>2
<1>5. Len(definitions') <= MaxDefinitions
  BY <1>2, <1>3, RegistriesAssumption
<1>. QED
  BY <1>3, <1>4, <1>5 DEF CatalogInv

\* `update` replaces a definition where it is.
LEMMA UpdateKeeps ==
    ASSUME CatalogInv, NEW id \in DefinitionIds, NEW validity \in Validities,
           NEW t \in 0 .. MaxTime, UpdateDefinition(id, validity, t)
    PROVE  /\ CatalogInv'
           /\ DOMAIN definitions' = DOMAIN definitions
           /\ \A i \in DOMAIN definitions :
                 /\ definitions'[i].id = definitions[i].id
                 /\ definitions'[i].created = definitions[i].created
<1>. DEFINE d == IntoDefinition(id, validity, t)
            n == Len(definitions)
<1>1. d \in Definition /\ d.id = id
  <2>1. d.validity \in Nat \ {0}
    BY RegistriesAssumption DEF IntoDefinition, UpdateDefinition, Acceptable,
       Validities
  <2>. QED
    BY <2>1 DEF IntoDefinition, Definition
<1>2. /\ n \in Nat /\ DOMAIN definitions = 1 .. n
      /\ \A i \in 1 .. n : definitions[i] \in Definition
      /\ definitions' = [i \in 1 .. n |->
             IF definitions[i].id = d.id
             THEN [d EXCEPT !.created = definitions[i].created]
             ELSE definitions[i]]
  BY DEF CatalogInv, UpdateDefinition, Updated
<1>. HIDE DEF d, n
<1>3. ASSUME NEW i \in 1 .. n
      PROVE  /\ definitions'[i] \in Definition
             /\ definitions'[i].id = definitions[i].id
             /\ definitions'[i].created = definitions[i].created
  <2>1. CASE definitions[i].id = d.id
    <3>1. definitions'[i] = [d EXCEPT !.created = definitions[i].created]
      BY <1>2, <2>1
    <3>. QED
      BY <1>1, <1>2, <2>1, <3>1 DEF Definition
  <2>2. CASE definitions[i].id # d.id
    <3>1. definitions'[i] = definitions[i]
      BY <1>2, <2>2
    <3>. QED
      BY <1>2, <3>1
  <2>. QED
    BY <2>1, <2>2
<1>4. DOMAIN definitions' = 1 .. n /\ definitions' \in Seq(Definition)
      /\ Len(definitions') = n
  <2>1. definitions' \in [1 .. n -> Definition]
    BY <1>2, <1>3
  <2>. QED
    BY <1>2, <2>1
<1>5. CatalogInv'
  BY <1>2, <1>3, <1>4 DEF CatalogInv, n
<1>. QED
  BY <1>2, <1>3, <1>4, <1>5

\* `remove` keeps the other definitions in their order.
LEMMA DeleteKeeps ==
    ASSUME CatalogInv, NEW id \in DefinitionIds, DeleteDefinition(id)
    PROVE  /\ CatalogInv'
           /\ \E p : /\ \A k \in DOMAIN definitions' :
                           /\ p[k] \in DOMAIN definitions
                           /\ definitions'[k] = definitions[p[k]]
                     /\ \A k, l \in DOMAIN definitions' : k < l => p[k] < p[l]
<1>. DEFINE S == {i \in DOMAIN definitions : definitions[i].id # id}
            n == Len(definitions)
            c == Cardinality(S)
            p == Ascending(S)
<1>1. n \in Nat /\ DOMAIN definitions = 1 .. n /\ S \in SUBSET (1 .. n)
  BY DEF CatalogInv
<1>2. definitions' = Kept(definitions, S) /\ definitions \in Seq(Definition)
  BY DEF DeleteDefinition, CatalogInv
<1>. HIDE DEF S, n
<1>3. /\ c \in Nat
      /\ \A k \in 1 .. c : p[k] \in S
      /\ \A k, l \in 1 .. c : k < l => p[k] < p[l]
  BY <1>1, AscendingOrder
<1>4. /\ definitions' \in Seq(Definition)
      /\ Len(definitions') = c
      /\ DOMAIN definitions' = 1 .. c
      /\ \A k \in 1 .. c : definitions'[k] = definitions[p[k]]
  <2>1. S \in SUBSET (DOMAIN definitions)
    BY <1>1
  <2>. QED
    BY <1>2, <2>1, KeptItems
<1>5. c <= n
  <2>1. IsFiniteSet(1 .. n) /\ Cardinality(1 .. n) = n
    <3>1. 1 \in Int /\ n \in Int
      BY <1>1
    <3>. QED
      BY <1>1, <3>1, FS_Interval
  <2>2. Cardinality(S) <= Cardinality(1 .. n)
    BY <1>1, <2>1, FS_Subset
  <2>. QED
    BY <2>1, <2>2
<1>. HIDE DEF c, p
<1>6. ASSUME NEW k \in 1 .. c, NEW l \in 1 .. c,
             definitions'[k].id = definitions'[l].id
      PROVE  k = l
  <2>1. p[k] \in 1 .. n /\ p[l] \in 1 .. n
    BY <1>1, <1>3
  <2>2. p[k] = p[l]
    BY <1>1, <1>4, <1>6, <2>1 DEF CatalogInv
  <2>3. ~ (k < l) /\ ~ (l < k)
    BY <1>1, <1>3, <2>1, <2>2
  <2>. QED
    BY <1>3, <2>3
<1>7. CatalogInv'
  <2>1. n <= MaxDefinitions /\ MaxDefinitions \in Nat
    BY RegistriesAssumption DEF CatalogInv, n
  <2>. QED
    BY <1>1, <1>4, <1>5, <1>3, <1>6, <2>1 DEF CatalogInv
<1>. QED
  BY <1>1, <1>3, <1>4, <1>7

-----------------------------------------------------------------------------
(* Queries on the holders *)

\* The positions of the holders that match a query, and the items of all.
Found(spec) == {i \in DOMAIN order : Matches(spec, Item(order[i]))}

Items == {Item(id) : id \in HolderIds}

\* `all` lists an item for each holder in the order.
LEMMA AllItems ==
    ASSUME order \in Seq(HolderIds)
    PROVE  /\ All \in Seq(Items)
           /\ Len(All) = Len(order)
           /\ DOMAIN All = 1 .. Len(order)
           /\ \A i \in 1 .. Len(order) : /\ All[i] = Item(order[i])
                                         /\ All[i].holderId.v = order[i]
<1>. DEFINE n == Len(order)
<1>1. n \in Nat /\ DOMAIN order = 1 .. n /\ \A i \in 1 .. n : order[i] \in HolderIds
  OBVIOUS
<1>. HIDE DEF n
<1>2. All = [i \in 1 .. n |-> Item(order[i])]
  BY <1>1 DEF All
<1>3. All \in [1 .. n -> Items]
  BY <1>1, <1>2 DEF Items
<1>4. \A id : Item(id).holderId.v = id
  BY DEF Item
<1>5. All \in Seq(Items) /\ Len(All) = n /\ DOMAIN All = 1 .. n
  BY <1>1, <1>3
<1>. QED
  BY <1>1, <1>2, <1>4, <1>5 DEF n

\* What matches a query is what is found, in the order of the registry.
LEMMA FoundItems ==
    ASSUME order \in Seq(HolderIds), NEW spec
    PROVE  /\ Found(spec) \in SUBSET (1 .. Len(order))
           /\ Matched(spec, All) \in Seq(Items)
           /\ Len(Matched(spec, All)) = Cardinality(Found(spec))
           /\ DOMAIN Matched(spec, All) = 1 .. Cardinality(Found(spec))
           /\ \A k \in 1 .. Cardinality(Found(spec)) :
                 /\ Ascending(Found(spec))[k] \in Found(spec)
                 /\ Ascending(Found(spec))[k] \in 1 .. Len(order)
                 /\ Matched(spec, All)[k] = All[Ascending(Found(spec))[k]]
                 /\ Matched(spec, All)[k].holderId.v
                      = order[Ascending(Found(spec))[k]]
           /\ ToSet(IdsOf(Matched(spec, All))) = {order[i] : i \in Found(spec)}
<1>. DEFINE n == Len(order)
            S == Found(spec)
            c == Cardinality(S)
            a == Ascending(S)
            m == Matched(spec, All)
<1>1. n \in Nat /\ DOMAIN order = 1 .. n
  OBVIOUS
<1>2. /\ All \in Seq(Items) /\ DOMAIN All = 1 .. n
      /\ \A i \in 1 .. n : All[i] = Item(order[i]) /\ All[i].holderId.v = order[i]
  BY AllItems
<1>3. S \in SUBSET (1 .. n)
  BY <1>1 DEF Found
<1>4. m = Kept(All, S)
  <2>1. S = {i \in DOMAIN All : Matches(spec, All[i])}
    BY <1>1, <1>2 DEF Found
  <2>. QED
    BY <2>1 DEF Matched
<1>. HIDE DEF n, S
<1>5. /\ c \in Nat
      /\ \A k \in 1 .. c : a[k] \in S
      /\ \A i \in S : \E k \in 1 .. c : a[k] = i
  BY <1>1, <1>3, AscendingOrder
<1>6. /\ m \in Seq(Items) /\ Len(m) = c /\ DOMAIN m = 1 .. c
      /\ \A k \in 1 .. c : m[k] = All[a[k]]
  <2>1. All \in Seq(Items) /\ S \in SUBSET (DOMAIN All)
    BY <1>2, <1>3
  <2>. HIDE DEF m
  <2>. QED
    BY <1>4, <2>1, KeptItems
<1>. HIDE DEF c, a, m
<1>7. \A k \in 1 .. c : /\ a[k] \in S /\ a[k] \in 1 .. n
                        /\ m[k] = All[a[k]] /\ m[k].holderId.v = order[a[k]]
  BY <1>2, <1>3, <1>5, <1>6
<1>8. ToSet(IdsOf(m)) = {order[i] : i \in S}
  <2>1. IdsOf(m) = [k \in 1 .. c |-> order[a[k]]]
    BY <1>6, <1>7 DEF IdsOf
  <2>2. ToSet(IdsOf(m)) = {order[a[k]] : k \in 1 .. c}
    BY <2>1 DEF ToSet
  <2>. QED
    BY <1>5, <2>2
<1>. QED
  BY <1>3, <1>6, <1>7, <1>8 DEF n, S, c, a, m

\* A query that does not sort and is not descending leaves the items as they
\* are.
LEMMA UnsortedStays ==
    ASSUME NEW V, NEW items \in Seq(V), NEW spec,
           spec.sortField = Absent, spec.sortOrder # "DESC"
    PROVE  Sorted(spec, items) = items
<1>. DEFINE n == Len(items)
            D == 1 .. n
            R == {p \in D \X D : GoesBefore(spec, items, p[1], p[2])}
            L == {p \in D \X D : p[1] < p[2]}
<1>1. n \in Nat /\ DOMAIN items = D /\ items = [k \in D |-> items[k]]
  OBVIOUS
<1>2. R = L
  BY DEF GoesBefore
<1>3. Sorted(spec, items) = At(items, Arranged(D, R))
  BY <1>1 DEF Sorted
<1>4. Arranged(D, L) = Ascending(D)
  BY DEF Ascending
<1>. HIDE DEF R, L, n
<1>5. DOMAIN Ascending(D) = D /\ \A k \in D : Ascending(D)[k] = k
  <2>1. D \in SUBSET (1 .. n)
    OBVIOUS
  <2>2. DOMAIN Ascending(D) = 1 .. Cardinality(D)
    BY <1>1, <2>1, AscendingOrder
  <2>. QED
    BY <1>1, <2>2, AscendingAll
<1>6. Sorted(spec, items) = [k \in D |-> items[k]]
  BY <1>2, <1>3, <1>4, <1>5 DEF At
<1>. QED
  BY <1>1, <1>6

-----------------------------------------------------------------------------
(* Walks *)

\* A walk in progress has seen what its query finds up to its offset, and all
\* that was there when it began is still found.
WalkInv ==
    /\ walk \in [pc : {"idle", "paging", "done"}, spec : Specs \cup {Absent},
                 offset : Nat, seen : Seq(HolderIds), start : SUBSET HolderIds]
    /\ WalkReturnsEachOnce
    /\ walk.pc = "paging" =>
          /\ walk.spec \in Specs
          /\ ReadsInOrder(walk.spec)
          /\ ~ Refused(walk.spec)
          /\ Len(walk.seen) = walk.offset
          /\ walk.offset <= Cardinality(Found(walk.spec))
          /\ \A k \in 1 .. walk.offset :
                walk.seen[k] = order[Ascending(Found(walk.spec))[k]]
          /\ walk.start \subseteq {order[i] : i \in Found(walk.spec)}

\* The page `query_holders` answers with when the client asks for an offset.
PageAt(spec, offset) == Apply([spec EXCEPT !.offset = offset], All)

\* The page at an offset holds what is found behind it, and is empty only at
\* the end.
LEMMA PageItems ==
    ASSUME order \in Seq(HolderIds), NEW spec \in Query, NEW offset \in Nat,
           ReadsInOrder(spec), ~ Refused(spec),
           offset <= Cardinality(Found(spec))
    PROVE  /\ PageAt(spec, offset) \in Seq(Items)
           /\ offset + Len(PageAt(spec, offset)) <= Cardinality(Found(spec))
           /\ PageAt(spec, offset) = <<>> => offset = Cardinality(Found(spec))
           /\ IdsOf(PageAt(spec, offset)) \in Seq(HolderIds)
           /\ Len(IdsOf(PageAt(spec, offset))) = Len(PageAt(spec, offset))
           /\ \A k \in 1 .. Len(PageAt(spec, offset)) :
                 IdsOf(PageAt(spec, offset))[k]
                   = order[Ascending(Found(spec))[offset + k]]
<1>. DEFINE q == [spec EXCEPT !.offset = offset]
            c == Cardinality(Found(spec))
            a == Ascending(Found(spec))
            m == Matched(spec, All)
            L == Limit(spec)
            e == Smaller(offset + L, c)
            page == PageAt(spec, offset)
<1>1. /\ q.offset = offset /\ q.limit = spec.limit
      /\ q.sortField = spec.sortField /\ q.sortOrder = spec.sortOrder
      /\ q.criteria = spec.criteria
  BY DEF Query
<1>2. Offset(q) = offset /\ Limit(q) = L
  <2>1. offset # Absent
    BY QueryAssumption
  <2>. HIDE DEF q
  <2>. QED
    BY <1>1, <2>1 DEF Offset, Limit
<1>3. L \in Nat \ {0}
  <2>1. spec.limit \in Int \cup {Absent} /\ spec.limit # 0
    BY DEF Query, ReadsInOrder
  <2>2. spec.limit # Absent => ~ (spec.limit < 0)
    BY DEF Refused
  <2>. QED
    BY <2>1, <2>2, QueryAssumption DEF Limit, Smaller
<1>4. Matched(q, All) = m
  <2>. HIDE DEF q
  <2>1. \A item : Matches(q, item) <=> Matches(spec, item)
    BY <1>1 DEF Matches
  <2>. QED
    BY <2>1 DEF Matched
<1>5. /\ m \in Seq(Items) /\ Len(m) = c /\ c \in Nat
      /\ \A k \in 1 .. c : a[k] \in 1 .. Len(order)
                           /\ m[k].holderId.v = order[a[k]]
  <2>1. m \in Seq(Items) /\ Len(m) = c
    BY FoundItems
  <2>2. c \in Nat
    <3>. HIDE DEF c, m
    <3>. QED
      BY <2>1
  <2>3. \A k \in 1 .. c : a[k] \in 1 .. Len(order)
                          /\ m[k].holderId.v = order[a[k]]
    BY FoundItems
  <2>. QED
    BY <2>1, <2>2, <2>3
<1>6. Sorted(q, m) = m
  <2>1. q.sortField = Absent /\ q.sortOrder # "DESC"
    BY <1>1 DEF ReadsInOrder
  <2>. HIDE DEF q, m
  <2>. QED
    BY <1>5, <2>1, UnsortedStays
<1>. HIDE DEF c, a, m, L
<1>7. page = SubSeq(m, offset + 1, e)
  <2>. HIDE DEF q
  <2>. QED
    BY <1>2, <1>4, <1>5, <1>6 DEF Apply, PageAt, q
<1>8. /\ e \in Nat /\ e <= c /\ offset <= e
      /\ e = offset => offset = c
  BY <1>3, <1>5 DEF Smaller, c
<1>. HIDE DEF e, page
<1>9. /\ page \in Seq(Items)
      /\ Len(page) = e - offset
      /\ \A k \in 1 .. Len(page) : page[k] = m[offset + k]
  <2>1. offset + 1 \in Int /\ e \in Int
    BY <1>8
  <2>2. \A i \in (offset + 1) .. e : m[i] \in Items
    BY <1>5, <1>8
  <2>3. /\ SubSeq(m, offset + 1, e) \in Seq(Items)
        /\ Len(SubSeq(m, offset + 1, e))
             = IF offset + 1 <= e THEN e - (offset + 1) + 1 ELSE 0
        /\ \A i \in 1 .. (e - (offset + 1) + 1) :
              SubSeq(m, offset + 1, e)[i] = m[(offset + 1) + i - 1]
    BY <2>1, <2>2, SubSeqProperties
  <2>4. Len(page) = e - offset
    BY <1>7, <1>8, <2>3
  <2>5. ASSUME NEW k \in 1 .. Len(page)
        PROVE  page[k] = m[offset + k]
    <3>1. k \in 1 .. (e - (offset + 1) + 1) /\ (offset + 1) + k - 1 = offset + k
      BY <1>8, <2>4
    <3>. QED
      BY <1>7, <2>3, <3>1
  <2>. QED
    BY <1>7, <2>3, <2>4, <2>5
<1>10. page = <<>> => offset = c
  BY <1>8, <1>9
<1>11. ASSUME NEW k \in 1 .. Len(page)
       PROVE  page[k].holderId.v = order[a[offset + k]]
              /\ order[a[offset + k]] \in HolderIds
  <2>1. offset + k \in 1 .. c
    BY <1>5, <1>8, <1>9
  <2>2. a[offset + k] \in 1 .. Len(order)
        /\ m[offset + k].holderId.v = order[a[offset + k]]
    BY <1>5, <2>1
  <2>3. order[a[offset + k]] \in HolderIds
    BY <2>2, ElementOfSeq
  <2>. QED
    BY <1>9, <2>2, <2>3
<1>12. /\ IdsOf(page) \in Seq(HolderIds)
       /\ Len(IdsOf(page)) = Len(page)
       /\ \A k \in 1 .. Len(page) : IdsOf(page)[k] = order[a[offset + k]]
  <2>1. Len(page) \in Nat /\ DOMAIN page = 1 .. Len(page)
    BY <1>9
  <2>2. IdsOf(page) = [k \in 1 .. Len(page) |-> page[k].holderId.v]
    BY <2>1 DEF IdsOf
  <2>3. IdsOf(page) \in [1 .. Len(page) -> HolderIds]
    BY <1>11, <2>2
  <2>4. IdsOf(page) \in Seq(HolderIds) /\ Len(IdsOf(page)) = Len(page)
    BY <2>1, <2>3, FunctionIsSeq
  <2>5. \A k \in 1 .. Len(page) : IdsOf(page)[k] = order[a[offset + k]]
    BY <1>11, <2>2
  <2>. QED
    BY <2>4, <2>5
<1>13. offset + Len(page) <= c
  BY <1>5, <1>8, <1>9
<1>. QED
  BY <1>9, <1>10, <1>12, <1>13 DEF c, a, page

\* What no step does to the holders: forget one, change its DID or its time of
\* creation, or change the order but at its end.
HoldersStay ==
    /\ \A id \in DOMAIN holders :
          /\ id \in DOMAIN holders'
          /\ holders'[id].did = holders[id].did
          /\ holders'[id].created = holders[id].created
    /\ order' = order \/ \E id \in HolderIds : order' = Append(order, id)

\* A holder that matches a query by what never changes goes on matching it,
\* and one that does not never will.
LEMMA MatchStays ==
    ASSUME HoldersStay, NEW x \in DOMAIN holders, NEW spec, ReadsInOrder(spec)
    PROVE  Matches(spec, Item(x))' <=> Matches(spec, Item(x))
<1>. DEFINE old == Item(x)
            new == [holderId  |-> [t |-> "string", v |-> x],
                    name      |-> IF holders'[x].name = Absent THEN Null
                                  ELSE String(holders'[x].name),
                    status    |-> String(StatusRank[holders'[x].status]),
                    createdAt |-> Number(holders'[x].created)]
<1>1. Matches(spec, Item(x))' <=> Matches(spec, new)
  BY DEF Matches, Item, OperandMatches, Field, Null, String, Number, StatusRank
<1>2. /\ DOMAIN old = {"holderId", "name", "status", "createdAt"}
      /\ DOMAIN new = {"holderId", "name", "status", "createdAt"}
      /\ old.holderId = new.holderId
  BY DEF Item
<1>3. old.createdAt = new.createdAt
  <2>1. holders'[x].created = holders[x].created
    BY DEF HoldersStay
  <2>. QED
    BY <2>1 DEF Item
<1>. HIDE DEF old, new
<1>4. \A f : f \notin {"name", "status"} => Field(new, f) = Field(old, f)
  BY <1>2, <1>3 DEF Field
<1>5. \A i \in DOMAIN spec.criteria :
         spec.criteria[i].left \notin {"name", "status"}
  BY DEF ReadsInOrder
<1>6. Matches(spec, new) <=> Matches(spec, old)
  BY <1>4, <1>5 DEF Matches
<1>. QED
  BY <1>1, <1>6 DEF old

\* What is found keeps its places, whatever is registered, decided or renamed.
LEMMA FoundGrows ==
    ASSUME HolderInv, HoldersStay, NEW spec, ReadsInOrder(spec)
    PROVE  /\ Cardinality(Found(spec)) \in Nat
           /\ Cardinality(Found(spec)') \in Nat
           /\ Cardinality(Found(spec)) <= Cardinality(Found(spec)')
           /\ \A k \in 1 .. Cardinality(Found(spec)) :
                 order'[Ascending(Found(spec)')[k]]
                   = order[Ascending(Found(spec))[k]]
           /\ {order[i] : i \in Found(spec)} \subseteq {order'[i] : i \in Found(spec)'}
<1>. DEFINE n == Len(order)
            N == n + 1
            S == Found(spec)
            T == Found(spec)'
<1>1. /\ n \in Nat /\ DOMAIN order = 1 .. n
      /\ \A i \in 1 .. n : order[i] \in DOMAIN holders
  BY DEF HolderInv, IndexAgrees, ToSet
<1>2. /\ \A i \in 1 .. n : i \in DOMAIN order' /\ order'[i] = order[i]
      /\ DOMAIN order' \subseteq 1 .. N
  <2>1. CASE order' = order
    BY <1>1, <2>1
  <2>2. CASE \E id \in HolderIds : order' = Append(order, id)
    BY <1>1, <2>2 DEF HolderInv
  <2>. QED
    BY <2>1, <2>2 DEF HoldersStay
<1>3. T = {i \in DOMAIN order' : Matches(spec, Item(order[i]))'}
  BY DEF Found
<1>4. S = {i \in 1 .. n : Matches(spec, Item(order[i]))}
  BY <1>1 DEF Found
<1>. HIDE DEF n, S, T
<1>5. \A i \in 1 .. n : i \in T <=> i \in S
  <2>. SUFFICES ASSUME NEW i \in 1 .. n
                PROVE  i \in T <=> i \in S
    OBVIOUS
  <2>1. PICK x \in DOMAIN holders : x = order[i] /\ x = order'[i]
    BY <1>1, <1>2
  <2>2. i \in S <=> Matches(spec, Item(x))
    BY <1>4, <2>1
  <2>3. i \in T <=> Matches(spec, Item(x))'
    <3>1. i \in T <=> Matches(spec, Item(order[i]))'
      BY <1>2, <1>3
    <3>. QED
      BY <2>1, <3>1 DEF Item, Matches
  <2>. QED
    BY <2>2, <2>3, MatchStays
<1>6. /\ N \in Nat /\ S \in SUBSET (1 .. N) /\ T \in SUBSET (1 .. N)
      /\ S \subseteq T /\ \A i \in S, j \in T \ S : i < j
  <2>1. S \subseteq 1 .. n /\ T \subseteq 1 .. N
    BY <1>2, <1>3, <1>4
  <2>2. \A j \in T \ S : j = N
    BY <1>1, <1>5, <2>1
  <2>. QED
    BY <1>1, <1>5, <2>1, <2>2
<1>. HIDE DEF N
<1>7. Cardinality(S) \in Nat /\ Cardinality(T) \in Nat
  <2>1. Cardinality(S) \in Nat
    BY <1>6, AscendingOrder
  <2>2. Cardinality(T) \in Nat
    BY <1>6, AscendingOrder
  <2>. QED
    BY <2>1, <2>2
<1>8. /\ Cardinality(S) <= Cardinality(T)
      /\ \A k \in 1 .. Cardinality(S) : Ascending(T)[k] = Ascending(S)[k]
  BY <1>6, AscendingPrefix
<1>9. \A k \in 1 .. Cardinality(S) : Ascending(S)[k] \in S
  BY <1>6, AscendingOrder
<1>10. S \subseteq 1 .. n
  BY <1>4
<1>11. \A k \in 1 .. Cardinality(S) :
          order'[Ascending(T)[k]] = order[Ascending(S)[k]]
  BY <1>2, <1>8, <1>9, <1>10
<1>12. {order[i] : i \in S} \subseteq {order'[i] : i \in T}
  BY <1>2, <1>5, <1>10
<1>. QED
  BY <1>7, <1>8, <1>11, <1>12 DEF S, T

\* A step that is not the client's keeps the walk where it is.
LEMMA OthersKeepWalk ==
    ASSUME HolderInv, WalkInv, HoldersStay, UNCHANGED walk
    PROVE  WalkInv'
<1>1. /\ walk' \in [pc : {"idle", "paging", "done"}, spec : Specs \cup {Absent},
                    offset : Nat, seen : Seq(HolderIds), start : SUBSET HolderIds]
      /\ WalkReturnsEachOnce'
  BY DEF WalkInv, WalkReturnsEachOnce
<1>2. ASSUME walk.pc = "paging"
      PROVE  /\ walk'.spec \in Specs
             /\ ReadsInOrder(walk'.spec)
             /\ ~ Refused(walk'.spec)
             /\ Len(walk'.seen) = walk'.offset
             /\ walk'.offset <= Cardinality(Found(walk.spec)')
             /\ \A k \in 1 .. walk'.offset :
                   walk'.seen[k] = order'[Ascending(Found(walk.spec)')[k]]
             /\ walk'.start \subseteq {order'[i] : i \in Found(walk.spec)'}
  <2>1. PICK spec \in Specs : spec = walk.spec
    BY <1>2 DEF WalkInv
  <2>2. /\ ReadsInOrder(spec) /\ ~ Refused(spec)
        /\ walk.offset \in Nat
        /\ Len(walk.seen) = walk.offset
        /\ walk.offset <= Cardinality(Found(spec))
        /\ \A k \in 1 .. walk.offset :
              walk.seen[k] = order[Ascending(Found(spec))[k]]
        /\ walk.start \subseteq {order[i] : i \in Found(spec)}
    BY <1>2, <2>1 DEF WalkInv
  <2>3. Found(walk.spec)' = Found(spec)'
    <3>1. walk'.spec = spec
      BY <2>1
    <3>. QED
      BY <3>1 DEF Found
  <2>4. /\ Cardinality(Found(spec)) \in Nat
        /\ Cardinality(Found(spec)') \in Nat
        /\ Cardinality(Found(spec)) <= Cardinality(Found(spec)')
        /\ \A k \in 1 .. Cardinality(Found(spec)) :
              order'[Ascending(Found(spec)')[k]] = order[Ascending(Found(spec))[k]]
        /\ {order[i] : i \in Found(spec)} \subseteq {order'[i] : i \in Found(spec)'}
    BY <2>2, FoundGrows
  <2>5. walk'.offset <= Cardinality(Found(spec)')
    BY <2>2, <2>4
  <2>6. \A k \in 1 .. walk'.offset :
           walk'.seen[k] = order'[Ascending(Found(spec)')[k]]
    BY <2>2, <2>4
  <2>7. walk'.start \subseteq {order'[i] : i \in Found(spec)'}
    BY <2>2, <2>4
  <2>. QED
    BY <2>1, <2>2, <2>3, <2>5, <2>6, <2>7
<1>3. walk'.pc = "paging" => walk.pc = "paging"
  OBVIOUS
<1>. QED
  BY <1>1, <1>2, <1>3 DEF WalkInv

\* The holders are what they were when only the client acts.
LEMMA FoundSame ==
    ASSUME UNCHANGED <<holders, order>>, NEW spec
    PROVE  Found(spec)' = Found(spec)
BY DEF Found, Matches, Item

\* A walk begins with nothing seen.
LEMMA StartKeeps ==
    ASSUME HolderInv, WalkInv, NEW spec \in Specs, StartWalk(spec)
    PROVE  WalkInv'
<1>1. UNCHANGED <<holders, order>> /\ ReadsInOrder(spec)
  BY DEF StartWalk, holderVars
<1>2. CASE Refused(spec)
  <2>1. walk' = NoWalk
    BY <1>2 DEF StartWalk
  <2>. QED
    BY <2>1 DEF WalkInv, NoWalk, WalkReturnsEachOnce, IsInjective
<1>3. CASE ~ Refused(spec)
  <2>. DEFINE start == ToSet(IdsOf(Matched(spec, All)))
  <2>1. walk' = [pc |-> "paging", spec |-> spec, offset |-> 0, seen |-> <<>>,
                 start |-> start]
    BY <1>3 DEF StartWalk, NoWalk
  <2>2. start = {order[i] : i \in Found(spec)} /\ Found(spec) \in SUBSET (1 .. Len(order))
    BY FoundItems DEF HolderInv
  <2>. HIDE DEF start
  <2>3. start \in SUBSET HolderIds
    BY <2>2 DEF HolderInv
  <2>4. walk' \in [pc : {"idle", "paging", "done"}, spec : Specs \cup {Absent},
                   offset : Nat, seen : Seq(HolderIds), start : SUBSET HolderIds]
    BY <2>1, <2>3
  <2>5. WalkReturnsEachOnce'
    BY <2>1 DEF WalkReturnsEachOnce, IsInjective
  <2>6. Found(walk.spec)' = Found(spec)
    <3>1. Found(walk.spec)' = Found(spec)'
      BY <2>1 DEF Found
    <3>. QED
      BY <1>1, <3>1, FoundSame
  <2>7. Cardinality(Found(spec)) \in Nat
    <3>1. Len(order) \in Nat
      BY DEF HolderInv
    <3>. QED
      BY <2>2, <3>1, AscendingOrder
  <2>8. /\ walk'.spec \in Specs /\ ReadsInOrder(walk'.spec) /\ ~ Refused(walk'.spec)
        /\ Len(walk'.seen) = walk'.offset
        /\ walk'.offset <= Cardinality(Found(spec))
        /\ \A k \in 1 .. walk'.offset :
              walk'.seen[k] = order'[Ascending(Found(spec))[k]]
        /\ walk'.start \subseteq {order'[i] : i \in Found(spec)}
    BY <1>1, <1>3, <2>1, <2>2, <2>7
  <2>. QED
    BY <2>4, <2>5, <2>6, <2>8 DEF WalkInv
<1>. QED
  BY <1>2, <1>3

\* A page goes on where the last one ended: nothing is seen twice, and at the
\* empty page everything that is found has been seen.
LEMMA PageKeeps ==
    ASSUME HolderInv, WalkInv, NextPage
    PROVE  WalkInv'
<1>1. PICK spec \in Specs : spec = walk.spec
  BY DEF WalkInv, NextPage
<1>2. PICK offset \in Nat, seen \in Seq(HolderIds), start \in SUBSET HolderIds :
         offset = walk.offset /\ seen = walk.seen /\ start = walk.start
  BY DEF WalkInv
<1>. DEFINE S == Found(spec)
            c == Cardinality(S)
            a == Ascending(S)
<1>3. /\ ReadsInOrder(spec) /\ ~ Refused(spec) /\ spec \in Query
      /\ Len(seen) = offset /\ offset <= c
      /\ \A k \in 1 .. offset : seen[k] = order[a[k]]
      /\ start \subseteq {order[i] : i \in S}
  BY <1>1, <1>2, RegistriesAssumption DEF WalkInv, NextPage
<1>4. PICK page : page = PageAt(spec, offset)
  OBVIOUS
<1>5. walk' = [pc |-> IF page = <<>> THEN "done" ELSE "paging", spec |-> spec,
               offset |-> offset + Len(page), seen |-> seen \o IdsOf(page),
               start |-> start]
  BY <1>1, <1>2, <1>4 DEF NextPage, WalkInv, PageAt
<1>6. UNCHANGED <<holders, order>>
  BY DEF NextPage, holderVars
<1>7. order \in Seq(HolderIds)
  BY DEF HolderInv
<1>8. /\ page \in Seq(Items)
      /\ offset + Len(page) <= c
      /\ page = <<>> => offset = c
      /\ IdsOf(page) \in Seq(HolderIds)
      /\ Len(IdsOf(page)) = Len(page)
      /\ \A k \in 1 .. Len(page) : IdsOf(page)[k] = order[a[offset + k]]
  BY <1>3, <1>4, <1>7, PageItems
<1>. DEFINE len == Len(page)
            ids == IdsOf(page)
            all == seen \o ids
<1>9. len \in Nat
  BY <1>8
<1>10. S \in SUBSET (1 .. Len(order)) /\ Len(order) \in Nat
  BY <1>7, FoundItems
<1>. HIDE DEF S
<1>11. /\ c \in Nat
       /\ \A k \in 1 .. c : a[k] \in S
       /\ \A k, l \in 1 .. c : k < l => a[k] < a[l]
       /\ \A i \in S : \E k \in 1 .. c : a[k] = i
  <2>1. c \in Nat /\ \A k \in 1 .. c : a[k] \in S
    BY <1>10, AscendingOrder
  <2>2. \A k, l \in 1 .. c : k < l => a[k] < a[l]
    BY <1>10, AscendingOrder
  <2>3. \A i \in S : \E k \in 1 .. c : a[k] = i
    BY <1>10, AscendingOrder, ZenonT(60)
  <2>. QED
    BY <2>1, <2>2, <2>3
<1>. HIDE DEF c, a, len, ids
<1>12. /\ all \in Seq(HolderIds) /\ Len(all) = offset + len
       /\ \A k \in 1 .. (offset + len) : all[k] = order[a[k]]
  <2>1. /\ all \in Seq(HolderIds) /\ Len(all) = offset + len
        /\ \A k \in 1 .. offset : all[k] = seen[k]
        /\ \A k \in (offset + 1) .. (offset + len) : all[k] = ids[k - offset]
    <3>1. seen \in Seq(HolderIds) /\ ids \in Seq(HolderIds)
          /\ Len(seen) = offset /\ Len(ids) = len
      BY <1>3, <1>8 DEF len, ids
    <3>2. /\ all \in Seq(HolderIds) /\ Len(all) = Len(seen) + Len(ids)
          /\ \A k \in 1 .. Len(seen) + Len(ids) :
                all[k] = IF k <= Len(seen) THEN seen[k] ELSE ids[k - Len(seen)]
      BY <3>1, ConcatProperties
    <3>. HIDE DEF all
    <3>. QED
      BY <1>9, <3>1, <3>2
  <2>. HIDE DEF all
  <2>2. ASSUME NEW k \in 1 .. (offset + len)
        PROVE  all[k] = order[a[k]]
    <3>1. CASE k \in 1 .. offset
      BY <1>3, <2>1, <3>1
    <3>2. CASE k \in (offset + 1) .. (offset + len)
      <4>1. k - offset \in 1 .. len /\ offset + (k - offset) = k
        BY <1>9, <3>2
      <4>2. ids[k - offset] = order[a[offset + (k - offset)]]
        BY <1>8, <4>1 DEF len, ids
      <4>. QED
        BY <2>1, <3>2, <4>1, <4>2
    <3>. QED
      BY <1>9, <3>1, <3>2
  <2>. QED
    BY <2>1, <2>2
<1>. HIDE DEF all
<1>13. IsInjective(all)
  <2>1. ASSUME NEW k \in 1 .. (offset + len), NEW l \in 1 .. (offset + len),
               all[k] = all[l]
        PROVE  k = l
    <3>1. k \in 1 .. c /\ l \in 1 .. c
      BY <1>8, <1>9, <1>11 DEF len
    <3>2. a[k] \in 1 .. Len(order) /\ a[l] \in 1 .. Len(order)
      BY <1>10, <1>11, <3>1
    <3>3. a[k] = a[l]
      <4>1. \A i, j \in 1 .. Len(order) : order[i] = order[j] => i = j
        BY <1>7 DEF HolderInv
      <4>2. order[a[k]] = order[a[l]]
        BY <1>12, <2>1
      <4>. QED
        BY <3>2, <4>1, <4>2
    <3>4. ~ (k < l) /\ ~ (l < k)
      BY <1>11, <3>1, <3>2, <3>3
    <3>. QED
      BY <3>1, <3>4
  <2>2. DOMAIN all = 1 .. (offset + len)
    BY <1>12
  <2>. QED
    BY <2>1, <2>2 DEF IsInjective
<1>14. ASSUME page = <<>>
       PROVE  start \subseteq ToSet(all)
  <2>1. offset = c /\ len = 0
    BY <1>8, <1>14 DEF len
  <2>2. ASSUME NEW x \in start
        PROVE  x \in ToSet(all)
    <3>1. PICK i \in S : x = order[i]
      BY <1>3
    <3>2. PICK k \in 1 .. c : a[k] = i
      BY <1>11
    <3>3. k \in DOMAIN all /\ all[k] = x
      BY <1>11, <1>12, <2>1, <3>1, <3>2
    <3>. QED
      BY <3>3 DEF ToSet
  <2>. QED
    BY <2>2
<1>15. /\ walk'.pc = (IF page = <<>> THEN "done" ELSE "paging")
       /\ walk'.spec = spec /\ walk'.offset = offset + len
       /\ walk'.seen = all /\ walk'.start = start
  BY <1>5 DEF all, len, ids
<1>16. walk' \in [pc : {"idle", "paging", "done"}, spec : Specs \cup {Absent},
                  offset : Nat, seen : Seq(HolderIds), start : SUBSET HolderIds]
  <2>1. walk' = [pc |-> IF page = <<>> THEN "done" ELSE "paging", spec |-> spec,
                 offset |-> offset + len, seen |-> all, start |-> start]
    BY <1>5 DEF all, len, ids
  <2>. QED
    BY <1>9, <1>12, <2>1
<1>17. WalkReturnsEachOnce'
  BY <1>13, <1>14, <1>15 DEF WalkReturnsEachOnce
<1>18. Found(walk.spec)' = S
  <2>1. Found(walk.spec)' = Found(spec)'
    BY <1>15 DEF Found
  <2>. QED
    BY <1>6, <2>1, FoundSame DEF S
<1>19. /\ walk'.spec \in Specs /\ ReadsInOrder(walk'.spec) /\ ~ Refused(walk'.spec)
       /\ Len(walk'.seen) = walk'.offset
       /\ walk'.offset <= Cardinality(S)
       /\ \A k \in 1 .. walk'.offset : walk'.seen[k] = order'[Ascending(S)[k]]
       /\ walk'.start \subseteq {order'[i] : i \in S}
  BY <1>3, <1>6, <1>8, <1>12, <1>15 DEF c, a, len
<1>. QED
  BY <1>16, <1>17, <1>18, <1>19 DEF WalkInv

-----------------------------------------------------------------------------
(* The inductive invariant *)

RegistryInv ==
    /\ now \in 0 .. MaxTime
    /\ HolderInv
    /\ CatalogInv
    /\ WalkInv

\* What no step does to the definitions that stay in the catalog.
DefinitionsStay ==
    \A i, j \in DOMAIN definitions : \A k, l \in DOMAIN definitions' :
        /\ definitions[i].id = definitions'[k].id
        /\ definitions[j].id = definitions'[l].id
        => /\ definitions[i].created = definitions'[k].created
           /\ i < j => k < l

\* The registry is empty and the catalog seeded with one definition.
LEMMA RegistryInit == Init => RegistryInv
<1>. SUFFICES ASSUME Init
              PROVE  RegistryInv
  OBVIOUS
<1>1. now \in 0 .. MaxTime
  BY RegistriesAssumption DEF Init
<1>2. HolderInv
  <2>1. DOMAIN holders = {} /\ DOMAIN byDid = {} /\ DOMAIN order = {}
        /\ Len(order) = 0 /\ order \in Seq(HolderIds)
    BY DEF Init
  <2>2. holders \in [DOMAIN holders -> Holder] /\ byDid \in [DOMAIN byDid -> HolderIds]
    BY <2>1 DEF Init
  <2>3. IsFiniteSet(DOMAIN holders) /\ Cardinality(DOMAIN holders) = 0
    BY <2>1, FS_EmptySet
  <2>4. Cardinality(DOMAIN holders) <= MaxHolders
    BY <2>3, RegistriesAssumption
  <2>5. IndexAgrees
    <3>1. {byDid[k] : k \in DOMAIN byDid} = {} /\ ToSet(order) = {}
      BY <2>1 DEF ToSet
    <3>. QED
      BY <2>1, <2>3, <3>1 DEF IndexAgrees
  <2>. QED
    BY <2>1, <2>2, <2>3, <2>4, <2>5 DEF HolderInv
<1>3. CatalogInv
  <2>. DEFINE d == [id |-> CHOOSE x \in DefinitionIds : TRUE,
                    validity |-> DefaultValidity, created |-> 0]
  <2>1. definitions = <<d>> /\ d \in Definition
    BY RegistriesAssumption DEF Init, Definition
  <2>. HIDE DEF d
  <2>. QED
    BY <2>1, RegistriesAssumption DEF CatalogInv
<1>4. WalkInv
  BY DEF Init, NoWalk, WalkInv, WalkReturnsEachOnce, IsInjective
<1>. QED
  BY <1>1, <1>2, <1>3, <1>4 DEF RegistryInv

\* Every step keeps the holders' registry consistent and its records.
LEMMA StepHolders ==
    ASSUME RegistryInv, [Next]_vars
    PROVE  HolderInv' /\ HoldersStay
<1>1. CASE UNCHANGED holderVars
  BY <1>1 DEF RegistryInv, HolderInv, HoldersStay, holderVars, IndexAgrees,
     Known, ByDid
<1>. DEFINE Time == 0 .. MaxTime
<1>2. \A t \in 0 .. now : t \in Time
  BY RegistriesAssumption DEF RegistryInv
<1>3. ASSUME NEW id \in HolderIds, NEW did \in Dids, NEW name \in Names \cup {Absent},
             NEW status \in Statuses, NEW t \in Time,
             CanInsert(id, did), Insert(id, did, name, status, t)
      PROVE  HolderInv' /\ HoldersStay
  <2>1. HolderInv'
    BY <1>3, InsertKeeps DEF RegistryInv
  <2>2. /\ \A x \in DOMAIN holders : x \in DOMAIN holders' /\ holders'[x] = holders[x]
        /\ order' = Append(order, id)
    BY <1>3 DEF Insert, CanInsert, Extend
  <2>. QED
    BY <2>1, <2>2 DEF HoldersStay
<1>4. ASSUME NEW id \in HolderIds, NEW did \in Dids, NEW t \in 0 .. now,
             NEW name \in Names \cup {Absent}, RegisterHolder(id, did, name, t)
      PROVE  HolderInv' /\ HoldersStay
  <2>1. CanInsert(id, did) /\ Insert(id, did, name, "approved", t)
    BY <1>4 DEF RegisterHolder
  <2>. QED
    BY <1>2, <1>3, <2>1 DEF Statuses
<1>5. ASSUME NEW id \in HolderIds, NEW did \in Dids, NEW t \in 0 .. now,
             NEW status \in {"pending", "approved"}, FirstContact(id, did, status, t)
      PROVE  HolderInv' /\ HoldersStay
  <2>1. CanInsert(id, did) /\ Insert(id, did, Absent, status, t)
    BY <1>5 DEF FirstContact
  <2>2. status \in Statuses /\ Absent \in Names \cup {Absent}
    BY DEF Statuses
  <2>. QED
    BY <1>2, <1>3, <2>1, <2>2
<1>6. ASSUME NEW id \in DOMAIN holders, NEW r \in Holder, r.did = holders[id].did,
             r.created = holders[id].created,
             holders' = [holders EXCEPT ![id] = r], UNCHANGED <<byDid, order>>
      PROVE  HolderInv' /\ HoldersStay
  <2>1. HolderInv'
    BY <1>6, ChangeKeeps DEF RegistryInv
  <2>. QED
    BY <1>6, <2>1 DEF HoldersStay
<1>7. ASSUME NEW id \in DOMAIN holders
      PROVE  holders[id] \in Holder
  BY DEF RegistryInv, HolderInv
<1>8. ASSUME NEW id \in HolderIds, NEW status \in {"approved", "rejected"},
             DecideHolder(id, status)
      PROVE  HolderInv' /\ HoldersStay
  <2>. DEFINE r == [holders[id] EXCEPT !.status = status]
  <2>1. /\ id \in DOMAIN holders /\ UNCHANGED <<byDid, order>>
        /\ holders' = [holders EXCEPT ![id] = r]
    BY <1>8 DEF DecideHolder
  <2>2. r \in Holder /\ r.did = holders[id].did /\ r.created = holders[id].created
    BY <1>7, <2>1 DEF Holder, Statuses
  <2>. HIDE DEF r
  <2>. QED
    BY <1>6, <2>1, <2>2
<1>9. ASSUME NEW id \in HolderIds, NEW name \in Names, UpdateHolder(id, name)
      PROVE  HolderInv' /\ HoldersStay
  <2>. DEFINE r == [holders[id] EXCEPT !.name = name]
  <2>1. /\ id \in DOMAIN holders /\ UNCHANGED <<byDid, order>>
        /\ holders' = [holders EXCEPT ![id] = r]
    BY <1>9 DEF UpdateHolder
  <2>2. r \in Holder /\ r.did = holders[id].did /\ r.created = holders[id].created
    BY <1>7, <2>1 DEF Holder
  <2>. HIDE DEF r
  <2>. QED
    BY <1>6, <2>1, <2>2
<1>10. CASE HolderStep
  BY <1>4, <1>5, <1>8, <1>9, <1>10 DEF HolderStep
<1>11. CASE Tick \/ CatalogStep \/ WalkStep \/ UNCHANGED vars
  <2>1. UNCHANGED holderVars
    BY <1>11 DEF Tick, CatalogStep, CreateDefinition, UpdateDefinition,
       DeleteDefinition, WalkStep, NextPage, StartWalk, vars, holderVars
  <2>. QED
    BY <1>1, <2>1
<1>. QED
  BY <1>10, <1>11 DEF Next

\* Every step keeps the ids of the catalog apart and the place and the time
\* of creation of the definitions that stay.
LEMMA StepCatalog ==
    ASSUME RegistryInv, [Next]_vars
    PROVE  CatalogInv' /\ DefinitionsStay
<1>. DEFINE n == Len(definitions)
<1>1. /\ definitions \in Seq(Definition) /\ n \in Nat /\ DOMAIN definitions = 1 .. n
      /\ \A i, j \in 1 .. n : definitions[i].id = definitions[j].id => i = j
  BY DEF RegistryInv, CatalogInv
<1>2. CatalogInv
  BY DEF RegistryInv
<1>3. CASE UNCHANGED definitions
  BY <1>1, <1>2, <1>3 DEF CatalogInv, DefinitionsStay
<1>. HIDE DEF n
<1>4. \A t \in 0 .. now : t \in 0 .. MaxTime
  BY RegistriesAssumption DEF RegistryInv
<1>5. ASSUME NEW id \in DefinitionIds, NEW validity \in Validities,
             NEW t \in 0 .. now, CreateDefinition(id, validity, t)
      PROVE  CatalogInv' /\ DefinitionsStay
  <2>1. CatalogInv'
    BY <1>2, <1>4, <1>5, CreateKeeps
  <2>2. /\ DOMAIN definitions' = 1 .. (n + 1)
        /\ \A i \in 1 .. n : definitions'[i] = definitions[i]
        /\ definitions'[n + 1].id = id
        /\ \A i \in 1 .. n : definitions[i].id # id
    <3>1. /\ definitions' = Append(definitions, IntoDefinition(id, validity, t))
          /\ \A i \in 1 .. n : definitions[i].id # id
      BY <1>1, <1>5 DEF CreateDefinition, DefinitionsOf
    <3>2. IntoDefinition(id, validity, t).id = id
      BY DEF IntoDefinition
    <3>. QED
      BY <1>1, <3>1, <3>2 DEF n
  <2>3. ASSUME NEW i \in 1 .. n, NEW k \in 1 .. (n + 1),
               definitions[i].id = definitions'[k].id
        PROVE  k = i /\ definitions'[k] = definitions[i]
    BY <1>1, <2>2, <2>3
  <2>. QED
    BY <1>1, <2>1, <2>2, <2>3 DEF DefinitionsStay
<1>6. ASSUME NEW id \in DefinitionIds, NEW validity \in Validities,
             NEW t \in 0 .. now, UpdateDefinition(id, validity, t)
      PROVE  CatalogInv' /\ DefinitionsStay
  <2>1. /\ CatalogInv'
        /\ DOMAIN definitions' = 1 .. n
        /\ \A i \in 1 .. n : /\ definitions'[i].id = definitions[i].id
                             /\ definitions'[i].created = definitions[i].created
    BY <1>1, <1>2, <1>4, <1>6, UpdateKeeps
  <2>. QED
    BY <1>1, <2>1 DEF DefinitionsStay
<1>7. ASSUME NEW id \in DefinitionIds, DeleteDefinition(id)
      PROVE  CatalogInv' /\ DefinitionsStay
  <2>1. CatalogInv'
    BY <1>2, <1>7, DeleteKeeps
  <2>2. PICK p : /\ \A k \in DOMAIN definitions' :
                       /\ p[k] \in DOMAIN definitions
                       /\ definitions'[k] = definitions[p[k]]
                 /\ \A k, l \in DOMAIN definitions' : k < l => p[k] < p[l]
    BY <1>2, <1>7, DeleteKeeps
  <2>3. DOMAIN definitions' \subseteq Nat
    BY <2>1 DEF CatalogInv
  <2>4. ASSUME NEW i \in DOMAIN definitions, NEW j \in DOMAIN definitions,
               NEW k \in DOMAIN definitions', NEW l \in DOMAIN definitions',
               definitions[i].id = definitions'[k].id,
               definitions[j].id = definitions'[l].id
        PROVE  /\ definitions[i].created = definitions'[k].created
               /\ i < j => k < l
    <3>1. i = p[k] /\ j = p[l]
      BY <1>1, <2>2, <2>4
    <3>2. i < j => k < l
      <4>1. l < k => j < i
        BY <2>2, <3>1
      <4>2. l = k => j = i
        BY <3>1
      <4>. QED
        BY <1>1, <2>3, <4>1, <4>2
    <3>. QED
      BY <2>2, <3>1, <3>2
  <2>. QED
    BY <2>1, <2>4 DEF DefinitionsStay
<1>8. CASE CatalogStep
  BY <1>5, <1>6, <1>7, <1>8 DEF CatalogStep
<1>9. CASE Tick \/ HolderStep \/ WalkStep \/ UNCHANGED vars
  <2>1. UNCHANGED definitions
    BY <1>9 DEF Tick, HolderStep, RegisterHolder, FirstContact, DecideHolder,
       UpdateHolder, WalkStep, NextPage, StartWalk, vars
  <2>. QED
    BY <1>3, <2>1
<1>. QED
  BY <1>8, <1>9 DEF Next

\* Every step keeps a walk in the order of the registry.
LEMMA StepWalk ==
    ASSUME RegistryInv, [Next]_vars
    PROVE  WalkInv'
<1>1. HolderInv /\ WalkInv
  BY DEF RegistryInv
<1>2. CASE UNCHANGED walk
  BY <1>1, <1>2, StepHolders, OthersKeepWalk
<1>3. CASE NextPage
  BY <1>1, <1>3, PageKeeps
<1>4. ASSUME NEW spec \in Specs, StartWalk(spec)
      PROVE  WalkInv'
  BY <1>1, <1>4, StartKeeps
<1>5. CASE Tick \/ HolderStep \/ CatalogStep \/ UNCHANGED vars
  <2>1. UNCHANGED walk
    BY <1>5 DEF Tick, HolderStep, RegisterHolder, FirstContact, DecideHolder,
       UpdateHolder, CatalogStep, CreateDefinition, UpdateDefinition,
       DeleteDefinition, vars
  <2>. QED
    BY <1>2, <2>1
<1>. QED
  BY <1>3, <1>4, <1>5 DEF Next, WalkStep

\* The invariant is inductive.
LEMMA RegistryStep == RegistryInv /\ [Next]_vars => RegistryInv'
<1>. SUFFICES ASSUME RegistryInv, [Next]_vars
              PROVE  RegistryInv'
  OBVIOUS
<1>1. HolderInv' /\ CatalogInv' /\ WalkInv'
  BY StepHolders, StepCatalog, StepWalk
<1>2. now' \in 0 .. MaxTime
  <2>1. now' = now \/ (now < MaxTime /\ now' = now + 1)
    BY DEF Next, Tick, HolderStep, RegisterHolder, FirstContact, DecideHolder,
       UpdateHolder, CatalogStep, CreateDefinition, UpdateDefinition,
       DeleteDefinition, WalkStep, NextPage, StartWalk, vars
  <2>. QED
    BY <2>1, RegistriesAssumption DEF RegistryInv
<1>. QED
  BY <1>1, <1>2 DEF RegistryInv

\* The registries satisfy the invariant in every state of every behaviour.
LEMMA RegistrySafe == Spec => []RegistryInv
BY RegistryInit, RegistryStep, PTL DEF Spec

-----------------------------------------------------------------------------
(* Sorting *)

\* A column: the values of one field, some of them null and the others of one
\* type that has an order.
IsColumn(C) ==
    \E T \in {"number", "string"} :
        \A a \in C : a.t = "null" \/ (a.t = T /\ a.v \in Int)

\* `compare_values` is a strict weak order on a column: asymmetric,
\* transitive, and values it does not tell apart are interchangeable.
LEMMA LessOrdersColumn ==
    ASSUME NEW C, IsColumn(C)
    PROVE  \A a, b, c \in C :
              /\ ~ (Less(a, b) /\ Less(b, a))
              /\ Less(a, b) /\ Less(b, c) => Less(a, c)
              /\ ~ Less(a, b) /\ ~ Less(b, c) => ~ Less(a, c)
<1>1. PICK T \in {"number", "string"} :
         \A a \in C : a.t = "null" \/ (a.t = T /\ a.v \in Int)
  BY DEF IsColumn
<1>. QED
  BY <1>1 DEF Less

\* A field of the holders is a column.
LEMMA FieldIsColumn ==
    ASSUME HolderInv, NEW f, f = "holderId" => HolderIds \subseteq Int
    PROVE  IsColumn({Field(All[i], f) : i \in 1 .. Len(order)})
<1>. DEFINE n == Len(order)
            C == {Field(All[i], f) : i \in 1 .. n}
<1>1. \A i \in 1 .. n : /\ order[i] \in HolderIds
                        /\ order[i] \in DOMAIN holders
                        /\ All[i] = Item(order[i])
  <2>1. order \in Seq(HolderIds) /\ ToSet(order) = DOMAIN holders
    BY DEF HolderInv, IndexAgrees
  <2>. QED
    BY <2>1, AllItems DEF ToSet
<1>2. \A x \in DOMAIN holders : /\ holders[x].name \in Int \cup {Absent}
                                /\ holders[x].status \in Statuses
                                /\ holders[x].created \in Int
  BY RegistriesAssumption DEF HolderInv, Holder
<1>. HIDE DEF n
<1>3. ASSUME NEW a \in C
      PROVE  \/ a.t = "null"
             \/ f = "holderId" /\ a.t = "string" /\ a.v \in Int
             \/ f = "name" /\ a.t = "string" /\ a.v \in Int
             \/ f = "status" /\ a.t = "string" /\ a.v \in Int
             \/ f = "createdAt" /\ a.t = "number" /\ a.v \in Int
  <2>1. PICK x \in DOMAIN holders : x \in HolderIds /\ a = Field(Item(x), f)
    BY <1>1
  <2>2. CASE f = "holderId"
    BY <2>1, <2>2 DEF Field, Item
  <2>3. CASE f = "name"
    <3>1. a = IF holders[x].name = Absent THEN Null ELSE String(holders[x].name)
      BY <2>1, <2>3 DEF Field, Item
    <3>. QED
      BY <1>2, <2>3, <3>1 DEF Null, String
  <2>4. CASE f = "createdAt"
    <3>1. a = Number(holders[x].created)
      BY <2>1, <2>4 DEF Field, Item
    <3>. QED
      BY <1>2, <2>4, <3>1 DEF Number
  <2>5. CASE f = "status"
    <3>1. a = String(StatusRank[holders[x].status])
      BY <2>1, <2>5 DEF Field, Item
    <3>2. StatusRank[holders[x].status] \in Int
      BY <1>2 DEF StatusRank, Statuses
    <3>. QED
      BY <2>5, <3>1, <3>2 DEF String
  <2>6. CASE f \notin {"holderId", "name", "status", "createdAt"}
    <3>1. a = Null
      BY <2>1, <2>6 DEF Field, Item
    <3>. QED
      BY <3>1 DEF Null
  <2>. QED
    BY <2>2, <2>3, <2>4, <2>5, <2>6
<1>. HIDE DEF C
<1>4. ASSUME f = "createdAt"
      PROVE  \A a \in C : a.t = "null" \/ (a.t = "number" /\ a.v \in Int)
  BY <1>3, <1>4
<1>5. ASSUME f # "createdAt"
      PROVE  \A a \in C : a.t = "null" \/ (a.t = "string" /\ a.v \in Int)
  BY <1>3, <1>5
<1>6. IsColumn(C)
  BY <1>4, <1>5 DEF IsColumn
<1>. QED
  BY <1>6 DEF C, n

\* The positions of items whose sort field, if there is one, is a column.
Sortable(spec, items) ==
    spec.sortField # Absent =>
        IsColumn({Field(items[i], spec.sortField) : i \in 1 .. Len(items)})

\* The order a query puts such items in is a strict total one.
LEMMA GoesBeforeOrders ==
    ASSUME NEW V, NEW items \in Seq(V), NEW spec, Sortable(spec, items), NEW R,
           \A i, j \in 1 .. Len(items) :
              <<i, j>> \in R <=> GoesBefore(spec, items, i, j)
    PROVE  Orders(R, 1 .. Len(items))
<1>. DEFINE D == 1 .. Len(items)
            v(i) == Field(items[i], spec.sortField)
            C == {v(i) : i \in D}
            Lt(a, b) == IF spec.sortOrder = "DESC" THEN Less(b, a) ELSE Less(a, b)
<1>1. D \subseteq Int
  OBVIOUS
<1>2. CASE spec.sortField = Absent
  <2>1. \A i, j \in D :
           <<i, j>> \in R <=> IF spec.sortOrder = "DESC" THEN j < i ELSE i < j
    BY <1>2 DEF GoesBefore
  <2>. HIDE DEF D
  <2>. QED
    BY <1>1, <2>1 DEF Orders, D
<1>3. CASE spec.sortField # Absent
  <2>1. \A a, b, c \in C :
           /\ ~ (Less(a, b) /\ Less(b, a))
           /\ Less(a, b) /\ Less(b, c) => Less(a, c)
           /\ ~ Less(a, b) /\ ~ Less(b, c) => ~ Less(a, c)
    <3>1. IsColumn(C)
      BY <1>3 DEF Sortable
    <3>. HIDE DEF C
    <3>. QED
      BY <3>1, LessOrdersColumn
  <2>2. \A i, j \in D : <<i, j>> \in R <=> \/ Lt(v(i), v(j))
                                           \/ ~ Lt(v(j), v(i)) /\ i < j
    BY <1>3 DEF GoesBefore
  <2>3. \A i \in D : v(i) \in C
    OBVIOUS
  <2>. HIDE DEF C, v, D
  <2>4. \A a, b, c \in C :
           /\ ~ (Lt(a, b) /\ Lt(b, a))
           /\ Lt(a, b) /\ Lt(b, c) => Lt(a, c)
           /\ ~ Lt(a, b) /\ ~ Lt(b, c) => ~ Lt(a, c)
    BY <2>1
  <2>. HIDE DEF Lt
  <2>5. \A a \in D : <<a, a>> \notin R
    BY <1>1, <2>2, <2>3, <2>4
  <2>6. ASSUME NEW a \in D, NEW b \in D, NEW c \in D,
               <<a, b>> \in R, <<b, c>> \in R
        PROVE  <<a, c>> \in R
    <3>1. /\ v(a) \in C /\ v(b) \in C /\ v(c) \in C
          /\ a \in Int /\ b \in Int /\ c \in Int
      BY <1>1, <2>3
    <3>2. /\ Lt(v(a), v(b)) \/ (~ Lt(v(b), v(a)) /\ a < b)
          /\ Lt(v(b), v(c)) \/ (~ Lt(v(c), v(b)) /\ b < c)
      BY <2>2, <2>6
    <3>3. Lt(v(a), v(c)) \/ (~ Lt(v(c), v(a)) /\ a < c)
      BY <2>4, <3>1, <3>2
    <3>. QED
      BY <2>2, <3>3
  <2>7. ASSUME NEW a \in D, NEW b \in D, a # b
        PROVE  <<a, b>> \in R \/ <<b, a>> \in R
    <3>1. v(a) \in C /\ v(b) \in C /\ a \in Int /\ b \in Int
      BY <1>1, <2>3
    <3>2. a < b \/ b < a
      BY <2>7, <3>1
    <3>. QED
      BY <2>2, <2>4, <3>1, <3>2
  <2>. QED
    BY <2>5, <2>6, <2>7 DEF Orders, D
<1>. QED
  BY <1>2, <1>3

\* A sort is a permutation into that order.
LEMMA SortIsPermutation ==
    ASSUME NEW V, NEW items \in Seq(V), NEW spec, Sortable(spec, items)
    PROVE  /\ Sorted(spec, items) \in Seq(V)
           /\ Len(Sorted(spec, items)) = Len(items)
           /\ \E p : /\ \A k \in 1 .. Len(items) :
                           /\ p[k] \in 1 .. Len(items)
                           /\ Sorted(spec, items)[k] = items[p[k]]
                     /\ \A k, l \in 1 .. Len(items) :
                           k < l => /\ p[k] # p[l]
                                    /\ GoesBefore(spec, items, p[k], p[l])
<1>. DEFINE n == Len(items)
            D == 1 .. n
            R == {q \in D \X D : GoesBefore(spec, items, q[1], q[2])}
            p == Arranged(D, R)
            all == Sorted(spec, items)
<1>1. n \in Nat /\ DOMAIN items = D
  OBVIOUS
<1>2. \A i, j \in D : <<i, j>> \in R <=> GoesBefore(spec, items, i, j)
  OBVIOUS
<1>3. all = At(items, p)
  BY <1>1 DEF Sorted
<1>. HIDE DEF R
<1>4. Orders(R, D)
  BY <1>2, GoesBeforeOrders
<1>5. IsFiniteSet(D) /\ Cardinality(D) = n
  <2>. HIDE DEF n
  <2>1. 1 \in Int /\ n \in Int
    BY <1>1
  <2>. QED
    BY <1>1, <2>1, FS_Interval
<1>6. /\ DOMAIN p = D
      /\ \A k \in D : p[k] \in D
      /\ \A k, l \in D : k < l => <<p[k], p[l]>> \in R
  <2>. HIDE DEF n
  <2>1. /\ DOMAIN Arranged(D, R) = 1 .. Cardinality(D)
        /\ \A k \in 1 .. Cardinality(D) : Arranged(D, R)[k] \in D
        /\ \A k, l \in 1 .. Cardinality(D) :
              k < l => <<Arranged(D, R)[k], Arranged(D, R)[l]>> \in R
    <3>. HIDE DEF D
    <3>. QED
      BY <1>4, <1>5, ArrangedOrder
  <2>. QED
    BY <1>5, <2>1
<1>. HIDE DEF p
<1>7. all = [k \in D |-> items[p[k]]]
  BY <1>3, <1>6 DEF At
<1>. HIDE DEF all
<1>8. all \in Seq(V) /\ Len(all) = n
  <2>1. all \in [D -> V]
    BY <1>1, <1>6, <1>7
  <2>. HIDE DEF n
  <2>. QED
    BY <1>1, <2>1, FunctionIsSeq
<1>9. \A k, l \in D : k < l => p[k] # p[l] /\ GoesBefore(spec, items, p[k], p[l])
  BY <1>2, <1>4, <1>6 DEF Orders
<1>10. \A k \in D : p[k] \in D /\ all[k] = items[p[k]]
  BY <1>6, <1>7
<1>. QED
  BY <1>8, <1>9, <1>10 DEF all

\* The holders and those of them that match a query can be sorted.
LEMMA HoldersSortable ==
    ASSUME HolderInv, NEW spec \in Specs
    PROVE  Sortable(spec, All) /\ Sortable(spec, Matched(spec, All))
<1>. DEFINE n == Len(order)
            C == {Field(All[i], spec.sortField) : i \in 1 .. n}
            m == Matched(spec, All)
            M == {Field(m[i], spec.sortField) : i \in 1 .. Len(m)}
<1>1. IsColumn(C)
  BY FieldIsColumn, RegistriesAssumption
<1>2. Len(All) = n /\ order \in Seq(HolderIds)
  BY AllItems DEF HolderInv
<1>3. \A k \in 1 .. Len(m) : \E i \in 1 .. n : m[k] = All[i]
  <2>. DEFINE a == Ascending(Found(spec))
              c == Cardinality(Found(spec))
  <2>1. /\ Len(m) = c
        /\ \A k \in 1 .. c : a[k] \in 1 .. n /\ m[k] = All[a[k]]
    BY <1>2, FoundItems
  <2>. HIDE DEF a, c, m, n
  <2>. QED
    BY <2>1
<1>4. M \subseteq C
  <2>. HIDE DEF m, n
  <2>. QED
    BY <1>3
<1>. HIDE DEF C, M
<1>5. IsColumn(M)
  BY <1>1, <1>4 DEF IsColumn
<1>. QED
  BY <1>1, <1>2, <1>5 DEF Sortable, C, M

\* A sort by a field keeps the order of the holders with equal values.
LEMMA SortKeepsEqual ==
    ASSUME HolderInv, NEW spec \in Specs, spec.sortField # Absent
    PROVE  /\ DOMAIN Sorted(spec, All) = 1 .. Len(order)
           /\ \E p : /\ \A k \in 1 .. Len(order) :
                           /\ p[k] \in 1 .. Len(order)
                           /\ Sorted(spec, All)[k] = All[p[k]]
                     /\ \A k, l \in 1 .. Len(order) :
                           /\ k < l
                           /\ Field(All[p[k]], spec.sortField)
                                = Field(All[p[l]], spec.sortField)
                           => p[k] < p[l]
<1>. DEFINE n == Len(order)
            D == 1 .. n
            v(i) == Field(All[i], spec.sortField)
            all == Sorted(spec, All)
<1>1. n \in Nat /\ All \in Seq(Items) /\ Len(All) = n
  BY AllItems DEF HolderInv
<1>2. Sortable(spec, All)
  BY HoldersSortable
<1>3. /\ all \in Seq(Items) /\ Len(all) = Len(All)
      /\ \E p : /\ \A k \in 1 .. Len(All) : /\ p[k] \in 1 .. Len(All)
                                            /\ all[k] = All[p[k]]
                /\ \A k, l \in 1 .. Len(All) :
                      k < l => p[k] # p[l] /\ GoesBefore(spec, All, p[k], p[l])
  BY <1>1, <1>2, SortIsPermutation
<1>4. PICK p : /\ \A k \in D : p[k] \in D /\ all[k] = All[p[k]]
               /\ \A k, l \in D : k < l => GoesBefore(spec, All, p[k], p[l])
  BY <1>1, <1>3
<1>5. ASSUME NEW k \in D, NEW l \in D, k < l, v(p[k]) = v(p[l])
      PROVE  p[k] < p[l]
  <2>1. p[k] \in D /\ p[l] \in D /\ GoesBefore(spec, All, p[k], p[l])
    BY <1>4, <1>5
  <2>2. ~ Less(v(p[k]), v(p[l])) /\ ~ Less(v(p[l]), v(p[k]))
    <3>. DEFINE C == {Field(All[i], spec.sortField) : i \in 1 .. Len(order)}
    <3>1. IsColumn(C)
      BY FieldIsColumn, RegistriesAssumption
    <3>2. v(p[k]) \in C
      BY <2>1
    <3>. HIDE DEF C, v
    <3>3. ~ Less(v(p[k]), v(p[k]))
      BY <3>1, <3>2, LessOrdersColumn
    <3>. QED
      BY <1>5, <3>3
  <2>. QED
    BY <2>1, <2>2 DEF GoesBefore
<1>6. DOMAIN all = D
  <2>. HIDE DEF all, n
  <2>. QED
    BY <1>1, <1>3
<1>. QED
  BY <1>4, <1>5, <1>6

\* Stable, as the pages of a sorted query need it.
LEMMA HoldersSortStably == HolderInv => SortIsStable
<1>. SUFFICES ASSUME HolderInv, NEW spec \in Specs, spec.sortField # Absent,
                     NEW k \in DOMAIN Sorted(spec, All),
                     NEW l \in DOMAIN Sorted(spec, All), k < l,
                     Field(Sorted(spec, All)[k], spec.sortField)
                       = Field(Sorted(spec, All)[l], spec.sortField)
              PROVE  (CHOOSE i \in DOMAIN order :
                         order[i] = Sorted(spec, All)[k].holderId.v)
                     < (CHOOSE i \in DOMAIN order :
                           order[i] = Sorted(spec, All)[l].holderId.v)
  BY DEF SortIsStable
<1>. DEFINE n == Len(order)
            all == Sorted(spec, All)
<1>1. /\ DOMAIN order = 1 .. n
      /\ \A i, j \in 1 .. n : order[i] = order[j] => i = j
      /\ \A i \in 1 .. n : All[i].holderId.v = order[i]
  BY AllItems DEF HolderInv
<1>2. DOMAIN all = 1 .. n
  BY SortKeepsEqual
<1>3. PICK p : /\ \A x \in 1 .. n : p[x] \in 1 .. n /\ all[x] = All[p[x]]
               /\ \A x, y \in 1 .. n :
                     /\ x < y
                     /\ Field(All[p[x]], spec.sortField)
                          = Field(All[p[y]], spec.sortField)
                     => p[x] < p[y]
  BY SortKeepsEqual
<1>. HIDE DEF n
<1>4. ASSUME NEW x \in 1 .. n
      PROVE  (CHOOSE i \in DOMAIN order : order[i] = all[x].holderId.v) = p[x]
  <2>1. p[x] \in DOMAIN order /\ order[p[x]] = all[x].holderId.v
    BY <1>1, <1>3
  <2>. HIDE DEF all
  <2>2. \A i \in DOMAIN order : order[i] = all[x].holderId.v => i = p[x]
    BY <1>1, <1>3, <2>1
  <2>. QED
    BY <2>1, <2>2
<1>5. p[k] < p[l]
  BY <1>2, <1>3
<1>. QED
  BY <1>2, <1>4, <1>5

\* Filter, sort and cut: what a page holds, for a query that is not refused.
LEMMA PageContents ==
    ASSUME HolderInv, NEW spec \in Specs, ~ Refused(spec)
    PROVE  /\ Apply(spec, All) \in Seq(Items)
           /\ Len(Apply(spec, All)) <= Limit(spec)
           /\ \E q : /\ \A k \in 1 .. Len(Apply(spec, All)) :
                           /\ q[k] \in 1 .. Len(Matched(spec, All))
                           /\ Apply(spec, All)[k] = Matched(spec, All)[q[k]]
                     /\ \A k, l \in 1 .. Len(Apply(spec, All)) :
                           k < l => /\ q[k] # q[l]
                                    /\ GoesBefore(spec, Matched(spec, All), q[k], q[l])
<1>. DEFINE m == Matched(spec, All)
            all == Sorted(spec, m)
            n == Len(m)
            o == Offset(spec)
            L == Limit(spec)
            e == Smaller(o + L, n)
            page == Apply(spec, All)
<1>1. m \in Seq(Items) /\ Sortable(spec, m) /\ n \in Nat
  <2>1. m \in Seq(Items)
    BY FoundItems DEF HolderInv
  <2>. HIDE DEF m
  <2>. QED
    BY <2>1, HoldersSortable DEF m
<1>2. o \in Nat /\ L \in Nat
  <2>1. spec.offset \in Int \cup {Absent} /\ spec.limit \in Int \cup {Absent}
    BY RegistriesAssumption DEF Query
  <2>2. /\ spec.offset # Absent => ~ (spec.offset < 0)
        /\ spec.limit # Absent => ~ (spec.limit < 0)
    BY DEF Refused
  <2>. QED
    BY <2>1, <2>2, QueryAssumption DEF Offset, Limit, Smaller
<1>. HIDE DEF m
<1>3. /\ all \in Seq(Items) /\ Len(all) = n
      /\ \E p : /\ \A k \in 1 .. n : p[k] \in 1 .. n /\ all[k] = m[p[k]]
                /\ \A k, l \in 1 .. n :
                      k < l => p[k] # p[l] /\ GoesBefore(spec, m, p[k], p[l])
  BY <1>1, SortIsPermutation
<1>4. PICK p : /\ \A k \in 1 .. n : p[k] \in 1 .. n /\ all[k] = m[p[k]]
               /\ \A k, l \in 1 .. n :
                     k < l => p[k] # p[l] /\ GoesBefore(spec, m, p[k], p[l])
  BY <1>3
<1>5. page = SubSeq(all, o + 1, e)
  BY <1>3 DEF Apply, m
<1>. HIDE DEF all, n, o, L, page
<1>6. e \in Nat /\ e <= o + L /\ e <= n
  BY <1>1, <1>2 DEF Smaller
<1>. HIDE DEF e
<1>7. /\ page \in Seq(Items)
      /\ Len(page) = IF o + 1 <= e THEN e - (o + 1) + 1 ELSE 0
      /\ \A i \in 1 .. (e - (o + 1) + 1) : page[i] = all[(o + 1) + i - 1]
  <2>1. o + 1 \in Int /\ e \in Int
    BY <1>2, <1>6
  <2>2. \A i \in (o + 1) .. e : all[i] \in Items
    BY <1>2, <1>3, <1>6
  <2>. QED
    BY <1>5, <2>1, <2>2, SubSeqProperties
<1>8. Len(page) <= L
  BY <1>2, <1>6, <1>7
<1>9. \A k \in 1 .. Len(page) : o + k \in 1 .. n /\ page[k] = all[o + k]
  <2>. SUFFICES ASSUME NEW k \in 1 .. Len(page)
                PROVE  o + k \in 1 .. n /\ page[k] = all[o + k]
    OBVIOUS
  <2>1. o + 1 <= e /\ k \in 1 .. (e - (o + 1) + 1)
    BY <1>2, <1>6, <1>7
  <2>2. o + k \in 1 .. n /\ (o + 1) + k - 1 = o + k
    BY <1>1, <1>2, <1>6, <2>1
  <2>. QED
    BY <1>7, <2>1, <2>2
<1>. DEFINE q == [k \in 1 .. Len(page) |-> p[o + k]]
<1>10. \A k \in 1 .. Len(page) : q[k] \in 1 .. n /\ page[k] = m[q[k]]
  BY <1>4, <1>9
<1>11. \A k, l \in 1 .. Len(page) :
          k < l => q[k] # q[l] /\ GoesBefore(spec, m, q[k], q[l])
  <2>1. Len(page) \in Nat
    BY <1>7
  <2>2. \A k, l \in 1 .. Len(page) : k < l => o + k < o + l
    BY <1>2, <2>1
  <2>. QED
    BY <1>4, <1>9, <2>2
<1>. HIDE DEF q
<1>. QED
  BY <1>7, <1>8, <1>10, <1>11 DEF m, n, L, page

\* Pages are within the limit, of matching holders, in order, without
\* repetition.
LEMMA PagesAreSound == HolderInv => PagesSound
<1>. SUFFICES ASSUME HolderInv, NEW spec \in Specs, ~ Refused(spec)
              PROVE  LET page == Apply(spec, All)
                         v(i) == Field(page[i], spec.sortField)
                     IN  /\ Len(page) <= Limit(spec)
                         /\ \A i \in DOMAIN page :
                               /\ page[i].holderId.v \in DOMAIN holders
                               /\ Matches(spec, page[i])
                         /\ \A i, j \in DOMAIN page :
                               page[i].holderId.v = page[j].holderId.v => i = j
                         /\ spec.sortField # Absent =>
                               \A i, j \in DOMAIN page : i < j =>
                                   IF spec.sortOrder = "DESC"
                                   THEN ~ Less(v(i), v(j))
                                   ELSE ~ Less(v(j), v(i))
  BY DEF PagesSound
<1>. DEFINE page == Apply(spec, All)
            m == Matched(spec, All)
            S == Found(spec)
            a == Ascending(S)
            c == Cardinality(S)
            D == 1 .. Len(page)
            w(x) == Field(m[x], spec.sortField)
<1>1. page \in Seq(Items) /\ Len(page) <= Limit(spec)
  BY PageContents
<1>2. PICK q : /\ \A k \in D : q[k] \in 1 .. Len(m) /\ page[k] = m[q[k]]
               /\ \A k, l \in D :
                     k < l => q[k] # q[l] /\ GoesBefore(spec, m, q[k], q[l])
  BY PageContents
<1>3. DOMAIN page = D /\ D \subseteq Int
  <2>. HIDE DEF page
  <2>. QED
    BY <1>1
<1>4. /\ S \in SUBSET (1 .. Len(order)) /\ Len(order) \in Nat /\ Len(m) = c
      /\ \A x \in 1 .. c : /\ a[x] \in S /\ a[x] \in 1 .. Len(order)
                           /\ m[x] = All[a[x]] /\ m[x].holderId.v = order[a[x]]
  BY FoundItems DEF HolderInv
<1>5. \A i \in 1 .. Len(order) : /\ All[i] = Item(order[i])
                                 /\ order[i] \in DOMAIN holders
  <2>1. order \in Seq(HolderIds) /\ ToSet(order) = DOMAIN holders
    BY DEF HolderInv, IndexAgrees
  <2>. QED
    BY <2>1, AllItems DEF ToSet
<1>6. \A i \in S : Matches(spec, Item(order[i]))
  BY DEF Found
<1>. HIDE DEF S
<1>7. c \in Nat /\ \A x, y \in 1 .. c : x < y => a[x] < a[y]
  BY <1>4, AscendingOrder
<1>. HIDE DEF a, c, m, page
<1>8. \A i \in D : page[i].holderId.v \in DOMAIN holders /\ Matches(spec, page[i])
  <2>. SUFFICES ASSUME NEW i \in D
                PROVE  /\ page[i].holderId.v \in DOMAIN holders
                       /\ Matches(spec, page[i])
    OBVIOUS
  <2>1. q[i] \in 1 .. c /\ page[i] = m[q[i]]
    BY <1>2, <1>4
  <2>. DEFINE z == a[q[i]]
  <2>2. /\ z \in S /\ z \in 1 .. Len(order)
        /\ page[i] = All[z] /\ page[i].holderId.v = order[z]
    BY <1>4, <2>1
  <2>. HIDE DEF z
  <2>3. page[i] = Item(order[z]) /\ order[z] \in DOMAIN holders
    BY <1>5, <2>2
  <2>4. Matches(spec, Item(order[z]))
    BY <1>6, <2>2
  <2>. QED
    BY <2>2, <2>3, <2>4
<1>9. ASSUME NEW i \in D, NEW j \in D, page[i].holderId.v = page[j].holderId.v
      PROVE  i = j
  <2>1. q[i] \in 1 .. c /\ q[j] \in 1 .. c
    BY <1>2, <1>4
  <2>2. order[a[q[i]]] = order[a[q[j]]]
    BY <1>2, <1>4, <1>9, <2>1
  <2>3. \A x, y \in 1 .. Len(order) : order[x] = order[y] => x = y
    BY DEF HolderInv
  <2>4. a[q[i]] = a[q[j]] /\ a[q[i]] \in Int
    <3>1. a[q[i]] \in 1 .. Len(order) /\ a[q[j]] \in 1 .. Len(order)
      BY <1>4, <2>1
    <3>. QED
      BY <2>2, <2>3, <3>1
  <2>5. q[i] = q[j]
    BY <1>7, <2>1, <2>4
  <2>6. ~ (i < j) /\ ~ (j < i)
    BY <1>2, <2>5
  <2>. QED
    BY <1>3, <2>6
<1>10. ASSUME spec.sortField # Absent, NEW i \in D, NEW j \in D, i < j
       PROVE  IF spec.sortOrder = "DESC" THEN ~ Less(w(q[i]), w(q[j]))
              ELSE ~ Less(w(q[j]), w(q[i]))
  <2>. DEFINE C == {w(x) : x \in 1 .. Len(m)}
  <2>1. IsColumn(C)
    BY <1>10, HoldersSortable DEF Sortable, m
  <2>2. w(q[i]) \in C /\ w(q[j]) \in C
    BY <1>2
  <2>3. GoesBefore(spec, m, q[i], q[j])
    BY <1>2, <1>10
  <2>4. IF spec.sortOrder = "DESC"
        THEN Less(w(q[j]), w(q[i])) \/ ~ Less(w(q[i]), w(q[j]))
        ELSE Less(w(q[i]), w(q[j])) \/ ~ Less(w(q[j]), w(q[i]))
    BY <1>10, <2>3 DEF GoesBefore
  <2>. HIDE DEF C, w
  <2>5. ~ (Less(w(q[i]), w(q[j])) /\ Less(w(q[j]), w(q[i])))
    BY <2>1, <2>2, LessOrdersColumn
  <2>. QED
    BY <2>4, <2>5
<1>11. \A i \in D : Field(page[i], spec.sortField) = w(q[i])
  BY <1>2
<1>. QED
  BY <1>1, <1>3, <1>8, <1>9, <1>10, <1>11 DEF page

-----------------------------------------------------------------------------
(* Theorems *)

\* The map, the index and the order of the holders agree in every state, every
\* holder is found by its own DID and listed once, and neither registry
\* exceeds its cap, for all caps, DIDs and interleavings of operators and
\* credential requests (`HolderRegistry::insert`, `DefinitionCatalog`).
THEOREM RegistryIsConsistent == Spec => []RegistryConsistent
<1>1. RegistryInv => RegistryConsistent
  <2>. SUFFICES ASSUME RegistryInv
                PROVE  RegistryConsistent
    OBVIOUS
  <2>1. TypeOK
    BY DEF RegistryInv, HolderInv, CatalogInv, WalkInv, TypeOK
  <2>2. IndexAgrees /\ RegistriesBounded
    BY DEF RegistryInv, HolderInv, CatalogInv, RegistriesBounded
  <2>. QED
    BY <2>1, <2>2 DEF RegistryConsistent
<1>. QED
  BY <1>1, RegistrySafe, PTL

\* Two DIDs that differ in case have one key (`holder_key`).
LEMMA CaseIsFolded ==
    ASSUME NEW a \in Dids, NEW b \in Dids, DifferInCase(a, b)
    PROVE  HolderKey(a) = HolderKey(b)
<1>1. a \in DidSpelling /\ b \in DidSpelling
  BY RegistriesAssumption
<1>2. CASE a = b
  BY <1>2
<1>3. CASE a # b
  <2>1. /\ a.method = "web" /\ b.method = "web"
        /\ a.doc = b.doc /\ a.form = b.form /\ a.dns = b.dns
        /\ ~ a.dns => a.host = b.host
    BY <1>3 DEF DifferInCase
  <2>2. ASSUME NEW d \in DidSpelling, d.method = "web"
        PROVE  /\ HolderKey(d) \in DidSpelling
               /\ HolderKey(d).method = "web" /\ HolderKey(d).doc = d.doc
               /\ HolderKey(d).form = d.form /\ HolderKey(d).dns = d.dns
               /\ HolderKey(d).host = (IF d.dns THEN "lower" ELSE d.host)
               /\ HolderKey(d).escapes = "upper"
    BY <2>2 DEF HolderKey, DidSpelling
  <2>3. ASSUME NEW c \in DidSpelling, NEW d \in DidSpelling,
               c.method = d.method, c.doc = d.doc, c.form = d.form,
               c.dns = d.dns, c.host = d.host, c.escapes = d.escapes
        PROVE  c = d
    BY <2>3 DEF DidSpelling
  <2>4. HolderKey(a).host = HolderKey(b).host
    BY <1>1, <2>1, <2>2
  <2>. QED
    BY <1>1, <2>1, <2>2, <2>3, <2>4
<1>. QED
  BY <1>2, <1>3

\* A party is one holder however it varies the case of its DID, and a rejected
\* one is let in by no such variation, also when the registry is full
\* (`holder_key`, and the checks of `credential_request` and
\* `record_and_mint`).
THEOREM PartyIsOne == Spec => []OnePartyOneDecision
<1>1. RegistryInv => OnePartyOneDecision
  <2>. SUFFICES ASSUME RegistryInv
                PROVE  OnePartyOneDecision
    OBVIOUS
  <2>1. \A id \in DOMAIN holders :
           /\ holders[id].did \in Dids
           /\ HolderKey(holders[id].did) \in DOMAIN byDid
           /\ byDid[HolderKey(holders[id].did)] = id
    BY DEF RegistryInv, HolderInv, IndexAgrees, Known, ByDid, Holder
  <2>2. OneRecordEach
    <3>1. ASSUME NEW a \in DOMAIN holders, NEW b \in DOMAIN holders,
                 DifferInCase(holders[a].did, holders[b].did)
          PROVE  a = b
      <4>1. HolderKey(holders[a].did) = HolderKey(holders[b].did)
        BY <2>1, <3>1, CaseIsFolded
      <4>. QED
        BY <2>1, <4>1
    <3>. QED
      BY <3>1 DEF OneRecordEach
  <2>3. RejectedStaysOut
    <3>1. ASSUME NEW id \in DOMAIN holders, NEW did \in Dids,
                 holders[id].status = "rejected",
                 DifferInCase(holders[id].did, did)
          PROVE  ~ Welcome(did)
      <4>1. HolderKey(holders[id].did) = HolderKey(did)
        BY <2>1, <3>1, CaseIsFolded
      <4>2. Known(did) /\ ByDid(did) = id
        BY <2>1, <4>1 DEF Known, ByDid
      <4>. QED
        BY <3>1, <4>2 DEF Welcome
    <3>. QED
      BY <3>1 DEF RejectedStaysOut
  <2>. QED
    BY <2>2, <2>3 DEF OnePartyOneDecision
<1>. QED
  BY <1>1, RegistrySafe, PTL

\* A client that reads the holders page by page in insertion order gets every
\* one that was there when it began, and none twice, for every page size and
\* filter by what never changes (`query_holders`).
THEOREM WalkIsComplete == Spec => []WalkReturnsEachOnce
<1>1. RegistryInv => WalkReturnsEachOnce
  BY DEF RegistryInv, WalkInv
<1>. QED
  BY <1>1, RegistrySafe, PTL

\* The comparison the sort of a query gets is an order, the sort is stable in
\* both directions, and a page is no longer than its limit and holds matching
\* holders in the order asked for and none twice, for every query and every
\* content of the registry (`compare_values`, `QuerySpec::apply`).
THEOREM QueriesAlwaysSound == Spec => []QueriesSound
<1>1. RegistryInv => QueriesSound
  <2>. SUFFICES ASSUME RegistryInv
                PROVE  QueriesSound
    OBVIOUS
  <2>1. ASSUME NEW column \in Columns
        PROVE  IsColumn(column)
    <3>1. CASE column = {Null} \cup {String(n) : n \in 0 .. 2}
      <4>1. \A a \in column : a.t = "null" \/ (a.t = "string" /\ a.v \in Int)
        BY <3>1 DEF Null, String
      <4>. QED
        BY <4>1 DEF IsColumn
    <3>2. CASE column = {Number(t) : t \in 0 .. now}
      <4>1. \A a \in column : a.t = "null" \/ (a.t = "number" /\ a.v \in Int)
        BY <3>2 DEF Number
      <4>. QED
        BY <4>1 DEF IsColumn
    <3>. QED
      BY <3>1, <3>2 DEF Columns
  <2>2. ComparesConsistently
    <3>1. ASSUME NEW column \in Columns, NEW a \in column, NEW b \in column,
                 NEW c \in column
          PROVE  /\ Less(a, b) => ~ Less(b, a)
                 /\ ~ Less(a, b) => (Less(a, c) => Less(b, c))
      <4>1. /\ ~ (Less(a, b) /\ Less(b, a))
            /\ ~ Less(a, b) /\ ~ Less(b, c) => ~ Less(a, c)
        BY <2>1, LessOrdersColumn
      <4>. QED
        BY <4>1
    <3>. QED
      BY <3>1, Zenon DEF ComparesConsistently
  <2>. QED
    BY <2>2, HoldersSortStably, PagesAreSound DEF QueriesSound, RegistryInv
<1>. QED
  BY <1>1, RegistrySafe, PTL

\* No step forgets a holder, changes its DID or its time of creation, or moves
\* a definition or renews its time of creation (`insert`, `update`, `remove`).
THEOREM IdentityIsKept == Spec => RecordsKeepIdentity
<1>. DEFINE A == /\ \A id \in DOMAIN holders :
                       /\ id \in DOMAIN holders'
                       /\ holders'[id].did = holders[id].did
                       /\ holders'[id].created = holders[id].created
                 /\ DefinitionsStay
<1>1. RegistryInv /\ [Next]_vars => [A]_vars
  BY StepHolders, StepCatalog DEF HoldersStay
<1>2. Spec => [][A]_vars
  <2>. HIDE DEF A
  <2>. QED
    BY <1>1, RegistrySafe, PTL DEF Spec
<1>. QED
  BY <1>2 DEF RecordsKeepIdentity, DefinitionsStay
=============================================================================
