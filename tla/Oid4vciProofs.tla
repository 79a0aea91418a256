---------------------------- MODULE Oid4vciProofs ----------------------------
(***************************************************************************)
(* The issuing half of OID4VCI, for every capacity, lifetime and number of *)
(* requests in flight: codes and nonces serve once, guesses are bounded,   *)
(* nothing is issued that was not offered, and the bounded tables evict    *)
(* fairly.                                                                 *)
(***************************************************************************)
EXTENDS Oid4vci, TLAPS, SequenceTheorems, FiniteSetTheorems, WellFoundedInduction

-----------------------------------------------------------------------------
(* The bounded, expiring table *)

\* A table whose keys are below `hi` and whose entries expire by `latest`:
\* every entry has its place in `order`, keys are in order of insertion, and
\* so are expiry times.
TableFits(t, hi, latest, Val) ==
    /\ t = [entries |-> t.entries, order |-> t.order]
    /\ DOMAIN t.entries \in SUBSET (1 .. hi - 1)
    /\ t.entries \in [DOMAIN t.entries -> [exp : 0 .. latest, val : Val]]
    /\ t.order \in Seq(1 .. hi - 1)
    /\ \A k \in DOMAIN t.entries : \E i \in DOMAIN t.order : t.order[i] = k
    /\ \A i, j \in DOMAIN t.order : i < j => t.order[i] < t.order[j]
    /\ \A j, k \in DOMAIN t.entries : j < k => t.entries[j].exp <= t.entries[k].exp
    /\ Cardinality(DOMAIN t.entries) <= Capacity

\* A nonempty set of positions has a first one.
LEMMA FirstExists ==
    ASSUME NEW S \in SUBSET Nat, S # {}
    PROVE  \E i \in S : \A j \in S : i <= j
<1>. DEFINE R == {ss \in Nat \X Nat : ss[1] < ss[2]}
<1>1. \E i \in S : \A j \in S : ~ (<<j, i>> \in R)
  <2>. HIDE DEF R
  <2>1. IsWellFoundedOn(R, Nat)
    BY NatLessThanWellFounded, Zenon DEF R, OpToRel
  <2>. QED
    BY <2>1, WFMin
<1>2. \A i, j \in Nat : <<j, i>> \notin R => i <= j
  OBVIOUS
<1>. QED
  BY <1>1, <1>2

\* A table stays in order while keys are drawn and time passes.
LEMMA LaterFits ==
    ASSUME NEW hi \in Nat, NEW latest \in Nat, NEW Val, NEW t,
           TableFits(t, hi, latest, Val),
           NEW hi2 \in Nat, NEW latest2 \in Nat, hi <= hi2, latest <= latest2
    PROVE  TableFits(t, hi2, latest2, Val)
<1>1. t.order \in Seq(1 .. hi2 - 1)
  BY SeqMonotonic DEF TableFits
<1>2. t.entries \in [DOMAIN t.entries -> [exp : 0 .. latest2, val : Val]]
  BY DEF TableFits
<1>. QED
  BY <1>1, <1>2 DEF TableFits

\* Taking an entry out, or finding it expired.
LEMMA DropFits ==
    ASSUME NEW hi \in Nat, NEW latest \in Nat, NEW Val, NEW t,
           TableFits(t, hi, latest, Val), NEW k
    PROVE  /\ TableFits(Drop(t, k), hi, latest, Val)
           /\ DOMAIN Drop(t, k).entries = DOMAIN t.entries \ {k}
           /\ \A j \in DOMAIN t.entries \ {k} : Drop(t, k).entries[j] = t.entries[j]
<1>1. /\ Drop(t, k) = [entries |-> Drop(t, k).entries, order |-> t.order]
      /\ Drop(t, k).entries = [j \in DOMAIN t.entries \ {k} |-> t.entries[j]]
      /\ Drop(t, k).order = t.order
  BY SMTT(30) DEF TableFits, Drop
<1>. DEFINE u == Drop(t, k)
<1>. HIDE DEF u
<1>2. /\ DOMAIN u.entries = DOMAIN t.entries \ {k}
      /\ \A j \in DOMAIN t.entries \ {k} : u.entries[j] = t.entries[j]
      /\ u = [entries |-> u.entries, order |-> u.order]
      /\ u.order = t.order
  BY <1>1 DEF u
<1>3. Cardinality(DOMAIN u.entries) <= Capacity
  <2>1. IsFiniteSet(DOMAIN t.entries)
    <3>1. 1 \in Int /\ hi - 1 \in Int
      OBVIOUS
    <3>. QED
      BY <3>1, FS_Interval, FS_Subset DEF TableFits
  <2>2. /\ Cardinality(DOMAIN u.entries) \in Nat
        /\ Cardinality(DOMAIN t.entries) \in Nat
        /\ Cardinality(DOMAIN u.entries) <= Cardinality(DOMAIN t.entries)
    BY <1>2, <2>1, FS_Subset, FS_CardinalityType
  <2>. QED
    BY <2>2, CapacityAssumption DEF TableFits
<1>4. u.entries \in [DOMAIN u.entries -> [exp : 0 .. latest, val : Val]]
  BY <1>1, <1>2 DEF TableFits, u
<1>5. TableFits(u, hi, latest, Val)
  BY <1>2, <1>3, <1>4 DEF TableFits
<1>. QED
  BY <1>2, <1>5 DEF u

\* Replacing the value of an entry in place.
LEMMA SetValueFits ==
    ASSUME NEW hi \in Nat, NEW latest \in Nat, NEW Val, NEW t,
           TableFits(t, hi, latest, Val), NEW k \in DOMAIN t.entries,
           NEW val \in Val
    PROVE  /\ TableFits(SetValue(t, k, val), hi, latest, Val)
           /\ DOMAIN SetValue(t, k, val).entries = DOMAIN t.entries
           /\ \A j \in DOMAIN t.entries :
                 SetValue(t, k, val).entries[j] =
                     IF j = k THEN [exp |-> t.entries[k].exp, val |-> val]
                              ELSE t.entries[j]
<1>. DEFINE u == SetValue(t, k, val)
            e == [t.entries EXCEPT ![k] = [t.entries[k] EXCEPT !.val = val]]
<1>1. t = [entries |-> t.entries, order |-> t.order]
  BY DEF TableFits
<1>2. u.entries = e /\ u.order = t.order /\ u = [entries |-> e, order |-> t.order]
  BY <1>1 DEF SetValue
<1>3. /\ t.entries \in [DOMAIN t.entries -> [exp : 0 .. latest, val : Val]]
      /\ [t.entries[k] EXCEPT !.val = val] = [exp |-> t.entries[k].exp, val |-> val]
  BY DEF TableFits
<1>4. /\ DOMAIN e = DOMAIN t.entries
      /\ \A j \in DOMAIN t.entries :
            e[j] = IF j = k THEN [exp |-> t.entries[k].exp, val |-> val]
                            ELSE t.entries[j]
      /\ e \in [DOMAIN t.entries -> [exp : 0 .. latest, val : Val]]
  BY <1>3
<1>. HIDE DEF u, e
<1>5. \A j \in DOMAIN t.entries : e[j].exp = t.entries[j].exp
  BY <1>4
<1>6. TableFits(u, hi, latest, Val)
  BY <1>2, <1>4, <1>5 DEF TableFits
<1>. QED
  BY <1>2, <1>4, <1>6 DEF u

\* Keys in order of insertion that include those of E.
Lists(s, E) ==
    /\ \A k \in E : \E i \in DOMAIN s : s[i] = k
    /\ \A i, j \in DOMAIN s : i < j => s[i] < s[j]

\* A fresh key goes to the end.
LEMMA AppendLists ==
    ASSUME NEW hi \in Nat \ {0}, NEW s \in Seq(1 .. hi - 1),
           NEW E, Lists(s, E)
    PROVE  /\ Append(s, hi) \in Seq(1 .. hi)
           /\ Lists(Append(s, hi), E \cup {hi})
<1>. DEFINE m == Len(s)
            w == Append(s, hi)
<1>1. s \in Seq(1 .. hi) /\ hi \in 1 .. hi
  BY SeqMonotonic
<1>2. /\ m \in Nat
      /\ DOMAIN s = 1 .. m
      /\ \A i \in 1 .. m : s[i] \in 1 .. hi - 1
  BY LenProperties, ElementOfSeq
<1>3. /\ w \in Seq(1 .. hi)
      /\ Len(w) = m + 1
      /\ \A i \in 1 .. m : w[i] = s[i]
      /\ w[m + 1] = hi
  BY <1>1, AppendProperties
<1>4. DOMAIN w = 1 .. m + 1
  BY <1>3, LenProperties
<1>. HIDE DEF m, w
<1>5. \A k \in E \cup {hi} : \E i \in DOMAIN w : w[i] = k
  <2>1. ASSUME NEW k \in E PROVE \E i \in DOMAIN w : w[i] = k
    <3>1. PICK i \in DOMAIN s : s[i] = k
      BY DEF Lists
    <3>2. i \in 1 .. m /\ i \in DOMAIN w
      BY <1>2, <1>4
    <3>. QED
      BY <1>3, <3>1, <3>2
  <2>2. m + 1 \in DOMAIN w
    BY <1>2, <1>4
  <2>. QED
    BY <1>3, <2>1, <2>2
<1>6. ASSUME NEW i \in DOMAIN w, NEW j \in DOMAIN w, i < j
      PROVE  w[i] < w[j]
  <2>1. i \in 1 .. m
    BY <1>2, <1>4, <1>6
  <2>2. CASE j = m + 1
    BY <1>2, <1>3, <2>1, <2>2
  <2>3. CASE j \in 1 .. m
    BY <1>2, <1>3, <1>6, <2>1, <2>3 DEF Lists
  <2>. QED
    BY <1>2, <1>4, <2>2, <2>3
<1>. QED
  BY <1>3, <1>5, <1>6 DEF Lists, w

\* The first listed key of E is its oldest, and what follows lists the others.
LEMMA CutLists ==
    ASSUME NEW hi \in Nat, NEW s \in Seq(1 .. hi), NEW E, Lists(s, E),
           NEW n \in DOMAIN s, s[n] \in E,
           \A j \in 1 .. n - 1 : s[j] \notin E
    PROVE  /\ SubSeq(s, n + 1, Len(s)) \in Seq(1 .. hi)
           /\ Lists(SubSeq(s, n + 1, Len(s)), E \ {s[n]})
           /\ \A k \in E \ {s[n]} : s[n] < k
<1>. DEFINE m == Len(s)
            w == SubSeq(s, n + 1, m)
<1>1. /\ m \in Nat
      /\ DOMAIN s = 1 .. m
      /\ n \in 1 .. m
      /\ \A i \in 1 .. m : s[i] \in 1 .. hi
  BY LenProperties, ElementOfSeq
<1>. HIDE DEF m
<1>2. /\ w \in Seq(1 .. hi)
      /\ Len(w) = m - n
      /\ \A i \in 1 .. m - n : w[i] = s[n + i]
  <2>1. n + 1 \in Int /\ m \in Int /\ \A i \in n + 1 .. m : s[i] \in 1 .. hi
    BY <1>1
  <2>2. /\ w \in Seq(1 .. hi)
        /\ Len(w) = IF n + 1 <= m THEN m - (n + 1) + 1 ELSE 0
        /\ \A i \in 1 .. m - (n + 1) + 1 : w[i] = s[(n + 1) + i - 1]
    BY <2>1, SubSeqProperties, SMTT(30)
  <2>. HIDE DEF w
  <2>3. /\ m - (n + 1) + 1 = m - n
        /\ (IF n + 1 <= m THEN m - (n + 1) + 1 ELSE 0) = m - n
        /\ \A i \in 1 .. m - n : (n + 1) + i - 1 = n + i
    BY <1>1
  <2>4. Len(w) = m - n
    BY <2>2, <2>3
  <2>5. ASSUME NEW i \in 1 .. m - n PROVE w[i] = s[n + i]
    <3>1. i \in 1 .. m - (n + 1) + 1
      BY <2>3
    <3>2. w[i] = s[(n + 1) + i - 1]
      BY <2>2, <3>1
    <3>. QED
      BY <2>3, <3>2
  <2>. QED
    BY <2>2, <2>4, <2>5
<1>3. DOMAIN w = 1 .. m - n
  BY <1>2, LenProperties
<1>. HIDE DEF w
<1>4. ASSUME NEW k \in E \ {s[n]}
      PROVE  (\E i \in DOMAIN w : w[i] = k) /\ s[n] < k
  <2>1. PICK i \in DOMAIN s : s[i] = k
    BY DEF Lists
  <2>2. i > n
    BY <1>1, <2>1
  <2>3. i - n \in 1 .. m - n /\ n + (i - n) = i
    BY <1>1, <2>2
  <2>4. w[i - n] = k
    BY <1>2, <2>1, <2>3
  <2>. QED
    BY <1>1, <1>3, <2>1, <2>2, <2>3, <2>4 DEF Lists
<1>5. ASSUME NEW i \in DOMAIN w, NEW j \in DOMAIN w, i < j
      PROVE  w[i] < w[j]
  <2>1. i \in 1 .. m - n /\ j \in 1 .. m - n
    BY <1>3
  <2>2. /\ n + i \in DOMAIN s /\ n + j \in DOMAIN s
        /\ n + i < n + j
    BY <1>1, <1>5, <2>1, SMTT(30)
  <2>3. w[i] = s[n + i] /\ w[j] = s[n + j]
    BY <1>2, <2>1
  <2>4. s[n + i] < s[n + j]
    BY <2>2 DEF Lists
  <2>. QED
    BY <2>3, <2>4
<1>. QED
  BY <1>2, <1>4, <1>5 DEF Lists, w, m

\* MakeRoom finds an entry to evict.
LEMMA OldestExists ==
    ASSUME NEW hi \in Nat, NEW s \in Seq(1 .. hi), NEW E, E # {}, Lists(s, E)
    PROVE  \E n \in DOMAIN s : s[n] \in E /\ \A j \in 1 .. n - 1 : s[j] \notin E
<1>. DEFINE S == {i \in DOMAIN s : s[i] \in E}
<1>1. DOMAIN s = 1 .. Len(s) /\ Len(s) \in Nat
  BY LenProperties
<1>2. S \in SUBSET Nat /\ S # {}
  BY <1>1 DEF Lists
<1>3. PICK n \in S : \A j \in S : n <= j
  BY <1>2, FirstExists
<1>4. \A j \in 1 .. n - 1 : s[j] \notin E
  BY <1>1, <1>3
<1>. QED
  BY <1>3, <1>4

\* Inserting under a fresh key: when the table is full, the entry that goes is
\* the oldest, which is the first to expire.
LEMMA PutFits ==
    ASSUME NEW hi \in Nat \ {0}, NEW latest \in Nat, NEW Val, NEW t,
           TableFits(t, hi, latest, Val), NEW val \in Val
    PROVE  LET u == Put(t, hi, latest, val)
           IN  /\ TableFits(u, hi + 1, latest, Val)
               /\ DOMAIN u.entries \subseteq DOMAIN t.entries \cup {hi}
               /\ \A j \in DOMAIN u.entries :
                     u.entries[j] = IF j = hi THEN [exp |-> latest, val |-> val]
                                              ELSE t.entries[j]
               /\ \A k \in DOMAIN t.entries \ DOMAIN u.entries :
                     /\ Cardinality(DOMAIN t.entries) = Capacity
                     /\ \A j \in DOMAIN u.entries : t.entries[k].exp <= u.entries[j].exp
<1>. USE CapacityAssumption
<1>. DEFINE D == DOMAIN t.entries
            E == D \cup {hi}
            new == [exp |-> latest, val |-> val]
            e == [j \in E |-> IF j = hi THEN new ELSE t.entries[j]]
            s == Append(t.order, hi)
            v == [entries |-> e, order |-> s]
            u == Put(t, hi, latest, val)
            Entry == [exp : 0 .. latest, val : Val]
<1>1. /\ hi \notin D
      /\ D \in SUBSET (1 .. hi - 1)
      /\ t.order \in Seq(1 .. hi - 1)
      /\ Lists(t.order, D)
      /\ \A j \in D : t.entries[j] \in Entry
      /\ new \in Entry /\ new.exp = latest
      /\ \A j, k \in D : j < k => t.entries[j].exp <= t.entries[k].exp
  BY DEF TableFits, Lists
<1>2. u = MakeRoom(v)
  BY <1>1 DEF Put, Has
<1>3. DOMAIN e = E /\ \A j \in E : e[j] = IF j = hi THEN new ELSE t.entries[j]
  OBVIOUS
<1>4. v.entries = e /\ v.order = s
  OBVIOUS
<1>5. s \in Seq(1 .. hi) /\ Lists(s, E)
  BY <1>1, AppendLists
<1>6. /\ IsFiniteSet(E)
      /\ Cardinality(E) = Cardinality(D) + 1
      /\ Cardinality(D) \in Nat
      /\ Cardinality(D) <= Capacity
  <2>1. IsFiniteSet(1 .. hi - 1)
    <3>1. 1 \in Int /\ hi - 1 \in Int
      OBVIOUS
    <3>. QED
      BY <3>1, FS_Interval
  <2>2. IsFiniteSet(D)
    BY <1>1, <2>1, FS_Subset
  <2>3. Cardinality(D) \in Nat /\ Cardinality(D) <= Capacity
    BY <2>2, FS_CardinalityType DEF TableFits
  <2>4. IsFiniteSet(D \cup {hi}) /\ Cardinality(D \cup {hi}) = Cardinality(D) + 1
    BY <1>1, <2>2, FS_AddElement
  <2>. QED
    BY <2>3, <2>4
<1>7. /\ e \in [E -> Entry]
      /\ \A j, k \in E : j < k => e[j].exp <= e[k].exp
      /\ E \in SUBSET (1 .. hi)
  <2>1. e \in [E -> Entry]
    BY <1>1
  <2>2. E \in SUBSET (1 .. hi)
    BY <1>1
  <2>3. ASSUME NEW j \in E, NEW k \in E, j < k
        PROVE  e[j].exp <= e[k].exp
    <3>1. j \in D
      BY <1>1, <2>3
    <3>2. CASE k = hi
      BY <1>1, <1>3, <3>1, <3>2
    <3>3. CASE k \in D
      BY <1>1, <1>3, <2>3, <3>1, <3>3
    <3>. QED
      BY <3>2, <3>3
  <2>. QED
    BY <2>1, <2>2, <2>3
<1>. DEFINE High == (hi + 1) - 1
<1>8. High = hi
  OBVIOUS
<1>. HIDE DEF e, s, E, v, new
<1>9. CASE Cardinality(E) <= Capacity
  <2>1. u = v
    BY <1>2, <1>3, <1>4, <1>9 DEF MakeRoom
  <2>2. v = [entries |-> v.entries, order |-> v.order]
    BY DEF v
  <2>3. TableFits(v, hi + 1, latest, Val)
    BY <1>3, <1>4, <1>5, <1>7, <1>8, <1>9, <2>2 DEF TableFits, Lists
  <2>4. D \subseteq E /\ E = D \cup {hi}
    BY DEF E
  <2>. QED
    BY <1>3, <1>4, <2>1, <2>3, <2>4 DEF new
<1>10. CASE ~ (Cardinality(E) <= Capacity)
  <2>. DEFINE n == CHOOSE i \in DOMAIN s : /\ s[i] \in E
                                           /\ \A j \in 1 .. i - 1 : s[j] \notin E
              gone == s[n]
              w == SubSeq(s, n + 1, Len(s))
              f == [j \in E \ {gone} |-> e[j]]
  <2>1. /\ n \in DOMAIN s /\ gone \in E
        /\ \A j \in 1 .. n - 1 : s[j] \notin E
    <3>1. E # {} /\ hi \in Nat
      BY DEF E
    <3>2. \E i \in DOMAIN s : s[i] \in E /\ \A j \in 1 .. i - 1 : s[j] \notin E
      BY <1>5, <3>1, OldestExists
    <3>. QED
      BY <3>2
  <2>2. u = [entries |-> f, order |-> w]
    <3>1. u = [Drop(v, gone) EXCEPT !.order = w]
      BY <1>2, <1>3, <1>4, <1>10 DEF MakeRoom, Has
    <3>. HIDE DEF n, gone, w
    <3>2. Drop(v, gone) = [v EXCEPT !.entries = f]
      BY <1>3, <1>4 DEF Drop
    <3>3. [v EXCEPT !.entries = f] = [entries |-> f, order |-> s]
      <4>. HIDE DEF f
      <4>. QED
        BY DEF v
    <3>4. [[entries |-> f, order |-> s] EXCEPT !.order = w] = [entries |-> f, order |-> w]
      <4>. HIDE DEF f
      <4>. QED
        OBVIOUS
    <3>. QED
      BY <3>1, <3>2, <3>3, <3>4
  <2>. HIDE DEF n
  <2>3. /\ w \in Seq(1 .. hi)
        /\ Lists(w, E \ {gone})
        /\ \A k \in E \ {gone} : gone < k
    <3>1. hi \in Nat
      OBVIOUS
    <3>. QED
      BY <1>5, <2>1, <3>1, CutLists
  <2>. HIDE DEF w, gone
  <2>4. DOMAIN f = E \ {gone} /\ \A j \in E \ {gone} : f[j] = e[j]
    OBVIOUS
  <2>5. f \in [E \ {gone} -> Entry]
    BY <1>7
  <2>6. Cardinality(E \ {gone}) <= Capacity /\ Cardinality(D) = Capacity
    <3>1. Cardinality(E \ {gone}) = Cardinality(E) - 1
      BY <1>6, <2>1, FS_RemoveElement
    <3>. QED
      BY <1>6, <1>10, <3>1
  <2>. HIDE DEF f
  <2>7. u.entries = f /\ u.order = w /\ u = [entries |-> u.entries, order |-> u.order]
    BY <2>2
  <2>8. TableFits(u, hi + 1, latest, Val)
    <3>1. \A j, k \in E \ {gone} : j < k => f[j].exp <= f[k].exp
      BY <1>7, <2>4
    <3>2. E \ {gone} \in SUBSET (1 .. hi)
      BY <1>7
    <3>. HIDE DEF u
    <3>. QED
      BY <1>8, <2>3, <2>4, <2>5, <2>6, <2>7, <3>1, <3>2 DEF TableFits, Lists
  <2>9. ASSUME NEW k \in D \ DOMAIN u.entries
        PROVE  /\ Cardinality(D) = Capacity
               /\ \A j \in DOMAIN u.entries : t.entries[k].exp <= u.entries[j].exp
    <3>1. k = gone /\ k \in E
      BY <2>4, <2>7, <2>9 DEF E
    <3>2. t.entries[k] = e[k]
      BY <1>1, <1>3, <3>1
    <3>3. \A j \in E \ {gone} : e[gone].exp <= e[j].exp
      BY <1>7, <2>1, <2>3
    <3>. QED
      BY <2>4, <2>6, <2>7, <3>1, <3>2, <3>3
  <2>10. E = D \cup {hi}
    BY DEF E
  <2>. QED
    BY <1>3, <2>4, <2>7, <2>8, <2>9, <2>10 DEF new
<1>. QED
  BY <1>9, <1>10

-----------------------------------------------------------------------------
(* Type correctness *)

TablesFit ==
    /\ TableFits(offers, nextKey, now + OfferTtl, {{}})
    /\ TableFits(codes, nextKey, now + OfferTtl, PreAuthorizedGrant)
    /\ TableFits(tokens, nextKey, now + AccessTokenTtl, AccessGrant)
    /\ TableFits(nonces, nextKey, now + NonceTtl, {{}})

Exchanges == [code : Keys, ids : SUBSET Definitions, pc : {"taking", "granting"}]
CredentialRequests == [id : Requests, code : Keys, def : Definitions,
                       nonce : Keys \cup {0}, pc : {"proving", "defining"}]

TypeInv ==
    /\ now \in 0 .. MaxTime
    /\ catalog \in SUBSET Definitions
    /\ nextKey \in 1 .. MaxKeys + 1
    /\ TablesFit
    /\ exchanges \in SUBSET Exchanges
    /\ requests \in SUBSET CredentialRequests
    /\ poisoned \in BOOLEAN
    /\ offered \in [Keys -> SUBSET Definitions]
    /\ guesses \in [Keys -> Nat]
    /\ uses \in [Keys -> Nat]
    /\ issued \in SUBSET (Keys \X Definitions)

\* What the tables hold.
LEMMA EntryTypes ==
    ASSUME TypeInv
    PROVE  /\ nextKey \in Nat \ {0} /\ nextKey \in Nat
           /\ now \in Nat /\ now + OfferTtl \in Nat
           /\ now + AccessTokenTtl \in Nat /\ now + NonceTtl \in Nat
           /\ \A k \in DOMAIN codes.entries :
                 k \in Keys /\ k < nextKey /\ Value(codes, k) \in PreAuthorizedGrant
           /\ \A k \in DOMAIN tokens.entries :
                 k \in Keys /\ k < nextKey /\ Value(tokens, k) \in AccessGrant
           /\ \A k \in DOMAIN nonces.entries : k \in Keys /\ k < nextKey
<1>. USE Oid4vciAssumption
<1>1. /\ nextKey \in Nat \ {0} /\ nextKey \in Nat /\ nextKey <= MaxKeys + 1
      /\ now \in Nat /\ now + OfferTtl \in Nat
      /\ now + AccessTokenTtl \in Nat /\ now + NonceTtl \in Nat
  BY DEF TypeInv
<1>2. ASSUME NEW t, NEW latest, NEW Val, TableFits(t, nextKey, latest, Val),
             NEW k \in DOMAIN t.entries
      PROVE  k \in Keys /\ k < nextKey /\ Value(t, k) \in Val
  <2>1. k \in 1 .. nextKey - 1 /\ t.entries[k] \in [exp : 0 .. latest, val : Val]
    BY <1>2 DEF TableFits
  <2>. QED
    BY <1>1, <2>1 DEF Keys, Value
<1>. QED
  BY <1>1, <1>2 DEF TypeInv, TablesFit

\* The tables are empty at first.
LEMMA InitTypes == Init => TypeInv
<1>. SUFFICES ASSUME Init PROVE TypeInv
  OBVIOUS
<1>. USE Oid4vciAssumption, CapacityAssumption
<1>1. ASSUME NEW latest, NEW Val
      PROVE  TableFits(EmptyTable, 1, latest, Val)
  <2>. DEFINE e == [k \in {} |-> [exp |-> 0, val |-> {}]]
  <2>1. /\ EmptyTable.entries = e /\ EmptyTable.order = << >>
        /\ EmptyTable = [entries |-> e, order |-> << >>]
        /\ DOMAIN e = {}
        /\ e \in [{} -> [exp : 0 .. latest, val : Val]]
    BY DEF EmptyTable
  <2>. HIDE DEF e
  <2>2. Cardinality(DOMAIN e) = 0
    BY <2>1, FS_EmptySet, Zenon
  <2>3. << >> \in Seq(1 .. 1 - 1) /\ DOMAIN << >> = {}
    OBVIOUS
  <2>. QED
    BY <2>1, <2>2, <2>3 DEF TableFits
<1>2. TablesFit
  BY <1>1 DEF Init, TablesFit
<1>3. poisoned \in BOOLEAN
  BY Zenon DEF Init
<1>4. /\ offered \in [Keys -> SUBSET Definitions]
      /\ guesses \in [Keys -> Nat]
      /\ uses \in [Keys -> Nat]
  BY DEF Init
<1>. QED
  BY <1>2, <1>3, <1>4 DEF Init, TypeInv

\* Every handler keeps its tables in order.
LEMMA TypeStep == TypeInv /\ [Next]_vars => TypeInv'
<1>. SUFFICES ASSUME TypeInv, [Next]_vars
              PROVE  TypeInv'
  OBVIOUS
<1>. USE Oid4vciAssumption
<1>0. /\ nextKey \in Nat \ {0} /\ nextKey \in Nat
      /\ now \in Nat /\ now + OfferTtl \in Nat
      /\ now + AccessTokenTtl \in Nat /\ now + NonceTtl \in Nat
      /\ \A k \in DOMAIN codes.entries :
            k \in Keys /\ k < nextKey /\ Value(codes, k) \in PreAuthorizedGrant
      /\ \A k \in DOMAIN tokens.entries :
            k \in Keys /\ k < nextKey /\ Value(tokens, k) \in AccessGrant
  BY EntryTypes
<1>00. /\ nextKey + 1 \in Nat /\ nextKey <= nextKey + 1
       /\ now + OfferTtl <= now + OfferTtl
       /\ now + AccessTokenTtl <= now + AccessTokenTtl
       /\ now + NonceTtl <= now + NonceTtl
  BY <1>0
<1>01. DrawKey => /\ nextKey \in Keys
                  /\ nextKey' = nextKey + 1
                  /\ nextKey' \in 1 .. MaxKeys + 1
  BY <1>0 DEF DrawKey, Keys
<1>1. CASE Tick
  <2>1. /\ now' \in Nat /\ now <= now' /\ now' \in 0 .. MaxTime
        /\ now' + OfferTtl \in Nat /\ now + OfferTtl <= now' + OfferTtl
        /\ now' + AccessTokenTtl \in Nat /\ now + AccessTokenTtl <= now' + AccessTokenTtl
        /\ now' + NonceTtl \in Nat /\ now + NonceTtl <= now' + NonceTtl
        /\ nextKey <= nextKey
    BY <1>0, <1>1 DEF Tick, TypeInv
  <2>2. /\ TableFits(offers, nextKey, now' + OfferTtl, {{}})
        /\ TableFits(codes, nextKey, now' + OfferTtl, PreAuthorizedGrant)
        /\ TableFits(tokens, nextKey, now' + AccessTokenTtl, AccessGrant)
        /\ TableFits(nonces, nextKey, now' + NonceTtl, {{}})
    BY <1>0, <2>1, LaterFits DEF TypeInv, TablesFit
  <2>3. TablesFit'
    BY <1>1, <2>2 DEF Tick, tables, TablesFit
  <2>. QED
    BY <1>1, <2>1, <2>3 DEF Tick, TypeInv, tables, history
<1>2. ASSUME NEW d \in Definitions, ChangeCatalog(d) PROVE TypeInv'
  BY <1>2 DEF ChangeCatalog, TypeInv, TablesFit, tables, history
<1>3. ASSUME NEW ids \in SUBSET Definitions, NEW txCode \in BOOLEAN,
             CreateOffer(ids, txCode)
      PROVE  TypeInv'
  <2>. DEFINE grant == [ids |-> ids, txCode |-> txCode, failed |-> 0]
  <2>1. grant \in PreAuthorizedGrant /\ {} \in {{}}
    BY DEF PreAuthorizedGrant
  <2>. HIDE DEF grant
  <2>2. TableFits(Put(codes, nextKey, now + OfferTtl, grant), nextKey + 1,
                  now + OfferTtl, PreAuthorizedGrant)
    BY <1>0, <2>1, PutFits DEF TypeInv, TablesFit
  <2>3. TableFits(Put(offers, nextKey, now + OfferTtl, {}), nextKey + 1,
                  now + OfferTtl, {{}})
    BY <1>0, <2>1, PutFits DEF TypeInv, TablesFit
  <2>4. /\ TableFits(tokens, nextKey + 1, now + AccessTokenTtl, AccessGrant)
        /\ TableFits(nonces, nextKey + 1, now + NonceTtl, {{}})
    BY <1>0, <1>00, LaterFits DEF TypeInv, TablesFit
  <2>5. TablesFit'
    BY <1>3, <1>01, <2>2, <2>3, <2>4 DEF CreateOffer, TablesFit, grant
  <2>6. offered' \in [Keys -> SUBSET Definitions]
    BY <1>3, <1>01 DEF CreateOffer, TypeInv
  <2>. QED
    BY <1>3, <1>01, <2>5, <2>6 DEF CreateOffer, TypeInv
<1>4. ASSUME NEW k \in Keys, OfferByReference(k) PROVE TypeInv'
  <2>1. TableFits(Drop(offers, k), nextKey, now + OfferTtl, {{}})
    BY <1>0, DropFits DEF TypeInv, TablesFit
  <2>. QED
    BY <1>4, <2>1 DEF OfferByReference, TypeInv, TablesFit, history
<1>5. ASSUME NEW c \in Keys, TokenExpiredCode(c) PROVE TypeInv'
  <2>1. TableFits(Drop(codes, c), nextKey, now + OfferTtl, PreAuthorizedGrant)
    BY <1>0, DropFits DEF TypeInv, TablesFit
  <2>. QED
    BY <1>5, <2>1 DEF TokenExpiredCode, TypeInv, TablesFit, history
<1>6. ASSUME NEW c \in Keys, TokenWrongTxCode(c) PROVE TypeInv'
  <2>. DEFINE attempts == Value(codes, c).failed + 1
              grant == [Value(codes, c) EXCEPT !.failed = attempts]
  <2>1. c \in DOMAIN codes.entries /\ Value(codes, c) \in PreAuthorizedGrant
    BY <1>0, <1>6 DEF TokenWrongTxCode, Live, Has
  <2>2. CASE Burned(attempts)
    <3>1. TableFits(Drop(codes, c), nextKey, now + OfferTtl, PreAuthorizedGrant)
      BY <1>0, DropFits DEF TypeInv, TablesFit
    <3>2. codes' = Drop(codes, c)
      BY <1>6, <2>2 DEF TokenWrongTxCode
    <3>. QED
      BY <1>6, <3>1, <3>2 DEF TokenWrongTxCode, TypeInv, TablesFit
  <2>3. CASE ~ Burned(attempts)
    <3>1. grant \in PreAuthorizedGrant
      BY <2>1, <2>3 DEF PreAuthorizedGrant, Burned
    <3>. HIDE DEF grant
    <3>2. TableFits(SetValue(codes, c, grant), nextKey, now + OfferTtl,
                    PreAuthorizedGrant)
      BY <1>0, <2>1, <3>1, SetValueFits DEF TypeInv, TablesFit
    <3>3. codes' = SetValue(codes, c, grant)
      BY <1>6, <2>3 DEF TokenWrongTxCode, grant
    <3>. QED
      BY <1>6, <3>2, <3>3 DEF TokenWrongTxCode, TypeInv, TablesFit
  <2>. QED
    BY <2>2, <2>3
<1>7. ASSUME NEW c \in Keys, TokenCheck(c) PROVE TypeInv'
  <2>1. Value(codes, c) \in PreAuthorizedGrant
    BY <1>0, <1>7 DEF TokenCheck, Live, Has
  <2>2. exchanges' \in SUBSET Exchanges
    BY <1>7, <2>1 DEF TokenCheck, TypeInv, Exchanges, PreAuthorizedGrant
  <2>. QED
    BY <1>7, <2>2 DEF TokenCheck, TypeInv, TablesFit, tables, history
<1>8. ASSUME NEW x \in exchanges, TokenTake(x) PROVE TypeInv'
  <2>1. TableFits(Drop(codes, x.code), nextKey, now + OfferTtl, PreAuthorizedGrant)
    BY <1>0, DropFits DEF TypeInv, TablesFit
  <2>2. exchanges' \in SUBSET Exchanges
    BY <1>8 DEF TokenTake, TypeInv, Exchanges
  <2>3. poisoned' \in BOOLEAN
    BY <1>8, Zenon DEF TokenTake, TypeInv
  <2>. QED
    BY <1>8, <2>1, <2>2, <2>3 DEF TokenTake, TypeInv, TablesFit, history
<1>9. ASSUME NEW x \in exchanges, TokenGrant(x) PROVE TypeInv'
  <2>. DEFINE grant == [ids |-> x.ids, code |-> x.code]
  <2>1. grant \in AccessGrant /\ x.code \in Keys
    BY DEF AccessGrant, TypeInv, Exchanges
  <2>. HIDE DEF grant
  <2>2. TableFits(Put(tokens, nextKey, now + AccessTokenTtl, grant), nextKey + 1,
                  now + AccessTokenTtl, AccessGrant)
    BY <1>0, <2>1, PutFits DEF TypeInv, TablesFit
  <2>3. /\ TableFits(offers, nextKey + 1, now + OfferTtl, {{}})
        /\ TableFits(codes, nextKey + 1, now + OfferTtl, PreAuthorizedGrant)
        /\ TableFits(nonces, nextKey + 1, now + NonceTtl, {{}})
    BY <1>0, <1>00, LaterFits DEF TypeInv, TablesFit
  <2>4. TablesFit'
    BY <1>9, <1>01, <2>2, <2>3 DEF TokenGrant, TablesFit, grant
  <2>5. uses' \in [Keys -> Nat]
    BY <1>9, <2>1 DEF TokenGrant, TypeInv
  <2>. QED
    BY <1>9, <1>01, <2>4, <2>5 DEF TokenGrant, TypeInv
<1>10. CASE Nonce
  <2>1. TableFits(Put(nonces, nextKey, now + NonceTtl, {}), nextKey + 1,
                  now + NonceTtl, {{}})
    BY <1>0, PutFits DEF TypeInv, TablesFit
  <2>2. /\ TableFits(offers, nextKey + 1, now + OfferTtl, {{}})
        /\ TableFits(codes, nextKey + 1, now + OfferTtl, PreAuthorizedGrant)
        /\ TableFits(tokens, nextKey + 1, now + AccessTokenTtl, AccessGrant)
    BY <1>0, <1>00, LaterFits DEF TypeInv, TablesFit
  <2>3. TablesFit'
    BY <1>10, <1>01, <2>1, <2>2 DEF Nonce, TablesFit
  <2>. QED
    BY <1>10, <1>01, <2>3 DEF Nonce, TypeInv, history
<1>11. ASSUME NEW t \in Keys, CredentialExpiredToken(t) PROVE TypeInv'
  <2>1. TableFits(Drop(tokens, t), nextKey, now + AccessTokenTtl, AccessGrant)
    BY <1>0, DropFits DEF TypeInv, TablesFit
  <2>. QED
    BY <1>11, <2>1 DEF CredentialExpiredToken, TypeInv, TablesFit, history
<1>12. ASSUME NEW id \in Requests, NEW t \in Keys, NEW d \in Definitions,
              CredentialRequest(id, t, d)
       PROVE  TypeInv'
  <2>1. Value(tokens, t) \in AccessGrant
    BY <1>0, <1>12 DEF CredentialRequest, Live, Has
  <2>2. Value(tokens, t).code \in Keys
    BY <2>1 DEF AccessGrant
  <2>3. requests' \in SUBSET CredentialRequests
    BY <1>12, <2>2 DEF CredentialRequest, TypeInv, CredentialRequests
  <2>. QED
    BY <1>12, <2>3 DEF CredentialRequest, TypeInv, TablesFit, tables, history
<1>13. ASSUME NEW r \in requests, CredentialBadProof(r) PROVE TypeInv'
  BY <1>13 DEF CredentialBadProof, TypeInv, TablesFit, tables, history
<1>14. ASSUME NEW r \in requests, NEW n \in Keys, CredentialNonce(r, n) PROVE TypeInv'
  <2>1. TableFits(Drop(nonces, n), nextKey, now + NonceTtl, {{}})
    BY <1>0, DropFits DEF TypeInv, TablesFit
  <2>2. requests' \in SUBSET CredentialRequests
    BY <1>14 DEF CredentialNonce, TypeInv, CredentialRequests
  <2>. QED
    BY <1>14, <2>1, <2>2 DEF CredentialNonce, TypeInv, TablesFit, history
<1>15. ASSUME NEW r \in requests, NEW served \in BOOLEAN,
              CredentialDefinition(r, served)
       PROVE  TypeInv'
  <2>1. r.code \in Keys /\ r.def \in Definitions
    BY DEF TypeInv, CredentialRequests
  <2>2. uses' \in [Keys -> Nat] /\ issued' \in SUBSET (Keys \X Definitions)
    BY <1>15, <2>1 DEF CredentialDefinition, TypeInv
  <2>. QED
    BY <1>15, <2>2 DEF CredentialDefinition, TypeInv, TablesFit, tables
<1>16. CASE UNCHANGED vars
  BY <1>16 DEF vars, TypeInv, TablesFit, tables, history
<1>. QED
  BY <1>1, <1>2, <1>3, <1>4, <1>5, <1>6, <1>7, <1>8, <1>9, <1>10, <1>11, <1>12,
     <1>13, <1>14, <1>15, <1>16 DEF Next, Offer, Token, Credential

\* The invariant of the tables contains their types.
LEMMA TypesFollow == TypeInv => TypeOK
<1>. SUFFICES ASSUME TypeInv PROVE TypeOK
  OBVIOUS
<1>. USE Oid4vciAssumption
<1>1. ASSUME NEW t, NEW latest \in Nat, NEW Val, TableFits(t, nextKey, latest, Val),
             latest <= MaxTime + OfferTtl + AccessTokenTtl + NonceTtl
      PROVE  IsTable(t, Val)
  <2>1. [exp : 0 .. latest, val : Val] \subseteq [exp : Times, val : Val]
    BY <1>1 DEF Times
  <2>. QED
    BY <1>1, <2>1 DEF TableFits, IsTable
<1>2. /\ now + OfferTtl \in Nat /\ now + AccessTokenTtl \in Nat /\ now + NonceTtl \in Nat
      /\ now + OfferTtl <= MaxTime + OfferTtl + AccessTokenTtl + NonceTtl
      /\ now + AccessTokenTtl <= MaxTime + OfferTtl + AccessTokenTtl + NonceTtl
      /\ now + NonceTtl <= MaxTime + OfferTtl + AccessTokenTtl + NonceTtl
  BY DEF TypeInv
<1>3. /\ IsTable(offers, {{}}) /\ IsTable(codes, PreAuthorizedGrant)
      /\ IsTable(tokens, AccessGrant) /\ IsTable(nonces, {{}})
  BY <1>1, <1>2 DEF TypeInv, TablesFit
<1>. QED
  BY <1>3 DEF TypeInv, TypeOK, Exchanges, CredentialRequests

\* Every reachable state has its type: in particular a table never holds more
\* than its capacity, and the eviction loop of insert() always finds a victim.
THEOREM TypeCorrect == Spec => []TypeOK
<1>1. Spec => []TypeInv
  BY InitTypes, TypeStep, PTL DEF Spec
<1>. QED
  BY <1>1, TypesFollow, PTL

-----------------------------------------------------------------------------
(* Codes and nonces *)

\* A code or a nonce that is in its table, or that a handler took out of it and
\* has not used yet.
CodeInUse(k) == Has(codes, k) \/ \E x \in exchanges : x.code = k
NonceInUse(k) ==
    Has(nonces, k) \/ \E r \in requests : r.pc = "defining" /\ r.nonce = k

\* What may still be used has not been, and no code is a nonce.
Unspent ==
    /\ \A k \in Keys : k >= nextKey => uses[k] = 0 /\ guesses[k] = 0 /\ offered[k] = {}
    /\ \A k \in Keys : CodeInUse(k) =>
          k < nextKey /\ uses[k] = 0 /\ guesses[k] < MaxTxCodeAttempts
    /\ \A k \in Keys : NonceInUse(k) =>
          k < nextKey /\ uses[k] = 0 /\ guesses[k] = 0 /\ ~ CodeInUse(k)

\* One handler at most is about to use a code or a nonce, and one at most holds
\* the mutex of the codes.
OneUser ==
    /\ \A x, y \in exchanges :
          x.code = y.code \/ (x.pc = "taking" /\ y.pc = "taking") => x = y
    /\ \A x \in exchanges : Has(codes, x.code) => x.pc = "taking"
    /\ \A q, r \in requests :
          q.pc = "defining" /\ r.pc = "defining" /\ q.nonce = r.nonce => q = r
    /\ \A r \in requests : r.pc = "defining" => r.nonce \in Keys /\ ~ Has(nonces, r.nonce)

\* What a code, a token or a request carries was offered, and the failed
\* attempts of a code are the guesses made at it.
GrantsAreOffered ==
    /\ \A k \in DOMAIN codes.entries :
          /\ Value(codes, k).ids \subseteq offered[k]
          /\ Value(codes, k).failed = guesses[k]
    /\ \A x \in exchanges : x.ids \subseteq offered[x.code]
    /\ \A k \in DOMAIN tokens.entries :
          Value(tokens, k).ids \subseteq offered[Value(tokens, k).code]
    /\ \A r \in requests : r.def \in offered[r.code]

GrantInv ==
    /\ TypeInv
    /\ Unspent
    /\ OneUser
    /\ GrantsAreOffered
    /\ SingleUse
    /\ GuessesBounded
    /\ IssuedWasOffered

\* Nothing is offered at first.
LEMMA InitGrants == Init => GrantInv
<1>. SUFFICES ASSUME Init PROVE GrantInv
  OBVIOUS
<1>. USE Oid4vciAssumption
<1>1. TypeInv
  BY InitTypes
<1>2. /\ DOMAIN codes.entries = {} /\ DOMAIN tokens.entries = {}
      /\ DOMAIN nonces.entries = {}
  BY DEF Init, EmptyTable
<1>3. Unspent /\ OneUser
  BY <1>2 DEF Init, Unspent, OneUser, CodeInUse, NonceInUse, Has, Keys
<1>4. GrantsAreOffered
  BY <1>2 DEF Init, GrantsAreOffered
<1>. QED
  BY <1>1, <1>3, <1>4 DEF Init, GrantInv, SingleUse, GuessesBounded, IssuedWasOffered

\* A handler that changes neither the histories nor what is in use, beyond
\* dropping codes, tokens, nonces, or the handling of some.
LEMMA DroppingKeepsGrants ==
    ASSUME GrantInv, TypeInv', UNCHANGED history, nextKey' >= nextKey,
           \A k \in DOMAIN codes'.entries :
               k \in DOMAIN codes.entries /\ codes'.entries[k] = codes.entries[k],
           \A k \in DOMAIN tokens'.entries :
               k \in DOMAIN tokens.entries /\ tokens'.entries[k] = tokens.entries[k],
           DOMAIN nonces'.entries \subseteq DOMAIN nonces.entries,
           exchanges' \subseteq exchanges, requests' \subseteq requests
    PROVE  GrantInv'
<1>0. nextKey \in Nat /\ nextKey' \in Nat /\ Keys \subseteq Nat
  BY Oid4vciAssumption DEF GrantInv, TypeInv, Keys
<1>1. \A k : (CodeInUse(k)' => CodeInUse(k)) /\ (NonceInUse(k)' => NonceInUse(k))
  BY DEF CodeInUse, NonceInUse, Has
<1>2. Unspent'
  <2>1. /\ \A k \in Keys : k >= nextKey' => k >= nextKey
        /\ \A k \in Keys : k < nextKey => k < nextKey'
    BY <1>0
  <2>2. ASSUME NEW k \in Keys, NonceInUse(k)' PROVE ~ CodeInUse(k)'
    BY <1>1, <2>2 DEF GrantInv, Unspent
  <2>. QED
    BY <1>1, <2>1, <2>2 DEF GrantInv, Unspent, history
<1>3. OneUser'
  BY DEF GrantInv, OneUser, Has
<1>4. GrantsAreOffered'
  BY DEF GrantInv, GrantsAreOffered, Value, history
<1>. QED
  BY <1>2, <1>3, <1>4 DEF GrantInv, SingleUse, GuessesBounded, IssuedWasOffered, history

\* Offering: a fresh code joins, and perhaps the oldest one goes.
LEMMA CreateOfferKeepsGrants ==
    ASSUME GrantInv, TypeInv', NEW ids \in SUBSET Definitions, NEW txCode \in BOOLEAN,
           CreateOffer(ids, txCode)
    PROVE  GrantInv'
<1>. USE Oid4vciAssumption
<1>. DEFINE grant == [ids |-> ids, txCode |-> txCode, failed |-> 0]
<1>0. /\ TypeInv
      /\ nextKey \in Keys /\ nextKey' = nextKey + 1 /\ nextKey \in Nat
      /\ Keys \subseteq Nat
      /\ grant \in PreAuthorizedGrant
      /\ grant.ids = ids /\ grant.failed = 0
  BY DEF GrantInv, TypeInv, CreateOffer, DrawKey, Keys, PreAuthorizedGrant
<1>. HIDE DEF grant
<1>1. /\ DOMAIN codes'.entries \subseteq DOMAIN codes.entries \cup {nextKey}
      /\ \A j \in DOMAIN codes'.entries :
            codes'.entries[j] = IF j = nextKey
                                THEN [exp |-> now + OfferTtl, val |-> grant]
                                ELSE codes.entries[j]
  <2>1. nextKey \in Nat \ {0} /\ now + OfferTtl \in Nat
    BY <1>0, EntryTypes
  <2>2. TableFits(codes, nextKey, now + OfferTtl, PreAuthorizedGrant)
    BY <1>0 DEF TypeInv, TablesFit
  <2>3. codes' = Put(codes, nextKey, now + OfferTtl, grant)
    BY DEF CreateOffer, grant
  <2>. QED
    BY <1>0, <2>1, <2>2, <2>3, PutFits
<1>2. /\ UNCHANGED <<tokens, nonces, exchanges, requests, guesses, uses, issued>>
      /\ offered' = [offered EXCEPT ![nextKey] = ids]
      /\ \A x \in exchanges : x.pc # "taking"
      /\ offered \in [Keys -> SUBSET Definitions]
  BY <1>0 DEF CreateOffer, CodesFree, TypeInv
<1>3. /\ offered[nextKey] = {} /\ uses[nextKey] = 0 /\ guesses[nextKey] = 0
      /\ ~ CodeInUse(nextKey) /\ ~ NonceInUse(nextKey)
  BY <1>0 DEF GrantInv, Unspent
<1>4. /\ \A k \in Keys : CodeInUse(k)' => CodeInUse(k) \/ k = nextKey
      /\ \A k \in Keys : NonceInUse(k)' => NonceInUse(k)
  BY <1>1, <1>2 DEF CodeInUse, NonceInUse, Has
<1>5. \A k \in Keys : offered[k] \subseteq offered'[k] /\ (k # nextKey => offered'[k] = offered[k])
  BY <1>2, <1>3
<1>6. Unspent'
  <2>1. ASSUME NEW k \in Keys, k >= nextKey'
        PROVE  uses'[k] = 0 /\ guesses'[k] = 0 /\ offered'[k] = {}
    BY <1>0, <1>2, <1>5, <2>1 DEF GrantInv, Unspent
  <2>2. ASSUME NEW k \in Keys, CodeInUse(k)'
        PROVE  k < nextKey' /\ uses'[k] = 0 /\ guesses'[k] < MaxTxCodeAttempts
    BY <1>0, <1>2, <1>3, <1>4, <2>2 DEF GrantInv, Unspent
  <2>3. ASSUME NEW k \in Keys, NonceInUse(k)'
        PROVE  k < nextKey' /\ uses'[k] = 0 /\ guesses'[k] = 0 /\ ~ CodeInUse(k)'
    BY <1>0, <1>2, <1>3, <1>4, <2>3 DEF GrantInv, Unspent
  <2>. QED
    BY <2>1, <2>2, <2>3 DEF Unspent
<1>7. OneUser'
  <2>1. ASSUME NEW x \in exchanges', Has(codes', x.code) PROVE x.pc = "taking"
    <3>1. x.code \in Keys /\ x.code # nextKey
      BY <1>0, <1>2, <1>3 DEF TypeInv, Exchanges, CodeInUse
    <3>. QED
      BY <1>1, <1>2, <2>1, <3>1 DEF GrantInv, OneUser, Has
  <2>. QED
    BY <1>2, <2>1 DEF GrantInv, OneUser, Has
<1>8. GrantsAreOffered'
  <2>1. ASSUME NEW k \in DOMAIN codes'.entries
        PROVE  /\ Value(codes', k).ids \subseteq offered'[k]
               /\ Value(codes', k).failed = guesses'[k]
    <3>1. CASE k = nextKey
      BY <1>0, <1>1, <1>2, <1>3, <3>1 DEF Value
    <3>2. CASE k # nextKey
      <4>1. k \in DOMAIN codes.entries /\ k \in Keys
        BY <1>0, <1>1, <3>2, EntryTypes
      <4>. QED
        BY <1>1, <1>2, <1>5, <3>2, <4>1 DEF Value, GrantInv, GrantsAreOffered
    <3>. QED
      BY <3>1, <3>2
  <2>2. ASSUME NEW x \in exchanges' PROVE x.ids \subseteq offered'[x.code]
    <3>1. x.code \in Keys
      BY <1>0, <1>2 DEF TypeInv, Exchanges
    <3>. QED
      BY <1>2, <1>5, <3>1 DEF GrantInv, GrantsAreOffered
  <2>3. ASSUME NEW k \in DOMAIN tokens'.entries
        PROVE  Value(tokens', k).ids \subseteq offered'[Value(tokens', k).code]
    <3>1. Value(tokens, k).code \in Keys /\ k \in DOMAIN tokens.entries
      BY <1>0, <1>2, EntryTypes DEF AccessGrant
    <3>. QED
      BY <1>2, <1>5, <3>1 DEF GrantInv, GrantsAreOffered
  <2>4. ASSUME NEW r \in requests' PROVE r.def \in offered'[r.code]
    <3>1. r.code \in Keys
      BY <1>0, <1>2 DEF TypeInv, CredentialRequests
    <3>. QED
      BY <1>2, <1>5, <3>1 DEF GrantInv, GrantsAreOffered
  <2>. QED
    BY <2>1, <2>2, <2>3, <2>4 DEF GrantsAreOffered
<1>9. IssuedWasOffered'
  <2>1. ASSUME NEW i \in issued' PROVE i[2] \in offered'[i[1]]
    <3>1. i \in issued /\ i[1] \in Keys
      BY <1>0, <1>2 DEF TypeInv
    <3>. QED
      BY <1>5, <3>1 DEF GrantInv, IssuedWasOffered
  <2>. QED
    BY <2>1 DEF IssuedWasOffered
<1>. QED
  BY <1>2, <1>6, <1>7, <1>8, <1>9 DEF GrantInv, SingleUse, GuessesBounded

\* A wrong transaction code: the guess is counted, and the last one burns the
\* code.
LEMMA WrongTxCodeKeepsGrants ==
    ASSUME GrantInv, TypeInv', NEW c \in Keys, TokenWrongTxCode(c)
    PROVE  GrantInv'
<1>. USE Oid4vciAssumption
<1>. DEFINE attempts == Value(codes, c).failed + 1
            grant == [Value(codes, c) EXCEPT !.failed = attempts]
<1>0. /\ TypeInv /\ c \in DOMAIN codes.entries
      /\ Value(codes, c) \in PreAuthorizedGrant
      /\ Value(codes, c).failed = guesses[c]
      /\ guesses \in [Keys -> Nat]
      /\ Keys \subseteq Nat
      /\ grant \in [ids : SUBSET Definitions, txCode : BOOLEAN, failed : Nat]
      /\ grant.ids = Value(codes, c).ids /\ grant.failed = attempts
  <2>1. TypeInv /\ c \in DOMAIN codes.entries
    BY DEF GrantInv, TokenWrongTxCode, Live, Has
  <2>2. Value(codes, c) \in PreAuthorizedGrant
    BY <2>1, EntryTypes
  <2>3. Value(codes, c).failed = guesses[c]
    BY <2>1 DEF GrantInv, GrantsAreOffered
  <2>4. guesses \in [Keys -> Nat] /\ Keys \subseteq Nat
    BY <2>1, SMTT(30) DEF TypeInv, Keys
  <2>5. ASSUME NEW v \in PreAuthorizedGrant, NEW a \in Nat
        PROVE  /\ [v EXCEPT !.failed = a] \in
                      [ids : SUBSET Definitions, txCode : BOOLEAN, failed : Nat]
               /\ [v EXCEPT !.failed = a].ids = v.ids
               /\ [v EXCEPT !.failed = a].failed = a
    BY DEF PreAuthorizedGrant
  <2>6. attempts \in Nat
    BY <2>2 DEF PreAuthorizedGrant
  <2>. HIDE DEF attempts
  <2>. QED
    BY <2>1, <2>2, <2>3, <2>4, <2>5, <2>6
<1>1. /\ CodeInUse(c) /\ ~ NonceInUse(c) /\ uses[c] = 0 /\ guesses[c] < MaxTxCodeAttempts
      /\ c < nextKey
  BY <1>0 DEF GrantInv, Unspent, CodeInUse, Has
<1>2. /\ UNCHANGED <<tokens, nonces, nextKey, exchanges, requests, offered, uses, issued>>
      /\ guesses' = [guesses EXCEPT ![c] = @ + 1]
      /\ \A x \in exchanges : x.pc # "taking"
  BY DEF TokenWrongTxCode, CodesFree
<1>3. guesses'[c] = guesses[c] + 1 /\ \A k \in Keys \ {c} : guesses'[k] = guesses[k]
  BY <1>0, <1>2
<1>4. /\ DOMAIN codes'.entries \subseteq DOMAIN codes.entries
      /\ \A k \in DOMAIN codes'.entries \ {c} : codes'.entries[k] = codes.entries[k]
      /\ c \in DOMAIN codes'.entries =>
            /\ attempts < MaxTxCodeAttempts
            /\ Value(codes', c) = grant
  <2>1. /\ nextKey \in Nat /\ now + OfferTtl \in Nat
        /\ TableFits(codes, nextKey, now + OfferTtl, PreAuthorizedGrant)
    BY <1>0, EntryTypes DEF TypeInv, TablesFit
  <2>2. CASE Burned(attempts)
    <3>1. codes' = Drop(codes, c)
      BY <2>2 DEF TokenWrongTxCode
    <3>. QED
      BY <2>1, <3>1, DropFits
  <2>3. CASE ~ Burned(attempts)
    <3>1. attempts < MaxTxCodeAttempts /\ grant \in PreAuthorizedGrant
      BY <1>0, <2>3 DEF Burned, PreAuthorizedGrant
    <3>2. codes' = SetValue(codes, c, grant)
      BY <2>3 DEF TokenWrongTxCode
    <3>. HIDE DEF grant, attempts
    <3>3. /\ DOMAIN codes'.entries = DOMAIN codes.entries
          /\ \A j \in DOMAIN codes.entries :
                codes'.entries[j] = IF j = c
                                    THEN [exp |-> codes.entries[c].exp, val |-> grant]
                                    ELSE codes.entries[j]
      BY <1>0, <2>1, <3>1, <3>2, SetValueFits
    <3>4. Value(codes', c) = grant
      BY <1>0, <3>3 DEF Value
    <3>. QED
      BY <3>1, <3>3, <3>4
  <2>. QED
    BY <2>2, <2>3
<1>. HIDE DEF grant
<1>5. CodeInUse(c)' => c \in DOMAIN codes'.entries
  <2>1. ASSUME NEW x \in exchanges, x.code = c PROVE FALSE
    BY <1>0, <1>2, <2>1 DEF GrantInv, OneUser, Has
  <2>. QED
    BY <1>2, <2>1 DEF CodeInUse, Has
<1>6. /\ \A k \in Keys : CodeInUse(k)' => CodeInUse(k)
      /\ \A k \in Keys : NonceInUse(k)' => NonceInUse(k)
  BY <1>2, <1>4 DEF CodeInUse, NonceInUse, Has
<1>7. Unspent'
  <2>1. ASSUME NEW k \in Keys, k >= nextKey'
        PROVE  uses'[k] = 0 /\ guesses'[k] = 0 /\ offered'[k] = {}
    <3>1. k # c
      BY <1>0, <1>1, <1>2, <2>1, EntryTypes
    <3>. QED
      BY <1>2, <1>3, <2>1, <3>1 DEF GrantInv, Unspent
  <2>2. ASSUME NEW k \in Keys, CodeInUse(k)'
        PROVE  k < nextKey' /\ uses'[k] = 0 /\ guesses'[k] < MaxTxCodeAttempts
    <3>1. CASE k = c
      BY <1>0, <1>1, <1>2, <1>3, <1>4, <1>5, <2>2, <3>1
    <3>2. CASE k # c
      BY <1>2, <1>3, <1>6, <2>2, <3>2 DEF GrantInv, Unspent
    <3>. QED
      BY <3>1, <3>2
  <2>3. ASSUME NEW k \in Keys, NonceInUse(k)'
        PROVE  k < nextKey' /\ uses'[k] = 0 /\ guesses'[k] = 0 /\ ~ CodeInUse(k)'
    <3>1. NonceInUse(k) /\ k # c
      BY <1>1, <1>6, <2>3
    <3>. QED
      BY <1>2, <1>3, <1>6, <3>1 DEF GrantInv, Unspent
  <2>. QED
    BY <2>1, <2>2, <2>3 DEF Unspent
<1>8. OneUser'
  BY <1>2, <1>4 DEF GrantInv, OneUser, Has
<1>9. GrantsAreOffered'
  <2>1. ASSUME NEW k \in DOMAIN codes'.entries
        PROVE  /\ Value(codes', k).ids \subseteq offered'[k]
               /\ Value(codes', k).failed = guesses'[k]
    <3>1. k \in DOMAIN codes.entries /\ k \in Keys
      BY <1>0, <1>4, EntryTypes
    <3>2. CASE k = c
      BY <1>0, <1>2, <1>3, <1>4, <3>1, <3>2 DEF GrantInv, GrantsAreOffered
    <3>3. CASE k # c
      BY <1>2, <1>3, <1>4, <3>1, <3>3 DEF GrantInv, GrantsAreOffered, Value
    <3>. QED
      BY <3>2, <3>3
  <2>. QED
    BY <1>2, <2>1 DEF GrantInv, GrantsAreOffered
<1>10. GuessesBounded'
  <2>1. ASSUME NEW k \in Keys
        PROVE  /\ guesses'[k] <= MaxTxCodeAttempts
               /\ guesses'[k] = MaxTxCodeAttempts => uses'[k] = 0
    <3>1. CASE k = c
      BY <1>0, <1>1, <1>2, <1>3, <3>1
    <3>2. CASE k # c
      BY <1>2, <1>3, <3>2 DEF GrantInv, GuessesBounded
    <3>. QED
      BY <3>1, <3>2
  <2>. QED
    BY <2>1 DEF GuessesBounded
<1>. QED
  BY <1>2, <1>7, <1>8, <1>9, <1>10 DEF GrantInv, SingleUse, IssuedWasOffered

\* A live code whose transaction code is right: the handler holds the mutex.
LEMMA CheckKeepsGrants ==
    ASSUME GrantInv, TypeInv', NEW c \in Keys, TokenCheck(c)
    PROVE  GrantInv'
<1>. DEFINE new == [code |-> c, ids |-> Value(codes, c).ids, pc |-> "taking"]
<1>1. /\ UNCHANGED <<codes, tokens, nonces, nextKey, requests, offered, guesses, uses, issued>>
      /\ exchanges' = exchanges \cup {new}
      /\ \A x \in exchanges : x.pc # "taking"
      /\ Has(codes, c)
  BY DEF TokenCheck, CodesFree, Live, tables, history
<1>2. new.code = c /\ new.ids = Value(codes, c).ids /\ new.pc = "taking"
  OBVIOUS
<1>. HIDE DEF new
<1>3. \A k : CodeInUse(k)' <=> CodeInUse(k)
  BY <1>1, <1>2 DEF CodeInUse, Has
<1>4. \A k : NonceInUse(k)' <=> NonceInUse(k)
  BY <1>1 DEF NonceInUse, Has
<1>5. Unspent'
  BY <1>1, <1>3, <1>4 DEF GrantInv, Unspent
<1>6. OneUser'
  <2>1. \A x \in exchanges : x.code # c
    BY <1>1 DEF GrantInv, OneUser
  <2>2. ASSUME NEW x \in exchanges', NEW y \in exchanges',
               x.code = y.code \/ (x.pc = "taking" /\ y.pc = "taking")
        PROVE  x = y
    BY <1>1, <1>2, <2>1, <2>2 DEF GrantInv, OneUser
  <2>. QED
    BY <1>1, <1>2, <2>2 DEF GrantInv, OneUser, Has
<1>7. GrantsAreOffered'
  BY <1>1, <1>2 DEF GrantInv, GrantsAreOffered, Has
<1>. QED
  BY <1>1, <1>5, <1>6, <1>7 DEF GrantInv, SingleUse, GuessesBounded, IssuedWasOffered

\* The code leaves its table: a token is about to be granted for it, or the
\* handler panics because it expired meanwhile.
LEMMA TakeKeepsGrants ==
    ASSUME GrantInv, TypeInv', NEW x \in exchanges, TokenTake(x)
    PROVE  GrantInv'
<1>. DEFINE taken == [x EXCEPT !.pc = "granting"]
<1>0. /\ TypeInv /\ x \in Exchanges /\ x.code \in Keys
      /\ taken.code = x.code /\ taken.ids = x.ids /\ taken.pc = "granting"
  BY DEF GrantInv, TypeInv, Exchanges
<1>1. /\ UNCHANGED <<tokens, nonces, nextKey, requests, offered, guesses, uses, issued>>
      /\ exchanges' = exchanges \ {x} \/ exchanges' = (exchanges \ {x}) \cup {taken}
      /\ codes' = Drop(codes, x.code)
      /\ x.pc = "taking"
  BY DEF TokenTake, history
<1>. HIDE DEF taken
<1>2. /\ DOMAIN codes'.entries = DOMAIN codes.entries \ {x.code}
      /\ \A k \in DOMAIN codes'.entries : codes'.entries[k] = codes.entries[k]
  <2>1. /\ nextKey \in Nat /\ now + OfferTtl \in Nat
        /\ TableFits(codes, nextKey, now + OfferTtl, PreAuthorizedGrant)
    BY <1>0, EntryTypes DEF TypeInv, TablesFit
  <2>. QED
    BY <1>1, <2>1, DropFits
<1>3. \A k : CodeInUse(k)' => CodeInUse(k)
  BY <1>0, <1>1, <1>2 DEF CodeInUse, Has
<1>4. \A k : NonceInUse(k)' => NonceInUse(k)
  BY <1>1 DEF NonceInUse, Has
<1>5. Unspent'
  BY <1>1, <1>3, <1>4 DEF GrantInv, Unspent
<1>6. OneUser'
  <2>1. ASSUME NEW y \in exchanges', NEW z \in exchanges',
               y.code = z.code \/ (y.pc = "taking" /\ z.pc = "taking")
        PROVE  y = z
    BY <1>0, <1>1, <2>1 DEF GrantInv, OneUser
  <2>2. ASSUME NEW y \in exchanges', Has(codes', y.code)
        PROVE  y.pc = "taking"
    BY <1>0, <1>1, <1>2, <2>2 DEF GrantInv, OneUser, Has
  <2>. QED
    BY <1>1, <2>1, <2>2 DEF GrantInv, OneUser, Has
<1>7. GrantsAreOffered'
  BY <1>0, <1>1, <1>2 DEF GrantInv, GrantsAreOffered, Value
<1>. QED
  BY <1>1, <1>5, <1>6, <1>7 DEF GrantInv, SingleUse, GuessesBounded, IssuedWasOffered

\* The token is granted: its code is in nobody's hands any more.
LEMMA GrantKeepsGrants ==
    ASSUME GrantInv, TypeInv', NEW x \in exchanges, TokenGrant(x)
    PROVE  GrantInv'
<1>. USE Oid4vciAssumption
<1>. DEFINE grant == [ids |-> x.ids, code |-> x.code]
<1>0. /\ TypeInv /\ x.code \in Keys
      /\ grant \in AccessGrant /\ grant.ids = x.ids /\ grant.code = x.code
      /\ Keys \subseteq Nat
      /\ nextKey \in Nat /\ nextKey' = nextKey + 1
      /\ uses \in [Keys -> Nat]
  <2>1. TypeInv /\ x \in Exchanges
    BY DEF GrantInv, TypeInv
  <2>2. x.code \in Keys /\ x.ids \in SUBSET Definitions
    BY <2>1 DEF Exchanges
  <2>3. grant \in AccessGrant /\ grant.ids = x.ids /\ grant.code = x.code
    BY <2>2 DEF AccessGrant
  <2>4. Keys \subseteq Nat /\ nextKey \in Nat /\ uses \in [Keys -> Nat]
    BY <2>1 DEF TypeInv, Keys
  <2>5. nextKey' = nextKey + 1
    BY DEF TokenGrant, DrawKey
  <2>. QED
    BY <2>1, <2>2, <2>3, <2>4, <2>5
<1>. HIDE DEF grant
<1>1. /\ UNCHANGED <<codes, nonces, requests, offered, guesses, issued>>
      /\ exchanges' = exchanges \ {x}
      /\ uses' = [uses EXCEPT ![x.code] = @ + 1]
      /\ x.pc = "granting"
  BY DEF TokenGrant
<1>2. /\ DOMAIN tokens'.entries \subseteq DOMAIN tokens.entries \cup {nextKey}
      /\ \A j \in DOMAIN tokens'.entries :
            tokens'.entries[j] = IF j = nextKey
                                 THEN [exp |-> now + AccessTokenTtl, val |-> grant]
                                 ELSE tokens.entries[j]
  <2>1. /\ nextKey \in Nat \ {0} /\ now + AccessTokenTtl \in Nat
        /\ TableFits(tokens, nextKey, now + AccessTokenTtl, AccessGrant)
    BY <1>0, EntryTypes DEF TypeInv, TablesFit
  <2>2. tokens' = Put(tokens, nextKey, now + AccessTokenTtl, grant)
    BY DEF TokenGrant, grant
  <2>. QED
    BY <1>0, <2>1, <2>2, PutFits
<1>3. /\ CodeInUse(x.code) /\ ~ NonceInUse(x.code)
      /\ uses[x.code] = 0 /\ guesses[x.code] < MaxTxCodeAttempts
      /\ x.code < nextKey
  BY <1>0 DEF GrantInv, Unspent, CodeInUse
<1>4. uses'[x.code] = 1 /\ \A k \in Keys \ {x.code} : uses'[k] = uses[k]
  BY <1>0, <1>1, <1>3
<1>5. ~ CodeInUse(x.code)'
  BY <1>1 DEF GrantInv, OneUser, CodeInUse, Has
<1>6. /\ \A k \in Keys : CodeInUse(k)' => CodeInUse(k)
      /\ \A k \in Keys : NonceInUse(k)' => NonceInUse(k)
  BY <1>1 DEF CodeInUse, NonceInUse, Has
<1>7. Unspent'
  <2>1. ASSUME NEW k \in Keys, k >= nextKey'
        PROVE  uses'[k] = 0 /\ guesses'[k] = 0 /\ offered'[k] = {}
    <3>1. k # x.code /\ k >= nextKey
      BY <1>0, <1>3, <2>1
    <3>. QED
      BY <1>1, <1>4, <3>1 DEF GrantInv, Unspent
  <2>2. ASSUME NEW k \in Keys, CodeInUse(k)'
        PROVE  k < nextKey' /\ uses'[k] = 0 /\ guesses'[k] < MaxTxCodeAttempts
    BY <1>0, <1>1, <1>4, <1>5, <1>6, <2>2 DEF GrantInv, Unspent
  <2>3. ASSUME NEW k \in Keys, NonceInUse(k)'
        PROVE  k < nextKey' /\ uses'[k] = 0 /\ guesses'[k] = 0 /\ ~ CodeInUse(k)'
    BY <1>0, <1>1, <1>3, <1>4, <1>6, <2>3 DEF GrantInv, Unspent
  <2>. QED
    BY <2>1, <2>2, <2>3 DEF Unspent
<1>8. OneUser'
  BY <1>1 DEF GrantInv, OneUser, Has
<1>9. GrantsAreOffered'
  <2>1. ASSUME NEW k \in DOMAIN tokens'.entries
        PROVE  Value(tokens', k).ids \subseteq offered'[Value(tokens', k).code]
    <3>1. CASE k = nextKey
      BY <1>0, <1>1, <1>2, <3>1 DEF GrantInv, GrantsAreOffered, Value
    <3>2. CASE k # nextKey
      BY <1>1, <1>2, <3>2 DEF GrantInv, GrantsAreOffered, Value
    <3>. QED
      BY <3>1, <3>2
  <2>. QED
    BY <1>1, <2>1 DEF GrantInv, GrantsAreOffered
<1>10. SingleUse' /\ GuessesBounded'
  <2>1. ASSUME NEW k \in Keys
        PROVE  /\ uses'[k] <= 1
               /\ guesses'[k] <= MaxTxCodeAttempts
               /\ guesses'[k] = MaxTxCodeAttempts => uses'[k] = 0
    <3>1. CASE k = x.code
      BY <1>1, <1>3, <1>4, <3>1 DEF GrantInv, GuessesBounded
    <3>2. CASE k # x.code
      BY <1>1, <1>4, <3>2 DEF GrantInv, GuessesBounded, SingleUse
    <3>. QED
      BY <3>1, <3>2
  <2>. QED
    BY <2>1 DEF SingleUse, GuessesBounded
<1>. QED
  BY <1>1, <1>7, <1>8, <1>9, <1>10 DEF GrantInv, IssuedWasOffered

\* A fresh nonce joins, and perhaps the oldest one goes.
LEMMA NonceKeepsGrants ==
    ASSUME GrantInv, TypeInv', Nonce
    PROVE  GrantInv'
<1>. USE Oid4vciAssumption
<1>0. /\ TypeInv /\ Keys \subseteq Nat
      /\ nextKey \in Nat /\ nextKey \in Keys /\ nextKey' = nextKey + 1
  BY DEF GrantInv, TypeInv, Nonce, DrawKey, Keys
<1>1. /\ UNCHANGED <<codes, tokens, exchanges, requests, offered, guesses, uses, issued>>
  BY DEF Nonce, history
<1>2. DOMAIN nonces'.entries \subseteq DOMAIN nonces.entries \cup {nextKey}
  <2>1. /\ nextKey \in Nat \ {0} /\ now + NonceTtl \in Nat
        /\ TableFits(nonces, nextKey, now + NonceTtl, {{}})
    BY <1>0, EntryTypes DEF TypeInv, TablesFit
  <2>2. nonces' = Put(nonces, nextKey, now + NonceTtl, {})
    BY DEF Nonce
  <2>. QED
    BY <2>1, <2>2, PutFits
<1>3. /\ uses[nextKey] = 0 /\ guesses[nextKey] = 0
      /\ ~ CodeInUse(nextKey) /\ ~ NonceInUse(nextKey)
  BY <1>0 DEF GrantInv, Unspent
<1>4. /\ \A k \in Keys : CodeInUse(k)' <=> CodeInUse(k)
      /\ \A k \in Keys : NonceInUse(k)' => NonceInUse(k) \/ k = nextKey
  BY <1>1, <1>2 DEF CodeInUse, NonceInUse, Has
<1>5. Unspent'
  <2>1. ASSUME NEW k \in Keys, k >= nextKey'
        PROVE  uses'[k] = 0 /\ guesses'[k] = 0 /\ offered'[k] = {}
    BY <1>0, <1>1, <2>1 DEF GrantInv, Unspent
  <2>2. ASSUME NEW k \in Keys, CodeInUse(k)'
        PROVE  k < nextKey' /\ uses'[k] = 0 /\ guesses'[k] < MaxTxCodeAttempts
    BY <1>0, <1>1, <1>4, <2>2 DEF GrantInv, Unspent
  <2>3. ASSUME NEW k \in Keys, NonceInUse(k)'
        PROVE  k < nextKey' /\ uses'[k] = 0 /\ guesses'[k] = 0 /\ ~ CodeInUse(k)'
    BY <1>0, <1>1, <1>3, <1>4, <2>3 DEF GrantInv, Unspent
  <2>. QED
    BY <2>1, <2>2, <2>3 DEF Unspent
<1>6. OneUser'
  <2>1. ASSUME NEW r \in requests, r.pc = "defining"
        PROVE  r.nonce \in Keys /\ ~ Has(nonces', r.nonce)
    BY <1>2, <1>3, <2>1 DEF GrantInv, OneUser, Has, NonceInUse
  <2>. QED
    BY <1>1, <2>1 DEF GrantInv, OneUser, Has
<1>7. GrantsAreOffered'
  BY <1>1 DEF GrantInv, GrantsAreOffered
<1>. QED
  BY <1>1, <1>5, <1>6, <1>7 DEF GrantInv, SingleUse, GuessesBounded, IssuedWasOffered

\* A credential request is accepted for what its token covers.
LEMMA RequestKeepsGrants ==
    ASSUME GrantInv, TypeInv', NEW id \in Requests, NEW t \in Keys,
           NEW d \in Definitions, CredentialRequest(id, t, d)
    PROVE  GrantInv'
<1>. DEFINE code == Value(tokens, t).code
            new == [id |-> id, code |-> code, def |-> d, nonce |-> 0, pc |-> "proving"]
<1>1. /\ UNCHANGED <<codes, tokens, nonces, nextKey, exchanges, offered, guesses, uses, issued>>
      /\ requests' = requests \cup {new}
      /\ Has(tokens, t) /\ d \in Value(tokens, t).ids
  BY DEF CredentialRequest, Live, Covers, tables, history
<1>. HIDE DEF code
<1>2. new.code = code /\ new.def = d /\ new.pc = "proving"
  OBVIOUS
<1>3. d \in offered[code]
  BY <1>1 DEF GrantInv, GrantsAreOffered, Has, code
<1>. HIDE DEF new
<1>4. /\ \A k : CodeInUse(k)' <=> CodeInUse(k)
      /\ \A k : NonceInUse(k)' <=> NonceInUse(k)
  BY <1>1, <1>2 DEF CodeInUse, NonceInUse, Has
<1>5. Unspent'
  BY <1>1, <1>4 DEF GrantInv, Unspent
<1>6. OneUser'
  BY <1>1, <1>2 DEF GrantInv, OneUser, Has
<1>7. GrantsAreOffered'
  BY <1>1, <1>2, <1>3 DEF GrantInv, GrantsAreOffered
<1>. QED
  BY <1>1, <1>5, <1>6, <1>7 DEF GrantInv, SingleUse, GuessesBounded, IssuedWasOffered

\* The nonce of a proof leaves its table; a live one goes with the request.
LEMMA TakeNonceKeepsGrants ==
    ASSUME GrantInv, TypeInv', NEW r \in requests, NEW n \in Keys,
           CredentialNonce(r, n)
    PROVE  GrantInv'
<1>. DEFINE new == [r EXCEPT !.pc = "defining", !.nonce = n]
<1>0. /\ TypeInv /\ new.code = r.code /\ new.def = r.def
      /\ new.nonce = n /\ new.pc = "defining"
  BY DEF GrantInv, TypeInv, CredentialRequests
<1>1. /\ UNCHANGED <<codes, tokens, nextKey, exchanges, offered, guesses, uses, issued>>
      /\ \/ requests' = requests \ {r}
         \/ requests' = (requests \ {r}) \cup {new} /\ Has(nonces, n)
      /\ r.pc = "proving"
  BY DEF CredentialNonce, Live, history
<1>. HIDE DEF new
<1>2. DOMAIN nonces'.entries = DOMAIN nonces.entries \ {n}
  <2>1. /\ nextKey \in Nat /\ now + NonceTtl \in Nat
        /\ TableFits(nonces, nextKey, now + NonceTtl, {{}})
    BY <1>0, EntryTypes DEF TypeInv, TablesFit
  <2>2. nonces' = Drop(nonces, n)
    BY DEF CredentialNonce
  <2>. QED
    BY <2>1, <2>2, DropFits
<1>4. /\ \A k : CodeInUse(k)' <=> CodeInUse(k)
      /\ \A k : NonceInUse(k)' => NonceInUse(k)
  BY <1>0, <1>1, <1>2 DEF CodeInUse, NonceInUse, Has
<1>5. Unspent'
  BY <1>1, <1>4 DEF GrantInv, Unspent
<1>6. OneUser'
  <2>1. ASSUME NEW q \in requests', q.pc = "defining"
        PROVE  q.nonce \in Keys /\ ~ Has(nonces', q.nonce)
    BY <1>0, <1>1, <1>2, <2>1 DEF GrantInv, OneUser, Has
  <2>2. ASSUME NEW q \in requests', NEW s \in requests',
               q.pc = "defining", s.pc = "defining", q.nonce = s.nonce
        PROVE  q = s
    BY <1>0, <1>1, <2>2 DEF GrantInv, OneUser
  <2>. QED
    BY <1>1, <2>1, <2>2 DEF GrantInv, OneUser, Has
<1>7. GrantsAreOffered'
  BY <1>0, <1>1 DEF GrantInv, GrantsAreOffered
<1>. QED
  BY <1>1, <1>5, <1>6, <1>7 DEF GrantInv, SingleUse, GuessesBounded, IssuedWasOffered

\* The credential is issued, or refused after its nonce was spent.
LEMMA DefinitionKeepsGrants ==
    ASSUME GrantInv, TypeInv', NEW r \in requests, NEW served \in BOOLEAN,
           CredentialDefinition(r, served)
    PROVE  GrantInv'
<1>. USE Oid4vciAssumption
<1>0. /\ TypeInv /\ Keys \subseteq Nat /\ nextKey \in Nat
      /\ uses \in [Keys -> Nat] /\ guesses \in [Keys -> Nat]
      /\ r.pc = "defining"
      /\ r.nonce \in Keys
  <2>1. r.pc = "defining" /\ r.nonce \in Keys
    BY DEF CredentialDefinition, GrantInv, OneUser
  <2>2. TypeInv
    BY DEF GrantInv
  <2>3. Keys \subseteq Nat
    BY DEF Keys
  <2>4. nextKey \in Nat
    BY <2>2, EntryTypes
  <2>5. uses \in [Keys -> Nat] /\ guesses \in [Keys -> Nat]
    BY <2>2 DEF TypeInv
  <2>. QED
    BY <2>1, <2>2, <2>3, <2>4, <2>5
<1>1. /\ UNCHANGED <<codes, tokens, nonces, nextKey, exchanges, offered, guesses>>
      /\ requests' = requests \ {r}
      /\ \/ UNCHANGED <<uses, issued>>
         \/ /\ uses' = [uses EXCEPT ![r.nonce] = @ + 1]
            /\ issued' = issued \cup {<<r.code, r.def>>}
  BY DEF CredentialDefinition, tables
<1>2. /\ NonceInUse(r.nonce) /\ ~ CodeInUse(r.nonce)
      /\ uses[r.nonce] = 0 /\ guesses[r.nonce] = 0 /\ r.nonce < nextKey
  BY <1>0 DEF GrantInv, Unspent, NonceInUse
<1>3. /\ uses'[r.nonce] <= 1
      /\ \A k \in Keys \ {r.nonce} : uses'[k] = uses[k]
  BY <1>0, <1>1, <1>2
<1>4. /\ \A k : CodeInUse(k)' <=> CodeInUse(k)
      /\ \A k : NonceInUse(k)' => NonceInUse(k)
      /\ ~ NonceInUse(r.nonce)'
  BY <1>0, <1>1 DEF CodeInUse, NonceInUse, Has, GrantInv, OneUser
<1>5. Unspent'
  <2>1. ASSUME NEW k \in Keys, k >= nextKey'
        PROVE  uses'[k] = 0 /\ guesses'[k] = 0 /\ offered'[k] = {}
    <3>1. k # r.nonce
      BY <1>0, <1>1, <1>2, <2>1
    <3>. QED
      BY <1>1, <1>3, <2>1, <3>1 DEF GrantInv, Unspent
  <2>2. ASSUME NEW k \in Keys, CodeInUse(k)'
        PROVE  k < nextKey' /\ uses'[k] = 0 /\ guesses'[k] < MaxTxCodeAttempts
    BY <1>1, <1>2, <1>3, <1>4, <2>2 DEF GrantInv, Unspent
  <2>3. ASSUME NEW k \in Keys, NonceInUse(k)'
        PROVE  k < nextKey' /\ uses'[k] = 0 /\ guesses'[k] = 0 /\ ~ CodeInUse(k)'
    BY <1>1, <1>3, <1>4, <2>3 DEF GrantInv, Unspent
  <2>. QED
    BY <2>1, <2>2, <2>3 DEF Unspent
<1>6. OneUser' /\ GrantsAreOffered'
  BY <1>1 DEF GrantInv, OneUser, GrantsAreOffered, Has
<1>7. SingleUse' /\ GuessesBounded'
  <2>1. ASSUME NEW k \in Keys
        PROVE  /\ uses'[k] <= 1
               /\ guesses'[k] <= MaxTxCodeAttempts
               /\ guesses'[k] = MaxTxCodeAttempts => uses'[k] = 0
    <3>1. CASE k = r.nonce
      BY <1>1, <1>2, <1>3, <3>1
    <3>2. CASE k # r.nonce
      BY <1>1, <1>3, <3>2 DEF GrantInv, GuessesBounded, SingleUse
    <3>. QED
      BY <3>1, <3>2
  <2>. QED
    BY <2>1 DEF SingleUse, GuessesBounded
<1>8. IssuedWasOffered'
  <2>1. r.def \in offered[r.code]
    BY DEF GrantInv, GrantsAreOffered
  <2>. QED
    BY <1>1, <2>1 DEF GrantInv, IssuedWasOffered
<1>. QED
  BY <1>5, <1>6, <1>7, <1>8 DEF GrantInv

\* Every endpoint and the clock keep the invariant of the grant.
LEMMA GrantStep == GrantInv /\ [Next]_vars => GrantInv'
<1>. SUFFICES ASSUME GrantInv, [Next]_vars
              PROVE  GrantInv'
  OBVIOUS
<1>0. TypeInv' /\ TypeInv
  BY TypeStep DEF GrantInv
<1>00. /\ nextKey \in Nat /\ now + OfferTtl \in Nat /\ now + AccessTokenTtl \in Nat
       /\ TableFits(codes, nextKey, now + OfferTtl, PreAuthorizedGrant)
       /\ TableFits(tokens, nextKey, now + AccessTokenTtl, AccessGrant)
       /\ nextKey >= nextKey
  BY <1>0, EntryTypes DEF TypeInv, TablesFit
<1>1. CASE Tick \/ (\E d \in Definitions : ChangeCatalog(d)) \/ UNCHANGED vars
  <2>1. UNCHANGED <<tables, nextKey, exchanges, requests, history>>
    BY <1>1 DEF Tick, ChangeCatalog, vars
  <2>. QED
    BY <1>0, <1>00, <2>1, DroppingKeepsGrants DEF tables
<1>2. CASE \E k \in Keys : OfferByReference(k)
  <2>1. UNCHANGED <<codes, tokens, nonces, nextKey, exchanges, requests, history>>
    BY <1>2 DEF OfferByReference
  <2>. QED
    BY <1>0, <1>00, <2>1, DroppingKeepsGrants
<1>3. ASSUME NEW c \in Keys, TokenExpiredCode(c) PROVE GrantInv'
  <2>1. /\ UNCHANGED <<tokens, nonces, nextKey, exchanges, requests, history>>
        /\ codes' = Drop(codes, c)
    BY <1>3 DEF TokenExpiredCode
  <2>2. \A k \in DOMAIN codes'.entries :
            k \in DOMAIN codes.entries /\ codes'.entries[k] = codes.entries[k]
    BY <1>00, <2>1, DropFits
  <2>. QED
    BY <1>0, <1>00, <2>1, <2>2, DroppingKeepsGrants
<1>4. ASSUME NEW t \in Keys, CredentialExpiredToken(t) PROVE GrantInv'
  <2>1. /\ UNCHANGED <<codes, nonces, nextKey, exchanges, requests, history>>
        /\ tokens' = Drop(tokens, t)
    BY <1>4 DEF CredentialExpiredToken
  <2>2. \A k \in DOMAIN tokens'.entries :
            k \in DOMAIN tokens.entries /\ tokens'.entries[k] = tokens.entries[k]
    BY <1>00, <2>1, DropFits
  <2>. QED
    BY <1>0, <1>00, <2>1, <2>2, DroppingKeepsGrants
<1>5. ASSUME NEW r \in requests, CredentialBadProof(r) PROVE GrantInv'
  <2>1. /\ UNCHANGED <<tables, nextKey, exchanges, history>>
        /\ requests' \subseteq requests
    BY <1>5 DEF CredentialBadProof
  <2>. QED
    BY <1>0, <1>00, <2>1, DroppingKeepsGrants DEF tables
<1>. QED
  BY <1>0, <1>1, <1>2, <1>3, <1>4, <1>5, CreateOfferKeepsGrants,
     WrongTxCodeKeepsGrants, CheckKeepsGrants, TakeKeepsGrants, GrantKeepsGrants,
     NonceKeepsGrants, RequestKeepsGrants, TakeNonceKeepsGrants,
     DefinitionKeepsGrants DEF Next, Offer, Token, Credential

\* The inductive invariant of the grant: what is still usable is unspent and in
\* one pair of hands, and carries only what was offered.
THEOREM GrantsSafe == Spec => []GrantInv
  BY InitGrants, GrantStep, PTL DEF Spec

\* However requests interleave, a pre-authorized code yields one access token
\* and a nonce backs one credential.
THEOREM ServedOnce == Spec => []SingleUse
<1>1. GrantInv => SingleUse
  BY DEF GrantInv
<1>. QED
  BY GrantsSafe, <1>1, PTL

\* MAX_TX_CODE_ATTEMPTS guesses at a transaction code, over any number of token
\* requests, and a burned code yields nothing.
THEOREM GuessesAreBounded == Spec => []GuessesBounded
<1>1. GrantInv => GuessesBounded
  BY DEF GrantInv
<1>. QED
  BY GrantsSafe, <1>1, PTL

\* What the credential endpoint issues was in the operator's offer of the code
\* its access token came from.
THEOREM OnlyTheOffered == Spec => []IssuedWasOffered
<1>1. GrantInv => IssuedWasOffered
  BY DEF GrantInv
<1>. QED
  BY GrantsSafe, <1>1, PTL

-----------------------------------------------------------------------------
(* Eviction *)

\* Every insertion into a table evicts as EvictionIsFair says.
LEMMA EvictionFollows == TypeInv /\ [Next]_vars => EvictionStep \/ UNCHANGED vars
<1>. SUFFICES ASSUME TypeInv, [Next]_vars
              PROVE  EvictionStep
  OBVIOUS
<1>. USE Oid4vciAssumption
<1>0. /\ nextKey \in Nat \ {0} /\ nextKey \in Nat /\ now \in Nat
      /\ now + OfferTtl \in Nat /\ now + AccessTokenTtl \in Nat /\ now + NonceTtl \in Nat
      /\ TablesFit
      /\ \A k \in DOMAIN codes.entries : Value(codes, k) \in PreAuthorizedGrant
  BY EntryTypes DEF TypeInv
<1>1. ASSUME NEW t, NEW u, DOMAIN u.entries \subseteq DOMAIN t.entries
      PROVE  EvictsExpiredFirst(t, u)
  BY <1>1 DEF EvictsExpiredFirst
<1>2. ASSUME NEW t, NEW latest \in Nat, NEW Val, TableFits(t, nextKey, latest, Val),
             NEW val \in Val
      PROVE  EvictsExpiredFirst(t, Put(t, nextKey, latest, val))
  <2>. DEFINE u == Put(t, nextKey, latest, val)
  <2>1. /\ TableFits(u, nextKey + 1, latest, Val)
        /\ \A k \in DOMAIN t.entries \ DOMAIN u.entries :
              /\ Cardinality(DOMAIN t.entries) = Capacity
              /\ \A j \in DOMAIN u.entries : t.entries[k].exp <= u.entries[j].exp
    BY <1>0, <1>2, PutFits
  <2>. HIDE DEF u
  <2>2. /\ \A k \in DOMAIN t.entries : t.entries[k].exp \in Nat
        /\ \A k \in DOMAIN u.entries : u.entries[k].exp \in Nat
    BY <1>2, <2>1 DEF TableFits
  <2>3. ASSUME NEW k \in DOMAIN t.entries \ DOMAIN u.entries,
               NEW j \in DOMAIN u.entries, Live(t, k, now)
        PROVE  Live(u, j, now)
    BY <1>0, <2>1, <2>2, <2>3 DEF Live, Has
  <2>4. EvictsExpiredFirst(t, u)
    BY <2>1, <2>3 DEF EvictsExpiredFirst
  <2>. QED
    BY <2>4 DEF u
<1>3. ASSUME NEW t, NEW latest \in Nat, NEW Val, TableFits(t, nextKey, latest, Val), NEW k
      PROVE  EvictsExpiredFirst(t, Drop(t, k))
  <2>1. DOMAIN Drop(t, k).entries \subseteq DOMAIN t.entries
    BY <1>0, <1>3, DropFits
  <2>. QED
    BY <1>1, <2>1
<1>4. /\ EvictsExpiredFirst(offers, offers) /\ EvictsExpiredFirst(codes, codes)
      /\ EvictsExpiredFirst(tokens, tokens) /\ EvictsExpiredFirst(nonces, nonces)
  BY <1>1
<1>5. EvictsExpiredFirst(offers, offers')
  <2>1. \/ UNCHANGED offers
        \/ \E k : offers' = Drop(offers, k)
        \/ offers' = Put(offers, nextKey, now + OfferTtl, {})
    BY DEF Next, Offer, Token, Credential, Tick, ChangeCatalog, CreateOffer,
           OfferByReference, TokenExpiredCode, TokenWrongTxCode, TokenCheck,
           TokenTake, TokenGrant, Nonce, CredentialExpiredToken, CredentialRequest,
           CredentialBadProof, CredentialNonce, CredentialDefinition, tables, vars
  <2>2. {} \in {{}}
    OBVIOUS
  <2>. QED
    BY <1>0, <1>2, <1>3, <1>4, <2>1, <2>2 DEF TablesFit
<1>6. EvictsExpiredFirst(codes, codes')
  <2>1. \/ UNCHANGED codes
        \/ \E k : codes' = Drop(codes, k)
        \/ \E ids \in SUBSET Definitions, txCode \in BOOLEAN :
              codes' = Put(codes, nextKey, now + OfferTtl,
                           [ids |-> ids, txCode |-> txCode, failed |-> 0])
        \/ \E c \in Keys : TokenWrongTxCode(c)
    BY DEF Next, Offer, Token, Credential, Tick, ChangeCatalog, CreateOffer,
           OfferByReference, TokenExpiredCode, TokenCheck,
           TokenTake, TokenGrant, Nonce, CredentialExpiredToken, CredentialRequest,
           CredentialBadProof, CredentialNonce, CredentialDefinition, tables, vars
  <2>2. ASSUME NEW ids \in SUBSET Definitions, NEW txCode \in BOOLEAN,
               codes' = Put(codes, nextKey, now + OfferTtl,
                            [ids |-> ids, txCode |-> txCode, failed |-> 0])
        PROVE  EvictsExpiredFirst(codes, codes')
    <3>. DEFINE grant == [ids |-> ids, txCode |-> txCode, failed |-> 0]
    <3>1. grant \in PreAuthorizedGrant
      BY DEF PreAuthorizedGrant
    <3>. HIDE DEF grant
    <3>2. codes' = Put(codes, nextKey, now + OfferTtl, grant)
      BY <2>2 DEF grant
    <3>. QED
      BY <1>0, <1>2, <3>1, <3>2 DEF TablesFit
  <2>3. ASSUME NEW c \in Keys, TokenWrongTxCode(c)
        PROVE  EvictsExpiredFirst(codes, codes')
    <3>. DEFINE attempts == Value(codes, c).failed + 1
                grant == [Value(codes, c) EXCEPT !.failed = attempts]
    <3>1. c \in DOMAIN codes.entries /\ Value(codes, c) \in PreAuthorizedGrant
      BY <1>0, <2>3 DEF TokenWrongTxCode, Live, Has
    <3>2. CASE Burned(attempts)
      <4>1. codes' = Drop(codes, c)
        BY <2>3, <3>2 DEF TokenWrongTxCode
      <4>. QED
        BY <1>0, <1>3, <4>1 DEF TablesFit
    <3>3. CASE ~ Burned(attempts)
      <4>1. codes' = SetValue(codes, c, grant)
        BY <2>3, <3>3 DEF TokenWrongTxCode
      <4>2. grant \in PreAuthorizedGrant
        BY <3>1, <3>3 DEF PreAuthorizedGrant, Burned
      <4>. HIDE DEF grant, attempts
      <4>3. ASSUME NEW t, NEW hi \in Nat, NEW latest \in Nat, NEW Val,
                   TableFits(t, hi, latest, Val), NEW k \in DOMAIN t.entries,
                   NEW val \in Val
            PROVE  DOMAIN SetValue(t, k, val).entries = DOMAIN t.entries
        BY <4>3 DEF TableFits, SetValue
      <4>4. DOMAIN codes'.entries = DOMAIN codes.entries
        BY <1>0, <3>1, <4>1, <4>2, <4>3 DEF TablesFit
      <4>. QED
        BY <1>1, <4>4
    <3>. QED
      BY <3>2, <3>3
  <2>. QED
    BY <1>0, <1>3, <1>4, <2>1, <2>2, <2>3 DEF TablesFit
<1>7. EvictsExpiredFirst(tokens, tokens')
  <2>1. \/ UNCHANGED tokens
        \/ \E k : tokens' = Drop(tokens, k)
        \/ \E x \in exchanges :
              tokens' = Put(tokens, nextKey, now + AccessTokenTtl,
                            [ids |-> x.ids, code |-> x.code])
    BY DEF Next, Offer, Token, Credential, Tick, ChangeCatalog, CreateOffer,
           OfferByReference, TokenExpiredCode, TokenWrongTxCode, TokenCheck,
           TokenTake, TokenGrant, Nonce, CredentialExpiredToken, CredentialRequest,
           CredentialBadProof, CredentialNonce, CredentialDefinition, tables, vars
  <2>2. ASSUME NEW x \in exchanges PROVE [ids |-> x.ids, code |-> x.code] \in AccessGrant
    BY DEF TypeInv, Exchanges, AccessGrant
  <2>. QED
    BY <1>0, <1>2, <1>3, <1>4, <2>1, <2>2 DEF TablesFit
<1>8. EvictsExpiredFirst(nonces, nonces')
  <2>1. \/ UNCHANGED nonces
        \/ \E k : nonces' = Drop(nonces, k)
        \/ nonces' = Put(nonces, nextKey, now + NonceTtl, {})
    BY DEF Next, Offer, Token, Credential, Tick, ChangeCatalog, CreateOffer,
           OfferByReference, TokenExpiredCode, TokenWrongTxCode, TokenCheck,
           TokenTake, TokenGrant, Nonce, CredentialExpiredToken, CredentialRequest,
           CredentialBadProof, CredentialNonce, CredentialDefinition, tables, vars
  <2>2. {} \in {{}}
    OBVIOUS
  <2>. QED
    BY <1>0, <1>2, <1>3, <1>4, <2>1, <2>2 DEF TablesFit
<1>. QED
  BY <1>5, <1>6, <1>7, <1>8 DEF EvictionStep

\* insert() evicts only from a full table, and the entry it evicts is the first
\* of all to expire, whatever was taken, replaced or left to expire before.
THEOREM EvictionAlwaysFair == Spec => EvictionIsFair
<1>1. Spec => []TypeInv
  BY InitTypes, TypeStep, PTL DEF Spec
<1>2. TypeInv /\ [Next]_vars => [EvictionStep]_vars
  BY EvictionFollows
<1>. QED
  BY <1>1, <1>2, PTL DEF Spec, EvictionIsFair
=============================================================================
