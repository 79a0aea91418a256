---------------------------- MODULE ExpiringTable ----------------------------
(***************************************************************************)
(* The bounded, expiring table of the OID4VCI issuer (oid4vci.rs,          *)
(* `ExpiringTable`), as operators on one record:                           *)
(*   entries  the map from a key to its expiry time and its value,         *)
(*   order    the keys in the order of their insertion, oldest first.      *)
(* Only insertion removes keys from `order`: one whose entry was taken or  *)
(* expired stays behind in it.                                             *)
(***************************************************************************)
EXTENDS Naturals, Sequences, FiniteSets

CONSTANT Capacity           \* MAX_OID4VCI_ENTRIES

ASSUME CapacityAssumption == Capacity \in Nat \ {0}

EmptyTable == [entries |-> [k \in {} |-> [exp |-> 0, val |-> {}]],
               order   |-> <<>>]

Has(t, k) == k \in DOMAIN t.entries

Value(t, k) == t.entries[k].val

\* The entry can still be used at time `now`.
Live(t, k, now) == Has(t, k) /\ t.entries[k].exp > now

\* A lookup that finds the entry expired drops it.
Expired(t, k, now) == Has(t, k) /\ t.entries[k].exp <= now

\* entries.remove(k), as take() and an expired lookup do it.
Drop(t, k) ==
    [t EXCEPT !.entries = [j \in DOMAIN t.entries \ {k} |-> t.entries[j]]]

\* Replaces the value of an entry in place, through get_mut().
SetValue(t, k, val) == [t EXCEPT !.entries[k].val = val]

\* A variant that frees the newest entry instead of the oldest.
MakeRoomNewest(t) ==
    IF Cardinality(DOMAIN t.entries) <= Capacity THEN t
    ELSE LET last == t.order[Len(t.order) - 1] IN Drop(t, last)

\* A variant that lets one entry too many in.
MakeRoomLate(t) ==
    IF Cardinality(DOMAIN t.entries) <= Capacity + 1 THEN t
    ELSE Drop(t, t.order[1])

\* The eviction loop of insert(): keys leave the front of `order` until one of
\* them had an entry. The table held at most Capacity entries before, so one
\* entry makes room.
MakeRoom(t) ==
    IF Cardinality(DOMAIN t.entries) <= Capacity THEN t
    ELSE LET n == CHOOSE i \in DOMAIN t.order :
                      /\ Has(t, t.order[i])
                      /\ \A j \in 1 .. i - 1 : ~ Has(t, t.order[j])
         IN  [Drop(t, t.order[n])
                EXCEPT !.order = SubSeq(t.order, n + 1, Len(t.order))]

\* insert(): a key already present keeps its place in the order.
Put(t, k, exp, val) ==
    MakeRoom([entries |-> [j \in DOMAIN t.entries \cup {k} |->
                              IF j = k THEN [exp |-> exp, val |-> val]
                                       ELSE t.entries[j]],
              order   |-> IF Has(t, k) THEN t.order ELSE Append(t.order, k)])
=============================================================================
