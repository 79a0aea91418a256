------------------------------ MODULE QuerySpec ------------------------------
(***************************************************************************)
(* The queries of the Issuer Admin API (issuer.rs, `QuerySpec::apply`):    *)
(* filter the items, sort them by one of their fields, cut out a page.     *)
(*                                                                         *)
(* Abstractions: an item is a function from its fields to JSON values; a   *)
(* JSON value is [t, v] with t its type and v a number that orders the     *)
(* values of a type and stands for what the value prints as, so that the   *)
(* string "7" and the number 7 have the same v; a null, absent, array or   *)
(* object value has v = 0.  A criterion whose operator is not `=` and a    *)
(* sort order other than ASC and DESC are refused, like negative numbers.  *)
(***************************************************************************)
EXTENDS Integers, Sequences, FiniteSets

CONSTANTS
    Absent,         \* what the body leaves out
    DefaultLimit,   \* DEFAULT_QUERY_LIMIT
    MaxLimit,       \* MAX_QUERY_LIMIT
    MaxCriteria     \* MAX_FILTER_CRITERIA

ASSUME QueryAssumption ==
    /\ DefaultLimit \in Nat \ {0}
    /\ MaxLimit \in Nat \ {0}
    /\ MaxCriteria \in Nat
    /\ Absent \notin Int

Null == [t |-> "null", v |-> 0]
Number(n) == [t |-> "number", v |-> n]
String(n) == [t |-> "string", v |-> n]

Field(item, f) == IF f \in DOMAIN item THEN item[f] ELSE Null

-----------------------------------------------------------------------------
OperandMatches(field, operand) ==
    \/ field = operand
    \/ /\ field.t \in {"number", "boolean"}
       /\ operand.t = "string"
       /\ field.v = operand.v

\* compare_values(a, b) = Less.  Values of different types, and values that
\* are arrays or objects, compare as equal.
Less(a, b) ==
    \/ /\ a.t = b.t
       /\ a.t \in {"number", "string", "boolean"}
       /\ a.v < b.v
    \/ a.t = "null" /\ b.t # "null"

\* A variant whose descending sort reverses equal items too.
GoesBeforeUnstable(spec, items, i, j) ==
    LET a == Field(items[i], spec.sortField)
        b == Field(items[j], spec.sortField)
    IN  IF spec.sortField = Absent
        THEN IF spec.sortOrder = "DESC" THEN j < i ELSE i < j
        ELSE IF spec.sortOrder = "DESC"
             THEN Less(b, a) \/ (~ Less(a, b) /\ j < i)
             ELSE Less(a, b) \/ (~ Less(b, a) /\ i < j)

\* Whether item i goes before item j: a stable sort by the field, descending
\* or not; with no field the items keep or reverse their order.
GoesBefore(spec, items, i, j) ==
    IF spec.sortField = Absent
    THEN IF spec.sortOrder = "DESC" THEN j < i ELSE i < j
    ELSE LET a == Field(items[i], spec.sortField)
             b == Field(items[j], spec.sortField)
             lt == IF spec.sortOrder = "DESC" THEN Less(b, a) ELSE Less(a, b)
             gt == IF spec.sortOrder = "DESC" THEN Less(a, b) ELSE Less(b, a)
         IN  lt \/ (~ gt /\ i < j)

\* The elements of S in the order of R: each one is put behind those that go
\* before it.
Arranged(S, R) ==
    [k \in 1 .. Cardinality(S) |->
        CHOOSE i \in S : Cardinality({j \in S : <<j, i>> \in R}) = k - 1]

\* The items found at a sequence of positions.
At(items, positions) == [k \in DOMAIN positions |-> items[positions[k]]]

\* What `filter` and `retain` keep: the items at the positions in S, in the
\* order they were in.
Kept(items, S) == At(items, Arranged(S, {p \in S \X S : p[1] < p[2]}))

Sorted(spec, items) ==
    At(items, Arranged(DOMAIN items,
                       {p \in (DOMAIN items) \X (DOMAIN items) :
                            GoesBefore(spec, items, p[1], p[2])}))

Matches(spec, item) ==
    \A i \in DOMAIN spec.criteria :
        OperandMatches(Field(item, spec.criteria[i].left),
                       spec.criteria[i].right)

Matched(spec, items) ==
    Kept(items, {i \in DOMAIN items : Matches(spec, items[i])})

-----------------------------------------------------------------------------
\* What `apply` answers with an error instead of a page.
Refused(spec) ==
    \/ spec.offset # Absent /\ spec.offset < 0
    \/ spec.limit # Absent /\ spec.limit < 0
    \/ spec.sortOrder \notin {Absent, "ASC", "DESC"}
    \/ Len(spec.criteria) > MaxCriteria
    \/ \E i \in DOMAIN spec.criteria : spec.criteria[i].operator # "="

Smaller(a, b) == IF a < b THEN a ELSE b

Offset(spec) == IF spec.offset = Absent THEN 0 ELSE spec.offset

Limit(spec) ==
    IF spec.limit = Absent THEN DefaultLimit ELSE Smaller(spec.limit, MaxLimit)

Apply(spec, items) ==
    LET all == Sorted(spec, Matched(spec, items))
    IN  SubSeq(all, Offset(spec) + 1,
                    Smaller(Offset(spec) + Limit(spec), Len(all)))
=============================================================================
