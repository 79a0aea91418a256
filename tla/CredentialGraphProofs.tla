------------------------ MODULE CredentialGraphProofs ------------------------
(***************************************************************************)
(* The credential graph, for any number of requests, credentials and       *)
(* records and any cap: a class exceeds its cap by the additions in        *)
(* progress at most, eviction goes by age and never leaves a listed record *)
(* in part, and without overlapping additions exactly the newest records   *)
(* are kept.                                                               *)
(***************************************************************************)
EXTENDS CredentialGraph, TLAPS, FiniteSetTheorems, WellFoundedInduction

-----------------------------------------------------------------------------
(* Finite sets of numbers *)

\* A set of record numbers is finite, and so are its parts.
LEMMA RecordsAreFinite ==
    ASSUME NEW hi \in Nat, NEW S \in SUBSET (0 .. hi - 1)
    PROVE  IsFiniteSet(S) /\ Cardinality(S) \in Nat /\ Cardinality(S) <= hi
<1>1. 0 \in Int /\ hi - 1 \in Int
  OBVIOUS
<1>2. IsFiniteSet(0 .. hi - 1) /\ Cardinality(0 .. hi - 1) = hi
  <2>1. /\ IsFiniteSet(0 .. hi - 1)
        /\ Cardinality(0 .. hi - 1) = IF 0 > hi - 1 THEN 0 ELSE hi - 1 - 0 + 1
    BY <1>1, FS_Interval
  <2>2. (IF 0 > hi - 1 THEN 0 ELSE hi - 1 - 0 + 1) = hi
    OBVIOUS
  <2>. QED
    BY <2>1, <2>2
<1>3. IsFiniteSet(S) /\ Cardinality(S) <= Cardinality(0 .. hi - 1)
  BY <1>2, FS_Subset
<1>4. Cardinality(S) \in Nat
  BY <1>3, FS_CardinalityType
<1>. QED
  BY <1>2, <1>3, <1>4

\* A nonempty set of record numbers has an oldest.
LEMMA OldestExists ==
    ASSUME NEW S \in SUBSET Nat, S # {}
    PROVE  \E n \in S : \A m \in S : n <= m
<1>. DEFINE R == {ss \in Nat \X Nat : ss[1] < ss[2]}
<1>1. \E i \in S : \A j \in S : ~ (<<j, i>> \in R)
  <2>. HIDE DEF R
  <2>1. IsWellFoundedOn(R, Nat)
    BY NatLessThanWellFounded, Zenon DEF R, OpToRel
  <2>. QED
    BY <2>1, WFMin
<1>2. \A i, j \in Nat : <<j, i>> \notin R => i <= j
  OBVIOUS
<1>. QED
  BY <1>1, <1>2

-----------------------------------------------------------------------------
(* The additions in progress *)

Last == 3 + 2 * Credentials

Local == [pc     : {"idle", "inserting", "counting", "deleting"},
          node   : 0 .. MaxRecords,
          done   : Places \cup {0},
          excess : 0 .. MaxRecords]

\* Every addition has a record of its own and goes through its places in order.
WritersInv ==
    /\ IsFiniteSet(Busy)
    /\ \A w \in Busy : writers[w].node \in DOMAIN class
    /\ \A v, w \in Busy : writers[v].node = writers[w].node => v = w
    /\ \A w \in Writers :
          /\ writers[w].pc = "inserting" => writers[w].done < Last
          /\ writers[w].pc \in {"counting", "deleting"} => writers[w].done = Last
          /\ writers[w].pc = "deleting" => writers[w].excess >= 1

\* The local states a step may leave.
LEMMA EditedLocals ==
    ASSUME NEW P, NEW N, NEW D, NEW E,
           NEW r \in [pc : P, node : N, done : D, excess : E], NEW a, NEW b
    PROVE  /\ [r EXCEPT !.pc = a, !.node = b] \in
                  [pc : {a}, node : {b}, done : {r.done}, excess : {r.excess}]
           /\ [r EXCEPT !.done = b, !.pc = a] \in
                  [pc : {a}, node : {r.node}, done : {b}, excess : {r.excess}]
           /\ [r EXCEPT !.pc = a, !.excess = b] \in
                  [pc : {a}, node : {r.node}, done : {r.done}, excess : {b}]
  OBVIOUS

\* A writer that is not adding anything.
LEMMA IdleLocal == Idle \in [pc : {"idle"}, node : {0}, done : {0}, excess : {0}]
  BY DEF Idle

\* What each step does to its own writer, and to no other.
LEMMA AddEffect ==
    ASSUME TypeOK, NEW w \in Writers, NEW c \in Classes, NextOrder(w, c)
    PROVE  /\ writers'[w] \in [pc : {"inserting"}, node : {nextOrder}, done : {0},
                               excess : {0}]
           /\ \A v \in Writers \ {w} : writers'[v] = writers[v]
           /\ DOMAIN class' = 0 .. nextOrder
           /\ class'[nextOrder] = c
           /\ \A n \in 0 .. nextOrder - 1 : class'[n] = class[n]
           /\ DOMAIN class = 0 .. nextOrder - 1
           /\ nextOrder \in Nat /\ nextOrder' = nextOrder + 1
           /\ 0 .. nextOrder = (0 .. nextOrder - 1) \cup {nextOrder}
           /\ nextOrder \in 0 .. MaxRecords
           /\ nextOrder + 1 \in 0 .. MaxRecords
<1>. USE GraphAssumption
<1>1. /\ nextOrder \in Nat /\ nextOrder + 1 \in 0 .. MaxRecords /\ nextOrder \in 0 .. MaxRecords
      /\ 0 .. nextOrder = (0 .. nextOrder - 1) \cup {nextOrder}
      /\ DOMAIN class = 0 .. nextOrder - 1
  BY DEF TypeOK, NextOrder
<1>2. /\ DOMAIN class' = 0 .. nextOrder
      /\ class'[nextOrder] = c
      /\ \A n \in 0 .. nextOrder - 1 : class'[n] = class[n]
  BY <1>1 DEF NextOrder
<1>3. [Idle EXCEPT !.pc = "inserting", !.node = nextOrder] \in
        [pc : {"inserting"}, node : {nextOrder}, done : {0}, excess : {0}]
  <2>. DEFINE i == Idle
  <2>1. /\ i \in [pc : {"idle"}, node : {0}, done : {0}, excess : {0}]
        /\ i.done = 0 /\ i.excess = 0
    BY IdleLocal
  <2>. HIDE DEF i
  <2>2. [i EXCEPT !.pc = "inserting", !.node = nextOrder] \in
          [pc : {"inserting"}, node : {nextOrder}, done : {i.done}, excess : {i.excess}]
    BY <2>1, EditedLocals
  <2>. QED
    BY <2>1, <2>2 DEF i
<1>4. DOMAIN writers = Writers
  BY DEF TypeOK
<1>5. /\ writers'[w] = [Idle EXCEPT !.pc = "inserting", !.node = nextOrder]
      /\ \A v \in Writers \ {w} : writers'[v] = writers[v]
  BY <1>4 DEF NextOrder
<1>. QED
  BY <1>1, <1>2, <1>3, <1>5 DEF NextOrder

\* InsertQuad changes its own writer and puts one quad in.
LEMMA InsertEffect ==
    ASSUME TypeOK, NEW w \in Writers, InsertQuad(w)
    PROVE  /\ writers'[w] \in [pc : {IF writers[w].done + 1 = Last
                                     THEN "counting" ELSE "inserting"},
                               node : {writers[w].node},
                               done : {writers[w].done + 1},
                               excess : {writers[w].excess}]
           /\ \A v \in Writers \ {w} : writers'[v] = writers[v]
           /\ quads' = quads \cup {<<writers[w].node, writers[w].done + 1>>}
           /\ UNCHANGED <<nextOrder, class, overlapped>>
<1>. DEFINE place == writers[w].done + 1
            pc == IF place = 3 + 2 * Credentials THEN "counting" ELSE "inserting"
            r == writers[w]
<1>1. writers \in [Writers -> Local] /\ r \in Local
  BY DEF TypeOK, Local
<1>2. writers' = [writers EXCEPT ![w].done = place, ![w].pc = pc]
  BY DEF InsertQuad
<1>. HIDE DEF place, pc
<1>3. /\ writers'[w] = [r EXCEPT !.done = place, !.pc = pc]
      /\ \A v \in Writers \ {w} : writers'[v] = writers[v]
  BY <1>1, <1>2
<1>. HIDE DEF r
<1>4. [r EXCEPT !.done = place, !.pc = pc] \in
        [pc : {pc}, node : {r.node}, done : {place}, excess : {r.excess}]
  BY <1>1, EditedLocals DEF Local
<1>. QED
  BY <1>3, <1>4 DEF InsertQuad, place, pc, Last, r

\* CountOfType changes its own writer only: it goes on to delete, or is done.
LEMMA CountEffect ==
    ASSUME TypeOK, NEW w \in Writers, CountOfType(w)
    PROVE  /\ IF Excess(class[writers[w].node]) > 0
              THEN writers'[w] \in [pc : {"deleting"}, node : {writers[w].node},
                                    done : {writers[w].done},
                                    excess : {Excess(class[writers[w].node])}]
              ELSE writers'[w] = Idle
           /\ \A v \in Writers \ {w} : writers'[v] = writers[v]
           /\ UNCHANGED <<nextOrder, class, quads, overlapped>>
<1>. DEFINE r == writers[w]
            x == Excess(class[r.node])
<1>1. writers \in [Writers -> Local] /\ r \in Local
  BY DEF TypeOK, Local
<1>2. writers' = [writers EXCEPT ![w] = IF x > 0
                                        THEN [@ EXCEPT !.pc = "deleting", !.excess = x]
                                        ELSE Idle]
  BY DEF CountOfType
<1>. HIDE DEF x
<1>3. /\ writers'[w] = IF x > 0
                       THEN [r EXCEPT !.pc = "deleting", !.excess = x]
                       ELSE Idle
      /\ \A v \in Writers \ {w} : writers'[v] = writers[v]
  BY <1>1, <1>2
<1>. HIDE DEF r
<1>4. [r EXCEPT !.pc = "deleting", !.excess = x] \in
        [pc : {"deleting"}, node : {r.node}, done : {r.done}, excess : {x}]
  BY <1>1, EditedLocals DEF Local
<1>. QED
  BY <1>3, <1>4 DEF CountOfType, x, r

\* DeleteOldest ends its own addition and only takes quads out.
LEMMA DeleteEffect ==
    ASSUME TypeOK, NEW w \in Writers, DeleteOldest(w)
    PROVE  /\ writers'[w] = Idle
           /\ \A v \in Writers \ {w} : writers'[v] = writers[v]
           /\ UNCHANGED <<nextOrder, class, overlapped>>
           /\ quads' \subseteq quads
  BY DEF DeleteOldest, TypeOK

\* Who is busy after each step.
LEMMA BusyAfter ==
    ASSUME TypeOK, NEW w \in Writers
    PROVE  /\ \A c \in Classes : NextOrder(w, c) => Busy' = Busy \cup {w} /\ w \notin Busy
           /\ InsertQuad(w) => Busy' = Busy /\ w \in Busy
           /\ CountOfType(w) => /\ Busy' \subseteq Busy /\ w \in Busy
                                /\ Busy \subseteq Busy' \cup {w}
           /\ DeleteOldest(w) => Busy' = Busy \ {w} /\ w \in Busy
<1>0. Idle.pc = "idle"
  BY DEF Idle
<1>1. ASSUME NEW c \in Classes, NextOrder(w, c)
      PROVE  Busy' = Busy \cup {w} /\ w \notin Busy
  <2>1. writers'[w].pc = "inserting" /\ writers[w].pc = "idle"
    BY <1>1, AddEffect DEF NextOrder
  <2>2. \A v \in Writers \ {w} : writers'[v] = writers[v]
    BY <1>1, AddEffect
  <2>. QED
    BY <2>1, <2>2 DEF Busy
<1>2. ASSUME InsertQuad(w) PROVE Busy' = Busy /\ w \in Busy
  <2>1. /\ writers'[w].pc \in {"counting", "inserting"}
        /\ writers[w].pc = "inserting"
        /\ \A v \in Writers \ {w} : writers'[v] = writers[v]
    BY <1>2, InsertEffect DEF InsertQuad
  <2>. QED
    BY <2>1 DEF Busy
<1>3. ASSUME CountOfType(w)
      PROVE  Busy' \subseteq Busy /\ w \in Busy /\ Busy \subseteq Busy' \cup {w}
  <2>1. writers[w].pc = "counting" /\ \A v \in Writers \ {w} : writers'[v] = writers[v]
    BY <1>3, CountEffect DEF CountOfType
  <2>. QED
    BY <2>1 DEF Busy
<1>4. ASSUME DeleteOldest(w) PROVE Busy' = Busy \ {w} /\ w \in Busy
  <2>1. /\ writers[w].pc = "deleting" /\ writers'[w].pc = "idle"
        /\ \A v \in Writers \ {w} : writers'[v] = writers[v]
    BY <1>0, <1>4, DeleteEffect DEF DeleteOldest
  <2>. QED
    BY <2>1 DEF Busy
<1>. QED
  BY <1>1, <1>2, <1>3, <1>4

GraphTypes == TypeOK /\ WritersInv

\* The empty store has its types and no addition in progress.
LEMMA InitTypes == Init => GraphTypes
<1>. SUFFICES ASSUME Init PROVE GraphTypes
  OBVIOUS
<1>. USE GraphAssumption
<1>1. /\ Idle \in Local /\ Idle.pc = "idle"
  BY IdleLocal DEF Local
<1>2. writers \in [Writers -> Local] /\ \A w \in Writers : writers[w].pc = "idle"
  BY <1>1 DEF Init
<1>3. Busy = {}
  BY <1>2 DEF Busy
<1>4. overlapped \in BOOLEAN
  BY Zenon DEF Init
<1>5. class \in [0 .. nextOrder - 1 -> Classes] /\ nextOrder \in 0 .. MaxRecords
      /\ quads \in SUBSET ((0 .. nextOrder - 1) \X Places)
  <2>1. 0 .. 0 - 1 = {} /\ 0 \in 0 .. MaxRecords
    OBVIOUS
  <2>. QED
    BY <2>1 DEF Init
<1>6. TypeOK
  BY <1>2, <1>4, <1>5 DEF TypeOK, Local
<1>7. WritersInv
  BY <1>2, <1>3, FS_EmptySet DEF WritersInv
<1>. QED
  BY <1>6, <1>7 DEF GraphTypes

\* The number of nodes of a class fits the counters.
LEMMA TypedFits ==
    ASSUME TypeOK, NEW c
    PROVE  /\ Typed(c) \in SUBSET (0 .. nextOrder - 1)
           /\ IsFiniteSet(Typed(c))
           /\ Cardinality(Typed(c)) \in Nat
           /\ Cardinality(Typed(c)) <= MaxRecords
           /\ Excess(c) \in Int
           /\ Excess(c) > 0 => Excess(c) \in 1 .. MaxRecords
<1>. USE GraphAssumption
<1>1. Typed(c) \in SUBSET (0 .. nextOrder - 1) /\ nextOrder \in Nat /\ nextOrder <= MaxRecords
  BY DEF TypeOK, Typed
<1>2. /\ IsFiniteSet(Typed(c)) /\ Cardinality(Typed(c)) \in Nat
      /\ Cardinality(Typed(c)) <= nextOrder
  BY <1>1, RecordsAreFinite
<1>. QED
  BY <1>1, <1>2 DEF Excess

\* next_order gives each addition a record of its own.
LEMMA AddTypes ==
    ASSUME GraphTypes, NEW w \in Writers, NEW c \in Classes, NextOrder(w, c)
    PROVE  GraphTypes'
<1>. USE GraphAssumption
<1>0. TypeOK
  BY DEF GraphTypes
<1>1. /\ writers'[w] \in [pc : {"inserting"}, node : {nextOrder}, done : {0}, excess : {0}]
      /\ \A v \in Writers \ {w} : writers'[v] = writers[v]
      /\ DOMAIN class' = 0 .. nextOrder
      /\ class'[nextOrder] = c
      /\ \A n \in 0 .. nextOrder - 1 : class'[n] = class[n]
      /\ DOMAIN class = 0 .. nextOrder - 1
      /\ nextOrder \in Nat /\ nextOrder' = nextOrder + 1
      /\ 0 .. nextOrder = (0 .. nextOrder - 1) \cup {nextOrder}
      /\ nextOrder \in 0 .. MaxRecords
      /\ nextOrder + 1 \in 0 .. MaxRecords
  BY <1>0, AddEffect
<1>2. writers'[w] \in Local
  BY <1>1 DEF Local
<1>3. writers' \in [Writers -> Local]
  <2>1. writers \in [Writers -> Local]
    BY <1>0 DEF TypeOK, Local
  <2>2. writers' \in [Writers -> Local] <=> \A v \in Writers : writers'[v] \in Local
    BY <2>1 DEF NextOrder
  <2>. QED
    BY <1>1, <1>2, <2>1, <2>2
<1>4. nextOrder' - 1 = nextOrder
  BY <1>1
<1>5. class' \in [0 .. nextOrder -> Classes]
  <2>1. class' = [n \in 0 .. nextOrder |-> IF n = nextOrder THEN c ELSE class[n]]
    BY DEF NextOrder
  <2>2. \A n \in 0 .. nextOrder - 1 : class[n] \in Classes
    BY <1>0 DEF TypeOK
  <2>3. \A n \in 0 .. nextOrder : (IF n = nextOrder THEN c ELSE class[n]) \in Classes
    BY <1>1, <2>2
  <2>. QED
    BY <2>1, <2>3
<1>6. overlapped' \in BOOLEAN
  BY Zenon DEF NextOrder
<1>7. quads' \in SUBSET ((0 .. nextOrder) \X Places)
  BY <1>0, <1>1 DEF NextOrder, TypeOK
<1>8. TypeOK'
  BY <1>1, <1>3, <1>4, <1>5, <1>6, <1>7 DEF TypeOK, Local
<1>9. Busy' = Busy \cup {w} /\ w \notin Busy
  BY <1>0, BusyAfter
<1>10. IsFiniteSet(Busy \cup {w})
  BY FS_AddElement DEF GraphTypes, WritersInv
<1>11. \A v \in Busy : writers'[v] = writers[v] /\ writers[v].node \in 0 .. nextOrder - 1
  BY <1>1, <1>9 DEF GraphTypes, WritersInv, Busy
<1>12. nextOrder \notin 0 .. nextOrder - 1 /\ writers'[w].node = nextOrder
  BY <1>1
<1>13. ASSUME NEW v \in Busy' PROVE writers'[v].node \in DOMAIN class'
  BY <1>1, <1>9, <1>11, <1>12
<1>14. ASSUME NEW u \in Busy', NEW v \in Busy', writers'[u].node = writers'[v].node
       PROVE  u = v
  BY <1>9, <1>11, <1>12, <1>14 DEF GraphTypes, WritersInv
<1>15. ASSUME NEW v \in Writers
       PROVE  /\ writers'[v].pc = "inserting" => writers'[v].done < Last
              /\ writers'[v].pc \in {"counting", "deleting"} => writers'[v].done = Last
              /\ writers'[v].pc = "deleting" => writers'[v].excess >= 1
  <2>1. CASE v = w
    <3>1. writers'[w].pc = "inserting" /\ writers'[w].done = 0 /\ 0 < Last
      BY <1>1 DEF Last
    <3>. QED
      BY <2>1, <3>1
  <2>2. CASE v # w
    BY <1>1, <2>2 DEF GraphTypes, WritersInv
  <2>. QED
    BY <2>1, <2>2
<1>16. WritersInv'
  BY <1>9, <1>10, <1>13, <1>14, <1>15 DEF WritersInv
<1>. QED
  BY <1>8, <1>16 DEF GraphTypes

\* An insertion stays within the places of its record.
LEMMA InsertTypes ==
    ASSUME GraphTypes, NEW w \in Writers, InsertQuad(w)
    PROVE  GraphTypes'
<1>. USE GraphAssumption
<1>0. /\ TypeOK
      /\ writers[w].pc = "inserting" /\ w \in Busy
      /\ writers[w].done < Last
      /\ writers[w].node \in DOMAIN class
  BY DEF GraphTypes, WritersInv, InsertQuad, Busy
<1>1. /\ writers'[w] \in [pc : {IF writers[w].done + 1 = Last
                                THEN "counting" ELSE "inserting"},
                          node : {writers[w].node},
                          done : {writers[w].done + 1},
                          excess : {writers[w].excess}]
      /\ \A v \in Writers \ {w} : writers'[v] = writers[v]
      /\ quads' = quads \cup {<<writers[w].node, writers[w].done + 1>>}
      /\ UNCHANGED <<nextOrder, class, overlapped>>
  BY <1>0, InsertEffect
<1>2. writers \in [Writers -> Local] /\ writers[w] \in Local /\ writers[w].done \in 0 .. Last
  BY <1>0 DEF TypeOK, Local, Places, Last
<1>3. writers[w].done + 1 \in Places
  BY <1>0, <1>2 DEF Places, Last
<1>4. writers'[w] \in Local
  <2>1. writers[w].node \in 0 .. MaxRecords /\ writers[w].excess \in 0 .. MaxRecords
    BY <1>2 DEF Local
  <2>. QED
    BY <1>1, <1>3, <2>1 DEF Local
<1>5. writers' \in [Writers -> Local]
  <2>1. writers' \in [Writers -> Local] <=> \A v \in Writers : writers'[v] \in Local
    BY <1>2 DEF InsertQuad
  <2>. QED
    BY <1>1, <1>2, <1>4, <2>1
<1>6. TypeOK'
  <2>1. writers[w].node \in 0 .. nextOrder - 1
    BY <1>0 DEF TypeOK
  <2>2. quads' \in SUBSET ((0 .. nextOrder - 1) \X Places)
    BY <1>0, <1>1, <1>3, <2>1 DEF TypeOK
  <2>. QED
    BY <1>0, <1>1, <1>5, <2>2 DEF TypeOK, Local
<1>7. Busy' = Busy
  BY <1>0, BusyAfter
<1>8. \A v \in Writers : writers'[v].node = writers[v].node
  BY <1>1
<1>9. ASSUME NEW v \in Writers
      PROVE  /\ writers'[v].pc = "inserting" => writers'[v].done < Last
             /\ writers'[v].pc \in {"counting", "deleting"} => writers'[v].done = Last
             /\ writers'[v].pc = "deleting" => writers'[v].excess >= 1
  <2>1. CASE v = w
    <3>1. /\ writers'[w].done = writers[w].done + 1
          /\ writers'[w].pc = IF writers[w].done + 1 = Last
                              THEN "counting" ELSE "inserting"
      BY <1>1
    <3>2. Last \in Nat
      BY DEF Last
    <3>. QED
      BY <1>0, <1>2, <2>1, <3>1, <3>2
  <2>2. CASE v # w
    BY <1>1, <2>2 DEF GraphTypes, WritersInv
  <2>. QED
    BY <2>1, <2>2
<1>10. WritersInv'
  BY <1>1, <1>7, <1>8, <1>9 DEF GraphTypes, WritersInv, Busy
<1>. QED
  BY <1>6, <1>10 DEF GraphTypes

\* An excess that is acted upon is positive and fits the counter.
LEMMA CountTypes ==
    ASSUME GraphTypes, NEW w \in Writers, CountOfType(w)
    PROVE  GraphTypes'
<1>. USE GraphAssumption
<1>. DEFINE x == Excess(class[writers[w].node])
<1>0. TypeOK /\ writers[w].pc = "counting"
  BY DEF GraphTypes, CountOfType
<1>1. /\ IF x > 0
         THEN writers'[w] \in [pc : {"deleting"}, node : {writers[w].node},
                               done : {writers[w].done}, excess : {x}]
         ELSE writers'[w] = Idle
      /\ \A v \in Writers \ {w} : writers'[v] = writers[v]
      /\ UNCHANGED <<nextOrder, class, quads, overlapped>>
  BY <1>0, CountEffect
<1>2. writers \in [Writers -> Local] /\ writers[w] \in Local
  BY <1>0 DEF TypeOK, Local
<1>3. x \in Int /\ (x > 0 => x \in 1 .. MaxRecords)
  BY <1>0, TypedFits
<1>. HIDE DEF x
<1>4. /\ writers'[w] \in Local
      /\ writers'[w].pc \in {"deleting", "idle"}
      /\ writers'[w].pc = "deleting" => /\ writers'[w].node = writers[w].node
                                        /\ writers'[w].done = writers[w].done
                                        /\ writers'[w].excess >= 1
  <2>1. CASE x > 0
    <3>1. /\ writers[w].node \in 0 .. MaxRecords
          /\ writers[w].done \in Places \cup {0}
          /\ x \in 0 .. MaxRecords /\ x >= 1
      BY <1>2, <1>3, <2>1 DEF Local
    <3>. QED
      BY <1>1, <2>1, <3>1 DEF Local
  <2>2. CASE ~ (x > 0)
    <3>1. writers'[w] = Idle
      BY <1>1, <2>2
    <3>. QED
      BY <3>1, IdleLocal DEF Local
  <2>. QED
    BY <2>1, <2>2
<1>5. writers' \in [Writers -> Local]
  <2>1. writers' \in [Writers -> Local] <=> \A v \in Writers : writers'[v] \in Local
    BY <1>2 DEF CountOfType
  <2>. QED
    BY <1>1, <1>2, <1>4, <2>1
<1>6. TypeOK'
  BY <1>0, <1>1, <1>5 DEF TypeOK, Local
<1>7. Busy' \subseteq Busy /\ \A v \in Busy' : writers'[v].node = writers[v].node
  BY <1>0, <1>1, <1>4, BusyAfter DEF Busy
<1>8. IsFiniteSet(Busy')
  BY <1>7, FS_Subset DEF GraphTypes, WritersInv
<1>9. ASSUME NEW v \in Writers
      PROVE  /\ writers'[v].pc = "inserting" => writers'[v].done < Last
             /\ writers'[v].pc \in {"counting", "deleting"} => writers'[v].done = Last
             /\ writers'[v].pc = "deleting" => writers'[v].excess >= 1
  <2>1. CASE v = w
    BY <1>0, <1>4, <2>1 DEF GraphTypes, WritersInv
  <2>2. CASE v # w
    BY <1>1, <2>2 DEF GraphTypes, WritersInv
  <2>. QED
    BY <2>1, <2>2
<1>10. WritersInv'
  BY <1>1, <1>7, <1>8, <1>9 DEF GraphTypes, WritersInv
<1>. QED
  BY <1>6, <1>10 DEF GraphTypes

\* A deletion leaves the other additions alone.
LEMMA DeleteTypes ==
    ASSUME GraphTypes, NEW w \in Writers, DeleteOldest(w)
    PROVE  GraphTypes'
<1>. USE GraphAssumption
<1>0. TypeOK
  BY DEF GraphTypes
<1>1. /\ writers'[w] = Idle
      /\ \A v \in Writers \ {w} : writers'[v] = writers[v]
      /\ UNCHANGED <<nextOrder, class, overlapped>>
      /\ quads' \subseteq quads
  BY <1>0, DeleteEffect
<1>2. Idle \in Local /\ Idle.pc = "idle"
  BY IdleLocal DEF Local
<1>3. writers' \in [Writers -> Local]
  <2>1. writers \in [Writers -> Local]
    BY <1>0 DEF TypeOK, Local
  <2>. QED
    BY <1>2, <2>1 DEF DeleteOldest
<1>4. TypeOK'
  BY <1>0, <1>1, <1>3 DEF TypeOK, Local
<1>5. Busy' = Busy \ {w} /\ \A v \in Busy' : writers'[v] = writers[v]
  BY <1>0, <1>1, BusyAfter DEF Busy
<1>6. IsFiniteSet(Busy')
  BY <1>5, FS_Subset DEF GraphTypes, WritersInv
<1>7. WritersInv'
  BY <1>1, <1>2, <1>5, <1>6 DEF GraphTypes, WritersInv
<1>. QED
  BY <1>4, <1>7 DEF GraphTypes

-----------------------------------------------------------------------------
(* Records in part *)

\* w is inserting the quads of record n.
Inserts(w, n) == writers[w].pc = "inserting" /\ writers[w].node = n

\* A record that can be sorted was never evicted: it has every quad its writer
\* came to. One that is counted and cannot be sorted has a writer.
InsertionInv ==
    /\ \A w \in Writers : writers[w].pc = "inserting" =>
          /\ \A p \in Places : Holds(writers[w].node, p) => p <= writers[w].done
          /\ writers[w].done = 1 => Holds(writers[w].node, 1)
    /\ \A n \in DOMAIN class : Holds(n, 1) /\ ~ Holds(n, 2) =>
          \E w \in Writers : Inserts(w, n) /\ writers[w].done = 1
    /\ \A n \in DOMAIN class : Holds(n, 2) => \A p \in Places :
          Holds(n, p) \/ \E w \in Writers : Inserts(w, n) /\ writers[w].done < p

\* The records DeleteOldest(w) evicts.
Victims(w) == Oldest(Sortable(class[writers[w].node]), writers[w].excess)

\* Their first three quads go, and other records keep all of theirs.
LEMMA DeletedQuads ==
    ASSUME TypeOK, NEW w \in Writers, DeleteOldest(w)
    PROVE  /\ \A n \in DOMAIN class, p \in {1, 2, 3} :
                 <<n, p>> \in quads' <=> <<n, p>> \in quads /\ n \notin Victims(w)
           /\ \A n, p : n \notin Victims(w) => (<<n, p>> \in quads' <=> <<n, p>> \in quads)
           /\ \A n \in Victims(w) :
                 n \in DOMAIN class /\ <<n, 1>> \in quads /\ <<n, 2>> \in quads
<1>. USE GraphAssumption
<1>1. quads' = quads \ UNION {QuadsOf(n) : n \in Victims(w)}
  BY DEF DeleteOldest, Victims
<1>2. \A n, p : <<n, p>> \in quads' <=>
                 <<n, p>> \in quads /\ ~ \E m \in Victims(w) : <<n, p>> \in QuadsOf(m)
  BY <1>1
<1>3. \A n, p, m : <<n, p>> \in QuadsOf(m) => n = m
  BY DEF QuadsOf
<1>4. ASSUME NEW n, NEW p \in {1, 2, 3}, <<n, p>> \in quads PROVE <<n, p>> \in QuadsOf(n)
  <2>1. \A j \in 1 .. Credentials : p # Credential(j)
    BY DEF Credential
  <2>. QED
    BY <1>4, <2>1 DEF QuadsOf
<1>5. \A n \in Victims(w) :
         n \in DOMAIN class /\ <<n, 1>> \in quads /\ <<n, 2>> \in quads
  BY DEF Victims, Oldest, Sortable, Typed, Holds
<1>6. ASSUME NEW n \in DOMAIN class, NEW p \in {1, 2, 3}
      PROVE  <<n, p>> \in quads' <=> <<n, p>> \in quads /\ n \notin Victims(w)
  BY <1>2, <1>3, <1>4
<1>7. ASSUME NEW n, NEW p, n \notin Victims(w)
      PROVE  <<n, p>> \in quads' <=> <<n, p>> \in quads
  BY <1>2, <1>3, <1>7
<1>. QED
  BY <1>5, <1>6, <1>7

\* No record is there in part at first.
LEMMA InitInsertion == Init => InsertionInv
<1>. SUFFICES ASSUME Init PROVE InsertionInv
  OBVIOUS
<1>1. \A w \in Writers : writers[w].pc = "idle"
  BY IdleLocal DEF Init
<1>. QED
  BY <1>1 DEF Init, InsertionInv, Holds

\* A new record has no quad and has a writer.
LEMMA AddInsertion ==
    ASSUME GraphTypes, InsertionInv, NEW w \in Writers, NEW c \in Classes, NextOrder(w, c)
    PROVE  InsertionInv'
<1>0. TypeOK /\ writers[w].pc = "idle" /\ quads' = quads
  BY DEF GraphTypes, NextOrder
<1>1. /\ writers'[w].pc = "inserting" /\ writers'[w].node = nextOrder /\ writers'[w].done = 0
      /\ \A v \in Writers \ {w} : writers'[v] = writers[v]
      /\ DOMAIN class' = (0 .. nextOrder - 1) \cup {nextOrder}
      /\ DOMAIN class = 0 .. nextOrder - 1
      /\ nextOrder \in Nat
  BY <1>0, AddEffect
<1>2. \A p : <<nextOrder, p>> \notin quads
  BY <1>0, <1>1 DEF TypeOK
<1>3. ASSUME NEW v \in Writers, writers'[v].pc = "inserting"
      PROVE  /\ \A p \in Places : <<writers'[v].node, p>> \in quads' => p <= writers'[v].done
             /\ writers'[v].done = 1 => <<writers'[v].node, 1>> \in quads'
  BY <1>0, <1>1, <1>2, <1>3 DEF InsertionInv, Holds
<1>4. ASSUME NEW n \in DOMAIN class', <<n, 1>> \in quads', <<n, 2>> \notin quads'
      PROVE  \E v \in Writers : Inserts(v, n)' /\ writers'[v].done = 1
  BY <1>0, <1>1, <1>2, <1>4 DEF InsertionInv, Holds, Inserts
<1>5. ASSUME NEW n \in DOMAIN class', <<n, 2>> \in quads', NEW p \in Places
      PROVE  <<n, p>> \in quads' \/ \E v \in Writers : Inserts(v, n)' /\ writers'[v].done < p
  BY <1>0, <1>1, <1>2, <1>5 DEF InsertionInv, Holds, Inserts
<1>. QED
  BY <1>3, <1>4, <1>5 DEF InsertionInv, Holds

\* The insertion of a quad leaves no gap below it, evicted records aside.
LEMMA InsertInsertion ==
    ASSUME GraphTypes, InsertionInv, NEW w \in Writers, InsertQuad(w)
    PROVE  InsertionInv'
<1>. USE GraphAssumption
<1>. DEFINE x == writers[w].node
            d == writers[w].done
<1>0. /\ TypeOK /\ writers[w].pc = "inserting" /\ w \in Busy
      /\ d \in Nat /\ d < Last /\ Last \in Nat /\ Last >= 3
      /\ \A p \in Places : p \in Nat /\ p >= 1 /\ p <= Last
      /\ 1 \in Places /\ 2 \in Places
  <2>1. TypeOK /\ writers[w].pc = "inserting" /\ w \in Busy /\ d < Last
    BY DEF GraphTypes, WritersInv, InsertQuad, Busy
  <2>2. d \in Nat
    BY <2>1 DEF TypeOK, Places
  <2>. QED
    BY <2>1, <2>2 DEF Places, Last
<1>1. /\ writers'[w].pc = IF d + 1 = Last THEN "counting" ELSE "inserting"
      /\ writers'[w].node = x /\ writers'[w].done = d + 1
      /\ \A v \in Writers \ {w} : writers'[v] = writers[v]
      /\ quads' = quads \cup {<<x, d + 1>>}
      /\ class' = class
  BY <1>0, InsertEffect
<1>2. \A v \in Writers \ {w} : writers[v].pc = "inserting" => writers[v].node # x
  BY <1>0 DEF GraphTypes, WritersInv, Busy
<1>. HIDE DEF x, d
<1>3. \A n, p : <<n, p>> \in quads' <=> <<n, p>> \in quads \/ (n = x /\ p = d + 1)
  BY <1>1
<1>4. /\ \A p \in Places : <<x, p>> \in quads => p <= d
      /\ d = 1 => <<x, 1>> \in quads
  BY <1>0 DEF InsertionInv, Holds, x, d
<1>5. ASSUME NEW v \in Writers, writers'[v].pc = "inserting"
      PROVE  /\ \A p \in Places : <<writers'[v].node, p>> \in quads' => p <= writers'[v].done
             /\ writers'[v].done = 1 => <<writers'[v].node, 1>> \in quads'
  <2>1. CASE v = w
    BY <1>0, <1>1, <1>3, <1>4, <2>1
  <2>2. CASE v # w
    BY <1>1, <1>2, <1>3, <1>5, <2>2 DEF InsertionInv, Holds
  <2>. QED
    BY <2>1, <2>2
<1>6. ASSUME NEW n \in DOMAIN class', <<n, 1>> \in quads', <<n, 2>> \notin quads'
      PROVE  \E v \in Writers : Inserts(v, n)' /\ writers'[v].done = 1
  <2>1. CASE n # x
    <3>1. PICK v \in Writers : Inserts(v, n) /\ writers[v].done = 1
      BY <1>1, <1>3, <1>6, <2>1 DEF InsertionInv, Holds
    <3>2. v # w
      BY <2>1, <3>1 DEF Inserts, x
    <3>. QED
      BY <1>1, <3>1, <3>2 DEF Inserts
  <2>2. CASE n = x
    <3>1. CASE d = 0
      BY <1>0, <1>1, <2>2, <3>1 DEF Inserts
    <3>2. CASE d # 0
      <4>1. <<x, 1>> \in quads /\ <<x, 2>> \notin quads
        BY <1>0, <1>3, <1>6, <2>2, <3>2
      <4>2. PICK v \in Writers : Inserts(v, x) /\ writers[v].done = 1
        BY <1>1, <1>6, <2>2, <4>1 DEF InsertionInv, Holds
      <4>3. v = w /\ d = 1
        BY <1>2, <4>2 DEF Inserts, d
      <4>. QED
        BY <1>3, <1>6, <2>2, <4>3
    <3>. QED
      BY <3>1, <3>2
  <2>. QED
    BY <2>1, <2>2
<1>7. ASSUME NEW n \in DOMAIN class', <<n, 2>> \in quads', NEW p \in Places
      PROVE  <<n, p>> \in quads' \/ \E v \in Writers : Inserts(v, n)' /\ writers'[v].done < p
  <2>1. CASE n # x
    <3>1. <<n, 2>> \in quads
      BY <1>3, <1>7, <2>1
    <3>2. CASE <<n, p>> \in quads
      BY <1>3, <3>2
    <3>3. CASE \E v \in Writers : Inserts(v, n) /\ writers[v].done < p
      <4>1. PICK v \in Writers : Inserts(v, n) /\ writers[v].done < p
        BY <3>3
      <4>2. v # w
        BY <2>1, <4>1 DEF Inserts, x
      <4>. QED
        BY <1>1, <4>1, <4>2 DEF Inserts
    <3>. QED
      BY <1>1, <3>1, <3>2, <3>3 DEF InsertionInv, Holds
  <2>2. CASE n = x
    <3>1. CASE d + 1 < p
      <4>1. d + 1 # Last
        BY <1>0, <3>1
      <4>. QED
        BY <1>1, <2>2, <3>1, <4>1 DEF Inserts
    <3>2. CASE d + 1 = p
      BY <1>3, <2>2, <3>2
    <3>3. CASE p <= d
      <4>1. CASE <<x, 2>> \in quads
        <5>1. <<x, p>> \in quads \/ \E v \in Writers : Inserts(v, x) /\ writers[v].done < p
          BY <1>1, <1>7, <2>2, <4>1 DEF InsertionInv, Holds
        <5>2. ASSUME NEW v \in Writers, Inserts(v, x), writers[v].done < p PROVE FALSE
          <6>1. v = w
            BY <1>2, <5>2 DEF Inserts
          <6>2. d < p
            BY <5>2, <6>1 DEF d
          <6>. QED
            BY <1>0, <3>3, <6>2
        <5>. QED
          BY <1>3, <2>2, <5>1, <5>2
      <4>2. CASE <<x, 2>> \notin quads
        <5>1. d = 1 /\ p = 1
          BY <1>0, <1>3, <1>7, <2>2, <3>3, <4>2
        <5>. QED
          BY <1>3, <1>4, <2>2, <5>1
      <4>. QED
        BY <4>1, <4>2
    <3>. QED
      BY <1>0, <3>1, <3>2, <3>3
  <2>. QED
    BY <2>1, <2>2
<1>. QED
  BY <1>5, <1>6, <1>7 DEF InsertionInv, Holds

\* Counting changes no record.
LEMMA CountInsertion ==
    ASSUME GraphTypes, InsertionInv, NEW w \in Writers, CountOfType(w)
    PROVE  InsertionInv'
<1>0. TypeOK /\ writers[w].pc = "counting"
  BY DEF GraphTypes, CountOfType
<1>1. /\ writers'[w].pc # "inserting"
      /\ \A v \in Writers \ {w} : writers'[v] = writers[v]
      /\ UNCHANGED <<class, quads>>
  <2>1. writers'[w] = Idle \/ writers'[w].pc = "deleting"
    BY <1>0, CountEffect
  <2>2. Idle.pc = "idle"
    BY IdleLocal
  <2>. QED
    BY <1>0, <2>1, <2>2, CountEffect
<1>2. \A v \in Writers : writers[v].pc = "inserting" => v # w
  BY <1>0
<1>3. \A n : \A v \in Writers : Inserts(v, n) => Inserts(v, n)' /\ writers'[v] = writers[v]
  BY <1>1, <1>2 DEF Inserts
<1>. QED
  BY <1>1, <1>2, <1>3 DEF InsertionInv, Holds

\* Deletion leaves nothing that could be sorted, and no whole record in part.
LEMMA DeleteInsertion ==
    ASSUME GraphTypes, InsertionInv, NEW w \in Writers, DeleteOldest(w)
    PROVE  InsertionInv'
<1>0. TypeOK /\ writers[w].pc = "deleting"
  BY DEF GraphTypes, DeleteOldest
<1>1. /\ writers'[w].pc = "idle"
      /\ \A v \in Writers \ {w} : writers'[v] = writers[v]
      /\ UNCHANGED class
      /\ quads' \subseteq quads
  <2>1. Idle.pc = "idle"
    BY IdleLocal
  <2>. QED
    BY <1>0, <2>1, DeleteEffect
<1>2. /\ \A n \in DOMAIN class, p \in {1, 2, 3} :
            <<n, p>> \in quads' <=> <<n, p>> \in quads /\ n \notin Victims(w)
      /\ \A n, p : n \notin Victims(w) => (<<n, p>> \in quads' <=> <<n, p>> \in quads)
      /\ \A n \in Victims(w) :
            n \in DOMAIN class /\ <<n, 1>> \in quads /\ <<n, 2>> \in quads
  BY <1>0, DeletedQuads
<1>3. \A n : \A v \in Writers : Inserts(v, n) => Inserts(v, n)' /\ writers'[v] = writers[v]
  BY <1>0, <1>1 DEF Inserts
<1>4. ASSUME NEW v \in Writers, writers'[v].pc = "inserting"
      PROVE  /\ \A p \in Places : <<writers'[v].node, p>> \in quads' => p <= writers'[v].done
             /\ writers'[v].done = 1 => <<writers'[v].node, 1>> \in quads'
  <2>1. v # w /\ writers'[v] = writers[v]
    BY <1>1, <1>4
  <2>2. \A p \in Places : <<writers[v].node, p>> \in quads => p <= writers[v].done
    BY <1>4, <2>1 DEF InsertionInv, Holds
  <2>3. ASSUME writers[v].done = 1 PROVE <<writers[v].node, 1>> \in quads'
    <3>1. <<writers[v].node, 1>> \in quads
      BY <1>4, <2>1, <2>3 DEF InsertionInv, Holds
    <3>2. writers[v].node \notin Victims(w)
      <4>1. 2 \in Places
        BY GraphAssumption DEF Places
      <4>2. ~ (2 <= 1)
        OBVIOUS
      <4>. QED
        BY <1>2, <2>2, <2>3, <4>1, <4>2
    <3>. QED
      BY <1>2, <3>1, <3>2
  <2>. QED
    BY <1>1, <2>1, <2>2, <2>3
<1>5. ASSUME NEW n \in DOMAIN class', <<n, 1>> \in quads', <<n, 2>> \notin quads'
      PROVE  \E v \in Writers : Inserts(v, n)' /\ writers'[v].done = 1
  <2>1. n \in DOMAIN class /\ <<n, 1>> \in quads /\ <<n, 2>> \notin quads
    BY <1>1, <1>2, <1>5
  <2>2. PICK v \in Writers : Inserts(v, n) /\ writers[v].done = 1
    BY <2>1 DEF InsertionInv, Holds
  <2>. QED
    BY <1>3, <2>2
<1>6. ASSUME NEW n \in DOMAIN class', <<n, 2>> \in quads', NEW p \in Places
      PROVE  <<n, p>> \in quads' \/ \E v \in Writers : Inserts(v, n)' /\ writers'[v].done < p
  <2>1. n \in DOMAIN class /\ <<n, 2>> \in quads /\ n \notin Victims(w)
    BY <1>1, <1>2, <1>6
  <2>2. CASE <<n, p>> \in quads
    BY <1>2, <2>1, <2>2
  <2>3. CASE \E v \in Writers : Inserts(v, n) /\ writers[v].done < p
    BY <1>3, <2>3
  <2>. QED
    BY <2>1, <2>2, <2>3 DEF InsertionInv, Holds
<1>. QED
  BY <1>4, <1>5, <1>6 DEF InsertionInv, Holds

-----------------------------------------------------------------------------
(* The cap *)

\* The additions of class c that count_of_type may see and that have yet to
\* answer for it.
Owing(c) == {w \in Busy : writers[w].done >= 1 /\ class[writers[w].node] = c}

\* A class exceeds its cap by no more than the additions that owe an eviction.
CapInv == \A c \in Classes : Cardinality(Typed(c)) <= Cap + Cardinality(Owing(c))

\* The counts of CapInv are numbers.
LEMMA OwingFits ==
    ASSUME GraphTypes, NEW c
    PROVE  IsFiniteSet(Owing(c)) /\ Cardinality(Owing(c)) \in Nat
<1>1. IsFiniteSet(Busy) /\ Owing(c) \in SUBSET Busy
  BY DEF GraphTypes, WritersInv, Owing
<1>2. IsFiniteSet(Owing(c))
  BY <1>1, FS_Subset
<1>. QED
  BY <1>2, FS_CardinalityType

\* Nobody owes anything for an empty store.
LEMMA InitCap == Init => CapInv
<1>. SUFFICES ASSUME Init, NEW c \in Classes
     PROVE  Cardinality(Typed(c)) <= Cap + Cardinality(Owing(c))
  BY DEF CapInv
<1>1. Typed(c) = {}
  BY DEF Init, Typed, Holds
<1>2. Cardinality(Typed(c)) = 0
  BY <1>1, FS_EmptySet
<1>3. Cardinality(Owing(c)) \in Nat
  BY InitTypes, OwingFits
<1>. QED
  BY <1>2, <1>3, GraphAssumption

\* A new record has no quads yet.
LEMMA AddCap ==
    ASSUME GraphTypes, CapInv, NEW w \in Writers, NEW k \in Classes, NextOrder(w, k)
    PROVE  CapInv'
<1>. SUFFICES ASSUME NEW c \in Classes
     PROVE  Cardinality(Typed(c)') <= Cap + Cardinality(Owing(c)')
  BY DEF CapInv
<1>0. TypeOK /\ quads' = quads
  BY DEF GraphTypes, NextOrder
<1>1. /\ writers'[w].done = 0 /\ writers'[w].pc = "inserting"
      /\ \A v \in Writers \ {w} : writers'[v] = writers[v]
      /\ DOMAIN class' = (0 .. nextOrder - 1) \cup {nextOrder}
      /\ DOMAIN class = 0 .. nextOrder - 1
      /\ \A n \in 0 .. nextOrder - 1 : class'[n] = class[n]
      /\ nextOrder \in Nat
  BY <1>0, AddEffect
<1>2. \A p : <<nextOrder, p>> \notin quads
  BY <1>0, <1>1 DEF TypeOK
<1>3. Typed(c)' = Typed(c)
  BY <1>0, <1>1, <1>2 DEF Typed, Holds
<1>4. Busy' = Busy \cup {w} /\ w \notin Busy
  BY <1>0, BusyAfter
<1>5. \A v \in Busy : writers'[v] = writers[v] /\ writers[v].node \in 0 .. nextOrder - 1
  BY <1>1, <1>4 DEF GraphTypes, WritersInv, Busy
<1>6. ASSUME NEW v PROVE v \in Owing(c)' <=> v \in Owing(c)
  BY <1>1, <1>4, <1>5 DEF Owing
<1>7. Owing(c)' = Owing(c)
  BY <1>6
<1>. QED
  BY <1>3, <1>7 DEF CapInv

\* The quad that makes a record count makes its writer owe.
LEMMA InsertCap ==
    ASSUME GraphTypes, CapInv, NEW w \in Writers, InsertQuad(w)
    PROVE  CapInv'
<1>. SUFFICES ASSUME NEW c \in Classes
     PROVE  Cardinality(Typed(c)') <= Cap + Cardinality(Owing(c)')
  BY DEF CapInv
<1>. DEFINE x == writers[w].node
            d == writers[w].done
<1>0. /\ TypeOK /\ writers[w].pc = "inserting" /\ w \in Busy /\ Busy' = Busy
      /\ x \in DOMAIN class
  <2>1. TypeOK /\ writers[w].pc = "inserting" /\ w \in Busy
    BY DEF GraphTypes, InsertQuad, Busy
  <2>. QED
    BY <2>1, BusyAfter DEF GraphTypes, WritersInv
<1>1. d \in Nat
  BY <1>0, GraphAssumption DEF TypeOK, Places
<1>2. /\ writers'[w].node = x /\ writers'[w].done = d + 1
      /\ \A v \in Writers \ {w} : writers'[v] = writers[v]
      /\ quads' = quads \cup {<<x, d + 1>>}
      /\ class' = class
  BY <1>0, InsertEffect
<1>3. \A n, p : <<n, p>> \in quads' <=> <<n, p>> \in quads \/ (n = x /\ p = d + 1)
  BY <1>2
<1>4. \A v : v \in Owing(c) <=> v \in Busy /\ writers[v].done >= 1
                                 /\ class[writers[v].node] = c
  BY DEF Owing
<1>5. \A v : v \in Owing(c)' <=> v \in Busy /\ writers'[v].done >= 1
                                  /\ class[writers'[v].node] = c
  BY <1>0, <1>2 DEF Owing
<1>6. \A v \in Busy \ {w} : writers'[v] = writers[v]
  BY <1>2 DEF Busy
<1>7. /\ IsFiniteSet(Owing(c)) /\ Cardinality(Owing(c)) \in Nat
      /\ IsFiniteSet(Typed(c)) /\ Cardinality(Typed(c)) \in Nat
      /\ Cardinality(Typed(c)) <= Cap + Cardinality(Owing(c))
      /\ Cap \in Nat
  BY <1>0, OwingFits, TypedFits, GraphAssumption DEF CapInv
<1>8. CASE d = 0 /\ class[x] = c
  <2>1. Typed(c)' = Typed(c) \cup {x}
    BY <1>0, <1>2, <1>3, <1>8 DEF Typed, Holds
  <2>2. Owing(c)' = Owing(c) \cup {w} /\ w \notin Owing(c)
    <3>1. w \notin Owing(c)
      BY <1>4, <1>8
    <3>2. w \in Owing(c)'
      BY <1>0, <1>2, <1>5, <1>8
    <3>. QED
      BY <1>4, <1>5, <1>6, <3>1, <3>2
  <2>3. /\ IsFiniteSet(Typed(c)')
        /\ Cardinality(Typed(c)') <= Cardinality(Typed(c)) + 1
    <3>. DEFINE S == Typed(c)
    <3>. HIDE DEF S, x
    <3>1. /\ IsFiniteSet(S \cup {x})
          /\ Cardinality(S \cup {x}) = IF x \in S THEN Cardinality(S) ELSE Cardinality(S) + 1
      <4>1. IsFiniteSet(S)
        BY <1>7 DEF S
      <4>. QED
        BY <4>1, FS_AddElement
    <3>2. Cardinality(S) \in Nat
      BY <1>7 DEF S
    <3>. QED
      BY <2>1, <3>1, <3>2 DEF S
  <2>4. Cardinality(Owing(c)') = Cardinality(Owing(c)) + 1
    BY <1>7, <2>2, FS_AddElement
  <2>5. Cardinality(Typed(c)') \in Nat
    BY <2>3, FS_CardinalityType
  <2>. QED
    BY <1>7, <2>3, <2>4, <2>5
<1>9. CASE ~ (d = 0 /\ class[x] = c)
  <2>1. Typed(c)' = Typed(c)
    <3>1. d + 1 = 1 => d = 0
      BY <1>1
    <3>. QED
      BY <1>2, <1>3, <1>9, <3>1 DEF Typed, Holds
  <2>2. w \in Owing(c)' <=> w \in Owing(c)
    BY <1>0, <1>1, <1>2, <1>4, <1>5, <1>9
  <2>3. Owing(c)' = Owing(c)
    BY <1>4, <1>5, <1>6, <2>2
  <2>. QED
    BY <1>7, <2>1, <2>3
<1>. QED
  BY <1>8, <1>9

\* Who counts no excess has seen the class within its cap.
LEMMA CountCap ==
    ASSUME GraphTypes, CapInv, NEW w \in Writers, CountOfType(w)
    PROVE  CapInv'
<1>. SUFFICES ASSUME NEW c \in Classes
     PROVE  Cardinality(Typed(c)') <= Cap + Cardinality(Owing(c)')
  BY DEF CapInv
<1>. DEFINE k == class[writers[w].node]
<1>0. TypeOK /\ writers[w].pc = "counting" /\ w \in Busy
  BY DEF GraphTypes, CountOfType, Busy
<1>1. /\ IF Excess(k) > 0
         THEN writers'[w] \in [pc : {"deleting"}, node : {writers[w].node},
                               done : {writers[w].done}, excess : {Excess(k)}]
         ELSE writers'[w] = Idle
      /\ \A v \in Writers \ {w} : writers'[v] = writers[v]
      /\ UNCHANGED <<nextOrder, class, quads, overlapped>>
  BY <1>0, CountEffect
<1>2. Typed(c)' = Typed(c)
  BY <1>1 DEF Typed, Holds
<1>3. /\ Cardinality(Typed(c)) \in Nat
      /\ Cardinality(Typed(c)) <= Cap + Cardinality(Owing(c))
      /\ Cap \in Nat
  BY <1>0, TypedFits, GraphAssumption DEF CapInv
<1>4. \A v \in Writers \ {w} : v \in Owing(c)' <=> v \in Owing(c)
  BY <1>1 DEF Owing, Busy
<1>5. CASE c = k /\ ~ (Excess(k) > 0)
  <2>1. Cardinality(Typed(c)) <= Cap
    BY <1>3, <1>5 DEF Excess
  <2>2. Cardinality(Owing(c)') \in Nat
    <3>1. IsFiniteSet(Busy') /\ Owing(c)' \in SUBSET Busy'
      BY CountTypes DEF GraphTypes, WritersInv, Owing
    <3>2. IsFiniteSet(Owing(c)')
      BY <3>1, FS_Subset
    <3>. QED
      BY <3>2, FS_CardinalityType
  <2>. QED
    BY <1>2, <1>3, <2>1, <2>2
<1>6. CASE c # k \/ Excess(k) > 0
  <2>1. w \in Owing(c)' <=> w \in Owing(c)
    <3>1. CASE Excess(k) > 0
      <4>1. /\ writers'[w].pc = "deleting" /\ writers'[w].node = writers[w].node
            /\ writers'[w].done = writers[w].done
        BY <1>1, <3>1
      <4>. QED
        BY <1>0, <1>1, <4>1 DEF Owing, Busy
    <3>2. CASE ~ (Excess(k) > 0)
      <4>1. writers'[w].pc = "idle"
        BY <1>1, <3>2, IdleLocal
      <4>2. w \notin Owing(c)
        BY <1>6, <3>2 DEF Owing
      <4>. QED
        BY <4>1, <4>2 DEF Owing, Busy
    <3>. QED
      BY <3>1, <3>2
  <2>2. Owing(c) \subseteq Writers /\ Owing(c)' \subseteq Writers
    BY DEF Owing, Busy
  <2>3. Owing(c)' = Owing(c)
    BY <1>4, <2>1, <2>2
  <2>. QED
    BY <1>2, <1>3, <2>3
<1>. QED
  BY <1>5, <1>6

\* What eviction takes of a set of records: the oldest of them whenever there
\* are any, and never one younger than a record it leaves.
LEMMA OldestTaken ==
    ASSUME NEW hi \in Nat, NEW S \in SUBSET (0 .. hi - 1), NEW k \in Nat, k >= 1
    PROVE  /\ Oldest(S, k) \subseteq S
           /\ S # {} => Oldest(S, k) # {}
           /\ \A n \in Oldest(S, k), m \in S \ Oldest(S, k) : n < m
<1>0. \A n \in S : n \in Int
  OBVIOUS
<1>1. Oldest(S, k) \subseteq S
  BY DEF Oldest
<1>2. ASSUME S # {} PROVE Oldest(S, k) # {}
  <2>1. S \in SUBSET Nat
    OBVIOUS
  <2>2. PICK n \in S : \A m \in S : n <= m
    BY <1>2, <2>1, OldestExists
  <2>3. {m \in S : m < n} = {}
    <3>1. \A m \in S : ~ (m < n)
      BY <1>0, <2>2
    <3>. QED
      BY <3>1
  <2>4. Cardinality({m \in S : m < n}) = 0
    BY <2>3, FS_EmptySet
  <2>5. Cardinality({m \in S : m < n}) < k
    BY <2>4
  <2>. QED
    BY <2>5 DEF Oldest
<1>3. ASSUME NEW n \in Oldest(S, k), NEW m \in S \ Oldest(S, k), ~ (n < m)
      PROVE  FALSE
  <2>. DEFINE A == {j \in S : j < n}
              B == {j \in S : j < m}
  <2>1. n \in S /\ n \in Int /\ m \in Int /\ m # n
    BY <1>0, <1>1
  <2>2. B \subseteq A
    <3>1. \A j \in S : j < m => j < n
      BY <1>0, <1>3, <2>1
    <3>. QED
      BY <3>1
  <2>3. A \in SUBSET (0 .. hi - 1) /\ B \in SUBSET (0 .. hi - 1)
    OBVIOUS
  <2>4. Cardinality(A) < k /\ ~ (Cardinality(B) < k)
    BY <1>3 DEF Oldest
  <2>. HIDE DEF A, B
  <2>5. /\ IsFiniteSet(A) /\ Cardinality(A) \in Nat
        /\ IsFiniteSet(B) /\ Cardinality(B) \in Nat
    BY <2>3, RecordsAreFinite
  <2>6. Cardinality(B) <= Cardinality(A)
    BY <2>2, <2>5, FS_Subset
  <2>. QED
    BY <2>4, <2>5, <2>6
<1>4. ASSUME NEW n \in Oldest(S, k), NEW m \in S \ Oldest(S, k)
      PROVE  n < m
  BY <1>3
<1>. QED
  BY <1>1, <1>2, <1>4

\* Who deletes takes a record of its class, or every record of the class that
\* is counted belongs to another addition that owes.
LEMMA DeleteCap ==
    ASSUME GraphTypes, InsertionInv, CapInv, NEW w \in Writers, DeleteOldest(w)
    PROVE  CapInv'
<1>. SUFFICES ASSUME NEW c \in Classes
     PROVE  Cardinality(Typed(c)') <= Cap + Cardinality(Owing(c)')
  BY DEF CapInv
<1>. DEFINE k == class[writers[w].node]
<1>0. TypeOK /\ writers[w].pc = "deleting" /\ w \in Busy
  BY DEF GraphTypes, DeleteOldest, Busy
<1>1. /\ writers'[w].pc = "idle"
      /\ \A v \in Writers \ {w} : writers'[v] = writers[v]
      /\ UNCHANGED <<nextOrder, class, overlapped>>
      /\ quads' \subseteq quads
  BY <1>0, DeleteEffect, IdleLocal
<1>2. Typed(c)' \subseteq Typed(c)
  BY <1>1 DEF Typed, Holds
<1>3. /\ IsFiniteSet(Typed(c)) /\ Cardinality(Typed(c)) \in Nat
      /\ Cardinality(Typed(c)) <= Cap + Cardinality(Owing(c))
      /\ IsFiniteSet(Owing(c)) /\ Cardinality(Owing(c)) \in Nat
      /\ Cap \in Nat
  BY <1>0, TypedFits, OwingFits, GraphAssumption DEF CapInv
<1>4. IsFiniteSet(Typed(c)') /\ Cardinality(Typed(c)') <= Cardinality(Typed(c))
  BY <1>2, <1>3, FS_Subset
<1>5. Cardinality(Typed(c)') \in Nat
  BY <1>4, FS_CardinalityType
<1>6. Owing(c)' = Owing(c) \ {w}
  <2>1. \A v \in Writers \ {w} : v \in Owing(c)' <=> v \in Owing(c)
    BY <1>1 DEF Owing, Busy
  <2>2. w \notin Owing(c)'
    BY <1>1 DEF Owing, Busy
  <2>3. Owing(c) \subseteq Writers /\ Owing(c)' \subseteq Writers
    BY DEF Owing, Busy
  <2>. QED
    BY <2>1, <2>2, <2>3
<1>7. CASE c # k
  <2>1. Owing(c) \ {w} = Owing(c)
    BY <1>7 DEF Owing
  <2>. QED
    BY <1>3, <1>4, <1>5, <1>6, <2>1
<1>8. CASE c = k
  <2>. DEFINE S == Sortable(c)
  <2>1. S \in SUBSET (0 .. nextOrder - 1) /\ nextOrder \in Nat
    BY <1>0, TypedFits DEF Sortable, TypeOK
  <2>2. writers[w].excess \in Nat /\ writers[w].excess >= 1
    BY <1>0, GraphAssumption DEF GraphTypes, WritersInv, TypeOK
  <2>3. S # {} => Victims(w) # {}
    BY <1>8, <2>1, <2>2, OldestTaken DEF Victims
  <2>4. CASE S # {}
    <3>1. w \in Owing(c)
      <4>1. writers[w].done = Last /\ Last >= 1
        BY <1>0, GraphAssumption DEF GraphTypes, WritersInv, Last
      <4>. QED
        BY <1>0, <1>8, <4>1 DEF Owing
    <3>2. PICK n : n \in Victims(w)
      BY <2>3, <2>4
    <3>3. n \in Typed(c)
      BY <1>8, <3>2 DEF Victims, Oldest, Sortable
    <3>4. n \notin Typed(c)'
      <4>1. n \in DOMAIN class /\ <<n, 1>> \notin quads'
        BY <1>0, <3>2, DeletedQuads
      <4>. QED
        BY <4>1 DEF Typed, Holds
    <3>5. Typed(c)' \in SUBSET (Typed(c) \ {n})
      BY <1>2, <3>4
    <3>6. /\ IsFiniteSet(Typed(c) \ {n})
          /\ Cardinality(Typed(c) \ {n}) = Cardinality(Typed(c)) - 1
      BY <1>3, <3>3, FS_RemoveElement
    <3>7. Cardinality(Typed(c)') <= Cardinality(Typed(c)) - 1
      BY <3>5, <3>6, FS_Subset
    <3>8. Cardinality(Owing(c)') = Cardinality(Owing(c)) - 1
      BY <1>3, <1>6, <3>1, FS_RemoveElement
    <3>. QED
      BY <1>3, <1>5, <3>7, <3>8
  <2>5. CASE S = {}
    <3>. DEFINE Writer(n) == CHOOSE v \in Writers : Inserts(v, n) /\ writers[v].done = 1
                f == [n \in Typed(c) |-> Writer(n)]
    <3>1. ASSUME NEW n \in Typed(c)
          PROVE  f[n] \in Owing(c) \ {w} /\ writers[f[n]].node = n
      <4>1. n \in DOMAIN class /\ class[n] = c /\ Holds(n, 1) /\ ~ Holds(n, 2)
        BY <2>5 DEF Typed, Sortable
      <4>2. \E v \in Writers : Inserts(v, n) /\ writers[v].done = 1
        BY <4>1 DEF InsertionInv
      <4>3. Writer(n) \in Writers /\ Inserts(Writer(n), n) /\ writers[Writer(n)].done = 1
        BY <4>2
      <4>4. f[n] = Writer(n)
        OBVIOUS
      <4>. HIDE DEF f, Writer
      <4>5. writers[f[n]].done >= 1
        BY <4>3, <4>4
      <4>. QED
        BY <1>0, <4>1, <4>3, <4>4, <4>5 DEF Inserts, Owing, Busy
    <3>2. DOMAIN f = Typed(c) /\ f = [n \in Typed(c) |-> f[n]]
      OBVIOUS
    <3>. HIDE DEF f
    <3>3. f \in [Typed(c) -> Owing(c) \ {w}]
      BY <3>1, <3>2
    <3>4. \A m, n \in Typed(c) : f[m] = f[n] => m = n
      BY <3>1
    <3>5. f \in Injection(Typed(c), Owing(c)')
      BY <1>6, <3>3, <3>4 DEF Injection, IsInjective
    <3>6. IsFiniteSet(Owing(c)')
      BY <1>3, <1>6, FS_RemoveElement
    <3>7. Cardinality(Typed(c)) <= Cardinality(Owing(c)') /\ Cardinality(Owing(c)') \in Nat
      BY <3>5, <3>6, FS_Injection, FS_CardinalityType
    <3>. QED
      BY <1>3, <1>4, <1>5, <3>7
  <2>. QED
    BY <2>4, <2>5
<1>. QED
  BY <1>7, <1>8

-----------------------------------------------------------------------------
(* The store at any number of requests *)

GraphInv == GraphTypes /\ InsertionInv /\ CapInv

\* No step of any request breaks the invariant.
LEMMA GraphStep ==
    ASSUME GraphInv, [Next]_vars
    PROVE  GraphInv'
<1>0. GraphTypes /\ InsertionInv /\ CapInv
  BY DEF GraphInv
<1>1. ASSUME NEW w \in Writers, AddBatch(w) \/ AddOffer(w) PROVE GraphInv'
  <2>1. PICK c \in Classes : NextOrder(w, c)
    BY <1>1 DEF AddBatch, AddOffer, Classes
  <2>. QED
    BY <1>0, <2>1, AddTypes, AddInsertion, AddCap DEF GraphInv
<1>2. ASSUME NEW w \in Writers, InsertQuad(w) PROVE GraphInv'
  BY <1>0, <1>2, InsertTypes, InsertInsertion, InsertCap DEF GraphInv
<1>3. ASSUME NEW w \in Writers, CountOfType(w) PROVE GraphInv'
  BY <1>0, <1>3, CountTypes, CountInsertion, CountCap DEF GraphInv
<1>4. ASSUME NEW w \in Writers, DeleteOldest(w) PROVE GraphInv'
  BY <1>0, <1>4, DeleteTypes, DeleteInsertion, DeleteCap DEF GraphInv
<1>5. ASSUME UNCHANGED vars PROVE GraphInv'
  <2>1. /\ nextOrder' = nextOrder /\ class' = class /\ quads' = quads
        /\ writers' = writers /\ overlapped' = overlapped
    BY <1>5 DEF vars
  <2>2. TypeOK'
    BY <1>0, <2>1 DEF GraphTypes, TypeOK
  <2>3. Busy' = Busy /\ \A c : Typed(c)' = Typed(c)
    BY <2>1 DEF Busy, Typed, Holds
  <2>4. WritersInv'
    BY <1>0, <2>1, <2>3 DEF GraphTypes, WritersInv
  <2>5. InsertionInv'
    BY <1>0, <2>1 DEF InsertionInv, Inserts, Holds
  <2>6. CapInv'
    BY <1>0, <2>1, <2>3 DEF CapInv, Owing
  <2>. QED
    BY <2>2, <2>4, <2>5, <2>6 DEF GraphInv, GraphTypes
<1>. QED
  BY <1>1, <1>2, <1>3, <1>4, <1>5 DEF Next

\* The inductive invariant of add_batch and add_offer, for any number of
\* requests that write at one time: each has a record of its own, a record that
\* can be sorted was never evicted in part, and a class exceeds its cap by no
\* more than the additions that have yet to evict.
THEOREM GraphSafe == Spec => []GraphInv
<1>1. Init => GraphInv
  BY InitTypes, InitInsertion, InitCap DEF GraphInv
<1>2. GraphInv /\ [Next]_vars => GraphInv'
  BY GraphStep
<1>. QED
  BY <1>1, <1>2, PTL DEF Spec

\* However many requests add at one time, a class of the store never holds more
\* than its cap and one record for each addition in progress, although the
\* nodes are counted and deleted in two steps with no lock around them.
THEOREM StoreIsBounded == Spec => []CapPlusBusy
<1>1. GraphInv => CapPlusBusy
  <2>. SUFFICES ASSUME GraphInv PROVE CapPlusBusy
    OBVIOUS
  <2>1. TypeOK /\ IsFiniteSet(Busy) /\ CapInv /\ GraphTypes
    BY DEF GraphInv, GraphTypes, WritersInv
  <2>2. ASSUME NEW c \in Classes PROVE Cardinality(Typed(c)) <= Cap + Cardinality(Busy)
    <3>1. Owing(c) \in SUBSET Busy
      BY DEF Owing
    <3>2. Cardinality(Owing(c)) <= Cardinality(Busy)
      BY <2>1, <3>1, FS_Subset
    <3>3. /\ Cardinality(Busy) \in Nat /\ Cardinality(Owing(c)) \in Nat
          /\ Cardinality(Typed(c)) \in Nat /\ Cap \in Nat
      BY <2>1, FS_CardinalityType, OwingFits, TypedFits, GraphAssumption
    <3>4. Cardinality(Typed(c)) <= Cap + Cardinality(Owing(c))
      BY <2>1 DEF CapInv
    <3>. QED
      BY <3>2, <3>3, <3>4
  <2>. QED
    BY <2>1, <2>2 DEF CapPlusBusy
<1>. QED
  BY <1>1, GraphSafe, PTL

\* A record that a query of the store lists shows every credential it was added
\* with, unless the request that adds it is still inserting: an eviction that
\* meets a record half inserted leaves nothing of it that a query would list.
THEOREM ListedRecordsAreWhole == Spec => []ListedIsWhole
<1>1. GraphInv => ListedIsWhole
  <2>. SUFFICES ASSUME GraphInv, NEW n \in Batches \cup Offers,
                       ~ \E w \in Writers : writers[w].pc = "inserting" /\ writers[w].node = n
       PROVE  Shown(n) = 1 .. Credentials
    BY DEF ListedIsWhole
  <2>1. n \in DOMAIN class /\ Holds(n, 2)
    BY DEF Batches, Offers
  <2>2. \A p \in Places : Holds(n, p)
    BY <2>1 DEF GraphInv, InsertionInv, Inserts
  <2>3. \A j \in 1 .. Credentials : Link(j) \in Places /\ Credential(j) \in Places
    BY GraphAssumption DEF Link, Credential, Places
  <2>. QED
    BY <2>2, <2>3 DEF Shown
<1>. QED
  BY <1>1, GraphSafe, PTL

\* The eviction query takes the oldest of the class its request added to:
\* whatever other requests insert meanwhile, no record goes while an older one
\* of its class stays, and no record of the other class goes at all.
THEOREM EvictionGoesByAge == Spec => OldestGoFirst
<1>1. ASSUME GraphTypes, [Next]_vars PROVE [OldestGoFirstStep]_vars
  <2>. SUFFICES ASSUME Next, NEW c \in Classes
       PROVE  LET gone == Sortable(c) \ Sortable(c)'
              IN  /\ \A n \in gone, m \in Sortable(c)' : n < m
                  /\ gone # {} =>
                        \E w \in Writers : /\ writers[w].pc = "deleting"
                                           /\ writers'[w].pc = "idle"
                                           /\ class[writers[w].node] = c
    BY <1>1 DEF OldestGoFirstStep
  <2>0. TypeOK
    BY <1>1 DEF GraphTypes
  <2>1. ASSUME NEW w \in Writers, NEW k \in Classes, NextOrder(w, k)
        PROVE  Sortable(c) \ Sortable(c)' = {}
    <3>1. /\ DOMAIN class = 0 .. nextOrder - 1
          /\ DOMAIN class' = (0 .. nextOrder - 1) \cup {nextOrder}
          /\ \A n \in 0 .. nextOrder - 1 : class'[n] = class[n]
          /\ quads' = quads
      BY <2>0, <2>1, AddEffect DEF NextOrder
    <3>. QED
      BY <3>1 DEF Sortable, Typed, Holds
  <2>2. ASSUME NEW w \in Writers, InsertQuad(w) \/ CountOfType(w)
        PROVE  Sortable(c) \ Sortable(c)' = {}
    <3>1. class' = class /\ quads \subseteq quads'
      BY <2>2 DEF InsertQuad, CountOfType
    <3>. QED
      BY <3>1 DEF Sortable, Typed, Holds
  <2>3. ASSUME NEW w \in Writers, DeleteOldest(w)
        PROVE  /\ \A n \in Sortable(c) \ Sortable(c)', m \in Sortable(c)' : n < m
               /\ Sortable(c) \ Sortable(c)' # {} =>
                     /\ writers[w].pc = "deleting"
                     /\ writers'[w].pc = "idle"
                     /\ class[writers[w].node] = c
    <3>1. /\ writers[w].pc = "deleting" /\ writers'[w].pc = "idle"
          /\ class' = class
      BY <2>0, <2>3, DeleteEffect, IdleLocal DEF DeleteOldest
    <3>2. \A n \in DOMAIN class, p \in {1, 2, 3} :
             <<n, p>> \in quads' <=> <<n, p>> \in quads /\ n \notin Victims(w)
      BY <2>0, <2>3, DeletedQuads
    <3>3. Sortable(c)' = Sortable(c) \ Victims(w)
      BY <3>1, <3>2 DEF Sortable, Typed, Holds
    <3>4. ASSUME NEW n \in Sortable(c), n \in Victims(w) PROVE class[writers[w].node] = c
      BY <3>4 DEF Victims, Oldest, Sortable, Typed
    <3>5. ASSUME class[writers[w].node] = c,
                 NEW n \in Victims(w), NEW m \in Sortable(c) \ Victims(w)
          PROVE  n < m
      <4>1. Sortable(c) \in SUBSET (0 .. nextOrder - 1) /\ nextOrder \in Nat
        BY <2>0, TypedFits DEF Sortable, TypeOK
      <4>2. writers[w].excess \in Nat /\ writers[w].excess >= 1
        BY <1>1, <2>0, <3>1, GraphAssumption DEF GraphTypes, WritersInv, TypeOK
      <4>. QED
        BY <3>5, <4>1, <4>2, OldestTaken DEF Victims
    <3>. QED
      BY <3>1, <3>3, <3>4, <3>5
  <2>. QED
    BY <2>1, <2>2, <2>3 DEF Next, AddBatch, AddOffer, Classes
<1>2. GraphInv => GraphTypes
  BY DEF GraphInv
<1>. QED
  BY <1>1, <1>2, GraphSafe, PTL DEF Spec, OldestGoFirst

-----------------------------------------------------------------------------
(* One addition at a time *)

\* The newest Cap records of A.
NewestOf(A) == {n \in A : Cardinality({m \in A : m > n}) < Cap}

\* Every record of a set is older or younger than a given one.
LEMMA OlderAndYounger ==
    ASSUME NEW hi \in Nat, NEW T \in SUBSET (0 .. hi - 1), NEW n \in T
    PROVE  /\ Cardinality({m \in T : m < n}) \in Nat
           /\ Cardinality({m \in T : m > n}) \in Nat
           /\ Cardinality({m \in T : m < n}) + 1 + Cardinality({m \in T : m > n})
                = Cardinality(T)
<1>. DEFINE A == {m \in T : m < n}
            B == {m \in T : m > n}
<1>0. \A m \in T : m \in Int
  OBVIOUS
<1>1. A \in SUBSET (0 .. hi - 1) /\ B \in SUBSET (0 .. hi - 1)
  OBVIOUS
<1>2. A \cap (B \cup {n}) = {} /\ n \notin B
  <2>1. \A m \in A : m \notin B /\ m # n
    BY <1>0
  <2>2. n \notin B
    BY <1>0
  <2>. QED
    BY <2>1, <2>2
<1>3. A \cup (B \cup {n}) = T
  <2>1. \A m \in T : m < n \/ m > n \/ m = n
    BY <1>0
  <2>. QED
    BY <2>1
<1>. HIDE DEF A, B
<1>4. /\ IsFiniteSet(A) /\ Cardinality(A) \in Nat
      /\ IsFiniteSet(B) /\ Cardinality(B) \in Nat
  BY <1>1, RecordsAreFinite
<1>5. IsFiniteSet(B \cup {n}) /\ Cardinality(B \cup {n}) = Cardinality(B) + 1
  BY <1>2, <1>4, FS_AddElement
<1>6. Cardinality(A \cup (B \cup {n}))
        = Cardinality(A) + Cardinality(B \cup {n}) - Cardinality(A \cap (B \cup {n}))
  BY <1>4, <1>5, FS_Union
<1>7. Cardinality(A \cap (B \cup {n})) = 0
  BY <1>2, FS_EmptySet
<1>8. Cardinality(A) + 1 + Cardinality(B) = Cardinality(T)
  <2>. DEFINE U == B \cup {n}
              V == A \cap U
              W == A \cup U
  <2>1. W = T
    BY <1>3
  <2>2. Cardinality(W) = Cardinality(A) + Cardinality(U) - Cardinality(V)
    BY <1>6
  <2>3. Cardinality(U) = Cardinality(B) + 1 /\ Cardinality(V) = 0
    BY <1>5, <1>7
  <2>. HIDE DEF U, V, W
  <2>. QED
    BY <1>4, <2>1, <2>2, <2>3
<1>. QED
  BY <1>4, <1>8 DEF A, B

\* The newest of a set and of a record younger than all of it are found among
\* the newest of the set and that record.
LEMMA NewestWithOneMore ==
    ASSUME NEW hi \in Nat, NEW A \in SUBSET (0 .. hi - 1),
           NEW x \in 0 .. hi - 1, \A n \in A : n < x
    PROVE  LET T == NewestOf(A) \cup {x}
           IN  \A n : n \in NewestOf(A \cup {x}) <=>
                         n \in T /\ Cardinality({m \in T : m > n}) < Cap
<1>. DEFINE K == NewestOf(A)
            T == K \cup {x}
            B == A \cup {x}
            Up(S, n) == {m \in S : m > n}
<1>0. /\ \A n \in A : n \in Int /\ n < x
      /\ x \in Int /\ x \notin A
      /\ Cap \in Nat /\ Cap >= 1
      /\ K \subseteq A
  BY GraphAssumption DEF NewestOf
<1>1. ASSUME NEW n PROVE /\ Up(A, n) \in SUBSET (0 .. hi - 1)
                        /\ Up(B, n) \in SUBSET (0 .. hi - 1)
  OBVIOUS
<1>2. \A n : /\ IsFiniteSet(Up(A, n)) /\ Cardinality(Up(A, n)) \in Nat
             /\ IsFiniteSet(Up(B, n)) /\ Cardinality(Up(B, n)) \in Nat
  <2>. HIDE DEF Up, B
  <2>. QED
    BY <1>1, RecordsAreFinite
<1>3. \A n : n \in K <=> n \in A /\ Cardinality(Up(A, n)) < Cap
  BY DEF NewestOf
<1>4. \A n : n \in NewestOf(B) <=> n \in B /\ Cardinality(Up(B, n)) < Cap
  BY DEF NewestOf
<1>5. ASSUME NEW n \in A, NEW m \in A, m > n, n \in K PROVE m \in K
  <2>1. Up(A, m) \subseteq Up(A, n)
    <3>1. \A j \in A : j > m => j > n
      BY <1>0, <1>5
    <3>. QED
      BY <3>1
  <2>2. Cardinality(Up(A, n)) < Cap
    BY <1>3, <1>5
  <2>. HIDE DEF Up, K
  <2>3. Cardinality(Up(A, m)) <= Cardinality(Up(A, n))
    BY <1>2, <2>1, FS_Subset
  <2>4. Cardinality(Up(A, m)) < Cap
    BY <1>0, <1>2, <2>2, <2>3
  <2>. QED
    BY <1>3, <2>4
<1>6. ASSUME NEW n \in T PROVE Up(T, n) = Up(B, n)
  <2>1. CASE n = x
    <3>1. \A m \in B : ~ (m > x)
      BY <1>0
    <3>2. T \subseteq B
      BY <1>0
    <3>. HIDE DEF T, B
    <3>. QED
      BY <2>1, <3>1, <3>2
  <2>2. CASE n \in K
    <3>1. n \in A
      BY <1>0, <2>2
    <3>2. \A m \in A : m > n => m \in K
      BY <1>5, <2>2, <3>1
    <3>3. K \subseteq A
      BY <1>0
    <3>4. ASSUME NEW m PROVE m \in Up(T, n) <=> m \in Up(B, n)
      <4>. HIDE DEF K
      <4>. QED
        BY <3>2, <3>3
    <3>. HIDE DEF T, B
    <3>. QED
      BY <3>4
  <2>. QED
    BY <2>1, <2>2
<1>7. ASSUME NEW n \in NewestOf(B) PROVE n \in T
  <2>1. CASE n = x
    BY <2>1
  <2>2. CASE n \in A
    <3>1. Cardinality(Up(B, n)) < Cap
      BY <1>4
    <3>2. Up(A, n) \subseteq Up(B, n)
      OBVIOUS
    <3>. HIDE DEF Up, B, K
    <3>3. Cardinality(Up(A, n)) <= Cardinality(Up(B, n))
      BY <1>2, <3>2, FS_Subset
    <3>4. Cardinality(Up(A, n)) < Cap
      BY <1>0, <1>2, <3>1, <3>3
    <3>. QED
      BY <1>3, <2>2, <3>4
  <2>. QED
    BY <1>4, <2>1, <2>2
<1>8. T \subseteq B
  BY <1>0
<1>9. ASSUME NEW n
      PROVE  n \in NewestOf(B) <=> n \in T /\ Cardinality(Up(T, n)) < Cap
  <2>. HIDE DEF Up, B, T
  <2>. QED
    BY <1>4, <1>6, <1>7, <1>8
<1>. QED
  BY <1>9

\* Eviction down to the cap leaves exactly the newest, and so does no eviction
\* at all when the cap is kept.
LEMMA EvictionLeavesNewest ==
    ASSUME NEW hi \in Nat, NEW A \in SUBSET (0 .. hi - 1),
           NEW x \in 0 .. hi - 1, \A n \in A : n < x,
           NEW T, T = NewestOf(A) \cup {x}
    PROVE  /\ Cardinality(T) <= Cap => T = NewestOf(A \cup {x})
           /\ Cardinality(T) > Cap =>
                 T \ Oldest(T, Cardinality(T) - Cap) = NewestOf(A \cup {x})
<1>0. Cap \in Nat /\ T \in SUBSET (0 .. hi - 1)
  BY GraphAssumption DEF NewestOf
<1>1. Cardinality(T) \in Nat
  BY <1>0, RecordsAreFinite
<1>2. \A n : n \in NewestOf(A \cup {x}) <=> n \in T /\ Cardinality({m \in T : m > n}) < Cap
  BY NewestWithOneMore
<1>. DEFINE Down(n) == Cardinality({m \in T : m < n})
            Up(n)   == Cardinality({m \in T : m > n})
<1>3. \A n \in T : Down(n) \in Nat /\ Up(n) \in Nat /\ Down(n) + 1 + Up(n) = Cardinality(T)
  BY <1>0, OlderAndYounger
<1>4. ASSUME Cardinality(T) <= Cap PROVE T = NewestOf(A \cup {x})
  <2>1. \A n \in T : Up(n) < Cap
    <3>. HIDE DEF Up, Down
    <3>. QED
      BY <1>0, <1>1, <1>3, <1>4
  <2>. QED
    BY <1>2, <2>1
<1>5. ASSUME Cardinality(T) > Cap
      PROVE  T \ Oldest(T, Cardinality(T) - Cap) = NewestOf(A \cup {x})
  <2>1. ASSUME NEW n \in T PROVE Down(n) < Cardinality(T) - Cap <=> ~ (Up(n) < Cap)
    <3>. HIDE DEF Up, Down
    <3>. QED
      BY <1>0, <1>1, <1>3
  <2>2. \A n : n \in Oldest(T, Cardinality(T) - Cap) <=>
               n \in T /\ Down(n) < Cardinality(T) - Cap
    BY DEF Oldest
  <2>3. \A n : n \in NewestOf(A \cup {x}) <=> n \in T /\ Up(n) < Cap
    BY <1>2
  <2>. HIDE DEF Up, Down
  <2>. QED
    BY <2>1, <2>2, <2>3
<1>. QED
  BY <1>4, <1>5

\* The class w adds to, and what it keeps without the record of w.
ClassOf(w) == class[writers[w].node]
Others(w)  == Added(ClassOf(w)) \ {writers[w].node}

\* With one addition at a time: no quad without its record, every class holds
\* its newest records, and the class of the addition in progress also the
\* record that is being added.
Sequential ==
    /\ \A v, w \in Busy : v = w
    /\ \A n, p : <<n, p>> \in quads => <<n, 1>> \in quads
    /\ \A c \in Classes : (\A w \in Busy : ClassOf(w) # c) => Typed(c) = NewestOf(Added(c))
    /\ \A w \in Busy :
          /\ writers[w].node = nextOrder - 1
          /\ Typed(ClassOf(w)) = IF writers[w].done >= 1
                                 THEN NewestOf(Others(w)) \cup {writers[w].node}
                                 ELSE NewestOf(Others(w))
          /\ writers[w].pc = "deleting" => writers[w].excess = Excess(ClassOf(w))

SequentialInv == ~ overlapped => Sequential

\* An empty store is its own newest.
LEMMA InitSequential == Init => SequentialInv
<1>. SUFFICES ASSUME Init PROVE Sequential
  BY DEF SequentialInv
<1>1. Busy = {}
  <2>1. \A w \in Writers : writers[w].pc = "idle"
    BY IdleLocal DEF Init
  <2>. QED
    BY <2>1 DEF Busy
<1>2. ASSUME NEW c \in Classes PROVE Typed(c) = NewestOf(Added(c))
  BY DEF Init, Typed, Added, NewestOf
<1>. QED
  BY <1>1, <1>2 DEF Init, Sequential

\* An addition that overlaps with no other begins with every class exact.
LEMMA AddSequential ==
    ASSUME GraphTypes, SequentialInv, NEW w \in Writers, NEW k \in Classes, NextOrder(w, k)
    PROVE  SequentialInv'
<1>. SUFFICES ASSUME ~ overlapped' PROVE Sequential'
  BY DEF SequentialInv
<1>0. TypeOK /\ quads' = quads
  BY DEF GraphTypes, NextOrder
<1>1. ~ overlapped /\ Busy = {}
  BY DEF NextOrder, Busy
<1>2. /\ writers'[w].done = 0 /\ writers'[w].pc = "inserting"
      /\ writers'[w].node = nextOrder
      /\ DOMAIN class' = (0 .. nextOrder - 1) \cup {nextOrder}
      /\ DOMAIN class = 0 .. nextOrder - 1
      /\ class'[nextOrder] = k
      /\ \A n \in 0 .. nextOrder - 1 : class'[n] = class[n]
      /\ nextOrder \in Nat /\ nextOrder' = nextOrder + 1
  BY <1>0, AddEffect
<1>3. Busy' = {w}
  BY <1>0, <1>1, BusyAfter
<1>4. \A c \in Classes : Typed(c) = NewestOf(Added(c))
  BY <1>1 DEF SequentialInv, Sequential
<1>5. nextOrder \notin 0 .. nextOrder - 1
  BY <1>2
<1>6. \A p : <<nextOrder, p>> \notin quads
  BY <1>0, <1>5 DEF TypeOK
<1>7. ASSUME NEW c \in Classes PROVE Typed(c)' = Typed(c)
  BY <1>0, <1>2, <1>6 DEF Typed, Holds
<1>8. ASSUME NEW c \in Classes, c # k PROVE Added(c)' = Added(c)
  BY <1>2, <1>8 DEF Added
<1>9. Added(k)' \ {nextOrder} = Added(k)
  BY <1>2, <1>5 DEF Added
<1>10. ClassOf(w)' = k /\ Others(w)' = Added(k)
  BY <1>2, <1>9 DEF ClassOf, Others
<1>11. \A n, p : <<n, p>> \in quads' => <<n, 1>> \in quads'
  BY <1>0, <1>1 DEF SequentialInv, Sequential
<1>12. ASSUME NEW c \in Classes, \A v \in Busy' : ClassOf(v)' # c
       PROVE  Typed(c)' = NewestOf(Added(c)')
  <2>1. c # k
    BY <1>3, <1>10, <1>12
  <2>. QED
    BY <1>4, <1>7, <1>8, <2>1
<1>13. /\ writers'[w].node = nextOrder' - 1
       /\ ~ (writers'[w].done >= 1)
       /\ Typed(ClassOf(w))' = NewestOf(Others(w)')
       /\ writers'[w].pc # "deleting"
  <2>1. Typed(ClassOf(w))' = Typed(k)'
    BY <1>10 DEF Typed
  <2>. QED
    BY <1>2, <1>4, <1>7, <1>10, <2>1
<1>14. (NewestOf(Others(w)))' = NewestOf(Others(w)')
  BY DEF NewestOf
<1>. QED
  BY <1>3, <1>11, <1>12, <1>13, <1>14 DEF Sequential

\* What the only addition in progress knows.
LEMMA OnlyOne ==
    ASSUME GraphTypes, Sequential, NEW w \in Busy
    PROVE  /\ Busy = {w}
           /\ w \in Writers
           /\ writers[w].node \in DOMAIN class
           /\ ClassOf(w) \in Classes
           /\ \A c \in Classes \ {ClassOf(w)} : Typed(c) = NewestOf(Added(c))
<1>1. Busy = {w}
  BY DEF Sequential
<1>2. writers[w].node \in DOMAIN class
  BY DEF GraphTypes, WritersInv
<1>3. ClassOf(w) \in Classes
  BY <1>2 DEF ClassOf, GraphTypes, TypeOK
<1>4. \A c \in Classes \ {ClassOf(w)} : Typed(c) = NewestOf(Added(c))
  BY <1>1 DEF Sequential
<1>. QED
  BY <1>1, <1>2, <1>3, <1>4 DEF Busy

\* The first quad of a record makes it counted, the others change nothing.
LEMMA InsertSequential ==
    ASSUME GraphTypes, SequentialInv, NEW w \in Writers, InsertQuad(w)
    PROVE  SequentialInv'
<1>. SUFFICES ASSUME ~ overlapped' PROVE Sequential'
  BY DEF SequentialInv
<1>. DEFINE x == writers[w].node
            d == writers[w].done
            k == ClassOf(w)
<1>0. TypeOK /\ w \in Busy /\ Busy' = Busy
  <2>1. TypeOK
    BY DEF GraphTypes
  <2>. QED
    BY <2>1, BusyAfter
<1>1. /\ writers'[w].node = x /\ writers'[w].done = d + 1
      /\ writers'[w].pc # "deleting"
      /\ quads' = quads \cup {<<x, d + 1>>}
      /\ class' = class /\ nextOrder' = nextOrder /\ overlapped' = overlapped
  BY <1>0, InsertEffect
<1>2. Sequential /\ d \in Nat
  BY <1>0, <1>1, GraphAssumption DEF SequentialInv, TypeOK, Places
<1>3. /\ Busy = {w} /\ x \in DOMAIN class /\ k \in Classes
      /\ \A c \in Classes \ {k} : Typed(c) = NewestOf(Added(c))
  BY <1>0, <1>2, OnlyOne
<1>4. \A n, p : <<n, p>> \in quads' <=> <<n, p>> \in quads \/ (n = x /\ p = d + 1)
  BY <1>1
<1>5. /\ x = nextOrder - 1
      /\ Typed(k) = IF d >= 1 THEN NewestOf(Others(w)) \cup {x} ELSE NewestOf(Others(w))
      /\ \A n, p : <<n, p>> \in quads => <<n, 1>> \in quads
  BY <1>0, <1>2 DEF Sequential
<1>6. k = class[x]
  BY DEF ClassOf
<1>7. \A c : Added(c)' = Added(c)
  BY <1>1 DEF Added
<1>8. ClassOf(w)' = k /\ Others(w)' = Others(w) /\ k' = k
  BY <1>1, <1>7 DEF ClassOf, Others
<1>9. <<x, 1>> \in quads'
  <2>1. CASE d = 0
    BY <1>4, <2>1
  <2>2. CASE d # 0
    <3>1. x \in Typed(k)
      BY <1>2, <1>5, <2>2
    <3>. QED
      BY <1>4, <3>1 DEF Typed, Holds
  <2>. QED
    BY <2>1, <2>2
<1>. HIDE DEF x, d, k
<1>10. ASSUME NEW c \in Classes, c # k PROVE Typed(c)' = Typed(c)
  BY <1>1, <1>4, <1>6, <1>10 DEF Typed, Holds
<1>11. Typed(k)' = NewestOf(Others(w)) \cup {x}
  <2>1. Typed(k)' = Typed(k) \cup {x}
    <3>1. \A n : n # x => (<<n, 1>> \in quads' <=> <<n, 1>> \in quads)
      BY <1>4
    <3>. QED
      BY <1>1, <1>3, <1>6, <1>8, <1>9, <3>1 DEF Typed, Holds
  <2>. QED
    BY <1>5, <2>1
<1>12. ASSUME NEW n, NEW p, <<n, p>> \in quads' PROVE <<n, 1>> \in quads'
  BY <1>4, <1>5, <1>9, <1>12
<1>13. ASSUME NEW c \in Classes, \A v \in Busy' : ClassOf(v)' # c
       PROVE  Typed(c)' = NewestOf(Added(c)')
  <2>1. c # k
    BY <1>0, <1>8, <1>13
  <2>. QED
    BY <1>3, <1>7, <1>10, <2>1
<1>14. /\ writers'[w].node = nextOrder' - 1
       /\ writers'[w].done >= 1
       /\ Typed(ClassOf(w))' = NewestOf(Others(w)') \cup {writers'[w].node}
       /\ writers'[w].pc # "deleting"
  <2>1. Typed(ClassOf(w))' = Typed(k)'
    BY <1>8 DEF Typed
  <2>2. d + 1 >= 1
    BY <1>2 DEF d
  <2>. QED
    BY <1>1, <1>5, <1>8, <1>11, <2>1, <2>2
<1>15. (NewestOf(Others(w)))' = NewestOf(Others(w)')
  BY DEF NewestOf
<1>16. Busy' = {w}
  BY <1>0, <1>3
<1>. QED
  BY <1>12, <1>13, <1>14, <1>15, <1>16 DEF Sequential

\* The record being added is younger than every other of its class.
LEMMA YoungestOfClass ==
    ASSUME TypeOK, NEW w \in Writers, writers[w].node = nextOrder - 1,
           writers[w].node \in DOMAIN class
    PROVE  /\ nextOrder \in Nat
           /\ Others(w) \in SUBSET (0 .. nextOrder - 1)
           /\ writers[w].node \in 0 .. nextOrder - 1
           /\ \A n \in Others(w) : n < writers[w].node
           /\ Others(w) \cup {writers[w].node} = Added(ClassOf(w))
<1>1. nextOrder \in Nat /\ DOMAIN class = 0 .. nextOrder - 1
  BY GraphAssumption DEF TypeOK
<1>2. \A n \in 0 .. nextOrder - 1 : n # nextOrder - 1 => n < nextOrder - 1
  BY <1>1
<1>. QED
  BY <1>1, <1>2 DEF Others, Added, ClassOf

\* An addition that counts no excess ends with its class exact.
LEMMA CountSequential ==
    ASSUME GraphTypes, SequentialInv, NEW w \in Writers, CountOfType(w)
    PROVE  SequentialInv'
<1>. SUFFICES ASSUME ~ overlapped' PROVE Sequential'
  BY DEF SequentialInv
<1>. DEFINE x == writers[w].node
            k == ClassOf(w)
<1>0. /\ TypeOK /\ writers[w].pc = "counting" /\ w \in Busy
      /\ writers[w].done >= 1
  <2>1. TypeOK /\ writers[w].pc = "counting" /\ w \in Busy /\ writers[w].done = Last
    BY DEF GraphTypes, WritersInv, CountOfType, Busy
  <2>2. Last >= 1
    BY GraphAssumption DEF Last
  <2>. QED
    BY <2>1, <2>2
<1>1. /\ IF Excess(k) > 0
         THEN writers'[w] \in [pc : {"deleting"}, node : {x},
                               done : {writers[w].done}, excess : {Excess(k)}]
         ELSE writers'[w] = Idle
      /\ UNCHANGED <<nextOrder, class, quads, overlapped>>
  BY <1>0, CountEffect DEF ClassOf
<1>2. Sequential
  BY <1>1 DEF SequentialInv
<1>3. /\ Busy = {w} /\ x \in DOMAIN class /\ k \in Classes
      /\ \A c \in Classes \ {k} : Typed(c) = NewestOf(Added(c))
  BY <1>0, <1>2, OnlyOne
<1>4. /\ x = nextOrder - 1
      /\ Typed(k) = NewestOf(Others(w)) \cup {x}
      /\ \A n, p : <<n, p>> \in quads => <<n, 1>> \in quads
  BY <1>0, <1>2 DEF Sequential
<1>5. \A c : Typed(c)' = Typed(c) /\ Added(c)' = Added(c) /\ Excess(c)' = Excess(c)
  BY <1>1 DEF Typed, Holds, Added, Excess
<1>6. \A n, p : <<n, p>> \in quads' => <<n, 1>> \in quads'
  BY <1>1, <1>4
<1>7. CASE Excess(k) > 0
  <2>1. /\ writers'[w].pc = "deleting" /\ writers'[w].node = x
        /\ writers'[w].done = writers[w].done /\ writers'[w].excess = Excess(k)
    BY <1>1, <1>7
  <2>2. Busy' = {w}
    BY <1>0, <1>3, <2>1, BusyAfter DEF Busy
  <2>3. ClassOf(w)' = k /\ Others(w)' = Others(w) /\ k' = k
    BY <1>1, <1>5, <2>1 DEF ClassOf, Others
  <2>. HIDE DEF x, k
  <2>4. ASSUME NEW c \in Classes, \A v \in Busy' : ClassOf(v)' # c
        PROVE  Typed(c)' = NewestOf(Added(c)')
    BY <1>3, <1>5, <2>2, <2>3, <2>4
  <2>5. /\ writers'[w].node = nextOrder' - 1
        /\ writers'[w].done >= 1
        /\ Typed(ClassOf(w))' = NewestOf(Others(w)') \cup {writers'[w].node}
        /\ writers'[w].excess = Excess(ClassOf(w))'
    <3>1. Typed(ClassOf(w))' = Typed(k)' /\ Excess(ClassOf(w))' = Excess(k)'
      BY <2>3 DEF Typed, Excess
    <3>2. Typed(k)' = Typed(k) /\ Excess(k)' = Excess(k)
      BY <1>1, <2>3 DEF Typed, Holds, Excess
    <3>. QED
      BY <1>0, <1>1, <1>4, <2>1, <2>3, <3>1, <3>2
  <2>6. (NewestOf(Others(w)))' = NewestOf(Others(w)')
    BY DEF NewestOf
  <2>. QED
    BY <1>6, <2>2, <2>4, <2>5, <2>6 DEF Sequential
<1>8. CASE ~ (Excess(k) > 0)
  <2>1. writers'[w].pc = "idle"
    BY <1>1, <1>8, IdleLocal
  <2>2. Busy' = {}
    BY <1>0, <1>3, <2>1, BusyAfter DEF Busy
  <2>3. Typed(k) = NewestOf(Added(k))
    <3>1. /\ nextOrder \in Nat
          /\ Others(w) \in SUBSET (0 .. nextOrder - 1)
          /\ x \in 0 .. nextOrder - 1
          /\ \A n \in Others(w) : n < x
          /\ Others(w) \cup {x} = Added(k)
      BY <1>0, <1>3, <1>4, YoungestOfClass
    <3>2. Cardinality(Typed(k)) <= Cap
      BY <1>0, <1>8, TypedFits, GraphAssumption DEF Excess
    <3>. HIDE DEF x, k
    <3>3. Typed(k) = NewestOf(Others(w) \cup {x})
      BY <1>4, <3>1, <3>2, EvictionLeavesNewest
    <3>. QED
      BY <3>1, <3>3
  <2>4. ASSUME NEW c \in Classes PROVE Typed(c)' = NewestOf(Added(c)')
    <3>. HIDE DEF k
    <3>. QED
      BY <1>3, <1>5, <2>3
  <2>. QED
    BY <1>6, <2>2, <2>4 DEF Sequential
<1>. QED
  BY <1>7, <1>8

\* An eviction with no other addition in progress leaves its class exact, and
\* nothing of what it took.
LEMMA DeleteSequential ==
    ASSUME GraphTypes, InsertionInv, SequentialInv, NEW w \in Writers, DeleteOldest(w)
    PROVE  SequentialInv'
<1>. SUFFICES ASSUME ~ overlapped' PROVE Sequential'
  BY DEF SequentialInv
<1>. DEFINE x == writers[w].node
            k == ClassOf(w)
<1>0. /\ TypeOK /\ writers[w].pc = "deleting" /\ w \in Busy
      /\ writers[w].done >= 1 /\ writers[w].excess >= 1
  <2>1. /\ TypeOK /\ writers[w].pc = "deleting" /\ w \in Busy
        /\ writers[w].done = Last /\ writers[w].excess >= 1
    BY DEF GraphTypes, WritersInv, DeleteOldest, Busy
  <2>2. Last >= 1
    BY GraphAssumption DEF Last
  <2>. QED
    BY <2>1, <2>2
<1>1. UNCHANGED <<nextOrder, class, overlapped>>
  BY DEF DeleteOldest
<1>2. Sequential
  BY <1>1 DEF SequentialInv
<1>3. /\ Busy = {w} /\ x \in DOMAIN class /\ k \in Classes
      /\ \A c \in Classes \ {k} : Typed(c) = NewestOf(Added(c))
  BY <1>0, <1>2, OnlyOne
<1>4. /\ x = nextOrder - 1
      /\ Typed(k) = NewestOf(Others(w)) \cup {x}
      /\ \A n, p : <<n, p>> \in quads => <<n, 1>> \in quads
      /\ writers[w].excess = Excess(k)
  BY <1>0, <1>2 DEF Sequential
<1>5. Busy' = {} /\ \A c : Added(c)' = Added(c)
  BY <1>0, <1>1, <1>3, BusyAfter DEF Added
<1>6. \A n : ~ \E v \in Writers : Inserts(v, n)
  BY <1>0, <1>3 DEF Inserts, Busy
<1>7. Sortable(k) = Typed(k)
  BY <1>6 DEF Sortable, Typed, InsertionInv
<1>8. Victims(w) = Oldest(Typed(k), Excess(k))
  BY <1>4, <1>7 DEF Victims, ClassOf
<1>9. /\ \A n \in DOMAIN class, p \in {1, 2, 3} :
            <<n, p>> \in quads' <=> <<n, p>> \in quads /\ n \notin Victims(w)
      /\ \A n, p : n \notin Victims(w) => (<<n, p>> \in quads' <=> <<n, p>> \in quads)
      /\ \A n \in Victims(w) :
            n \in DOMAIN class /\ <<n, 1>> \in quads /\ <<n, 2>> \in quads
  BY <1>0, DeletedQuads
<1>10. \A c : Typed(c)' = Typed(c) \ Victims(w)
  BY <1>1, <1>9 DEF Typed, Holds
<1>11. Typed(k) \ Victims(w) = NewestOf(Added(k))
  <2>1. /\ nextOrder \in Nat
        /\ Others(w) \in SUBSET (0 .. nextOrder - 1)
        /\ x \in 0 .. nextOrder - 1
        /\ \A n \in Others(w) : n < x
        /\ Others(w) \cup {x} = Added(k)
    BY <1>0, <1>3, <1>4, YoungestOfClass
  <2>. DEFINE T == Typed(k)
  <2>2. Cardinality(T) \in Nat /\ Cap \in Nat
    BY <1>0, TypedFits, GraphAssumption
  <2>3. Excess(k) = Cardinality(T) - Cap /\ Excess(k) >= 1
    BY <1>0, <1>4 DEF Excess
  <2>4. T = NewestOf(Others(w)) \cup {x}
    BY <1>4
  <2>. HIDE DEF x, k, T
  <2>5. Cardinality(T) > Cap
    BY <2>2, <2>3
  <2>6. T \ Oldest(T, Cardinality(T) - Cap) = NewestOf(Others(w) \cup {x})
    BY <2>1, <2>4, <2>5, EvictionLeavesNewest
  <2>7. Victims(w) = Oldest(T, Cardinality(T) - Cap)
    BY <1>8, <2>3 DEF T
  <2>. QED
    BY <2>1, <2>6, <2>7 DEF T
<1>12. ASSUME NEW c \in Classes PROVE Typed(c)' = NewestOf(Added(c)')
  <2>1. CASE c = k
    BY <1>5, <1>10, <1>11, <2>1
  <2>2. CASE c # k
    <3>1. Typed(c) \ Victims(w) = Typed(c)
      BY <1>8, <2>2 DEF Oldest, Typed
    <3>. HIDE DEF k
    <3>. QED
      BY <1>3, <1>5, <1>10, <2>2, <3>1
  <2>. QED
    BY <2>1, <2>2
<1>13. ASSUME NEW n, NEW p, <<n, p>> \in quads' PROVE <<n, 1>> \in quads'
  <2>1. <<n, p>> \in quads
    BY <1>13 DEF DeleteOldest
  <2>2. ASSUME n \in Victims(w) PROVE FALSE
    <3>1. \A q \in Places : Holds(n, q)
      BY <1>6, <1>9, <2>2 DEF InsertionInv, Holds
    <3>2. \A j \in 1 .. Credentials : Link(j) \in Places
      BY GraphAssumption DEF Link, Places
    <3>3. <<n, p>> \in QuadsOf(n)
      BY <2>1, <3>1, <3>2 DEF QuadsOf
    <3>4. quads' = quads \ UNION {QuadsOf(m) : m \in Victims(w)}
      BY DEF DeleteOldest, Victims
    <3>. QED
      BY <1>13, <2>2, <3>3, <3>4
  <2>. QED
    BY <1>4, <1>9, <2>1, <2>2
<1>. QED
  BY <1>5, <1>12, <1>13 DEF Sequential

\* "Back down to the cap before this returns", "oldest evicted first", and no
\* child triples left as orphans: as long as no two additions overlap, a class
\* holds exactly its newest Cap records whenever no addition is in progress, and
\* every quad in the store belongs to one of them.
THEOREM OneAtATimeIsExact == Spec => []SequentialIsExact
<1>1. Init => GraphInv /\ SequentialInv
  BY InitTypes, InitInsertion, InitCap, InitSequential DEF GraphInv
<1>2. ASSUME GraphInv, SequentialInv, [Next]_vars PROVE SequentialInv'
  <2>0. GraphTypes /\ InsertionInv
    BY <1>2 DEF GraphInv
  <2>1. ASSUME NEW w \in Writers, AddBatch(w) \/ AddOffer(w) PROVE SequentialInv'
    <3>1. PICK c \in Classes : NextOrder(w, c)
      BY <2>1 DEF AddBatch, AddOffer, Classes
    <3>. QED
      BY <1>2, <2>0, <3>1, AddSequential
  <2>2. ASSUME NEW w \in Writers, InsertQuad(w) PROVE SequentialInv'
    BY <1>2, <2>0, <2>2, InsertSequential
  <2>3. ASSUME NEW w \in Writers, CountOfType(w) PROVE SequentialInv'
    BY <1>2, <2>0, <2>3, CountSequential
  <2>4. ASSUME NEW w \in Writers, DeleteOldest(w) PROVE SequentialInv'
    BY <1>2, <2>0, <2>4, DeleteSequential
  <2>5. ASSUME UNCHANGED vars PROVE SequentialInv'
    BY <1>2, <2>5 DEF vars, SequentialInv, Sequential, Busy, ClassOf, Others, Added, Typed,
                      Holds, Excess, NewestOf
  <2>. QED
    BY <1>2, <2>1, <2>2, <2>3, <2>4, <2>5 DEF Next
<1>3. GraphInv /\ SequentialInv => SequentialIsExact
  <2>. SUFFICES ASSUME GraphInv, Sequential, Busy = {}
       PROVE  /\ \A c \in Classes : Typed(c) = NewestOf(Added(c))
              /\ \A q \in quads : Holds(q[1], 1)
    BY DEF SequentialIsExact, SequentialInv, NewestKept, NoOrphans, NewestOf
  <2>1. \A q \in quads : q = <<q[1], q[2]>>
    BY DEF GraphInv, GraphTypes, TypeOK
  <2>. QED
    BY <2>1 DEF Sequential, Holds
<1>. QED
  BY <1>1, <1>2, <1>3, GraphSafe, PTL DEF Spec
=============================================================================
