--------------------------- MODULE CredentialGraph ---------------------------
(***************************************************************************)
(* The credential graph of a Credential Service (identity-hub-graph,       *)
(* store.rs): the RDF store behind the Storage API (`add_batch`) and the   *)
(* Credential Offer API (`add_offer`), with the cap each class of record   *)
(* has.  No lock is held across an addition: the quads of a record are     *)
(* inserted one by one, then the nodes of its class are counted, then one  *)
(* SPARQL update deletes the excess; each of these is atomic in the store, *)
(* and the handlers that call them run in parallel.                        *)
(*                                                                         *)
(* Abstractions: a record is named by its `ds:order` number; its quads by  *)
(* their place in the order of insertion, with quads that no query tells   *)
(* apart taken together:                                                   *)
(*   1        rdf:type, which the cap counts                               *)
(*   2        the id and ds:order, which eviction sorts by                 *)
(*   3        the fields every query of the class requires                 *)
(*   2j + 2   the link to credential j                                     *)
(*   2j + 3   the quads of credential j                                    *)
(***************************************************************************)
EXTENDS Integers, FiniteSets

CONSTANTS
    Writers,        \* requests that add to the graph at one time
    Credentials,    \* credentials in each record
    Cap,            \* MAX_CREDENTIAL_BATCHES, MAX_ACCEPTED_OFFERS
    MaxRecords      \* bound of the model: records ever added

ASSUME GraphAssumption ==
    /\ Credentials \in Nat
    /\ Cap \in Nat \ {0}
    /\ MaxRecords \in Nat

VARIABLES
    nextOrder,  \* next_order
    class,      \* the class of each record added so far
    quads,      \* the store: <<record, place>> for each quad in it
    writers,    \* the local state of each addition in progress
    overlapped  \* history: an addition has begun while another was in progress

vars == <<nextOrder, class, quads, writers, overlapped>>

-----------------------------------------------------------------------------
\* ds:CredentialBatch and ds:AcceptedCredentialOffer.
Classes == {"batch", "offer"}

Places == 1 .. 3 + 2 * Credentials

Link(j)       == 2 * j + 2
Credential(j) == 2 * j + 3

Idle == [pc |-> "idle", node |-> 0, done |-> 0, excess |-> 0]

TypeOK ==
    /\ nextOrder \in 0 .. MaxRecords
    /\ class \in [0 .. nextOrder - 1 -> Classes]
    /\ quads \in SUBSET ((0 .. nextOrder - 1) \X Places)
    /\ writers \in [Writers -> [pc     : {"idle", "inserting", "counting",
                                          "deleting"},
                                node   : 0 .. MaxRecords,
                                done   : Places \cup {0},
                                excess : 0 .. MaxRecords]]
    /\ overlapped \in BOOLEAN

Init ==
    /\ nextOrder = 0
    /\ class = [n \in {} |-> {}]
    /\ quads = {}
    /\ writers = [w \in Writers |-> Idle]
    /\ overlapped = FALSE

-----------------------------------------------------------------------------
(* Queries *)

Holds(n, place) == <<n, place>> \in quads

\* The nodes count_of_type counts for class c.
Typed(c) == {n \in DOMAIN class : class[n] = c /\ Holds(n, 1)}

\* A variant that sorts before it selects the class.
SortableAnyClass(c) == {n \in DOMAIN class : Holds(n, 1) /\ Holds(n, 2)}

\* The nodes of class c that eviction can sort.
Sortable(c) == {n \in Typed(c) : Holds(n, 2)}

\* A variant that orders the other way round.
OldestReversed(S, k) == {n \in S : Cardinality({m \in S : m > n}) < k}

\* The k oldest nodes of S.
Oldest(S, k) == {n \in S : Cardinality({m \in S : m < n}) < k}

\* A query lists a record that has its order and its fields.
Batches == {n \in DOMAIN class : class[n] = "batch" /\ Holds(n, 2) /\ Holds(n, 3)}
Offers  == {n \in DOMAIN class : class[n] = "offer" /\ Holds(n, 2) /\ Holds(n, 3)}

\* The credentials a query shows for a record it lists.
Shown(n) == {j \in 1 .. Credentials : Holds(n, Link(j)) /\ Holds(n, Credential(j))}

-----------------------------------------------------------------------------
(* add_batch and add_offer *)

NextOrder(w, c) ==
    /\ writers[w].pc = "idle"
    /\ nextOrder < MaxRecords
    /\ nextOrder' = nextOrder + 1
    /\ class' = [n \in 0 .. nextOrder |-> IF n = nextOrder THEN c ELSE class[n]]
    /\ writers' = [writers EXCEPT ![w] = [Idle EXCEPT !.pc = "inserting",
                                                      !.node = nextOrder]]
    /\ overlapped' = (overlapped \/ \E v \in Writers : writers[v].pc # "idle")
    /\ UNCHANGED quads

AddBatch(w) == NextOrder(w, "batch")
AddOffer(w) == NextOrder(w, "offer")

InsertQuad(w) ==
    /\ writers[w].pc = "inserting"
    /\ LET place == writers[w].done + 1
       IN  /\ quads' = quads \cup {<<writers[w].node, place>>}
           /\ writers' = [writers EXCEPT
                            ![w].done = place,
                            ![w].pc = IF place = 3 + 2 * Credentials
                                      THEN "counting" ELSE "inserting"]
    /\ UNCHANGED <<nextOrder, class, overlapped>>

\* A variant that tolerates one node more than the cap.
ExcessLate(c) == Cardinality(Typed(c)) - (Cap + 1)

\* checked_sub: negative stands for None.
Excess(c) == Cardinality(Typed(c)) - Cap

CountOfType(w) ==
    /\ writers[w].pc = "counting"
    /\ LET excess == Excess(class[writers[w].node])
       IN  writers' = [writers EXCEPT
                         ![w] = IF excess > 0
                                THEN [@ EXCEPT !.pc = "deleting", !.excess = excess]
                                ELSE Idle]
    /\ UNCHANGED <<nextOrder, class, quads, overlapped>>

\* A variant that deletes the node and leaves its credentials.
QuadsOfNodeOnly(n) == {q \in quads : q[1] = n /\ (q[2] <= 3 \/ q[2] % 2 = 0)}

\* A variant that deletes the credentials and leaves the node.
QuadsOfCredentialsOnly(n) == {q \in quads : q[1] = n /\ q[2] > 3}

\* What the update deletes of node n: its own quads, and those of a credential
\* the node is linked to.
QuadsOf(n) ==
    {q \in quads :
        /\ q[1] = n
        /\ \A j \in 1 .. Credentials : q[2] = Credential(j) => Holds(n, Link(j))}

DeleteOldest(w) ==
    /\ writers[w].pc = "deleting"
    /\ LET victims == Oldest(Sortable(class[writers[w].node]), writers[w].excess)
       IN  quads' = quads \ UNION {QuadsOf(n) : n \in victims}
    /\ writers' = [writers EXCEPT ![w] = Idle]
    /\ UNCHANGED <<nextOrder, class, overlapped>>

-----------------------------------------------------------------------------
Next ==
    \E w \in Writers :
        \/ AddBatch(w)
        \/ AddOffer(w)
        \/ InsertQuad(w)
        \/ CountOfType(w)
        \/ DeleteOldest(w)

Spec == Init /\ [][Next]_vars

-----------------------------------------------------------------------------
(* Properties *)

Busy == {w \in Writers : writers[w].pc # "idle"}

Added(c) == {n \in DOMAIN class : class[n] = c}

\* A class exceeds its cap by at most the additions in progress, so the store
\* stays bounded however many requests write at one time.
CapPlusBusy ==
    /\ TypeOK
    /\ \A c \in Classes : Cardinality(Typed(c)) <= Cap + Cardinality(Busy)

\* Eviction takes the oldest of the class the writer added to, and nothing of
\* another class.
OldestGoFirstStep ==
    \A c \in Classes :
        LET gone == Sortable(c) \ Sortable(c)'
        IN  /\ \A n \in gone, m \in Sortable(c)' : n < m
            /\ gone # {} =>
                  \E w \in Writers : /\ writers[w].pc = "deleting"
                                     /\ writers'[w].pc = "idle"
                                     /\ class[writers[w].node] = c
OldestGoFirst == [][OldestGoFirstStep]_vars

\* "back down to the cap before this returns", "oldest evicted first": when no
\* addition is in progress a class holds exactly its newest Cap records.
NewestKept ==
    Busy = {} =>
        \A c \in Classes :
            Typed(c) = {n \in Added(c) :
                           Cardinality({m \in Added(c) : m > n}) < Cap}

\* "otherwise those child triples would leak as orphans": when no addition is
\* in progress every quad belongs to a record the cap counts.
NoOrphans == Busy = {} => \A q \in quads : Holds(q[1], 1)

\* While additions never overlap both hold: each class keeps exactly its newest
\* records and eviction leaves nothing behind.
SequentialIsExact == ~overlapped => NewestKept /\ NoOrphans

\* A record that a query lists shows every credential it was added with, unless
\* its own addition is still in progress: eviction never leaves a listed record
\* in part, even one it met half inserted.
ListedIsWhole ==
    \A n \in Batches \cup Offers :
        \/ Shown(n) = 1 .. Credentials
        \/ \E w \in Writers : writers[w].pc = "inserting" /\ writers[w].node = n
=============================================================================
