----------------------------- MODULE StatusList -----------------------------
(***************************************************************************)
(* The issuer's StatusList2021 revocation list (issuer.rs, `StatusList`),  *)
(* as operators on one record:                                             *)
(*   bits    the indexes whose revocation bit is set,                      *)
(*   next    `next_index`, the lowest index never handed out,              *)
(*   free    the indexes handed back by a failed delivery,                 *)
(*   cached  `cached_jwt`: {} when no signed list is cached, otherwise     *)
(*           {b}, where b is the set of bits the cached JWT publishes.     *)
(* The gzip/base64url encoding of the bitstring and the signature are      *)
(* injective in `bits`, so a signed list is represented by the bits in it. *)
(***************************************************************************)
EXTENDS Naturals

CONSTANT StatusListBits     \* STATUS_LIST_BITS: how many indexes the list has

ASSUME StatusListBitsAssumption == StatusListBits \in Nat \ {0}

Indexes == 0 .. StatusListBits - 1

StatusLists == [bits   : SUBSET Indexes,
                next   : 0 .. StatusListBits,
                free   : SUBSET Indexes,
                cached : SUBSET SUBSET Indexes]

EmptyStatusList == [bits |-> {}, next |-> 0, free |-> {}, cached |-> {}]

Lowest(S) == CHOOSE i \in S : \A j \in S : i <= j

(***************************************************************************)
(* allocate(): the lowest freed index first, then the next fresh one, and  *)
(* None once every index is spent.                                         *)
(***************************************************************************)
\* A variant that tests the bound one index too late.
CanAllocateOffByOne(sl) == sl.free # {} \/ sl.next <= StatusListBits

CanAllocate(sl) == sl.free # {} \/ sl.next < StatusListBits

AllocatedIndex(sl) == IF sl.free # {} THEN Lowest(sl.free) ELSE sl.next

\* A variant that reads the lowest freed index without popping it.
AllocateKeepsFree(sl) ==
    IF sl.free # {} THEN sl ELSE [sl EXCEPT !.next = @ + 1]

Allocate(sl) ==
    IF sl.free # {} THEN [sl EXCEPT !.free = @ \ {AllocatedIndex(sl)}]
                    ELSE [sl EXCEPT !.next = @ + 1]

\* release() of each index of I, under one acquisition of the lock.
Release(sl, I) ==
    [sl EXCEPT !.free = @ \cup {i \in I : i < sl.next /\ i \notin sl.bits}]

\* A variant that keeps serving the JWT signed before the bit changed.
SetBitKeepsCache(sl, i) == [sl EXCEPT !.bits = @ \cup {i}]

\* A variant in which revoking a second time clears the bit.
SetBitToggles(sl, i) ==
    [sl EXCEPT !.bits = IF i \in @ THEN @ \ {i} ELSE @ \cup {i}, !.cached = {}]

\* set(): only a bit that changes drops the cached JWT.
SetBit(sl, i) ==
    IF i \in sl.bits THEN sl
    ELSE [sl EXCEPT !.bits = @ \cup {i}, !.cached = {}]

\* GET /statuslist/revocation: answer the cached JWT, or sign one and cache it.
Publish(sl) ==
    IF sl.cached # {} THEN sl ELSE [sl EXCEPT !.cached = {sl.bits}]
=============================================================================
