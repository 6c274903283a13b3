--------------------------- MODULE McdbMmapProofs ---------------------------
(***************************************************************************)
(* Lemmas about the chain of memory maps of McdbMmap, for any number of    *)
(* maps: what following map->next visits, and what dropping a reference    *)
(* does to the chain.                                                      *)
(***************************************************************************)
EXTENDS McdbMmap, FiniteSetTheorems, NaturalsInduction, WellFoundedInduction, TLAPS

-----------------------------------------------------------------------------
(* Chains.                                                                 *)

\* Every nonempty set of naturals has a least element.
LEMMA LeastElement == ASSUME NEW T \in SUBSET Nat, T # {}
                      PROVE  \E x \in T : \A y \in T : x =< y
<1>1. IsWellFoundedOn(OpToRel(<, Nat), Nat)
  BY NatLessThanWellFounded
<1>2. \E x \in T : \A y \in T : ~ (<<y, x>> \in OpToRel(<, Nat))
  BY <1>1, WFMin, Zenon
<1>3. PICK x \in T : \A y \in T : ~ (<<y, x>> \in OpToRel(<, Nat))
  BY <1>2
<1>4. \A y \in T : ~ (y < x)
  BY <1>3 DEF OpToRel
<1> QED BY <1>4

\* nxt links lo .. hi into one list.
Linked(nxt, lo, hi) ==
    \A x \in lo .. hi : nxt[x] = IF x = hi THEN NULL ELSE x + 1

\* Following the links from m visits exactly m .. hi.
LEMMA ReachLinked ==
    ASSUME NEW lo \in Maps, NEW hi \in Maps, NEW m \in lo .. hi,
           NEW nxt, Linked(nxt, lo, hi)
    PROVE  Reach(nxt, m) = m .. hi
<1> USE BoundsAssumption, NullAssumption DEF Maps
<1>1. ASSUME NEW x \in Reach(nxt, m) PROVE x \in m .. hi
  <2>1. m .. hi \in SUBSET Maps /\ m \in m .. hi
    OBVIOUS
  <2>2. \A y \in m .. hi : nxt[y] \in Maps => nxt[y] \in m .. hi
    BY DEF Linked
  <2>3. \A S \in SUBSET Maps :
          (m \in S /\ \A y \in S : nxt[y] \in Maps => nxt[y] \in S) => x \in S
    BY <1>1 DEF Reach
  <2> QED BY <2>1, <2>2, <2>3, Zenon
<1>2. ASSUME NEW x \in m .. hi PROVE x \in Reach(nxt, m)
  <2>1. SUFFICES ASSUME NEW S \in SUBSET Maps, m \in S,
                        \A y \in S : nxt[y] \in Maps => nxt[y] \in S,
                        x \notin S
                 PROVE  FALSE
    BY DEF Reach
  <2>2. PICK z \in (m .. hi) \ S : \A y \in (m .. hi) \ S : z =< y
    <3>1. (m .. hi) \ S \in SUBSET Nat /\ (m .. hi) \ S # {}
      BY <2>1
    <3> QED BY <3>1, LeastElement
  <2>3. z - 1 \in m .. hi /\ z - 1 \in S
    BY <2>1, <2>2
  <2>4. nxt[z - 1] = z
    BY <2>2, <2>3 DEF Linked
  <2> QED BY <2>1, <2>2, <2>3, <2>4
<1> QED BY <1>1, <1>2

\* The walk to the end of the chain ends at hi.
LEMMA TailLinked ==
    ASSUME NEW lo \in Maps, NEW hi \in Maps, NEW m \in lo .. hi,
           Linked(next, lo, hi)
    PROVE  Tail(m) = hi
<1> USE BoundsAssumption, NullAssumption DEF Maps
<1>1. Reach(next, m) = m .. hi
  BY ReachLinked
<1>2. \A x \in m .. hi : next[x] = NULL <=> x = hi
  BY DEF Linked
<1> QED BY <1>1, <1>2 DEF Tail

\* What dropping a reference on m does to the chain lo .. hi, when m was the
\* only map that may have fallen out of use and some map is still in use:
\* the chain that remains is l .. hi, starting with a map in use, and the
\* unused maps before it are left for t to free.
LEMMA DropRefChain ==
    ASSUME MmapTypeOK,
           NEW lo \in Maps, NEW hi \in Maps, NEW m \in lo .. hi, NEW t \in Procs,
           NEW rc \in [Maps -> Nat], NEW re \in [Maps -> BOOLEAN],
           Linked(next, lo, hi),
           \A x \in lo .. hi : newer[x] <=> x # lo,
           m = lo \/ InUse(rc, re, lo),
           \E u \in lo .. hi : InUse(rc, re, u),
           DropRef(rc, re, m, t)
    PROVE  /\ refcnt' = rc /\ reopening' = re
           /\ next' \in [Maps -> Maps \cup {NULL}]
           /\ newer' \in [Maps -> BOOLEAN]
           /\ \A x \in Maps : x > hi => next'[x] = next[x] /\ newer'[x] = newer[x]
           /\ \E l \in lo .. hi :
                /\ InUse(rc, re, l)
                /\ \A x \in lo .. (l - 1) : ~InUse(rc, re, x)
                /\ Linked(next', l, hi)
                /\ \A x \in l .. hi : newer'[x] <=> x # l
                /\ todo' = IF l = lo THEN todo
                           ELSE [todo EXCEPT ![t] = lo .. (l - 1)]
<1> USE BoundsAssumption, NullAssumption
<1> DEFINE Goal(l) ==
                /\ InUse(rc, re, l)
                /\ \A x \in lo .. (l - 1) : ~InUse(rc, re, x)
                /\ Linked(next', l, hi)
                /\ \A x \in l .. hi : newer'[x] <=> x # l
                /\ todo' = IF l = lo THEN todo
                           ELSE [todo EXCEPT ![t] = lo .. (l - 1)]
<1>0. lo \in lo .. hi /\ m \in Maps /\ lo .. hi \subseteq Maps
  BY DEF Maps
<1>1. CASE ~WordZero(rc, re, m)
  <2>1. UNCHANGED <<next, newer, todo>> /\ refcnt' = rc /\ reopening' = re
    BY <1>1 DEF DropRef
  <2>2. InUse(rc, re, lo)
    BY <1>0, <1>1 DEF WordZero, InUse
  <2>3. Goal(lo)
    BY <2>1, <2>2, <1>0 DEF Linked, Maps
  <2> QED BY <2>1, <2>3, <1>0 DEF MmapTypeOK
<1>2. CASE WordZero(rc, re, m)
  <2>1. Release(rc, re, m, t) /\ refcnt' = rc /\ reopening' = re
    BY <1>2 DEF DropRef
  <2>2. m = lo /\ ~InUse(rc, re, lo)
    BY <1>2, <1>0 DEF WordZero, InUse
  <2>3. PICK l \in (lo + 1) .. hi :
           /\ InUse(rc, re, l)
           /\ \A y \in (lo + 1) .. hi : InUse(rc, re, y) => l =< y
    <3> DEFINE T == {u \in (lo + 1) .. hi : InUse(rc, re, u)}
    <3>1. PICK u \in lo .. hi : InUse(rc, re, u)
      OBVIOUS
    <3>2. u \in T
      BY <3>1, <2>2 DEF Maps
    <3>3. T \in SUBSET Nat
      BY DEF Maps
    <3>4. PICK l \in T : \A y \in T : l =< y
      BY <3>2, <3>3, LeastElement
    <3> QED BY <3>4
  <2>4. l \in Maps /\ l \in lo .. hi
    BY <2>3 DEF Maps
  <2>5. \A x \in lo .. hi : Reach(next, x) = x .. hi
    BY ReachLinked
  <2>6. Reach(next, m) \ {m} = (lo + 1) .. hi
    BY <2>2, <2>5, <1>0 DEF Maps
  <2>7. Kept(rc, re, m) = l .. hi
    <3>1. \A u \in (lo + 1) .. hi : Reach(next, u) = u .. hi
      BY <2>5 DEF Maps
    <3>2. Kept(rc, re, m) = {x \in Maps : \E u \in (lo + 1) .. hi :
                                 InUse(rc, re, u) /\ x \in u .. hi}
      BY <2>6, <3>1 DEF Kept
    <3>3. \A x \in Maps : x \in l .. hi <=>
             \E u \in (lo + 1) .. hi : InUse(rc, re, u) /\ x \in u .. hi
      BY <2>3, <2>4 DEF Maps
    <3>4. l .. hi \subseteq Maps
      BY <2>4 DEF Maps
    <3> QED BY <3>2, <3>3, <3>4
  <2>8. Popped(rc, re, m) = (lo + 1) .. (l - 1)
    BY <2>6, <2>7, <2>3 DEF Popped, Maps
  <2>9. newer' = [x \in Maps |-> newer[x] /\
                       ~(x \in l .. hi /\ l .. hi \subseteq Reach(next, x))]
    BY <2>1, <2>7 DEF Release
  <2>10. \A x \in l .. hi : l .. hi \subseteq Reach(next, x) <=> x = l
    <3>1. \A x \in l .. hi : Reach(next, x) = x .. hi
      BY <2>4, <2>5 DEF Maps
    <3>2. \A x \in l .. hi : l .. hi \subseteq x .. hi <=> x = l
      BY <2>4 DEF Maps
    <3> QED BY <3>1, <3>2
  <2>11. todo' = [todo EXCEPT ![t] = lo .. (l - 1)]
    <3>1. ((lo + 1) .. (l - 1)) \cup {m} = lo .. (l - 1)
      BY <2>2, <2>3 DEF Maps
    <3> QED BY <2>1, <2>8, <3>1 DEF Release
  <2>12. \A x \in Maps : x >= l => next'[x] = next[x]
    <3>1. \A x \in Maps : x >= l => x # m /\ x \notin (lo + 1) .. (l - 1)
      BY <2>2, <2>3 DEF Maps
    <3>2. next' = [x \in Maps |->
              CASE x = m -> PickOrNull({y \in (lo + 1) .. (l - 1) :
                                          next[y] \notin (lo + 1) .. (l - 1)})
                [] x \in (lo + 1) .. (l - 1) ->
                     PickOrNull({y \in (lo + 1) .. (l - 1) : next[y] = x})
                [] OTHER -> next[x]]
      BY <2>1, <2>8 DEF Release
    <3> QED BY <3>1, <3>2
  <2>13. next' \in [Maps -> Maps \cup {NULL}]
    <3>1. \A S \in SUBSET Maps : PickOrNull(S) \in Maps \cup {NULL}
      BY DEF PickOrNull
    <3>2. Popped(rc, re, m) \in SUBSET Maps
      BY <2>8, <2>4 DEF Maps
    <3> DEFINE gone == Popped(rc, re, m)
    <3>3. PickOrNull({y \in gone : next[y] \notin gone}) \in Maps \cup {NULL}
      BY <3>1, <3>2
    <3>4. \A x : PickOrNull({y \in gone : next[y] = x}) \in Maps \cup {NULL}
      BY <3>1, <3>2
    <3>5. \A x \in Maps : next[x] \in Maps \cup {NULL}
      BY DEF MmapTypeOK
    <3>6. next' = [x \in Maps |->
              CASE x = m -> PickOrNull({y \in gone : next[y] \notin gone})
                [] x \in gone -> PickOrNull({y \in gone : next[y] = x})
                [] OTHER -> next[x]]
      BY <2>1 DEF Release
    <3> HIDE DEF gone
    <3> QED BY <3>3, <3>4, <3>5, <3>6
  <2>14. newer' \in [Maps -> BOOLEAN]
    BY <2>9, Zenon
  <2>15. Linked(next', l, hi)
    BY <2>12, <2>3, <2>4 DEF Linked, Maps
  <2>16. \A x \in Maps : x \in l .. hi => (newer'[x] <=> (newer[x] /\ x # l))
    BY <2>9, <2>10
  <2>17. \A x \in l .. hi : newer'[x] <=> x # l
    BY <2>16, <2>3, <2>4 DEF Maps
  <2>18. \A x \in Maps : x > hi => next'[x] = next[x] /\ newer'[x] = newer[x]
    <3>1. \A x \in Maps : x > hi => x >= l /\ x \notin l .. hi
      BY <2>3 DEF Maps
    <3>2. \A x \in Maps : newer[x] \in BOOLEAN
      BY DEF MmapTypeOK
    <3>3. \A x \in Maps : x > hi => newer'[x] = newer[x]
      BY <3>1, <3>2, <2>9, Zenon
    <3> QED BY <3>1, <3>3, <2>12
  <2>19. \A x \in lo .. (l - 1) : ~InUse(rc, re, x)
    BY <2>2, <2>3 DEF Maps
  <2>20. Goal(l)
    BY <2>3, <2>11, <2>15, <2>17, <2>19 DEF Maps
  <2> QED BY <2>1, <2>4, <2>13, <2>14, <2>18, <2>20
<1> QED BY <1>1, <1>2
=============================================================================
