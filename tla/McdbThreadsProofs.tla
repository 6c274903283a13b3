------------------------- MODULE McdbThreadsProofs -------------------------
(***************************************************************************)
(* Proofs about McdbThreads, for any number of threads, maps and updates:  *)
(* IInv is inductive, and the safety properties follow from it; threads    *)
(* move to later contents only, and mcdb_mmap_destroy leaves nothing       *)
(* behind.                                                                 *)
(***************************************************************************)
EXTENDS McdbThreads, McdbMmapProofs

-----------------------------------------------------------------------------
(* Counting holders.                                                       *)

\* Holders, for given places at and pointers ptrs of the threads.
HoldersIn(at, ptrs, x) == {t \in Procs : at[t] \in Registered /\ ptrs[t] = x}

Held(at, ptrs, x) == Cardinality(HoldersIn(at, ptrs, x))

\* The threads registered on a map are finitely many, so that the count kept in
\* map->refcnt has a number to equal.
LEMMA HoldersFinite ==
    ASSUME NEW at, NEW ptrs, NEW x
    PROVE  IsFiniteSet(HoldersIn(at, ptrs, x)) /\ Held(at, ptrs, x) \in Nat
<1>1. HoldersIn(at, ptrs, x) \in SUBSET Procs
  BY DEF HoldersIn
<1> QED BY <1>1, FiniteAssumption, FS_Subset, FS_CardinalityType DEF Held

\* One more holder, and one less.
LEMMA HoldersAdd ==
    ASSUME NEW at, NEW ptrs, NEW at2, NEW ptrs2, NEW x, NEW t,
           t \notin HoldersIn(at, ptrs, x),
           HoldersIn(at2, ptrs2, x) = HoldersIn(at, ptrs, x) \cup {t}
    PROVE  Held(at2, ptrs2, x) = Held(at, ptrs, x) + 1
BY HoldersFinite, FS_AddElement DEF Held

\* One registered thread less on a map: the number of holders falls by one, as
\* --map->refcnt does.
LEMMA HoldersRemove ==
    ASSUME NEW at, NEW ptrs, NEW at2, NEW ptrs2, NEW x, NEW t,
           t \in HoldersIn(at, ptrs, x),
           HoldersIn(at2, ptrs2, x) = HoldersIn(at, ptrs, x) \ {t}
    PROVE  Held(at2, ptrs2, x) = Held(at, ptrs, x) - 1
BY HoldersFinite, FS_RemoveElement DEF Held

\* A map somebody is registered on has a number of holders other than zero, so
\* that its last reference is not gone.
LEMMA HoldersNonzero ==
    ASSUME NEW at, NEW ptrs, NEW x, NEW t, t \in HoldersIn(at, ptrs, x)
    PROVE  Held(at, ptrs, x) # 0
BY HoldersFinite, FS_EmptySet DEF Held

\* Only t changes its place or its pointer.
OthersStay(t, at, ptrs, at2, ptrs2) ==
    \A s \in Procs : s # t => at2[s] = at[s] /\ ptrs2[s] = ptrs[s]

\* The counts rc agree with the threads registered.
Counted(rc, at, ptrs) ==
    rc \in [Maps -> Nat] /\ \A x \in Maps : rc[x] = Held(at, ptrs, x)

\* A registered thread that moves from map m to map n takes its reference
\* along.
LEMMA HoldersMove ==
    ASSUME NEW rc, NEW at, NEW ptrs, NEW at2, NEW ptrs2, Counted(rc, at, ptrs),
           NEW t \in Procs, NEW m \in Maps, NEW n \in Maps, m # n,
           OthersStay(t, at, ptrs, at2, ptrs2),
           at[t] \in Registered, ptrs[t] = m,
           at2[t] \in Registered, ptrs2[t] = n
    PROVE  Counted([rc EXCEPT ![n] = @ + 1, ![m] = @ - 1], at2, ptrs2)
<1>1. HoldersIn(at2, ptrs2, m) = HoldersIn(at, ptrs, m) \ {t}
  BY DEF HoldersIn, OthersStay
<1>2. HoldersIn(at2, ptrs2, n) = HoldersIn(at, ptrs, n) \cup {t}
  BY DEF HoldersIn, OthersStay
<1>3. \A x \in Maps : x # m /\ x # n =>
          HoldersIn(at2, ptrs2, x) = HoldersIn(at, ptrs, x)
  BY DEF HoldersIn, OthersStay
<1>4. t \in HoldersIn(at, ptrs, m) /\ t \notin HoldersIn(at, ptrs, n)
  BY DEF HoldersIn
<1>5. Held(at2, ptrs2, m) = Held(at, ptrs, m) - 1
  BY <1>1, <1>4, HoldersRemove
<1>6. Held(at2, ptrs2, n) = Held(at, ptrs, n) + 1
  BY <1>2, <1>4, HoldersAdd
<1>7. \A x \in Maps : x # m /\ x # n => Held(at2, ptrs2, x) = Held(at, ptrs, x)
  BY <1>3 DEF Held
<1>8. Held(at2, ptrs2, m) \in Nat
  BY HoldersFinite
<1> QED BY <1>5, <1>6, <1>7, <1>8 DEF Counted

\* A registered thread that leaves gives up one reference.
LEMMA HoldersLeave ==
    ASSUME NEW rc, NEW at, NEW ptrs, NEW at2, NEW ptrs2, Counted(rc, at, ptrs),
           NEW t \in Procs, NEW m \in Maps,
           OthersStay(t, at, ptrs, at2, ptrs2),
           at[t] \in Registered, ptrs[t] = m, at2[t] \notin Registered
    PROVE  Counted([rc EXCEPT ![m] = @ - 1], at2, ptrs2)
<1>1. HoldersIn(at2, ptrs2, m) = HoldersIn(at, ptrs, m) \ {t}
  BY DEF HoldersIn, OthersStay
<1>2. \A x \in Maps : x # m => HoldersIn(at2, ptrs2, x) = HoldersIn(at, ptrs, x)
  BY DEF HoldersIn, OthersStay
<1>3. t \in HoldersIn(at, ptrs, m)
  BY DEF HoldersIn
<1>4. Held(at2, ptrs2, m) = Held(at, ptrs, m) - 1
  BY <1>1, <1>3, HoldersRemove
<1>5. \A x \in Maps : x # m => Held(at2, ptrs2, x) = Held(at, ptrs, x)
  BY <1>2 DEF Held
<1>6. Held(at2, ptrs2, m) \in Nat
  BY HoldersFinite
<1> QED BY <1>4, <1>5, <1>6 DEF Counted

\* A thread that joins on map n adds one reference.
LEMMA HoldersJoin ==
    ASSUME NEW rc, NEW at, NEW ptrs, NEW at2, NEW ptrs2, Counted(rc, at, ptrs),
           NEW t \in Procs, NEW n \in Maps,
           OthersStay(t, at, ptrs, at2, ptrs2),
           at[t] \notin Registered, at2[t] \in Registered, ptrs2[t] = n
    PROVE  Counted([rc EXCEPT ![n] = @ + 1], at2, ptrs2)
<1>1. HoldersIn(at2, ptrs2, n) = HoldersIn(at, ptrs, n) \cup {t}
  BY DEF HoldersIn, OthersStay
<1>2. \A x \in Maps : x # n => HoldersIn(at2, ptrs2, x) = HoldersIn(at, ptrs, x)
  BY DEF HoldersIn, OthersStay
<1>3. t \notin HoldersIn(at, ptrs, n)
  BY DEF HoldersIn
<1>4. Held(at2, ptrs2, n) = Held(at, ptrs, n) + 1
  BY <1>1, <1>3, HoldersAdd
<1>5. \A x \in Maps : x # n => Held(at2, ptrs2, x) = Held(at, ptrs, x)
  BY <1>2 DEF Held
<1> QED BY <1>4, <1>5 DEF Counted

\* A step of t between two registered places changes no count.
LEMMA HoldersStay ==
    ASSUME NEW rc, NEW at, NEW ptrs, NEW at2, NEW ptrs2, Counted(rc, at, ptrs),
           NEW t \in Procs, OthersStay(t, at, ptrs, at2, ptrs2),
           at[t] \in Registered, at2[t] \in Registered, ptrs2[t] = ptrs[t]
    PROVE  Counted(rc, at2, ptrs2)
<1>1. \A x \in Maps : HoldersIn(at2, ptrs2, x) = HoldersIn(at, ptrs, x)
  BY DEF HoldersIn, OthersStay
<1>2. \A x \in Maps : Held(at2, ptrs2, x) = Held(at, ptrs, x)
  BY <1>1 DEF Held
<1> QED BY <1>2 DEF Counted

\* A counted map with a holder has a count other than zero.
LEMMA HoldersCounted ==
    ASSUME NEW rc, NEW at, NEW ptrs, Counted(rc, at, ptrs),
           NEW t \in Procs, at[t] \in Registered, ptrs[t] \in Maps
    PROVE  rc[ptrs[t]] # 0
<1>1. t \in HoldersIn(at, ptrs, ptrs[t])
  BY DEF HoldersIn
<1> QED BY <1>1, HoldersNonzero DEF Counted

-----------------------------------------------------------------------------
(* The steps, one lemma for each kind.                                     *)

\* The place names are distinct.
LEMMA Places ==
    /\ {"reg", "moving", "reopen", "opening", "opened", "published"} = Registered
    /\ Registered \subseteq PCs
    /\ "out" \notin Registered /\ "destroyed" \notin Registered
    /\ "out" \in PCs /\ "destroyed" \in PCs
BY DEF Registered, PCs

\* What IInv says while Maint is active, with the ends of the chain named.
Chain(lo, hi) ==
    /\ lo =< hi
    /\ ChainShape(lo, hi)
    /\ ThreadsOnChain(lo, hi)
    /\ Unpublished(hi)

Active(lo, hi) ==
    /\ TypeOK
    /\ fsec =< fver
    /\ \A t \in Queriers : pc[t] # "destroyed"
    /\ pc[Maint] \in Registered
    /\ Counted(refcnt, pc, map)
    /\ OneReopener
    /\ lo \in Maps /\ hi \in Maps
    /\ Chain(lo, hi)

\* The count of holders used in the lemmas says what RefcntExact says of
\* map->refcnt.
LEMMA ActiveRefcnt ==
    ASSUME TypeOK PROVE (pc[Maint] # "destroyed" => Counted(refcnt, pc, map))
                            <=> RefcntExact
BY DEF RefcntExact, Counted, Holders, HoldersIn, Held, TypeOK, MmapTypeOK

\* Until mcdb_mmap_destroy, the invariant gives a chain lo .. hi of maps for
\* the lemmas on the single steps to talk about.
LEMMA ActiveChain == IInv /\ ~AllGone => \E lo, hi : Active(lo, hi)
BY Places, ActiveRefcnt DEF IInv, ChainInv, Active, Chain

\* A registered thread on a superseded map moves to the end of the chain:
\* mcdb_thread_refresh_self, or either lock of mcdb_mmap_reopen_threadsafe.
LEMMA MoveStep ==
    ASSUME NEW lo, NEW hi, Active(lo, hi), NEW t \in Procs,
           NEW from \in {"moving", "reopen", "published"},
           NEW re \in [Maps -> BOOLEAN],
           Goes(t, from, "reg"), next[map[t]] # NULL,
           RegisterIncr(t, re, t), LockedFrame,
           \A x \in Maps : re[x] = reopening[x] \/
                           (from = "published" /\ x = map[t] /\ ~re[x])
    PROVE  IInv'
<1> USE BoundsAssumption, NullAssumption, ThreadsAssumption
<1>0. PICK m : m = map[t]
  OBVIOUS
<1> DEFINE rc == [refcnt EXCEPT ![hi] = @ + 1, ![m] = @ - 1]
<1>1. /\ TypeOK /\ MmapTypeOK /\ lo \in Maps /\ hi \in Maps
      /\ pc[t] = from /\ pc[t] \in Registered
      /\ pc' = [pc EXCEPT ![t] = "reg"]
      /\ todo[t] = {}
      /\ Linked(next, lo, hi)
  BY Places DEF Active, Goes, TypeOK, Chain, ChainShape, Linked
<1>2. m \in lo .. hi /\ m \in Maps /\ m # hi /\ hi \in lo .. hi
  BY <1>0, <1>1 DEF Active, Chain, ThreadsOnChain, Linked, Maps
<1>3. Tail(m) = hi
  BY <1>1, <1>2, TailLinked
<1>4. map' = [map EXCEPT ![t] = hi] /\ DropRef(rc, re, m, t)
  BY <1>0, <1>3 DEF RegisterIncr, RegisterIncrInto
<1>5. Counted(rc, pc', map')
  <2>1. OthersStay(t, pc, map, pc', map') /\ pc'[t] \in Registered /\ map'[t] = hi
    BY <1>1, <1>4, Places DEF OthersStay, TypeOK, MmapTypeOK
  <2>2. Counted(refcnt, pc, map)
    BY DEF Active
  <2> QED BY ONLY <1>0, <1>1, <1>2, <2>1, <2>2, t \in Procs, HoldersMove
<1>6. rc \in [Maps -> Nat]
  BY <1>5 DEF Counted
<1>7. refcnt \in [Maps -> Nat]
  BY <1>1 DEF MmapTypeOK
<1>8. m = lo \/ InUse(rc, re, lo)
  BY <1>0, <1>2, <1>1, <1>7 DEF Active, Chain, ChainShape, InUse, Maps
<1>9. InUse(rc, re, hi)
  BY <1>2, <1>1, <1>7 DEF InUse
<1>10. \A x \in lo .. hi : newer[x] <=> x # lo
  BY DEF Active, Chain, ChainShape
<1> HIDE DEF rc
<1>11. /\ refcnt' = rc /\ reopening' = re
       /\ next' \in [Maps -> Maps \cup {NULL}]
       /\ newer' \in [Maps -> BOOLEAN]
       /\ \A x \in Maps : x > hi => next'[x] = next[x] /\ newer'[x] = newer[x]
       /\ \E l \in lo .. hi :
            /\ InUse(rc, re, l)
            /\ \A x \in lo .. (l - 1) : ~InUse(rc, re, x)
            /\ Linked(next', l, hi)
            /\ \A x \in l .. hi : newer'[x] <=> x # l
            /\ todo' = IF l = lo THEN todo ELSE [todo EXCEPT ![t] = lo .. (l - 1)]
  BY <1>1, <1>2, <1>4, <1>6, <1>8, <1>9, <1>10, DropRefChain
<1>12. PICK l \in lo .. hi :
            /\ InUse(rc, re, l)
            /\ \A x \in lo .. (l - 1) : ~InUse(rc, re, x)
            /\ Linked(next', l, hi)
            /\ \A x \in l .. hi : newer'[x] <=> x # l
            /\ todo' = IF l = lo THEN todo ELSE [todo EXCEPT ![t] = lo .. (l - 1)]
  BY <1>11
<1>13. l \in Maps /\ l =< hi /\ lo =< l /\ lo .. (l - 1) \subseteq Maps
  BY <1>1, <1>12 DEF Maps
<1>14. TypeOK'
  <2>1. MmapTypeOK'
    BY <1>1, <1>2, <1>4, <1>6, <1>11, <1>12, <1>13
       DEF MmapTypeOK, LockedFrame, fileVars
  <2> QED BY <2>1, <1>1, Places DEF TypeOK, LockedFrame
<1>15. \A s \in Procs : s # t => pc'[s] = pc[s] /\ map'[s] = map[s]
  BY <1>1, <1>4 DEF TypeOK, MmapTypeOK
<1>16. pc'[t] = "reg" /\ map'[t] = hi
  BY <1>1, <1>4 DEF TypeOK, MmapTypeOK
<1>17. \A s \in Procs : pc'[s] \in Registered => map'[s] \in l .. hi
  <2>0. hi \in l .. hi
    BY <1>1, <1>13 DEF Maps
  <2> SUFFICES ASSUME NEW s \in Procs, pc'[s] \in Registered, s # t
               PROVE  map[s] \in l .. hi
    BY <1>15, <1>16, <2>0
  <2>1. map[s] \in lo .. hi /\ map'[s] = map[s] /\ pc'[s] = pc[s]
    BY <1>15 DEF Active, Chain, ThreadsOnChain
  <2>2. map[s] \in Maps
    BY <2>1, <1>1 DEF Maps
  <2>3. rc[map'[s]] # 0
    BY <1>5, <2>1, <2>2, HoldersCounted
  <2>4. InUse(rc, re, map[s])
    BY <2>1, <2>3 DEF InUse
  <2> QED BY <2>1, <2>4, <1>12, <1>13 DEF Maps
<1>18. \A s \in Procs : todo'[s] \subseteq 1 .. (l - 1)
  <2>1. \A s \in Procs : todo[s] \subseteq 1 .. (lo - 1)
    BY DEF Active, Chain, ThreadsOnChain
  <2>2. 1 .. (lo - 1) \subseteq 1 .. (l - 1) /\ lo .. (l - 1) \subseteq 1 .. (l - 1)
    BY <1>1, <1>13 DEF Maps
  <2>3. todo \in [Procs -> SUBSET Maps]
    BY <1>1 DEF MmapTypeOK
  <2> QED BY <1>12, <2>1, <2>2, <2>3
<1>19. ThreadsOnChain(l, hi)'
  <2>1. \A s \in Procs : pc'[s] \in {"moving", "published"} => map'[s] # hi
    BY <1>15, <1>16 DEF Active, Chain, ThreadsOnChain
  <2>2. \A s \in Procs : pc'[s] \in {"opening", "opened"} => map'[s] = hi
    BY <1>15, <1>16 DEF Active, Chain, ThreadsOnChain
  <2>3. \A s \in Procs : pc'[s] \in {"opening", "opened", "published"} =>
                           re[map'[s]]
    <3> SUFFICES ASSUME NEW s \in Procs, s # t,
                        pc[s] \in {"opening", "opened", "published"}
                 PROVE  re[map[s]]
      BY <1>15, <1>16
    <3>1. reopening[map[s]] /\ map[s] \in lo .. hi /\ map[s] \in Maps
      BY <1>1, Places DEF Active, Chain, ThreadsOnChain, Maps
    <3>2. from = "published" => map[s] # map[t]
      BY <1>1 DEF Active, OneReopener
    <3> QED BY <3>1, <3>2
  <2> QED BY <1>11, <1>17, <1>18, <2>1, <2>2, <2>3 DEF ThreadsOnChain
<1>20. \A s \in Procs : pc'[s] = "opened" <=> pc[s] = "opened"
  BY <1>1, <1>15, <1>16
<1>21. Unpublished(hi)'
  <2>1. \A s \in Procs : pc[s] = "opened" => hi + 1 \in Maps /\ hi + 1 > hi
    BY <1>1 DEF Active, Chain, Unpublished, MmapTypeOK, Maps
  <2>2. \A s \in Procs : pc[s] = "opened" =>
            next'[hi + 1] = next[hi + 1] /\ newer'[hi + 1] = newer[hi + 1]
    BY <2>1, <1>11
  <2> QED BY <1>20, <2>1, <2>2 DEF Active, Chain, Unpublished, LockedFrame
<1>22. ChainShape(l, hi)'
  <2>1. \A x \in l .. hi : ptr[x] /\ mem[x] = "live"
    BY <1>1, <1>13 DEF Active, Chain, ChainShape, Maps
  <2>2. InUse(refcnt, reopening, l)'
    BY <1>11, <1>12 DEF InUse
  <2>3. \A x \in Maps : ptr[x] => x \in l .. hi \/ x \in InTransit'
    <3> SUFFICES ASSUME NEW x \in Maps, ptr[x], x \notin l .. hi
                 PROVE  x \in InTransit'
      OBVIOUS
    <3>0. x \in InTransit' <=> \/ \E s \in Procs : x \in todo'[s]
                              \/ \E s \in Procs : pc'[s] = "opened" /\ nx'[s] = x
      BY Zenon DEF InTransit
    <3>1. CASE x \in lo .. hi
      <4>1. l # lo /\ x \in lo .. (l - 1)
        BY <3>1, <1>1, <1>13 DEF Maps
      <4>2. x \in todo'[t]
        BY <4>1, <1>12, <1>1 DEF MmapTypeOK
      <4> QED BY <4>2, <3>0
    <3>2. CASE x \in InTransit
      <4>1. CASE \E s \in Procs : x \in todo[s]
        <5>1. PICK s \in Procs : x \in todo[s]
          BY <4>1
        <5>2. todo'[s] = todo[s]
          BY <5>1, <1>1, <1>12 DEF MmapTypeOK
        <5> QED BY <5>1, <5>2, <3>0
      <4>2. CASE \E s \in Procs : pc[s] = "opened" /\ nx[s] = x
        <5>1. \E s \in Procs : pc'[s] = "opened" /\ nx'[s] = x
          BY <4>2, <1>20 DEF LockedFrame
        <5> QED BY <5>1, <3>0
      <4> QED BY <3>2, <4>1, <4>2, Zenon DEF InTransit
    <3> QED BY <3>1, <3>2 DEF Active, Chain, ChainShape
  <2>4. \A x \in Maps : x > hi => ~re[x]
    BY <1>1, <1>2 DEF Active, Chain, ChainShape, Maps
  <2> QED BY <1>11, <1>12, <2>1, <2>2, <2>3, <2>4
          DEF ChainShape, LockedFrame, Linked
<1>23. OneReopener'
  BY <1>15, <1>16 DEF Active, OneReopener
<1>24. /\ (fsec =< fver)'
       /\ \A s \in Queriers : pc'[s] # "destroyed"
       /\ pc'[Maint] \in Registered
  BY <1>15, <1>16, Places DEF Active, LockedFrame, fileVars, Queriers
<1>25. Active(l, hi)'
  BY <1>1, <1>5, <1>11, <1>13, <1>14, <1>19, <1>21, <1>22, <1>23, <1>24
     DEF Active, Chain
<1> QED BY <1>25, Places DEF IInv, ChainInv, Active, Chain,
                                RefcntExact, Counted, Holders, HoldersIn, Held

\* A step that changes nothing but the place of a registered thread, between
\* places that claim no more than that it is registered ("moving": and on a
\* superseded map).
LEMMA PlaceStep ==
    ASSUME NEW lo, NEW hi, Active(lo, hi), NEW t \in Procs,
           NEW from \in {"reg", "reopen", "opening"},
           NEW to \in {"reg", "moving", "reopen"},
           Goes(t, from, to), UNCHANGED <<mmapVars, nx>>, nfail' \in 0 .. MaxFail,
           to = "moving" => next[map[t]] # NULL
    PROVE  IInv'
<1> USE BoundsAssumption, NullAssumption, ThreadsAssumption
<1>1. /\ TypeOK /\ pc[t] = from /\ pc[t] \in Registered
      /\ pc' = [pc EXCEPT ![t] = to] /\ to \in Registered
      /\ UNCHANGED mmapVars /\ nx' = nx
  BY Places DEF Active, Goes
<1>2. UNCHANGED <<map, ptr, next, refcnt, reopening, newer, ver, mtime, mem,
                  nmaps, fver, fsec, todo>>
  BY <1>1 DEF mmapVars
<1>3. \A s \in Procs : pc'[s] = IF s = t THEN to ELSE pc[s]
  BY <1>1 DEF TypeOK
<1>4. TypeOK'
  BY <1>1, <1>2, Places DEF TypeOK, MmapTypeOK
<1>5. Counted(refcnt, pc', map')
  <2>1. OthersStay(t, pc, map, pc', map') /\ pc'[t] \in Registered /\ map'[t] = map[t]
    BY <1>1, <1>2, <1>3 DEF OthersStay
  <2>2. Counted(refcnt, pc, map)
    BY DEF Active
  <2> QED BY ONLY <1>1, <2>1, <2>2, t \in Procs, HoldersStay
<1>6. \A s \in Procs : pc'[s] = "opened" <=> pc[s] = "opened"
  BY <1>1, <1>3
<1>7. InTransit' = InTransit
  BY <1>1, <1>2, <1>6 DEF InTransit
<1>8. ChainShape(lo, hi)'
  BY <1>2, <1>7 DEF Active, Chain, ChainShape, InUse
<1>9. to = "moving" => map[t] # hi
  <2>1. lo \in Maps /\ hi \in Maps /\ lo =< hi
    BY DEF Active, Chain
  <2>2. next[hi] = NULL
    BY <2>1 DEF Active, Chain, ChainShape, Maps
  <2> QED BY <2>2
<1>10. ThreadsOnChain(lo, hi)'
  <2>1. \A s \in Procs : pc'[s] \in Registered => pc[s] \in Registered
    BY <1>1, <1>3
  <2>2. \A s \in Procs : pc'[s] \in {"opening", "opened", "published"} =>
                           pc'[s] = pc[s] /\ s # t
    BY <1>3
  <2> QED BY <1>2, <1>3, <1>9, <2>1, <2>2 DEF Active, Chain, ThreadsOnChain
<1>11. Unpublished(hi)'
  BY <1>1, <1>2, <1>6 DEF Active, Chain, Unpublished
<1>12. OneReopener'
  BY <1>2, <1>3 DEF Active, OneReopener
<1>13. /\ (fsec =< fver)'
       /\ \A s \in Queriers : pc'[s] # "destroyed"
       /\ pc'[Maint] \in Registered
  BY <1>1, <1>2, <1>3 DEF Active, Queriers
<1>14. Active(lo, hi)'
  BY <1>2, <1>4, <1>5, <1>8, <1>10, <1>11, <1>12, <1>13 DEF Active, Chain
<1> QED BY <1>14, Places DEF IInv, ChainInv, Active, Chain,
                             RefcntExact, Counted, Holders, HoldersIn, Held

\* First lock of mcdb_mmap_reopen_threadsafe: the flag is taken on the last
\* map of the chain, where nobody has it.
LEMMA BeginStep ==
    ASSUME NEW lo, NEW hi, Active(lo, hi), NEW t \in Procs, ReopenBegin(t)
    PROVE  IInv'
<1> USE BoundsAssumption, NullAssumption, ThreadsAssumption
<1>1. /\ TypeOK /\ pc[t] = "reopen" /\ pc[t] \in Registered
      /\ pc' = [pc EXCEPT ![t] = "opening"] /\ "opening" \in Registered
      /\ next[map[t]] = NULL /\ ~reopening[map[t]]
      /\ reopening' = [reopening EXCEPT ![map[t]] = TRUE]
      /\ lo \in Maps /\ hi \in Maps
  BY Places DEF Active, Goes, ReopenBegin
<1>2. UNCHANGED <<map, ptr, next, refcnt, newer, ver, mtime, mem,
                  nmaps, fver, fsec, todo, nx, nfail>>
  BY DEF ReopenBegin, LockedFrame, fileVars
<1>3. \A s \in Procs : pc'[s] = IF s = t THEN "opening" ELSE pc[s]
  BY <1>1 DEF TypeOK
<1>4. map[t] = hi
  BY <1>1 DEF Active, Chain, ChainShape, ThreadsOnChain, Maps
<1>5. reopening'[hi] /\ \A x \in Maps : x # hi => reopening'[x] = reopening[x]
  BY <1>1, <1>4 DEF TypeOK, MmapTypeOK
<1>6. TypeOK'
  BY <1>1, <1>2, Places DEF TypeOK, MmapTypeOK
<1>7. Counted(refcnt, pc', map')
  <2>1. OthersStay(t, pc, map, pc', map') /\ pc'[t] \in Registered /\ map'[t] = map[t]
    BY <1>1, <1>2, <1>3 DEF OthersStay
  <2>2. Counted(refcnt, pc, map)
    BY DEF Active
  <2> QED BY ONLY <1>1, <2>1, <2>2, t \in Procs, HoldersStay
<1>8. \A s \in Procs : pc'[s] = "opened" <=> pc[s] = "opened"
  BY <1>1, <1>3
<1>9. InTransit' = InTransit
  BY <1>2, <1>8 DEF InTransit
<1>10. ChainShape(lo, hi)'
  <2>1. InUse(refcnt, reopening, lo)'
    <3>1. refcnt[lo] # 0 \/ reopening[lo]
      BY DEF Active, Chain, ChainShape, InUse
    <3>2. reopening[lo] => reopening'[lo]
      BY <1>1, <1>5
    <3> QED BY <1>2, <3>1, <3>2 DEF InUse
  <2>2. \A x \in Maps : x > hi => ~reopening'[x]
    <3>1. \A x \in Maps : x > hi => x # hi /\ ~reopening[x]
      BY <1>1 DEF Active, Chain, ChainShape, Maps
    <3> QED BY <3>1, <1>5
  <2> QED BY <1>2, <1>9, <2>1, <2>2 DEF Active, Chain, ChainShape
<1>11. ThreadsOnChain(lo, hi)'
  <2>1. \A s \in Procs : pc'[s] \in Registered => pc[s] \in Registered
    BY <1>1, <1>3
  <2>2. \A s \in Procs : pc[s] \in Registered => map[s] \in Maps
    BY <1>1 DEF Active, Chain, ThreadsOnChain, Maps
  <2>3. \A s \in Procs : pc'[s] \in {"opening", "opened", "published"} =>
                           reopening'[map[s]]
    <3> SUFFICES ASSUME NEW s \in Procs, s # t,
                        pc[s] \in {"opening", "opened", "published"}
                 PROVE  reopening'[map[s]]
      BY <1>1, <1>3, <1>4, <1>5
    <3>1. reopening[map[s]] /\ map[s] \in Maps
      BY <2>2, Places DEF Active, Chain, ThreadsOnChain
    <3> QED BY <3>1, <1>5
  <2> QED BY <1>2, <1>3, <1>4, <2>1, <2>3 DEF Active, Chain, ThreadsOnChain
<1>12. Unpublished(hi)'
  BY <1>2, <1>8 DEF Active, Chain, Unpublished
<1>13. OneReopener'
  <2>1. \A s \in Procs : s # t /\ pc[s] \in {"opening", "opened", "published"} =>
                           map[s] # map[t]
    BY <1>1 DEF Active, Chain, ThreadsOnChain
  <2> QED BY <1>2, <1>3, <2>1 DEF Active, OneReopener
<1>14. /\ (fsec =< fver)'
       /\ \A s \in Queriers : pc'[s] # "destroyed"
       /\ pc'[Maint] \in Registered
  BY <1>1, <1>2, <1>3 DEF Active, Queriers
<1>15. Active(lo, hi)'
  BY <1>2, <1>6, <1>7, <1>10, <1>11, <1>12, <1>13, <1>14 DEF Active, Chain
<1> QED BY <1>15, Places DEF IInv, ChainInv, Active, Chain,
                             RefcntExact, Counted, Holders, HoldersIn, Held

\* The new map is numbered next and belongs to t alone.
LEMMA MapStep ==
    ASSUME NEW lo, NEW hi, Active(lo, hi), NEW t \in Procs, ReopenMaps(t)
    PROVE  IInv'
<1> USE BoundsAssumption, NullAssumption, ThreadsAssumption
<1>1. /\ TypeOK /\ MmapTypeOK /\ pc[t] = "opening" /\ pc[t] \in Registered
      /\ pc' = [pc EXCEPT ![t] = "opened"] /\ "opened" \in Registered
      /\ lo \in Maps /\ hi \in Maps
      /\ nmaps < MaxMaps /\ nmaps' = nmaps + 1
  BY Places DEF Active, Goes, ReopenMaps, NewMap, TypeOK
<1>2. UNCHANGED <<map, reopening, fver, fsec, todo, nfail>>
  BY DEF ReopenMaps, fileVars
<1>3. \A s \in Procs : pc'[s] = IF s = t THEN "opened" ELSE pc[s]
  BY <1>1 DEF TypeOK
<1>4. map[t] = hi
  BY <1>1 DEF Active, Chain, ThreadsOnChain
<1>5. \A s \in Procs : pc[s] # "opened"
  BY <1>1, <1>4 DEF Active, Chain, ThreadsOnChain, OneReopener
<1>6. nmaps = hi /\ hi + 1 \in Maps
  BY <1>1, <1>5 DEF Active, Chain, Unpublished, Maps
<1>7. /\ mem' = [mem EXCEPT ![hi + 1] = "live"]
      /\ ptr' = [ptr EXCEPT ![hi + 1] = TRUE]
      /\ ver' = [ver EXCEPT ![hi + 1] = fver]
      /\ mtime' = [mtime EXCEPT ![hi + 1] = fsec]
      /\ next' = [next EXCEPT ![hi + 1] = NULL]
      /\ refcnt' = [refcnt EXCEPT ![hi + 1] = 0]
      /\ newer' = [newer EXCEPT ![hi + 1] = TRUE]
      /\ nx' = [nx EXCEPT ![t] = hi + 1]
  BY <1>6 DEF ReopenMaps, NewMap
<1>8. \A x \in Maps : x # hi + 1 =>
         /\ mem'[x] = mem[x] /\ ptr'[x] = ptr[x] /\ next'[x] = next[x]
         /\ refcnt'[x] = refcnt[x] /\ newer'[x] = newer[x]
  BY <1>1, <1>7 DEF MmapTypeOK
<1>9. /\ mem'[hi + 1] = "live" /\ ptr'[hi + 1] /\ next'[hi + 1] = NULL
      /\ newer'[hi + 1] /\ nx'[t] = hi + 1
  BY <1>1, <1>6, <1>7 DEF TypeOK, MmapTypeOK
<1>10. TypeOK'
  <2>1. MmapTypeOK'
    BY <1>1, <1>2, <1>6, <1>7 DEF MmapTypeOK
  <2> QED BY <1>1, <1>2, <1>6, <1>7, <2>1, Places DEF TypeOK
<1>11. refcnt' = refcnt
  <2>1. \A s \in Procs : ~(pc[s] \in Registered /\ map[s] = hi + 1)
    BY <1>1 DEF Active, Chain, ThreadsOnChain, Maps
  <2>2. HoldersIn(pc, map, hi + 1) = {}
    BY <2>1 DEF HoldersIn
  <2>3. refcnt[hi + 1] = 0
    BY <2>2, <1>6, FS_EmptySet DEF Active, Counted, Held
  <2> QED BY <1>1, <1>7, <2>3 DEF MmapTypeOK
<1>12. Counted(refcnt', pc', map')
  <2>1. OthersStay(t, pc, map, pc', map') /\ pc'[t] \in Registered /\ map'[t] = map[t]
    BY <1>1, <1>2, <1>3 DEF OthersStay
  <2>2. Counted(refcnt, pc, map)
    BY DEF Active
  <2>3. Counted(refcnt, pc', map')
    BY ONLY <1>1, <2>1, <2>2, t \in Procs, HoldersStay
  <2> QED BY <2>3, <1>11
<1>13. lo .. hi \subseteq Maps /\ hi + 1 \notin lo .. hi
  BY <1>1 DEF Maps
<1>14. ChainShape(lo, hi)'
  <2>1. /\ \A x \in lo .. hi : ptr'[x] /\ mem'[x] = "live"
        /\ \A x \in lo .. hi : next'[x] = IF x = hi THEN NULL ELSE x + 1
        /\ \A x \in lo .. hi : newer'[x] <=> x # lo
    BY <1>8, <1>13 DEF Active, Chain, ChainShape
  <2>2. InUse(refcnt, reopening, lo)'
    BY <1>2, <1>11 DEF Active, Chain, ChainShape, InUse
  <2>3. ASSUME NEW x \in Maps, ptr'[x], x \notin lo .. hi PROVE x \in InTransit'
    <3>1. CASE x = hi + 1
      BY <1>3, <1>9, <3>1 DEF InTransit
    <3>2. CASE x # hi + 1
      <4>1. PICK s \in Procs : x \in todo[s] \/ (pc[s] = "opened" /\ nx[s] = x)
        BY <2>3, <3>2, <1>8 DEF Active, Chain, ChainShape, InTransit
      <4>2. x \in todo'[s]
        BY <4>1, <1>2, <1>5
      <4> QED BY <4>2 DEF InTransit
    <3> QED BY <3>1, <3>2
  <2> QED BY <1>2, <2>1, <2>2, <2>3 DEF Active, Chain, ChainShape
<1>15. ThreadsOnChain(lo, hi)'
  <2>1. \A s \in Procs : pc'[s] \in Registered => pc[s] \in Registered
    BY <1>1, <1>3
  <2>2. \A s \in Procs : pc'[s] \in {"opening", "opened", "published"} =>
                           pc[s] \in {"opening", "opened", "published"}
    BY <1>1, <1>3
  <2>3. \A s \in Procs : pc'[s] \in {"moving", "published"} => s # t
    BY <1>3
  <2> QED BY <1>2, <1>3, <1>4, <2>1, <2>2, <2>3 DEF Active, Chain, ThreadsOnChain
<1>16. Unpublished(hi)'
  BY <1>1, <1>3, <1>5, <1>6, <1>9 DEF Unpublished
<1>17. OneReopener'
  BY <1>1, <1>2, <1>3 DEF Active, OneReopener
<1>18. /\ (fsec =< fver)'
       /\ \A s \in Queriers : pc'[s] # "destroyed"
       /\ pc'[Maint] \in Registered
  BY <1>1, <1>2, <1>3 DEF Active, Queriers
<1>19. Active(lo, hi)'
  BY <1>10, <1>12, <1>14, <1>15, <1>16, <1>17, <1>18 DEF Active, Chain
<1> QED BY <1>19, Places DEF IInv, ChainInv, Active, Chain,
                             RefcntExact, Counted, Holders, HoldersIn, Held

\* Publishing makes the new map the end of the chain.
LEMMA PublishStep ==
    ASSUME NEW lo, NEW hi, Active(lo, hi), NEW t \in Procs, ReopenPublishes(t)
    PROVE  IInv'
<1> USE BoundsAssumption, NullAssumption, ThreadsAssumption
<1>1. /\ TypeOK /\ MmapTypeOK /\ pc[t] = "opened" /\ pc[t] \in Registered
      /\ pc' = [pc EXCEPT ![t] = "published"] /\ "published" \in Registered
      /\ lo \in Maps /\ hi \in Maps
  BY Places DEF Active, Goes, ReopenPublishes, TypeOK
<1>2. UNCHANGED <<map, ptr, refcnt, reopening, newer, ver, mtime, mem, nmaps,
                  fver, fsec, todo, nfail>>
  BY DEF ReopenPublishes, fileVars
<1>3. \A s \in Procs : pc'[s] = IF s = t THEN "published" ELSE pc[s]
  BY <1>1 DEF TypeOK
<1>4. map[t] = hi /\ nx[t] = hi + 1 /\ nmaps = hi + 1
  BY <1>1 DEF Active, Chain, ThreadsOnChain, Unpublished
<1>5. hi + 1 \in Maps
  BY <1>1, <1>4 DEF MmapTypeOK, Maps
<1>6. /\ next' = [next EXCEPT ![hi] = hi + 1]
      /\ nx' = [nx EXCEPT ![t] = NULL]
  BY <1>4 DEF ReopenPublishes
<1>7. \A s \in Procs : s # t => pc[s] \notin {"opening", "opened"}
  BY <1>1, <1>4 DEF Active, Chain, ThreadsOnChain, OneReopener
<1>8. /\ ptr[hi + 1] /\ mem[hi + 1] = "live" /\ newer[hi + 1]
      /\ next[hi + 1] = NULL
  BY <1>1 DEF Active, Chain, Unpublished
<1>9. TypeOK'
  BY <1>1, <1>2, <1>5, <1>6, Places DEF TypeOK, MmapTypeOK
<1>10. Counted(refcnt', pc', map')
  <2>1. OthersStay(t, pc, map, pc', map') /\ pc'[t] \in Registered /\ map'[t] = map[t]
    BY <1>1, <1>2, <1>3 DEF OthersStay
  <2>2. Counted(refcnt, pc, map)
    BY DEF Active
  <2>3. Counted(refcnt, pc', map')
    BY ONLY <1>1, <2>1, <2>2, t \in Procs, HoldersStay
  <2> QED BY <2>3, <1>2
<1>11. \A x \in lo .. (hi + 1) : x \in lo .. hi \/ x = hi + 1
  BY <1>1 DEF Maps
<1>12. \A x \in lo .. hi : x \in Maps /\ x # hi + 1
  BY <1>1 DEF Maps
<1>13. ChainShape(lo, hi + 1)'
  <2>1. \A x \in lo .. (hi + 1) : ptr[x] /\ mem[x] = "live"
    BY <1>8, <1>11 DEF Active, Chain, ChainShape
  <2>2. \A x \in lo .. (hi + 1) : next'[x] = IF x = hi + 1 THEN NULL ELSE x + 1
    <3>1. \A x \in lo .. hi : next[x] = IF x = hi THEN NULL ELSE x + 1
      BY DEF Active, Chain, ChainShape
    <3>2. \A x \in Maps : next'[x] = IF x = hi THEN hi + 1 ELSE next[x]
      BY <1>1, <1>6 DEF MmapTypeOK
    <3>3. hi + 1 # hi
      BY <1>1 DEF Maps
    <3> QED BY <1>5, <1>8, <1>11, <1>12, <3>1, <3>2, <3>3
  <2>3. \A x \in lo .. (hi + 1) : newer[x] <=> x # lo
    <3>1. hi + 1 # lo
      BY <1>1 DEF Active, Chain, Maps
    <3> QED BY <1>8, <1>11, <3>1 DEF Active, Chain, ChainShape
  <2>4. InUse(refcnt, reopening, lo)'
    BY <1>2 DEF Active, Chain, ChainShape, InUse
  <2>5. ASSUME NEW x \in Maps, ptr[x], x \notin lo .. (hi + 1)
        PROVE  x \in InTransit'
    <3>1. x \notin lo .. hi /\ x # hi + 1
      BY <2>5, <1>1 DEF Active, Chain, Maps
    <3>2. PICK s \in Procs : x \in todo[s] \/ (pc[s] = "opened" /\ nx[s] = x)
      BY <2>5, <3>1 DEF Active, Chain, ChainShape, InTransit
    <3>3. x \in todo'[s]
      BY <3>1, <3>2, <1>2, <1>4, <1>7
    <3> QED BY <3>3 DEF InTransit
  <2>6. \A x \in Maps : x > hi + 1 => ~reopening[x]
    BY <1>1 DEF Active, Chain, ChainShape, Maps
  <2> QED BY <1>2, <2>1, <2>2, <2>3, <2>4, <2>5, <2>6 DEF ChainShape
<1>14. ThreadsOnChain(lo, hi + 1)'
  <2>1. \A s \in Procs : pc'[s] \in Registered => map[s] \in lo .. hi
    BY <1>1, <1>3 DEF Active, Chain, ThreadsOnChain
  <2>2. \A s \in Procs : pc'[s] \in Registered =>
                           map[s] \in lo .. (hi + 1) /\ map[s] # hi + 1
    BY <2>1, <1>1 DEF Maps
  <2>3. \A s \in Procs : pc'[s] \notin {"opening", "opened"}
    BY <1>3, <1>7
  <2>4. \A s \in Procs : pc'[s] \in {"opening", "opened", "published"} =>
                           reopening[map[s]]
    BY <1>1, <1>3 DEF Active, Chain, ThreadsOnChain
  <2>5. \A s \in Procs : todo[s] \subseteq 1 .. (lo - 1)
    BY DEF Active, Chain, ThreadsOnChain
  <2> QED BY <1>2, <2>2, <2>3, <2>4, <2>5, Places DEF ThreadsOnChain
<1>15. Unpublished(hi + 1)'
  BY <1>2, <1>3, <1>4, <1>7 DEF Unpublished
<1>16. OneReopener'
  BY <1>1, <1>2, <1>3 DEF Active, OneReopener
<1>17. /\ (fsec =< fver)'
       /\ \A s \in Queriers : pc'[s] # "destroyed"
       /\ pc'[Maint] \in Registered
  BY <1>1, <1>2, <1>3 DEF Active, Queriers
<1>18. lo =< hi + 1
  BY <1>1 DEF Active, Chain, Maps
<1>19. Active(lo, hi + 1)'
  BY <1>1, <1>5, <1>9, <1>10, <1>13, <1>14, <1>15, <1>16, <1>17, <1>18
     DEF Active, Chain
<1> QED BY <1>19, Places DEF IInv, ChainInv, Active, Chain,
                             RefcntExact, Counted, Holders, HoldersIn, Held

\* mcdb_thread_unregister: t gives up its reference; Maint still has one.
LEMMA LeaveStep ==
    ASSUME NEW lo, NEW hi, Active(lo, hi), NEW t \in Procs, Unregister(t)
    PROVE  IInv'
<1> USE BoundsAssumption, NullAssumption, ThreadsAssumption
<1>0. PICK m : m = map[t]
  OBVIOUS
<1> DEFINE rc == [refcnt EXCEPT ![m] = @ - 1]
           re == reopening
<1>1. /\ TypeOK /\ MmapTypeOK /\ lo \in Maps /\ hi \in Maps
      /\ pc[t] = "reg" /\ pc[t] \in Registered /\ t # Maint
      /\ pc' = [pc EXCEPT ![t] = "out"]
      /\ todo[t] = {}
      /\ Linked(next, lo, hi)
      /\ LockedFrame
  BY Places DEF Active, Goes, TypeOK, Chain, ChainShape, Linked, Unregister,
                Queriers
<1>2. m \in lo .. hi /\ m \in Maps
  BY <1>0, <1>1 DEF Active, Chain, ThreadsOnChain, Maps
<1>3. /\ map' \in [Procs -> Maps \cup {NULL}]
      /\ \A s \in Procs : s # t => pc'[s] = pc[s] /\ map'[s] = map[s]
      /\ pc'[t] = "out"
      /\ DropRef(rc, re, m, t)
  BY <1>0, <1>1 DEF Unregister, RegisterDecr, TypeOK, MmapTypeOK
<1>4. Counted(rc, pc', map')
  <2>1. OthersStay(t, pc, map, pc', map') /\ pc'[t] \notin Registered
    BY <1>3, Places DEF OthersStay
  <2>2. Counted(refcnt, pc, map)
    BY DEF Active
  <2> QED BY ONLY <1>0, <1>1, <1>2, <2>1, <2>2, t \in Procs, HoldersLeave
<1>5. rc \in [Maps -> Nat] /\ refcnt \in [Maps -> Nat] /\ re \in [Maps -> BOOLEAN]
  BY <1>1, <1>4 DEF Counted, MmapTypeOK
<1>6. m = lo \/ InUse(rc, re, lo)
  BY <1>1, <1>2, <1>5 DEF Active, Chain, ChainShape, InUse
<1> HIDE DEF rc
<1>7. \A s \in Procs : pc'[s] \in Registered =>
         map[s] \in lo .. hi /\ map'[s] = map[s] /\ InUse(rc, re, map[s])
  <2> SUFFICES ASSUME NEW s \in Procs, pc'[s] \in Registered
               PROVE  map[s] \in lo .. hi /\ map'[s] = map[s] /\ InUse(rc, re, map[s])
    OBVIOUS
  <2>1. map[s] \in lo .. hi /\ map'[s] = map[s]
    BY <1>3, Places DEF Active, Chain, ThreadsOnChain
  <2>2. map[s] \in Maps
    BY <2>1, <1>1 DEF Maps
  <2>3. rc[map'[s]] # 0
    BY <1>4, <2>1, <2>2, HoldersCounted
  <2> QED BY <2>1, <2>3 DEF InUse
<1>8. \E u \in lo .. hi : InUse(rc, re, u)
  BY <1>1, <1>3, <1>7 DEF Active
<1>9. \A x \in lo .. hi : newer[x] <=> x # lo
  BY DEF Active, Chain, ChainShape
<1>11. /\ refcnt' = rc /\ reopening' = re
       /\ next' \in [Maps -> Maps \cup {NULL}]
       /\ newer' \in [Maps -> BOOLEAN]
       /\ \A x \in Maps : x > hi => next'[x] = next[x] /\ newer'[x] = newer[x]
       /\ \E l \in lo .. hi :
            /\ InUse(rc, re, l)
            /\ \A x \in lo .. (l - 1) : ~InUse(rc, re, x)
            /\ Linked(next', l, hi)
            /\ \A x \in l .. hi : newer'[x] <=> x # l
            /\ todo' = IF l = lo THEN todo ELSE [todo EXCEPT ![t] = lo .. (l - 1)]
  BY <1>1, <1>2, <1>3, <1>5, <1>6, <1>8, <1>9, DropRefChain
<1>12. PICK l \in lo .. hi :
            /\ InUse(rc, re, l)
            /\ \A x \in lo .. (l - 1) : ~InUse(rc, re, x)
            /\ Linked(next', l, hi)
            /\ \A x \in l .. hi : newer'[x] <=> x # l
            /\ todo' = IF l = lo THEN todo ELSE [todo EXCEPT ![t] = lo .. (l - 1)]
  BY <1>11
<1>13. l \in Maps /\ l =< hi /\ lo =< l /\ lo .. (l - 1) \subseteq Maps
  BY <1>1, <1>12 DEF Maps
<1>14. TypeOK'
  <2>1. MmapTypeOK'
    BY <1>1, <1>3, <1>5, <1>11, <1>12, <1>13
       DEF MmapTypeOK, LockedFrame, fileVars
  <2> QED BY <2>1, <1>1, Places DEF TypeOK, LockedFrame
<1>17. \A s \in Procs : pc'[s] \in Registered => map'[s] \in l .. hi
  BY <1>7, <1>12, <1>13 DEF Maps
<1>18. \A s \in Procs : todo'[s] \subseteq 1 .. (l - 1)
  <2>1. \A s \in Procs : todo[s] \subseteq 1 .. (lo - 1)
    BY DEF Active, Chain, ThreadsOnChain
  <2>2. 1 .. (lo - 1) \subseteq 1 .. (l - 1) /\ lo .. (l - 1) \subseteq 1 .. (l - 1)
    BY <1>1, <1>13 DEF Maps
  <2>3. todo \in [Procs -> SUBSET Maps]
    BY <1>1 DEF MmapTypeOK
  <2> QED BY <1>12, <2>1, <2>2, <2>3
<1>19. ThreadsOnChain(l, hi)'
  <2>1. \A s \in Procs : pc'[s] \in Registered => s # t /\ pc'[s] = pc[s]
                                                 /\ map'[s] = map[s]
    BY <1>3, Places
  <2>2. /\ \A s \in Procs : pc'[s] \in {"moving", "published"} => map'[s] # hi
        /\ \A s \in Procs : pc'[s] \in {"opening", "opened"} => map'[s] = hi
        /\ \A s \in Procs : pc'[s] \in {"opening", "opened", "published"} =>
                              reopening[map'[s]]
    BY <2>1, Places DEF Active, Chain, ThreadsOnChain
  <2> QED BY <1>11, <1>17, <1>18, <2>2 DEF ThreadsOnChain
<1>20. \A s \in Procs : pc'[s] = "opened" <=> pc[s] = "opened"
  BY <1>1, <1>3
<1>21. Unpublished(hi)'
  <2>1. \A s \in Procs : pc[s] = "opened" => hi + 1 \in Maps /\ hi + 1 > hi
    BY <1>1 DEF Active, Chain, Unpublished, MmapTypeOK, Maps
  <2>2. \A s \in Procs : pc[s] = "opened" =>
            next'[hi + 1] = next[hi + 1] /\ newer'[hi + 1] = newer[hi + 1]
    BY <2>1, <1>11
  <2> QED BY <1>1, <1>20, <2>1, <2>2 DEF Active, Chain, Unpublished, LockedFrame
<1>22. ChainShape(l, hi)'
  <2>1. \A x \in l .. hi : ptr[x] /\ mem[x] = "live"
    BY <1>1, <1>13 DEF Active, Chain, ChainShape, Maps
  <2>2. InUse(refcnt, reopening, l)'
    BY <1>11, <1>12 DEF InUse
  <2>3. \A x \in Maps : ptr[x] => x \in l .. hi \/ x \in InTransit'
    <3> SUFFICES ASSUME NEW x \in Maps, ptr[x], x \notin l .. hi
                 PROVE  x \in InTransit'
      OBVIOUS
    <3>1. CASE x \in lo .. hi
      <4>1. l # lo /\ x \in lo .. (l - 1)
        BY <3>1, <1>1, <1>13 DEF Maps
      <4>2. x \in todo'[t]
        BY <4>1, <1>12, <1>1 DEF MmapTypeOK
      <4> QED BY <4>2 DEF InTransit
    <3>2. CASE x \in InTransit
      <4>1. PICK s \in Procs : x \in todo[s] \/ (pc[s] = "opened" /\ nx[s] = x)
        BY <3>2 DEF InTransit
      <4>2. s # t => todo'[s] = todo[s]
        BY <4>1, <1>1, <1>12 DEF MmapTypeOK
      <4>3. x \in todo'[s] \/ (pc'[s] = "opened" /\ nx'[s] = x)
        BY <4>1, <4>2, <1>1, <1>20 DEF LockedFrame
      <4> QED BY <4>3 DEF InTransit
    <3> QED BY <3>1, <3>2 DEF Active, Chain, ChainShape
  <2>4. \A x \in Maps : x > hi => ~reopening[x]
    BY DEF Active, Chain, ChainShape
  <2> QED BY <1>1, <1>11, <1>12, <2>1, <2>2, <2>3, <2>4
          DEF ChainShape, LockedFrame, Linked
<1>23. OneReopener'
  BY <1>3 DEF Active, OneReopener
<1>24. /\ (fsec =< fver)'
       /\ \A s \in Queriers : pc'[s] # "destroyed"
       /\ pc'[Maint] \in Registered
  BY <1>1, <1>3, Places DEF Active, LockedFrame, fileVars, Queriers
<1>25. Active(l, hi)'
  BY <1>1, <1>4, <1>11, <1>13, <1>14, <1>19, <1>21, <1>22, <1>23, <1>24
     DEF Active, Chain
<1> QED BY <1>25, Places DEF IInv, ChainInv, Active, Chain,
                             RefcntExact, Counted, Holders, HoldersIn, Held

\* A querying thread joins on the last map of the chain.
LEMMA JoinStep ==
    ASSUME NEW lo, NEW hi, Active(lo, hi), NEW t \in Procs, Join(t)
    PROVE  IInv'
<1> USE BoundsAssumption, NullAssumption, ThreadsAssumption
<1>1. /\ TypeOK /\ MmapTypeOK /\ lo \in Maps /\ hi \in Maps
      /\ pc[t] = "out" /\ pc[t] \notin Registered /\ t # Maint
      /\ pc' = [pc EXCEPT ![t] = "reg"] /\ "reg" \in Registered
      /\ next[map[Maint]] = NULL
  BY Places DEF Active, Goes, TypeOK, Join, Queriers
<1>2. UNCHANGED <<ptr, next, reopening, newer, ver, mtime, mem, nmaps, fver,
                  fsec, todo, nx, nfail>>
  BY DEF Join, LockedFrame, fileVars
<1>3. map[Maint] = hi
  BY <1>1 DEF Active, Chain, ChainShape, ThreadsOnChain, Maps
<1>4. /\ map' = [map EXCEPT ![t] = hi]
      /\ refcnt' = [refcnt EXCEPT ![hi] = @ + 1]
  BY <1>3 DEF Join
<1>5. /\ \A s \in Procs : s # t => pc'[s] = pc[s] /\ map'[s] = map[s]
      /\ pc'[t] = "reg" /\ map'[t] = hi
  BY <1>1, <1>4 DEF TypeOK, MmapTypeOK
<1>6. TypeOK'
  BY <1>1, <1>2, <1>4, Places DEF TypeOK, MmapTypeOK
<1>7. Counted(refcnt', pc', map')
  <2>1. OthersStay(t, pc, map, pc', map') /\ pc'[t] \in Registered /\ map'[t] = hi
    BY <1>1, <1>5 DEF OthersStay
  <2>2. Counted(refcnt, pc, map)
    BY DEF Active
  <2>3. Counted([refcnt EXCEPT ![hi] = @ + 1], pc', map')
    BY ONLY <1>1, <2>1, <2>2, t \in Procs, HoldersJoin
  <2> QED BY <2>3, <1>4
<1>8. \A s \in Procs : pc'[s] = "opened" <=> pc[s] = "opened"
  BY <1>1, <1>5
<1>9. InTransit' = InTransit
  BY <1>2, <1>8 DEF InTransit
<1>10. ChainShape(lo, hi)'
  <2>1. InUse(refcnt, reopening, lo)'
    <3>1. refcnt[lo] # 0 => refcnt'[lo] # 0
      BY <1>1, <1>4 DEF MmapTypeOK
    <3> QED BY <3>1, <1>2 DEF Active, Chain, ChainShape, InUse
  <2> QED BY <1>2, <1>9, <2>1 DEF Active, Chain, ChainShape
<1>11. ThreadsOnChain(lo, hi)'
  <2>1. hi \in lo .. hi
    BY <1>1 DEF Active, Chain, Maps
  <2> QED BY <1>2, <1>5, <2>1 DEF Active, Chain, ThreadsOnChain
<1>12. Unpublished(hi)'
  BY <1>2, <1>8 DEF Active, Chain, Unpublished
<1>13. OneReopener'
  BY <1>5 DEF Active, OneReopener
<1>14. /\ (fsec =< fver)'
       /\ \A s \in Queriers : pc'[s] # "destroyed"
       /\ pc'[Maint] \in Registered
  BY <1>1, <1>2, <1>5 DEF Active, Queriers
<1>15. Active(lo, hi)'
  BY <1>1, <1>6, <1>7, <1>10, <1>11, <1>12, <1>13, <1>14 DEF Active, Chain
<1> QED BY <1>15, Places DEF IInv, ChainInv, Active, Chain,
                             RefcntExact, Counted, Holders, HoldersIn, Held

\* Freeing an unlinked map touches nothing of the chain.
LEMMA FreeStep ==
    ASSUME NEW lo, NEW hi, Active(lo, hi), NEW t \in Procs, FreeUnlinkedStep(t)
    PROVE  IInv'
<1> USE BoundsAssumption, NullAssumption, ThreadsAssumption
<1>1. PICK x \in todo[t] :
         /\ MmapFree(x)
         /\ todo' = [todo EXCEPT ![t] = @ \ {x}]
         /\ UNCHANGED <<map, next, refcnt, reopening, newer, ver, mtime, nmaps,
                        fver, fsec, pc, nx, nfail>>
  BY DEF FreeUnlinkedStep, FreeUnlinked, fileVars
<1>2. /\ TypeOK /\ MmapTypeOK /\ lo \in Maps /\ hi \in Maps
      /\ x \in 1 .. (lo - 1) /\ x \in Maps
  BY <1>1 DEF Active, TypeOK, MmapTypeOK, Chain, ThreadsOnChain, Maps
<1>3. /\ ptr' \in [Maps -> BOOLEAN]
      /\ mem' \in [Maps -> {"none", "live", "freed"}]
      /\ ~ptr'[x]
      /\ \A y \in Maps : y # x => ptr'[y] = ptr[y] /\ mem'[y] = mem[y]
  BY <1>1, <1>2 DEF MmapFree, MmapTypeOK
<1>4. todo' \in [Procs -> SUBSET Maps]
      /\ \A s \in Procs : todo[s] \ {x} \subseteq todo'[s] /\ todo'[s] \subseteq todo[s]
  BY <1>1, <1>2 DEF MmapTypeOK
<1>5. TypeOK'
  BY <1>1, <1>2, <1>3, <1>4 DEF TypeOK, MmapTypeOK
<1>6. \A y \in lo .. hi : y \in Maps /\ y # x
  BY <1>2 DEF Maps
<1>7. ChainShape(lo, hi)'
  <2>1. \A y \in lo .. hi : ptr'[y] /\ mem'[y] = "live"
    BY <1>3, <1>6 DEF Active, Chain, ChainShape
  <2>2. ASSUME NEW y \in Maps, ptr'[y], y \notin lo .. hi PROVE y \in InTransit'
    <3>1. y # x /\ ptr[y]
      BY <2>2, <1>3
    <3>2. PICK s \in Procs : y \in todo[s] \/ (pc[s] = "opened" /\ nx[s] = y)
      BY <2>2, <3>1 DEF Active, Chain, ChainShape, InTransit
    <3>3. y \in todo'[s] \/ (pc'[s] = "opened" /\ nx'[s] = y)
      BY <1>1, <1>4, <3>1, <3>2
    <3> QED BY <3>3 DEF InTransit
  <2>3. InUse(refcnt, reopening, lo)'
    BY <1>1 DEF Active, Chain, ChainShape, InUse
  <2> QED BY <1>1, <2>1, <2>2, <2>3 DEF Active, Chain, ChainShape
<1>8. ThreadsOnChain(lo, hi)'
  BY <1>1, <1>4 DEF Active, Chain, ThreadsOnChain
<1>9. Unpublished(hi)'
  <2>1. \A s \in Procs : pc[s] = "opened" => hi + 1 \in Maps /\ hi + 1 # x
    BY <1>2 DEF Active, Chain, Unpublished, MmapTypeOK, Maps
  <2> QED BY <1>1, <1>3, <2>1 DEF Active, Chain, Unpublished
<1>10. OneReopener'
  BY <1>1 DEF Active, OneReopener
<1>11. Counted(refcnt', pc', map')
  BY <1>1 DEF Active
<1>12. Active(lo, hi)'
  BY <1>1, <1>2, <1>5, <1>7, <1>8, <1>9, <1>10, <1>11 DEF Active, Chain
<1> QED BY <1>12, Places DEF IInv, ChainInv, Active, Chain,
                             RefcntExact, Counted, Holders, HoldersIn, Held

\* The file changes under its name; no map does.
LEMMA FileStep == ASSUME IInv, FileUpdateStep PROVE IInv'
<1>1. UNCHANGED <<map, ptr, next, refcnt, reopening, newer, ver, mtime, mem,
                  nmaps, todo, pc, nx, nfail>>
  BY DEF FileUpdateStep, FileUpdate
<1>2. /\ fver' = fver + 1 /\ fver < MaxVersion
      /\ fsec' = fsec \/ fsec' = fsec + 1
      /\ fver \in Versions /\ fsec \in Versions /\ fsec =< fver
  BY DEF FileUpdateStep, FileUpdate, IInv, TypeOK, MmapTypeOK
<1>3. fver' \in Versions /\ fsec' \in Versions /\ fsec' =< fver'
  BY <1>2, BoundsAssumption DEF Versions
<1>4. TypeOK'
  BY <1>1, <1>3 DEF IInv, TypeOK, MmapTypeOK
<1>5. AllGone => AllGone'
  BY <1>1 DEF AllGone
<1>6. ChainInv => ChainInv'
  BY <1>1 DEF ChainInv, ChainShape, ThreadsOnChain, Unpublished, InUse,
              RefcntExact, OneReopener, Holders, InTransit
<1>7. \A t \in Queriers : pc'[t] # "destroyed"
  BY <1>1 DEF IInv
<1> QED BY <1>3, <1>4, <1>5, <1>6, <1>7 DEF IInv

\* mcdb_mmap_destroy, called with every querying thread gone, leaves all
\* threads out and nothing to free.
LEMMA DestroyStep ==
    ASSUME NEW lo, NEW hi, Active(lo, hi), Destroy
    PROVE  IInv'
<1> USE ThreadsAssumption
<1>1. /\ TypeOK /\ MmapTypeOK
      /\ pc' = [pc EXCEPT ![Maint] = "destroyed"]
      /\ todo[Maint] = {}
      /\ \A t \in Queriers : pc[t] = "out" /\ todo[t] = {}
      /\ UNCHANGED <<map, next, refcnt, reopening, newer, ver, mtime, nmaps,
                     fver, fsec, todo, nx, nfail>>
  BY DEF Active, Goes, TypeOK, Destroy, fileVars
<1>2. map[Maint] \in Maps
  <2>1. map[Maint] \in lo .. hi /\ lo \in Maps /\ hi \in Maps
    BY DEF Active, Chain, ThreadsOnChain
  <2> QED BY <2>1, BoundsAssumption DEF Maps
<1>3. /\ ptr' \in [Maps -> BOOLEAN]
      /\ mem' \in [Maps -> {"none", "live", "freed"}]
  BY <1>1, <1>2 DEF Destroy, MmapFree, MmapTypeOK
<1>4. TypeOK'
  BY <1>1, <1>3, Places DEF TypeOK, MmapTypeOK
<1>5. \A t \in Procs : pc'[t] = IF t = Maint THEN "destroyed" ELSE "out"
  BY <1>1 DEF TypeOK, Queriers
<1>6. AllGone'
  BY <1>1, <1>5 DEF AllGone, Queriers
<1>7. \A t \in Queriers : pc'[t] # "destroyed"
  BY <1>5 DEF Queriers
<1> QED BY <1>1, <1>4, <1>6, <1>7 DEF IInv, Active

\* Once everything is gone only the file can change.
LEMMA GoneStep == ASSUME IInv, AllGone, Next PROVE FileUpdateStep
<1>1. \A t \in Procs : todo[t] = {} /\ pc[t] = IF t = Maint THEN "destroyed" ELSE "out"
  BY DEF AllGone
<1>2. ~Destroy
  BY <1>1, ThreadsAssumption DEF Destroy, Goes
<1>3. ASSUME NEW t \in Procs
      PROVE  /\ ~Join(t) /\ ~FindStartSuperseded(t) /\ ~MoveSelf(t)
             /\ ~Unregister(t) /\ ~Refresh(t) /\ ~FreeUnlinkedStep(t)
  <2>1. pc[Maint] = "destroyed" /\ pc[t] \in {"destroyed", "out"} /\ todo[t] = {}
    BY <1>1, ThreadsAssumption
  <2>2. ~Join(t) /\ ~FindStartSuperseded(t) /\ ~MoveSelf(t) /\ ~Unregister(t)
    BY <2>1 DEF Join, FindStartSuperseded, MoveSelf, Unregister, Goes
  <2>3. ~Refresh(t)
    BY <2>1 DEF Refresh, RefreshNeeded, ReopenFindsNext, ReopenBusy, ReopenBegin,
                ReopenFails, ReopenMaps, ReopenPublishes, ReopenMoves, Goes
  <2>4. ~FreeUnlinkedStep(t)
    BY <2>1 DEF FreeUnlinkedStep, FreeUnlinked
  <2> QED BY <2>2, <2>3, <2>4
<1> QED BY <1>2, <1>3 DEF Next

-----------------------------------------------------------------------------
(* The invariant and the properties.                                       *)

\* What mcdb_mmap_create sets up satisfies the invariant: a chain of one map
\* with one reference, the maintenance thread's.
LEMMA InitInv == Init => IInv
<1> SUFFICES ASSUME Init PROVE IInv
  OBVIOUS
<1> USE BoundsAssumption, NullAssumption, ThreadsAssumption
<1>1. /\ map = [q \in Ptrs |-> IF q = Maint THEN 1 ELSE NULL]
      /\ pc = [t \in Procs |-> IF t = Maint THEN "reg" ELSE "out"]
      /\ nmaps = 1 /\ todo = [t \in Procs |-> {}] /\ 1 \in Maps
      /\ refcnt = [x \in Maps |-> IF x = 1 THEN 1 ELSE 0]
      /\ reopening = [x \in Maps |-> FALSE]
  BY DEF Init, MmapCreated, Maps
<1>2. TypeOK
  BY <1>1, Places DEF Init, MmapCreated, TypeOK, MmapTypeOK, Versions, Maps
<1>3. Counted(refcnt, pc, map)
  <2>1. HoldersIn(pc, map, 1) = {Maint}
    BY <1>1, Places DEF HoldersIn
  <2>2. \A x \in Maps : x # 1 => HoldersIn(pc, map, x) = {}
    BY <1>1, Places DEF HoldersIn
  <2>3. Cardinality({Maint}) = 1
    BY FS_Singleton
  <2> QED BY <1>1, <2>1, <2>2, <2>3, FS_EmptySet DEF Counted, Held
<1>4. ChainShape(1, 1)
  <2>1. \A x \in 1 .. 1 : x = 1
    OBVIOUS
  <2>2. /\ ptr = [x \in Maps |-> x = 1] /\ next = [x \in Maps |-> NULL]
        /\ newer = [x \in Maps |-> FALSE]
        /\ mem = [x \in Maps |-> IF x = 1 THEN "live" ELSE "none"]
    BY DEF Init, MmapCreated
  <2>3. ptr[1] /\ mem[1] = "live" /\ next[1] = NULL /\ ~newer[1]
    BY <1>1, <2>2
  <2>4. \A x \in Maps : ptr[x] => x \in 1 .. 1
    <3>1. \A x \in Maps : ptr[x] = (x = 1)
      BY <2>2
    <3>2. 1 \in 1 .. 1
      OBVIOUS
    <3> QED BY <3>1, <3>2, Zenon
  <2>5. refcnt[1] = 1 /\ \A x \in Maps : ~reopening[x]
    BY <1>1
  <2> QED BY <1>1, <2>1, <2>3, <2>4, <2>5 DEF ChainShape, InUse
<1>5. ThreadsOnChain(1, 1)
  BY <1>1, Places DEF ThreadsOnChain
<1>6. Unpublished(1)
  BY <1>1 DEF Unpublished
<1>7. OneReopener
  BY <1>1 DEF OneReopener
<1>8. Active(1, 1)
  BY <1>1, <1>2, <1>3, <1>4, <1>5, <1>6, <1>7, Places
     DEF Active, Chain, Init, MmapCreated, Queriers
<1> QED BY <1>8, Places DEF IInv, ChainInv, Active, Chain,
                            RefcntExact, Counted, Holders, HoldersIn, Held

\* Every step of every thread, and an update of the file, preserves the
\* invariant.
LEMMA StepInv == IInv /\ [Next]_vars => IInv'
<1> SUFFICES ASSUME IInv, [Next]_vars PROVE IInv'
  OBVIOUS
<1>1. CASE UNCHANGED vars
  <2>1. UNCHANGED <<map, ptr, next, refcnt, reopening, newer, ver, mtime, mem,
                    nmaps, fver, fsec, todo, pc, nx, nfail>>
    BY <1>1 DEF vars, mmapVars
  <2>2. TypeOK' /\ (fsec =< fver)'
        /\ \A t \in Queriers : pc'[t] # "destroyed"
    BY <2>1 DEF IInv, TypeOK, MmapTypeOK
  <2>3. AllGone => AllGone'
    BY <2>1 DEF AllGone
  <2>4. ChainInv => ChainInv'
    BY <2>1 DEF ChainInv, ChainShape, ThreadsOnChain, Unpublished, InUse,
                RefcntExact, OneReopener, Holders, InTransit
  <2> QED BY <2>2, <2>3, <2>4 DEF IInv
<1>2. CASE Next /\ AllGone
  BY <1>2, GoneStep, FileStep
<1>3. CASE Next /\ ~AllGone
  <2>1. PICK lo, hi : Active(lo, hi)
    BY <1>3, ActiveChain
  <2>2. reopening \in [Maps -> BOOLEAN]
    BY <2>1 DEF Active, TypeOK, MmapTypeOK
  <2>3. \A t \in Procs : pc[t] \in Registered => map[t] \in Maps
    <3>1. lo \in Maps /\ hi \in Maps
      BY <2>1 DEF Active
    <3>2. \A t \in Procs : pc[t] \in Registered => map[t] \in lo .. hi
      BY <2>1 DEF Active, Chain, ThreadsOnChain
    <3> QED BY <3>1, <3>2, BoundsAssumption DEF Maps
  <2>4. ASSUME NEW t \in Procs,
               pc[t] \in {"moving", "published"}
        PROVE  next[map[t]] # NULL
    <3>1. lo \in Maps /\ hi \in Maps /\ map[t] \in lo .. hi /\ map[t] # hi
      BY <2>1, <2>4, Places DEF Active, Chain, ThreadsOnChain
    <3>2. next[map[t]] = map[t] + 1 /\ map[t] + 1 \in Maps
      BY <2>1, <3>1, BoundsAssumption DEF Active, Chain, ChainShape, Maps
    <3> QED BY <3>2, NullAssumption
  <2>5. nfail \in 0 .. MaxFail
    BY <2>1 DEF Active, TypeOK
  <2>6. CASE FileUpdateStep
    BY <2>6, FileStep
  <2>7. CASE Destroy
    BY <2>1, <2>7, DestroyStep
  <2>8. ASSUME NEW t \in Procs, Join(t) PROVE IInv'
    BY <2>1, <2>8, JoinStep
  <2>9. ASSUME NEW t \in Procs, FindStartSuperseded(t) PROVE IInv'
    BY <2>1, <2>5, <2>9, PlaceStep DEF FindStartSuperseded
  <2>10. ASSUME NEW t \in Procs, MoveSelf(t) PROVE IInv'
    <3>1. Goes(t, "moving", "reg") /\ pc[t] = "moving" /\ LockedFrame
          /\ RegisterIncr(t, reopening, t)
      BY <2>10 DEF MoveSelf, Goes
    <3> QED BY <2>1, <2>2, <2>4, <3>1, MoveStep
  <2>11. ASSUME NEW t \in Procs, Unregister(t) PROVE IInv'
    BY <2>1, <2>11, LeaveStep
  <2>12. ASSUME NEW t \in Procs, FreeUnlinkedStep(t) PROVE IInv'
    BY <2>1, <2>12, FreeStep
  <2>13. ASSUME NEW t \in Procs, RefreshNeeded(t) PROVE IInv'
    BY <2>1, <2>5, <2>13, PlaceStep DEF RefreshNeeded
  <2>14. ASSUME NEW t \in Procs, ReopenFindsNext(t) PROVE IInv'
    BY <2>1, <2>2, <2>14, MoveStep DEF ReopenFindsNext
  <2>15. ASSUME NEW t \in Procs, ReopenBusy(t) PROVE IInv'
    BY <2>1, <2>5, <2>15, PlaceStep DEF ReopenBusy
  <2>16. ASSUME NEW t \in Procs, ReopenBegin(t) PROVE IInv'
    BY <2>1, <2>16, BeginStep
  <2>17. ASSUME NEW t \in Procs, ReopenFails(t) PROVE IInv'
    <3>1. nfail' \in 0 .. MaxFail
      BY <2>5, <2>17, BoundsAssumption DEF ReopenFails
    <3> QED BY <2>1, <2>17, <3>1, PlaceStep DEF ReopenFails
  <2>18. ASSUME NEW t \in Procs, ReopenMaps(t) PROVE IInv'
    BY <2>1, <2>18, MapStep
  <2>19. ASSUME NEW t \in Procs, ReopenPublishes(t) PROVE IInv'
    BY <2>1, <2>19, PublishStep
  <2>20. ASSUME NEW t \in Procs, ReopenMoves(t) PROVE IInv'
    <3> DEFINE re == [reopening EXCEPT ![map[t]] = FALSE]
    <3>1. /\ Goes(t, "published", "reg") /\ pc[t] = "published" /\ LockedFrame
          /\ RegisterIncr(t, re, t)
      BY <2>20 DEF ReopenMoves, Goes
    <3>2. next[map[t]] # NULL
      BY <2>4, <3>1
    <3>3. re \in [Maps -> BOOLEAN]
      BY <2>2
    <3>4. map[t] \in Maps
      BY <2>3, <3>1, Places
    <3>5. \A x \in Maps : re[x] = reopening[x] \/ (x = map[t] /\ ~re[x])
      BY <2>2, <3>4
    <3> HIDE DEF re
    <3> QED BY <2>1, <3>1, <3>2, <3>3, <3>5, MoveStep
  <2> QED BY <1>3, <2>6, <2>7, <2>8, <2>9, <2>10, <2>11, <2>12, <2>13, <2>14,
             <2>15, <2>16, <2>17, <2>18, <2>19, <2>20 DEF Next, Refresh
<1> QED BY <1>1, <1>2, <1>3

\* IInv holds in every reachable state, for any number of threads, maps,
\* updates and failed reopens.
THEOREM InductiveInvariant == Spec => []IInv
<1>1. Init => IInv
  BY InitInv
<1>2. IInv /\ [Next]_vars => IInv'
  BY StepInv
<1> QED BY <1>1, <1>2, PTL DEF Spec

\* Types, with the counts never below zero.
THEOREM TypeCorrect == Spec => []TypeOK
<1>1. IInv => TypeOK
  BY DEF IInv
<1> QED BY <1>1, InductiveInvariant, PTL

\* No registered thread ever finds its map unmapped or its struct freed.
THEOREM Mapped == Spec => []RegisteredStaysMapped
<1>1. IInv => RegisteredStaysMapped
  <2>1. CASE IInv /\ AllGone
    BY <2>1, Places DEF AllGone, RegisteredStaysMapped
  <2>2. CASE IInv /\ ~AllGone
    <3>1. PICK lo, hi : Active(lo, hi)
      BY <2>2, ActiveChain
    <3>2. \A t \in Procs : pc[t] \in Registered => map[t] \in lo .. hi
      BY <3>1 DEF Active, Chain, ThreadsOnChain
    <3>3. \A x \in lo .. hi : x \in Maps /\ ptr[x] /\ mem[x] = "live"
      <4>1. lo \in Maps /\ hi \in Maps
        BY <3>1 DEF Active
      <4>2. \A x \in lo .. hi : x \in Maps
        BY <4>1, BoundsAssumption DEF Maps
      <4> QED BY <3>1, <4>2 DEF Active, Chain, ChainShape
    <3> QED BY <3>2, <3>3 DEF RegisteredStaysMapped
  <2> QED BY <2>1, <2>2
<1> QED BY <1>1, InductiveInvariant, PTL

\* References are neither lost nor duplicated by any hand-over.
THEOREM Exact == Spec => []RefcntExact
<1>1. IInv => RefcntExact
  BY ThreadsAssumption DEF IInv, ChainInv, AllGone, RefcntExact
<1> QED BY <1>1, InductiveInvariant, PTL

\* Every mapped struct is in transit or reachable from an oldest map in use.
THEOREM Leakless == Spec => []NoLeak
<1>1. IInv => NoLeak
  <2>1. CASE IInv /\ AllGone
    BY <2>1, ThreadsAssumption DEF AllGone, NoLeak
  <2>2. CASE IInv /\ ~AllGone
    <3>1. PICK lo, hi : Active(lo, hi)
      BY <2>2, ActiveChain
    <3>2. lo \in Maps /\ hi \in Maps /\ lo \in lo .. hi
      BY <3>1, BoundsAssumption DEF Active, Chain, Maps
    <3>3. Linked(next, lo, hi)
      BY <3>1 DEF Active, Chain, ChainShape, Linked
    <3>4. Reach(next, lo) = lo .. hi
      BY <3>2, <3>3, ReachLinked
    <3>5. ~newer[lo] /\ InUse(refcnt, reopening, lo)
      BY <3>1, <3>2 DEF Active, Chain, ChainShape
    <3>6. {x \in Maps : ptr[x]} \subseteq Reach(next, lo) \cup InTransit
      BY <3>1, <3>4 DEF Active, Chain, ChainShape
    <3> QED BY <3>2, <3>5, <3>6 DEF NoLeak
  <2> QED BY <2>1, <2>2
<1> QED BY <1>1, InductiveInvariant, PTL

\* At most one thread at a time makes the successor of a map.
THEOREM SingleReopener == Spec => []OneReopener
<1>1. IInv => OneReopener
  BY ThreadsAssumption DEF IInv, ChainInv, AllGone, OneReopener
<1> QED BY <1>1, InductiveInvariant, PTL

-----------------------------------------------------------------------------
(* What the chain lo .. hi says about a thread and about a step.           *)

\* A registered thread is on a map of the chain, which has been created.
LEMMA OnChain ==
    ASSUME NEW lo, NEW hi, Active(lo, hi)
    PROVE  /\ lo \in Maps /\ hi \in Maps /\ lo =< hi /\ hi =< nmaps /\ nmaps \in Maps
           /\ Linked(next, lo, hi)
           /\ \A t \in Procs : pc[t] \in Registered =>
                  map[t] \in lo .. hi /\ map[t] \in 1 .. nmaps /\ map[t] \in Maps /\ ptr[map[t]]
<1>1. lo \in Maps /\ hi \in Maps /\ lo =< hi /\ ChainShape(lo, hi) /\ Unpublished(hi)
      /\ ThreadsOnChain(lo, hi) /\ nmaps \in 0 .. MaxMaps
  BY DEF Active, Chain, TypeOK, MmapTypeOK
<1>2. hi =< nmaps /\ nmaps \in Maps
  BY <1>1, BoundsAssumption DEF Unpublished, Maps
<1>3. Linked(next, lo, hi)
  BY <1>1 DEF ChainShape, Linked
<1>4. ASSUME NEW t \in Procs, pc[t] \in Registered
      PROVE  map[t] \in lo .. hi /\ map[t] \in 1 .. nmaps /\ map[t] \in Maps /\ ptr[map[t]]
  <2>1. map[t] \in lo .. hi
    BY <1>1, <1>4 DEF ThreadsOnChain
  <2>2. map[t] \in 1 .. nmaps /\ map[t] \in Maps
    BY <1>1, <1>2, <2>1, BoundsAssumption DEF Maps
  <2> QED BY <1>1, <2>1, <2>2 DEF ChainShape
<1> QED BY <1>1, <1>2, <1>3, <1>4

\* Under the lock a registered thread stays on its map, or goes from a map that
\* is superseded to the last of the chain.
LEMMA IncrMoves ==
    ASSUME NEW lo, NEW hi, Active(lo, hi), NEW t \in Procs, pc[t] \in Registered,
           NEW re, RegisterIncr(t, re, t)
    PROVE  /\ \A s \in Procs : s # t => map'[s] = map[s]
           /\ map'[t] = map[t] \/ (map'[t] = hi /\ map[t] < hi)
<1>1. map[t] \in lo .. hi /\ lo \in Maps /\ hi \in Maps /\ Linked(next, lo, hi)
  BY OnChain
<1>2. map' = map \/ (next[map[t]] # NULL /\ map' = [map EXCEPT ![t] = Tail(map[t])])
  BY DEF RegisterIncr, RegisterIncrInto
<1>3. Tail(map[t]) = hi
  BY <1>1, TailLinked
<1>4. next[map[t]] # NULL => map[t] < hi
  BY <1>1 DEF Linked, Maps
<1>5. map \in [Procs -> Maps \cup {NULL}]
  BY ThreadsAssumption DEF Active, TypeOK, MmapTypeOK
<1> QED BY <1>2, <1>3, <1>4, <1>5

\* The steps that neither map nor change the file: who is where afterwards
LEMMA Course ==
    ASSUME NEW lo, NEW hi, Active(lo, hi), Next,
           ~FileUpdateStep, \A t \in Procs : ~ReopenMaps(t)
    PROVE  /\ UNCHANGED <<nmaps, ver, mtime, fver, fsec>>
           /\ \A s \in Procs :
                /\ pc'[s] \in {"reopen", "opening"} =>
                      /\ map'[s] = map[s]
                      /\ \/ pc[s] \in {"reopen", "opening"}
                         \/ pc[s] = "reg" /\ RefreshCheck(map[s])
                /\ pc[s] \in Registered /\ pc'[s] \in Registered =>
                      map'[s] = map[s] \/ (map'[s] = hi /\ map[s] < hi)
<1> DEFINE Goal(s) ==
                /\ pc'[s] \in {"reopen", "opening"} =>
                      /\ map'[s] = map[s]
                      /\ \/ pc[s] \in {"reopen", "opening"}
                         \/ pc[s] = "reg" /\ RefreshCheck(map[s])
                /\ pc[s] \in Registered /\ pc'[s] \in Registered =>
                      map'[s] = map[s] \/ (map'[s] = hi /\ map[s] < hi)
<1> USE Places
<1>1. /\ pc \in [Procs -> PCs] /\ map \in [Procs -> Maps \cup {NULL}]
  BY ThreadsAssumption DEF Active, TypeOK, MmapTypeOK
<1>2. CASE Destroy
  BY <1>1, <1>2, ThreadsAssumption DEF Destroy, Goes, fileVars
<1>3. ASSUME NEW t \in Procs, Join(t) PROVE UNCHANGED <<nmaps, ver, mtime, fver, fsec>>
                                            /\ \A s \in Procs : Goal(s)
  BY <1>1, <1>3 DEF Join, Goes, LockedFrame, fileVars
<1>4. ASSUME NEW t \in Procs, Unregister(t) PROVE UNCHANGED <<nmaps, ver, mtime, fver, fsec>>
                                                  /\ \A s \in Procs : Goal(s)
  <2>1. \A s \in Procs : s # t => map'[s] = map[s]
    BY <1>1, <1>4 DEF Unregister, RegisterDecr
  <2> QED BY <1>1, <1>4, <2>1 DEF Unregister, Goes, LockedFrame, fileVars
<1>5. ASSUME NEW t \in Procs, MoveSelf(t) \/ ReopenFindsNext(t) \/ ReopenMoves(t)
      PROVE  UNCHANGED <<nmaps, ver, mtime, fver, fsec>> /\ \A s \in Procs : Goal(s)
  <2>1. /\ pc[t] \in Registered /\ pc' = [pc EXCEPT ![t] = "reg"]
        /\ UNCHANGED <<nmaps, ver, mtime, fver, fsec>>
        /\ \E re : RegisterIncr(t, re, t)
    BY <1>5 DEF MoveSelf, ReopenFindsNext, ReopenMoves, Goes, LockedFrame, fileVars
  <2>2. /\ \A s \in Procs : s # t => map'[s] = map[s]
        /\ map'[t] = map[t] \/ (map'[t] = hi /\ map[t] < hi)
    BY <2>1, IncrMoves
  <2> QED BY <1>1, <2>1, <2>2
<1>6. ASSUME NEW t \in Procs, RefreshNeeded(t)
      PROVE  UNCHANGED <<nmaps, ver, mtime, fver, fsec>> /\ \A s \in Procs : Goal(s)
  BY <1>1, <1>6 DEF RefreshNeeded, Goes, mmapVars
<1>7. ASSUME NEW t \in Procs, FindStartSuperseded(t) \/ ReopenBusy(t) \/ ReopenFails(t)
      PROVE  UNCHANGED <<nmaps, ver, mtime, fver, fsec>> /\ \A s \in Procs : Goal(s)
  BY <1>1, <1>7 DEF FindStartSuperseded, ReopenBusy, ReopenFails, Goes, mmapVars
<1>8. ASSUME NEW t \in Procs, ReopenBegin(t) \/ ReopenPublishes(t) \/ FreeUnlinkedStep(t)
      PROVE  UNCHANGED <<nmaps, ver, mtime, fver, fsec>> /\ \A s \in Procs : Goal(s)
  BY <1>1, <1>8 DEF ReopenBegin, ReopenPublishes, FreeUnlinkedStep, FreeUnlinked, Goes,
                    LockedFrame, fileVars
<1> HIDE DEF Goal
<1>9. ASSUME NEW t \in Procs, Refresh(t)
      PROVE  UNCHANGED <<nmaps, ver, mtime, fver, fsec>> /\ \A s \in Procs : Goal(s)
  BY <1>9, <1>5, <1>6, <1>7, <1>8 DEF Refresh
<1>10. UNCHANGED <<nmaps, ver, mtime, fver, fsec>> /\ \A s \in Procs : Goal(s)
  <2>1. CASE Destroy
    BY <1>2, <2>1 DEF Goal
  <2> QED BY <1>3, <1>4, <1>5, <1>7, <1>8, <1>9, <2>1 DEF Next
<1> QED BY <1>10 DEF Goal

-----------------------------------------------------------------------------
(* Contents get later along the chain.                                     *)

LEMMA OrderInit == Init => OrderInv
BY BoundsAssumption DEF Init, MmapCreated, OrderInv, Maps

\* A new map has the content of the file, later than all maps before it.
LEMMA OrderNewMap ==
    ASSUME NEW lo, NEW hi, Active(lo, hi), OrderInv, NEW t \in Procs, ReopenMaps(t)
    PROVE  /\ OrderInv'
           /\ \A s \in Procs : map'[s] = map[s]
<1> DEFINE n == nmaps + 1
<1>1. /\ pc[t] = "opening" /\ pc' = [pc EXCEPT ![t] = "opened"]
      /\ nmaps < MaxMaps /\ nmaps' = n
      /\ ver' = [ver EXCEPT ![n] = fver] /\ mtime' = [mtime EXCEPT ![n] = fsec]
      /\ UNCHANGED <<map, fver, fsec>>
  BY DEF ReopenMaps, NewMap, Goes, fileVars
<1>2. /\ TypeOK /\ hi \in Maps /\ nmaps \in Maps /\ n \in Maps
      /\ pc \in [Procs -> PCs]
      /\ ver \in [Maps -> Versions] /\ mtime \in [Maps -> Versions] /\ fver \in Versions
  <2>1. /\ TypeOK /\ pc \in [Procs -> PCs]
        /\ ver \in [Maps -> Versions] /\ mtime \in [Maps -> Versions] /\ fver \in Versions
    BY DEF Active, TypeOK, MmapTypeOK
  <2>2. hi \in Maps /\ nmaps \in Maps
    BY OnChain
  <2> QED BY <1>1, <2>1, <2>2, BoundsAssumption DEF Maps
<1>3. map[t] = hi /\ nmaps = hi
  <2>1. ThreadsOnChain(lo, hi) /\ Unpublished(hi) /\ OneReopener
    BY DEF Active, Chain
  <2>2. \A s \in Procs : pc[s] = "opened" => s = t
    BY <1>1, <2>1 DEF ThreadsOnChain, OneReopener
  <2> QED BY <1>1, <2>1, <2>2 DEF ThreadsOnChain, Unpublished
<1>4. ver[hi] < fver
  BY <1>1, <1>3 DEF OrderInv
<1>5. /\ ver'[n] = fver /\ mtime'[n] = fsec
      /\ \A x \in 1 .. nmaps : x \in Maps /\ ver'[x] = ver[x] /\ mtime'[x] = mtime[x]
  <2>1. \A x \in 1 .. nmaps : x \in Maps /\ x # n
    BY <1>2, BoundsAssumption DEF Maps
  <2> QED BY <1>1, <1>2, <2>1
<1>6. \A x \in 1 .. n : ver'[x] =< fver /\ (ver'[x] = fver => mtime'[x] = fsec)
  <2>1. ASSUME NEW x \in 1 .. n PROVE x = n \/ x \in 1 .. nmaps
    BY <1>2 DEF Maps
  <2>2. fver =< fver
    BY <1>2 DEF Versions
  <2> QED BY <1>5, <2>1, <2>2 DEF OrderInv
<1>7. ASSUME NEW x \in 1 .. n, NEW y \in 1 .. n, x < y PROVE ver'[x] < ver'[y]
  <2>1. x \in 1 .. nmaps /\ (y = n \/ y \in 1 .. nmaps) /\ hi \in 1 .. nmaps
    BY <1>2, <1>3, <1>7 DEF Maps
  <2>2. ver[x] \in Nat /\ ver[hi] \in Nat /\ fver \in Nat
    BY <1>2, <1>5, <2>1 DEF Versions
  <2>3. CASE y \in 1 .. nmaps
    BY <1>5, <1>7, <2>1, <2>3 DEF OrderInv
  <2>4. CASE y = n
    <3>1. x < hi \/ x = hi
      BY <1>2, <1>3, <2>1 DEF Maps
    <3>2. ver[x] =< ver[hi]
      BY <2>1, <2>2, <3>1 DEF OrderInv
    <3> QED BY <1>4, <1>5, <2>1, <2>2, <2>4, <3>2
  <2> QED BY <2>1, <2>3, <2>4
<1>8. ASSUME NEW s \in Procs, pc'[s] \in {"reopen", "opening"} PROVE ver'[map'[s]] < fver
  <2>1. pc[s] \in {"reopen", "opening"}
    BY <1>1, <1>2, <1>8
  <2>2. map[s] \in 1 .. nmaps
    BY <2>1, OnChain, Places
  <2> QED BY <1>1, <1>5, <2>1, <2>2 DEF OrderInv
<1> QED BY <1>1, <1>6, <1>7, <1>8 DEF OrderInv

\* A registered thread goes on to a later content, and only forward.
LEMMA OrderStep ==
    ASSUME IInv, OrderInv, [Next]_vars
    PROVE  /\ OrderInv'
           /\ \A t \in Procs :
                 pc[t] \in Registered /\ pc'[t] \in Registered /\ map'[t] # map[t] =>
                     ver'[map'[t]] > ver[map[t]]
<1>0. fver \in Nat /\ ver \in [Maps -> Versions] /\ nmaps \in 0 .. MaxMaps
  BY DEF IInv, TypeOK, MmapTypeOK, Versions
<1>1. CASE UNCHANGED vars
  BY <1>1 DEF vars, mmapVars, OrderInv
<1>2. CASE FileUpdateStep
  <2>1. fver' = fver + 1 /\ UNCHANGED <<map, ver, mtime, nmaps, pc>>
    BY <1>2 DEF FileUpdateStep, FileUpdate
  <2>2. \A x \in 1 .. nmaps : ver[x] \in Nat /\ ver[x] =< fver
    BY <1>0, BoundsAssumption DEF OrderInv, Versions, Maps
  <2>3. \A x \in 1 .. nmaps : ver[x] =< fver' /\ ver[x] # fver'
    BY <1>0, <2>1, <2>2
  <2>4. ASSUME NEW t \in Procs, pc[t] \in {"reopen", "opening"} PROVE ver[map[t]] < fver'
    <3>1. ~AllGone
      BY <2>4, ThreadsAssumption DEF AllGone
    <3>2. PICK lo, hi : Active(lo, hi)
      BY <3>1, ActiveChain
    <3>3. map[t] \in Maps
      BY <2>4, <3>2, OnChain, Places
    <3>4. ver[map[t]] \in Nat /\ ver[map[t]] < fver
      BY <1>0, <2>4, <3>3 DEF OrderInv, Versions
    <3> QED BY <1>0, <2>1, <3>4
  <2> QED BY <2>1, <2>3, <2>4 DEF OrderInv
<1>3. CASE Next /\ ~FileUpdateStep
  <2>1. PICK lo, hi : Active(lo, hi)
    BY <1>3, GoneStep, ActiveChain
  <2>2. CASE \E t \in Procs : ReopenMaps(t)
    BY <2>1, <2>2, OrderNewMap
  <2>3. CASE \A t \in Procs : ~ReopenMaps(t)
    <3>1. /\ UNCHANGED <<nmaps, ver, mtime, fver, fsec>>
          /\ \A s \in Procs :
                /\ pc'[s] \in {"reopen", "opening"} =>
                      /\ map'[s] = map[s]
                      /\ \/ pc[s] \in {"reopen", "opening"}
                         \/ pc[s] = "reg" /\ RefreshCheck(map[s])
                /\ pc[s] \in Registered /\ pc'[s] \in Registered =>
                      map'[s] = map[s] \/ (map'[s] = hi /\ map[s] < hi)
      BY <1>3, <2>1, <2>3, Course
    <3>2. ASSUME NEW s \in Procs, pc'[s] \in {"reopen", "opening"} PROVE ver[map[s]] < fver
      <4>1. CASE pc[s] \in {"reopen", "opening"}
        BY <4>1 DEF OrderInv
      <4>2. CASE pc[s] = "reg" /\ RefreshCheck(map[s])
        <5>1. map[s] \in 1 .. nmaps /\ map[s] \in Maps /\ ptr[map[s]]
          BY <2>1, <4>2, OnChain, Places
        <5>2. mtime[map[s]] # fsec
          BY <4>2, <5>1 DEF RefreshCheck
        <5>3. ver[map[s]] =< fver /\ ver[map[s]] # fver /\ ver[map[s]] \in Nat
          BY <1>0, <5>1, <5>2 DEF OrderInv, Versions
        <5> QED BY <1>0, <5>3
      <4> QED BY <3>1, <3>2, <4>1, <4>2
    <3>3. OrderInv'
      BY <3>1, <3>2 DEF OrderInv
    <3>4. ASSUME NEW s \in Procs, pc[s] \in Registered, pc'[s] \in Registered, map'[s] # map[s]
          PROVE  ver'[map'[s]] > ver[map[s]]
      <4>1. map'[s] = hi /\ map[s] < hi /\ hi \in Maps /\ nmaps \in Maps /\ hi =< nmaps
            /\ map[s] \in 1 .. nmaps
        BY <2>1, <3>1, <3>4, OnChain
      <4>2. hi \in 1 .. nmaps
        BY <4>1 DEF Maps
      <4>3. ver[map[s]] < ver[hi] /\ ver[map[s]] \in Nat /\ ver[hi] \in Nat
        BY <1>0, <4>1, <4>2, BoundsAssumption DEF OrderInv, Maps, Versions
      <4> QED BY <3>1, <4>1, <4>3
    <3> QED BY <3>3, <3>4
  <2> QED BY <2>2, <2>3
<1> QED BY <1>1, <1>2, <1>3

\* Later structs map later contents of the file, for any number of threads.
THEOREM ContentsRise == Spec => []OrderInv
<1>1. IInv /\ OrderInv /\ [Next]_vars => OrderInv'
  BY OrderStep
<1> QED BY <1>1, OrderInit, InductiveInvariant, PTL DEF Spec

\* A thread that moves to another map while it is registered, by a query or by
\* a refresh, moves to a later content of the file.
THEOREM OnlyForward == Spec => MovesForward
<1>1. IInv /\ OrderInv /\ [Next]_vars =>
        [\A t \in Procs :
            (/\ pc[t] \in Registered
             /\ pc'[t] \in Registered
             /\ map'[t] # map[t]) => ver'[map'[t]] > ver[map[t]]]_vars
  BY OrderStep
<1> QED BY <1>1, ContentsRise, InductiveInvariant, PTL DEF Spec, MovesForward

-----------------------------------------------------------------------------
(* Flags of superseded maps.                                               *)

\* Dropping a reference changes the links of maps that carry no flag only.
LEMMA DropRefFlags ==
    ASSUME MmapTypeOK, NEW rc, NEW re, NEW m, NEW t, DropRef(rc, re, m, t), NEW x \in Maps, re[x]
    PROVE  next'[x] = next[x]
<1>1. CASE ~WordZero(rc, re, m)
  BY <1>1 DEF DropRef
<1>2. CASE WordZero(rc, re, m)
  <2>1. x # m
    BY <1>2 DEF WordZero
  <2>2. x \in Reach(next, x)
    BY DEF Reach
  <2>3. x \notin Popped(rc, re, m)
    BY <2>1, <2>2 DEF Popped, Kept, InUse
  <2> QED BY <1>2, <2>1, <2>3 DEF DropRef, Release
<1> QED BY <1>1, <1>2

LEMMA FlagInit == Init => FlagInv
BY DEF Init, MmapCreated, FlagInv

LEMMA FlagStep == ASSUME IInv, FlagInv, [Next]_vars PROVE FlagInv'
<1>0. /\ MmapTypeOK /\ pc \in [Procs -> PCs] /\ map \in [Procs -> Maps \cup {NULL}]
      /\ reopening \in [Maps -> BOOLEAN] /\ next \in [Maps -> Maps \cup {NULL}]
  BY ThreadsAssumption DEF IInv, TypeOK, MmapTypeOK
<1> USE Places
<1>1. CASE UNCHANGED vars
  BY <1>1 DEF vars, mmapVars, FlagInv
<1>2. CASE FileUpdateStep
  BY <1>2 DEF FileUpdateStep, FileUpdate, FlagInv
<1>3. CASE Destroy
  BY <1>0, <1>3 DEF Destroy, Goes, FlagInv
<1>4. ASSUME NEW t \in Procs, Join(t) PROVE FlagInv'
  BY <1>0, <1>4 DEF Join, Goes, FlagInv
<1>5. ASSUME NEW t \in Procs, FindStartSuperseded(t) \/ RefreshNeeded(t) \/ ReopenBusy(t)
                               \/ ReopenFails(t)
      PROVE  FlagInv'
  BY <1>0, <1>5 DEF FindStartSuperseded, RefreshNeeded, ReopenBusy, ReopenFails, Goes, FlagInv, mmapVars
<1>6. ASSUME NEW t \in Procs, FreeUnlinkedStep(t) PROVE FlagInv'
  BY <1>0, <1>6 DEF FreeUnlinkedStep, FreeUnlinked, FlagInv
<1>7. ASSUME NEW t \in Procs, Unregister(t) PROVE FlagInv'
  <2>1. /\ pc[t] = "reg" /\ pc' = [pc EXCEPT ![t] = "out"] /\ reopening' = reopening
        /\ \A s \in Procs : s # t => map'[s] = map[s]
        /\ \A x \in Maps : reopening[x] => next'[x] = next[x]
    BY <1>0, <1>7, DropRefFlags DEF Unregister, Goes, RegisterDecr, DropRef
  <2> QED BY <1>0, <2>1 DEF FlagInv
<1>8. ASSUME NEW t \in Procs, MoveSelf(t) \/ ReopenFindsNext(t) \/ ReopenMoves(t) PROVE FlagInv'
  <2>1. PICK re \in [Maps -> BOOLEAN] :
           /\ RegisterIncr(t, re, t)
           /\ \A x \in Maps : re[x] => reopening[x]
           /\ pc[t] = "published" => ~re[map[t]]
    <3>1. CASE MoveSelf(t) \/ ReopenFindsNext(t)
      BY <1>0, <3>1 DEF MoveSelf, ReopenFindsNext, Goes
    <3>2. CASE ReopenMoves(t)
      <4> DEFINE re == [reopening EXCEPT ![map[t]] = FALSE]
      <4>1. RegisterIncr(t, re, t) /\ pc[t] = "published"
        BY <3>2 DEF ReopenMoves, Goes
      <4>2. map[t] \in Maps
        <5>1. ~RegisterRefused(t)
          BY <4>1 DEF RegisterIncr, RegisterIncrInto
        <5> QED BY <1>0, <5>1 DEF RegisterRefused
      <4>3. re \in [Maps -> BOOLEAN] /\ ~re[map[t]] /\ \A x \in Maps : re[x] => reopening[x]
        BY <1>0, <4>2
      <4> HIDE DEF re
      <4> QED BY <4>1, <4>3
    <3> QED BY <1>8, <3>1, <3>2
  <2>2. pc' = [pc EXCEPT ![t] = "reg"]
    BY <1>8 DEF MoveSelf, ReopenFindsNext, ReopenMoves, Goes
  <2>3. reopening' = re /\ \A x \in Maps : re[x] => next'[x] = next[x]
    BY <1>0, <2>1, DropRefFlags DEF RegisterIncr, RegisterIncrInto, DropRef
  <2>4. \A s \in Procs : s # t => map'[s] = map[s]
    BY <1>0, <2>1 DEF RegisterIncr, RegisterIncrInto
  <2>5. ASSUME NEW x \in Maps, reopening'[x], next'[x] # NULL
        PROVE  \E s \in Procs : pc'[s] = "published" /\ map'[s] = x
    <3>1. reopening[x] /\ next[x] # NULL /\ re[x]
      BY <2>1, <2>3, <2>5
    <3>2. PICK s \in Procs : pc[s] = "published" /\ map[s] = x
      BY <3>1 DEF FlagInv
    <3>3. s # t
      BY <2>1, <3>1, <3>2
    <3> QED BY <1>0, <2>2, <2>4, <3>2, <3>3
  <2> QED BY <2>5 DEF FlagInv
<1>9. ASSUME NEW t \in Procs, ReopenBegin(t) PROVE FlagInv'
  <2>1. /\ next[map[t]] = NULL /\ reopening' = [reopening EXCEPT ![map[t]] = TRUE]
        /\ pc[t] = "reopen" /\ pc' = [pc EXCEPT ![t] = "opening"] /\ UNCHANGED <<next, map>>
    BY <1>9 DEF ReopenBegin, Goes
  <2>2. \A x \in Maps : reopening'[x] /\ next'[x] # NULL => reopening[x] /\ next[x] # NULL
    BY <1>0, <2>1
  <2>3. \A s \in Procs : pc[s] = "published" => pc'[s] = "published" /\ map'[s] = map[s]
    BY <1>0, <2>1
  <2> QED BY <2>2, <2>3 DEF FlagInv
<1>10. ASSUME NEW t \in Procs, ReopenMaps(t) PROVE FlagInv'
  <2>1. /\ next' = [next EXCEPT ![nmaps + 1] = NULL] /\ pc[t] = "opening"
        /\ pc' = [pc EXCEPT ![t] = "opened"] /\ UNCHANGED <<reopening, map>>
    BY <1>10 DEF ReopenMaps, NewMap, Goes
  <2>2. \A x \in Maps : next'[x] # NULL => next[x] # NULL
    BY <1>0, <2>1
  <2>3. \A s \in Procs : pc[s] = "published" => pc'[s] = "published" /\ map'[s] = map[s]
    BY <1>0, <2>1
  <2> QED BY <2>1, <2>2, <2>3 DEF FlagInv
<1>11. ASSUME NEW t \in Procs, ReopenPublishes(t) PROVE FlagInv'
  <2>1. /\ next' = [next EXCEPT ![map[t]] = nx[t]]
        /\ pc' = [pc EXCEPT ![t] = "published"] /\ UNCHANGED <<reopening, map>>
    BY <1>11 DEF ReopenPublishes, Goes
  <2>2. \A x \in Maps : next'[x] # NULL => next[x] # NULL \/ x = map[t]
    BY <1>0, <2>1
  <2>3. \A s \in Procs : pc[s] = "published" \/ s = t => pc'[s] = "published" /\ map'[s] = map[s]
    BY <1>0, <2>1
  <2> QED BY <2>1, <2>2, <2>3 DEF FlagInv
<1> QED BY <1>1, <1>2, <1>3, <1>4, <1>5, <1>6, <1>7, <1>8, <1>9, <1>10, <1>11 DEF Next, Refresh

-----------------------------------------------------------------------------
(* What is left when the map is destroyed.                                 *)

LEMMA HeapInit == Init => HeapInv
<1> SUFFICES ASSUME Init PROVE HeapInv
  OBVIOUS
<1>1. /\ ptr = [x \in Maps |-> x = 1] /\ mem = [x \in Maps |-> IF x = 1 THEN "live" ELSE "none"]
      /\ pc[Maint] = "reg"
  BY ThreadsAssumption DEF Init, MmapCreated
<1>2. \A x \in Maps : mem[x] = "live" => ptr[x]
  BY <1>1
<1> QED BY <1>1, <1>2 DEF HeapInv

\* Destroying the last map of the chain: the chain was that map alone.
LEMMA DestroyEmpties ==
    ASSUME NEW lo, NEW hi, Active(lo, hi), FlagInv, Destroy, next[map[Maint]] = NULL
    PROVE  \A x \in Maps : ~ptr'[x]
<1> USE Places, ThreadsAssumption
<1>1. /\ pc[Maint] = "reg" /\ todo[Maint] = {}
      /\ \A t \in Queriers : pc[t] = "out" /\ todo[t] = {}
      /\ ptr' = [ptr EXCEPT ![map[Maint]] = FALSE]
  BY DEF Destroy, Goes, MmapFree
<1>2. /\ lo \in Maps /\ hi \in Maps /\ lo =< hi /\ Linked(next, lo, hi) /\ map[Maint] \in lo .. hi
      /\ map[Maint] \in Maps
  BY <1>1, OnChain
<1>3. map[Maint] = hi
  BY <1>2, NullAssumption, BoundsAssumption DEF Linked, Maps
<1>4. \A t \in Procs : t # Maint => pc[t] = "out" /\ todo[t] = {}
  BY <1>1 DEF Queriers
<1>5. lo = hi
  <2>1. SUFFICES ASSUME lo # hi PROVE FALSE
    OBVIOUS
  <2>2. next[lo] # NULL
    BY <1>2, <2>1, NullAssumption, BoundsAssumption DEF Linked, Maps
  <2>3. ~reopening[lo]
    BY <1>1, <1>2, <1>4, <2>2 DEF FlagInv
  <2>4. refcnt[lo] # 0
    BY <2>3 DEF Active, Chain, ChainShape, InUse
  <2>5. HoldersIn(pc, map, lo) = {}
    BY <1>1, <1>3, <1>4, <2>1 DEF HoldersIn
  <2>6. Held(pc, map, lo) = 0
    BY <2>5, FS_EmptySet DEF Held
  <2> QED BY <1>2, <2>4, <2>6 DEF Active, Counted
<1>6. InTransit = {}
  BY <1>1, <1>4 DEF InTransit
<1>7. \A x \in Maps : ptr[x] => x \in lo .. hi
  BY <1>6 DEF Active, Chain, ChainShape
<1>8. \A x \in Maps : ptr[x] => x = map[Maint]
  BY <1>2, <1>3, <1>5, <1>7, BoundsAssumption DEF Maps
<1>9. ptr \in [Maps -> BOOLEAN]
  BY DEF Active, TypeOK, MmapTypeOK
<1> QED BY <1>1, <1>2, <1>8, <1>9

\* Unmapping and freeing go together, and after mcdb_mmap_destroy nothing moves
\* but the file.
LEMMA HeapStep == ASSUME IInv, FlagInv, HeapInv, [Next]_vars PROVE HeapInv'
<1>0. /\ ptr \in [Maps -> BOOLEAN] /\ mem \in [Maps -> {"none", "live", "freed"}]
      /\ pc \in [Procs -> PCs] /\ nmaps \in 0 .. MaxMaps
  BY DEF IInv, TypeOK, MmapTypeOK
<1>1. ASSUME UNCHANGED <<ptr, mem>>, UNCHANGED <<pc, map, next>> \/ pc'[Maint] # "destroyed"
      PROVE  HeapInv'
  BY <1>1 DEF HeapInv
<1>2. CASE UNCHANGED vars \/ FileUpdateStep
  BY <1>1, <1>2 DEF vars, mmapVars, FileUpdateStep, FileUpdate
<1>3. CASE Next /\ ~FileUpdateStep
  <2>1. PICK lo, hi : Active(lo, hi)
    BY <1>3, GoneStep, ActiveChain
  <2>2. pc[Maint] \in Registered
    BY <2>1 DEF Active
  <2>3. ASSUME NEW x, MmapFree(x), ~Allocated, NEW y \in Maps, mem'[y] = "live" PROVE ptr'[y]
    BY <1>0, <2>3 DEF MmapFree, HeapInv
  <2>4. CASE Destroy
    <3>1. next' = next /\ map' = map /\ MmapFree(map[Maint])
      BY <2>4 DEF Destroy
    <3> QED BY <2>1, <2>3, <2>4, <3>1, DestroyEmpties DEF HeapInv
  <2>5. ASSUME NEW t \in Procs, FreeUnlinkedStep(t) PROVE HeapInv'
    <3>1. (\E x \in todo[t] : MmapFree(x)) /\ pc' = pc
      BY <2>5 DEF FreeUnlinkedStep, FreeUnlinked
    <3> QED BY <2>2, <2>3, <3>1, Places DEF HeapInv
  <2>6. ASSUME NEW t \in Procs, ReopenMaps(t) PROVE HeapInv'
    <3>1. /\ ptr' = [ptr EXCEPT ![nmaps + 1] = TRUE] /\ mem' = [mem EXCEPT ![nmaps + 1] = "live"]
          /\ pc' = [pc EXCEPT ![t] = "opened"] /\ nmaps < MaxMaps
      BY <2>6 DEF ReopenMaps, NewMap, Goes
    <3>2. pc'[Maint] # "destroyed"
      BY <1>0, <2>2, <3>1, Places, ThreadsAssumption
    <3>3. ~Allocated => \A y \in Maps : mem'[y] = "live" => ptr'[y]
      BY <1>0, <3>1 DEF HeapInv
    <3> QED BY <3>2, <3>3 DEF HeapInv
  <2>7. ASSUME NEW t \in Procs, Join(t) \/ FindStartSuperseded(t) \/ MoveSelf(t) \/ Unregister(t)
                                \/ (Refresh(t) /\ ~ReopenMaps(t))
        PROVE  HeapInv'
    <3>1. UNCHANGED <<ptr, mem>> /\ \E to \in Registered \cup {"out"} : pc' = [pc EXCEPT ![t] = to]
      BY <2>7, Places DEF Join, FindStartSuperseded, MoveSelf, Unregister, Refresh, RefreshNeeded,
             ReopenFindsNext, ReopenBusy, ReopenBegin, ReopenFails, ReopenPublishes, ReopenMoves,
             Goes, LockedFrame, mmapVars
    <3>2. pc'[Maint] # "destroyed"
      BY <1>0, <2>2, <3>1, Places, ThreadsAssumption
    <3> QED BY <1>1, <3>1, <3>2
  <2> QED BY <1>3, <2>4, <2>5, <2>6, <2>7 DEF Next, Refresh
<1> QED BY <1>2, <1>3

\* After mcdb_mmap_destroy by a maintenance thread that had moved on to the last
\* map, nothing is mapped and no struct is on the heap, whatever was updated,
\* reopened and handed over before, and whichever reopens failed.
THEOREM DestroyLeavesNothing ==
    ASSUME Allocated = FALSE PROVE Spec => []DestroyReleasesAll
<1>1. IInv /\ FlagInv /\ HeapInv /\ [Next]_vars => FlagInv' /\ HeapInv'
  BY FlagStep, HeapStep
<1>2. Init => FlagInv /\ HeapInv
  BY FlagInit, HeapInit
<1>3. HeapInv => DestroyReleasesAll
  BY DEF HeapInv, DestroyReleasesAll
<1> QED BY <1>1, <1>2, <1>3, InductiveInvariant, PTL DEF Spec
=============================================================================
