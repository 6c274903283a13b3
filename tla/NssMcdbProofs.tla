---------------------------- MODULE NssMcdbProofs ----------------------------
(***************************************************************************)
(* Proofs about NssMcdb for calls that do not overlap and get*() calls     *)
(* that find their session's map current, with any number of threads,      *)
(* sessions, maps and updates: NssInv is inductive, and the safety         *)
(* properties follow from it.                                              *)
(***************************************************************************)
EXTENDS NssMcdb, McdbMmapProofs

-----------------------------------------------------------------------------
(* Pointers and the references they stand for.                             *)

\* The pointer variables are different from each other.
LEMMA Pointers ==
    /\ Shared \in Ptrs
    /\ \A t \in Procs : Sess(t) \in Ptrs /\ Local(t) \in Ptrs /\ Sess(t) # Shared /\ Local(t) # Shared
    /\ \A s, t \in Procs : Sess(s) # Local(t)
    /\ \A s, t \in Procs : s # t => Sess(s) # Sess(t) /\ Local(s) # Local(t)
BY NssAssumption DEF Shared, Sess, Local

\* The pointers that hold a reference on x, for given pointers ptrs
RefsIn(ptrs, x) ==
    {p \in Ptrs : ptrs[p] = x /\ \A t \in Procs : p = Local(t) => ptrs[Sess(t)] = NULL}

RefCount(ptrs, x) == Cardinality(RefsIn(ptrs, x))

\* The counts rc agree with the pointers ptrs.
Counted(rc, ptrs) == rc \in [Maps -> Nat] /\ \A x \in Maps : rc[x] = RefCount(ptrs, x)

LEMMA RefsFinite ==
    ASSUME NEW ptrs, NEW x
    PROVE  IsFiniteSet(RefsIn(ptrs, x)) /\ RefCount(ptrs, x) \in Nat
<1>1. RefsIn(ptrs, x) \in SUBSET Ptrs
  BY DEF RefsIn
<1> QED BY <1>1, FiniteAssumption, FS_Subset, FS_CardinalityType DEF RefCount

\* RefsAccounted says that refcnt is Counted.
LEMMA AccountedCounted ==
    ASSUME NssTypeOK PROVE RefsAccounted <=> Counted(refcnt, map)
BY DEF RefsAccounted, Counted, RefCount, RefsIn, InSession, NssTypeOK, MmapTypeOK

\* A pointer p takes a reference on n.
LEMMA RefsAdd ==
    ASSUME NEW rc, NEW ptrs, NEW ptrs2, Counted(rc, ptrs), NEW n \in Maps, NEW p,
           p \notin RefsIn(ptrs, n), RefsIn(ptrs2, n) = RefsIn(ptrs, n) \cup {p},
           \A x \in Maps : x # n => RefsIn(ptrs2, x) = RefsIn(ptrs, x)
    PROVE  Counted([rc EXCEPT ![n] = @ + 1], ptrs2)
<1>1. RefCount(ptrs2, n) = RefCount(ptrs, n) + 1
  BY RefsFinite, FS_AddElement DEF RefCount
<1>2. \A x \in Maps : x # n => RefCount(ptrs2, x) = RefCount(ptrs, x)
  BY DEF RefCount
<1> QED BY <1>1, <1>2 DEF Counted

\* A pointer p gives up its reference on m.
LEMMA RefsDrop ==
    ASSUME NEW rc, NEW ptrs, NEW ptrs2, Counted(rc, ptrs), NEW m \in Maps, NEW p,
           p \in RefsIn(ptrs, m), RefsIn(ptrs2, m) = RefsIn(ptrs, m) \ {p},
           \A x \in Maps : x # m => RefsIn(ptrs2, x) = RefsIn(ptrs, x)
    PROVE  Counted([rc EXCEPT ![m] = @ - 1], ptrs2)
<1>1. RefCount(ptrs2, m) = RefCount(ptrs, m) - 1
  BY RefsFinite, FS_RemoveElement DEF RefCount
<1>2. \A x \in Maps : x # m => RefCount(ptrs2, x) = RefCount(ptrs, x)
  BY DEF RefCount
<1>3. RefCount(ptrs2, m) \in Nat
  BY RefsFinite
<1> QED BY <1>1, <1>2, <1>3 DEF Counted

\* A pointer p moves from m to n.
LEMMA RefsMove ==
    ASSUME NEW rc, NEW ptrs, NEW ptrs2, Counted(rc, ptrs), NEW m \in Maps, NEW n \in Maps, m # n,
           NEW p, p \in RefsIn(ptrs, m), p \notin RefsIn(ptrs, n),
           RefsIn(ptrs2, m) = RefsIn(ptrs, m) \ {p}, RefsIn(ptrs2, n) = RefsIn(ptrs, n) \cup {p},
           \A x \in Maps : x # m /\ x # n => RefsIn(ptrs2, x) = RefsIn(ptrs, x)
    PROVE  Counted([rc EXCEPT ![n] = @ + 1, ![m] = @ - 1], ptrs2)
<1>1. RefCount(ptrs2, m) = RefCount(ptrs, m) - 1
  BY RefsFinite, FS_RemoveElement DEF RefCount
<1>2. RefCount(ptrs2, n) = RefCount(ptrs, n) + 1
  BY RefsFinite, FS_AddElement DEF RefCount
<1>3. \A x \in Maps : x # m /\ x # n => RefCount(ptrs2, x) = RefCount(ptrs, x)
  BY DEF RefCount
<1>4. RefCount(ptrs2, m) \in Nat
  BY RefsFinite
<1> QED BY <1>1, <1>2, <1>3, <1>4 DEF Counted

\* A map with a pointer that counts has a count; one with none has none.
LEMMA RefsSome ==
    ASSUME NEW rc, NEW ptrs, Counted(rc, ptrs), NEW x \in Maps
    PROVE  rc[x] # 0 <=> RefsIn(ptrs, x) # {}
BY RefsFinite, FS_EmptySet DEF Counted, RefCount

\* The shared pointer and the sessions hold references.
LEMMA RefsOf ==
    ASSUME NEW rc, NEW ptrs, Counted(rc, ptrs)
    PROVE  /\ ptrs[Shared] \in Maps => rc[ptrs[Shared]] # 0
           /\ \A t \in Procs : ptrs[Sess(t)] \in Maps => rc[ptrs[Sess(t)]] # 0
<1>1. ptrs[Shared] \in Maps => Shared \in RefsIn(ptrs, ptrs[Shared])
  BY Pointers DEF RefsIn
<1>2. \A t \in Procs : ptrs[Sess(t)] \in Maps => Sess(t) \in RefsIn(ptrs, ptrs[Sess(t)])
  BY Pointers DEF RefsIn
<1> QED BY <1>1, <1>2, RefsSome

-----------------------------------------------------------------------------
(* One call at a time.                                                     *)

\* A thread that is not in a call has no local pointer.
LEMMA RestCall == ASSUME NEW s, pc[s] = "idle" PROVE CallInv(s) <=> map[Local(s)] = NULL
BY DEF CallInv, GettingShared, Querying

\* While t is in a call the others are not.
LEMMA OthersRest ==
    ASSUME OneCall, NEW t \in Procs, pc[t] # "idle" \/ todo[t] # {}
    PROVE  \A s \in Procs : s # t => pc[s] = "idle" /\ todo[s] = {}
BY DEF OneCall, AtRest

\* What t does is no business of the threads at rest.
LEMMA Combine ==
    ASSUME NssInv, NEW t \in Procs,
           \A s \in Procs : s # t => /\ pc[s] = "idle" /\ todo[s] = {}
                                     /\ pc'[s] = "idle" /\ todo'[s] = {}
                                     /\ map'[Local(s)] = map[Local(s)],
           NssTypeOK', fsec' =< fver', Counted(refcnt', map'), CallInv(t)',
           \/ map'[Shared] = NULL /\ Unopened'
           \/ map'[Shared] # NULL /\ \E lo, hi \in Maps : lo =< hi /\ ChainOf(lo, hi)'
    PROVE  NssInv'
<1>1. OneCall'
  BY DEF OneCall, AtRest
<1>2. ASSUME NEW s \in Procs PROVE CallInv(s)'
  <2>1. CASE s # t
    <3>1. map[Local(s)] = NULL
      BY <2>1, RestCall DEF NssInv
    <3> QED BY <2>1, <3>1 DEF CallInv, GettingShared, Querying
  <2> QED BY <2>1
<1>3. RefsAccounted'
  BY DEF RefsAccounted, Counted, RefCount, RefsIn, InSession
<1> QED BY <1>1, <1>2, <1>3 DEF NssInv

\* The chain after a step of t under the lock: it starts at l now, the maps
\* before l are left for t to free.
LEMMA ChainAfter ==
    ASSUME NEW lo \in Maps, NEW hi \in Maps, lo =< hi, ChainOf(lo, hi), NssTypeOK,
           NEW t \in Procs, NEW to \in PCs, NEW l \in lo .. hi,
           \A s \in Procs : todo[s] = {}, \A s \in Procs : s # t => pc[s] = "idle",
           pc' = [pc EXCEPT ![t] = to], to \notin {"opened", "published", "moving"},
           pc[t] # "opened",
           InUse(refcnt', reopening', l), Linked(next', l, hi),
           \A x \in l .. hi : newer'[x] <=> x # l,
           todo' = IF l = lo THEN todo ELSE [todo EXCEPT ![t] = lo .. (l - 1)],
           UNCHANGED <<ptr, nmaps, nx>>,
           \A x \in Maps : reopening'[x] /\ x >= lo => x = hi,
           map'[Shared] = hi,
           \A s \in Procs : map'[Sess(s)] # NULL => map'[Sess(s)] \in l .. hi
    PROVE  l \in Maps /\ l =< hi /\ ChainOf(l, hi)'
<1> USE BoundsAssumption
<1>1. l \in Maps /\ l =< hi /\ hi \in l .. hi
  BY DEF Maps
<1>2. \A s \in Procs : pc'[s] \notin {"opened", "published", "moving"} /\ pc[s] # "opened"
  BY DEF NssTypeOK
<1>3. \A x \in l .. hi : ptr'[x]
  BY DEF ChainOf, Maps
<1>4. ASSUME NEW x \in Maps, ptr'[x], x \notin l .. hi PROVE \E s \in Procs : x \in todo'[s]
  <2>1. x \in lo .. hi
    BY <1>2, <1>4 DEF ChainOf
  <2>2. l # lo /\ x \in lo .. (l - 1)
    BY <1>4, <2>1 DEF Maps
  <2>3. todo'[t] = lo .. (l - 1)
    BY <2>2 DEF NssTypeOK, MmapTypeOK
  <2> QED BY <2>2, <2>3
<1>5. \A s \in Procs : todo'[s] \subseteq 1 .. (l - 1)
  <2>1. lo .. (l - 1) \subseteq 1 .. (l - 1)
    BY DEF Maps
  <2> QED BY <2>1 DEF NssTypeOK, MmapTypeOK
<1>6. \A x \in Maps : reopening'[x] /\ x >= l => x = hi
  BY DEF Maps
<1>7. nmaps' = hi
  BY <1>2 DEF ChainOf
<1> QED BY <1>1, <1>2, <1>3, <1>4, <1>5, <1>6, <1>7 DEF ChainOf, Linked, InSession, InUse

-----------------------------------------------------------------------------
(* Steps that leave the maps alone.                                        *)

\* t goes from one place to another, neither of them one at which a new map is
\* in its hands.
LEMMA SameMaps ==
    ASSUME NssInv, NEW t \in Procs, NEW to \in PCs,
           \A s \in Procs : s # t => pc[s] = "idle" /\ todo[s] = {},
           UNCHANGED <<ptr, next, refcnt, reopening, newer, ver, mtime, mem, nmaps, fver, fsec,
                       todo, nx>>,
           map' \in [Ptrs -> Maps \cup {NULL}], map'[Shared] = map[Shared],
           \A s \in Procs : map'[Sess(s)] = map[Sess(s)],
           \A s \in Procs : s # t => map'[Local(s)] = map[Local(s)],
           map[Shared] = NULL => map' = map,
           Counted(refcnt, map'),
           pc' = [pc EXCEPT ![t] = to],
           pc[t] \notin {"opened", "published"}, to \notin {"opened", "published"},
           to = "moving" => next[map[Sess(t)]] # NULL /\ InSession(t),
           op' \in [Procs -> Ops], rm' \in [Procs -> Maps \cup {NULL}],
           asof' \in [Procs -> Versions], nfail' \in 0 .. MaxFail,
           CallInv(t)'
    PROVE  NssInv'
<1>1. NssTypeOK /\ pc \in [Procs -> PCs]
  BY DEF NssInv, NssTypeOK
<1>2. NssTypeOK'
  BY <1>1 DEF NssTypeOK, MmapTypeOK
<1>3. \A s \in Procs : s # t => pc'[s] = pc[s]
  BY <1>1
<1>4. pc'[t] = to
  BY <1>1
<1>5. CASE map[Shared] = NULL
  <2>1. Unopened'
    BY <1>5 DEF NssInv, Unopened
  <2> QED BY <1>2, <1>3, <1>5, <2>1, Combine DEF NssInv
<1>6. CASE map[Shared] # NULL
  <2>1. PICK lo, hi \in Maps : lo =< hi /\ ChainOf(lo, hi)
    BY <1>6 DEF NssInv
  <2>2. \A s \in Procs : pc[s] \notin {"opened", "published"} /\ pc'[s] \notin {"opened", "published"}
    BY <1>3, <1>4
  <2>3. to = "moving" => map[Sess(t)] # hi
    <3>1. to = "moving" => map[Sess(t)] \in lo .. hi
      BY <2>1 DEF ChainOf
    <3>2. next[hi] = NULL
      <4>1. hi \in lo .. hi
        BY <2>1, BoundsAssumption DEF Maps
      <4> QED BY <2>1, <4>1 DEF ChainOf
    <3> QED BY <3>1, <3>2
  <2>4. \A s \in Procs : pc'[s] = "moving" => map'[Sess(s)] # hi
    BY <1>3, <1>4, <2>3
  <2>5. ChainOf(lo, hi)'
    BY <2>1, <2>2, <2>4 DEF ChainOf, InSession, InUse
  <2> QED BY <1>2, <1>3, <1>6, <2>1, <2>5, Combine DEF NssInv
<1> QED BY <1>5, <1>6

\* Types, as the lemmas below need them
LEMMA Types ==
    ASSUME NssInv
    PROVE  /\ NssTypeOK /\ MmapTypeOK /\ OneCall /\ fsec =< fver
           /\ map \in [Ptrs -> Maps \cup {NULL}] /\ pc \in [Procs -> PCs] /\ op \in [Procs -> Ops]
           /\ rm \in [Procs -> Maps \cup {NULL}] /\ asof \in [Procs -> Versions]
           /\ nfail \in 0 .. MaxFail /\ fver \in Versions /\ Counted(refcnt, map)
           /\ \A t \in Procs : CallInv(t)
BY AccountedCounted DEF NssInv, NssTypeOK, MmapTypeOK

\* A call begins, or goes on, with the maps as they are.
LEMMA CallStep ==
    ASSUME NssInv, Serial = TRUE, NEW t \in Procs,
           Get(t) \/ OpenSession(t) \/ Getent(t) \/ Getentstart(t)
    PROVE  NssInv'
<1>1. PICK o \in Ops, to \in {"shared", "using", "query"} :
         /\ Calls(t, o, to) /\ map' = map
         /\ to = "shared" => ~InSession(t)
         /\ to # "shared" => InSession(t) /\ o \in {"ent", "start"}
         /\ to = "query" => o = "start"
  BY DEF Get, OpenSession, Getent, Getentstart, Ops
<1>2. /\ \A s \in Procs : pc[s] = "idle" /\ todo[s] = {}
      /\ pc' = [pc EXCEPT ![t] = to] /\ op' = [op EXCEPT ![t] = o]
      /\ asof' = [asof EXCEPT ![t] = fver]
      /\ UNCHANGED <<ptr, next, refcnt, reopening, newer, ver, mtime, mem, nmaps, fver, fsec,
                     todo, rm, nx, nfail>>
  BY <1>1 DEF Calls, Goes, AtRest, fileVars
<1>3. to \in PCs
  BY DEF PCs
<1>4. pc'[t] = to /\ op'[t] = o /\ op' \in [Procs -> Ops] /\ asof' \in [Procs -> Versions]
  BY <1>2, Types
<1>5. map[Local(t)] = NULL
  BY <1>2, RestCall, Types
<1>6. to # "shared" => map[Shared] # NULL
  <2>1. map[Shared] = NULL => map[Sess(t)] = NULL
    BY Pointers DEF NssInv, Unopened
  <2> QED BY <1>1, <2>1 DEF InSession
<1>7. CallInv(t)'
  BY <1>1, <1>4, <1>5, <1>6 DEF CallInv, GettingShared, Querying, Mine, InSession
<1> QED BY <1>1, <1>2, <1>3, <1>4, <1>7, SameMaps, Types

\* The steps of a call that only look at the maps
LEMMA LookStep ==
    ASSUME NssInv, NEW t \in Procs,
           \/ SharedClosed(t) \/ OpenFails(t) \/ SharedFresh(t) \/ SharedStatFails(t)
           \/ SharedChanged(t)
           \/ ReopenEnter(t) \/ ReopenBusy(t) \/ ReopenFails(t)
           \/ QueryCurrent(t) \/ QuerySuperseded(t) \/ SessionReturns(t)
    PROVE  NssInv'
<1>1. /\ UNCHANGED <<map, ptr, next, refcnt, reopening, newer, ver, mtime, mem, nmaps, fver, fsec,
                     todo, nx, op, asof>>
      /\ rm' = rm \/ rm' = [rm EXCEPT ![t] = map[Shared]]
  BY DEF SharedClosed, OpenFails, SharedFresh, SharedStatFails, SharedChanged, ReopenEnter,
         ReopenBusy, ReopenFails, QueryCurrent, QuerySuperseded, SessionReturns, mmapVars, callVars
<1>2. nfail' \in 0 .. MaxFail
  BY Types, BoundsAssumption DEF SharedClosed, OpenFails, SharedFresh, SharedStatFails, SharedChanged,
         ReopenEnter, ReopenBusy, ReopenFails, QueryCurrent, QuerySuperseded, SessionReturns
<1>3. rm' \in [Procs -> Maps \cup {NULL}]
  BY <1>1, Pointers, Types
<1>4. CallInv(t)
  BY Types
<1>5. PICK to \in PCs : /\ pc' = [pc EXCEPT ![t] = to] /\ to \notin {"opened", "published"}
                        /\ pc[t] \notin {"idle", "opened", "published"}
                        /\ to = "moving" => next[map[Sess(t)]] # NULL /\ InSession(t)
                        /\ CallInv(t)'
  <2>1. CASE SharedClosed(t)
    <3>1. pc[t] = "shared" /\ pc' = [pc EXCEPT ![t] = "open"] /\ map[Shared] = NULL /\ rm' = rm
      BY <2>1 DEF SharedClosed, Goes
    <3>2. pc'[t] = "open"
      BY <3>1, Types
    <3>3. CallInv(t)'
      BY <1>1, <1>4, <3>1, <3>2 DEF CallInv, GettingShared, Querying, InSession
    <3> QED BY <3>1, <3>3 DEF PCs
  <2>2. CASE OpenFails(t) \/ SessionReturns(t)
    <3>1. pc[t] \in {"open", "using"} /\ pc' = [pc EXCEPT ![t] = "idle"]
          /\ (pc[t] = "using" => op[t] # "get")
      BY <2>2 DEF OpenFails, SessionReturns, Goes
    <3>2. pc'[t] = "idle"
      BY <3>1, Types
    <3>3. map[Local(t)] = NULL
      BY <1>4, <3>1 DEF CallInv, Querying
    <3>4. CallInv(t)'
      BY <1>1, <3>2, <3>3 DEF CallInv, GettingShared, Querying
    <3> QED BY <3>1, <3>4 DEF PCs
  <2>3. CASE SharedFresh(t) \/ SharedStatFails(t) \/ ReopenBusy(t) \/ ReopenFails(t)
    <3>1. /\ pc[t] \in {"shared", "reopen", "opening"} /\ pc' = [pc EXCEPT ![t] = "register"]
          /\ map[Shared] # NULL
      BY <1>4, <2>3 DEF SharedFresh, SharedStatFails, ReopenBusy, ReopenFails, Goes, CallInv
    <3>2. pc'[t] = "register"
      BY <3>1, Types
    <3>3. CallInv(t)'
      BY <1>1, <1>4, <3>1, <3>2 DEF CallInv, GettingShared, Querying, InSession
    <3> QED BY <3>1, <3>3 DEF PCs
  <2>4. CASE SharedChanged(t)
    <3>1. pc[t] = "shared" /\ pc' = [pc EXCEPT ![t] = "enter"] /\ map[Shared] # NULL
      BY <2>4 DEF SharedChanged, Goes
    <3>2. pc'[t] = "enter"
      BY <3>1, Types
    <3>3. CallInv(t)'
      BY <1>1, <1>4, <3>1, <3>2 DEF CallInv, GettingShared, Querying, InSession
    <3> QED BY <3>1, <3>3 DEF PCs
  <2>5. CASE ReopenEnter(t)
    <3>1. pc[t] = "enter" /\ pc' = [pc EXCEPT ![t] = "reopen"] /\ rm' = [rm EXCEPT ![t] = map[Shared]]
      BY <2>5 DEF ReopenEnter, Goes
    <3>2. pc'[t] = "reopen" /\ rm'[t] = map[Shared]
      BY <3>1, Types
    <3>3. CallInv(t)'
      BY <1>1, <1>4, <3>1, <3>2 DEF CallInv, GettingShared, Querying, InSession
    <3> QED BY <3>1, <3>3 DEF PCs
  <2>6. CASE QueryCurrent(t)
    <3>1. pc[t] = "query" /\ pc' = [pc EXCEPT ![t] = "using"]
      BY <2>6 DEF QueryCurrent, Goes
    <3>2. pc'[t] = "using"
      BY <3>1, Types
    <3>3. CallInv(t)'
      BY <1>1, <1>4, <3>1, <3>2 DEF CallInv, GettingShared, Querying, InSession, Mine
    <3> QED BY <3>1, <3>3 DEF PCs
  <2>7. CASE QuerySuperseded(t)
    <3>1. pc[t] = "query" /\ pc' = [pc EXCEPT ![t] = "moving"] /\ next[map[Mine(t)]] # NULL
      BY <2>7 DEF QuerySuperseded, Goes
    <3>2. pc'[t] = "moving"
      BY <3>1, Types
    <3>3. op[t] = "start"
      <4>1. SUFFICES ASSUME op[t] = "get" PROVE FALSE
        BY <1>4, <3>1 DEF CallInv
      <4>2. map[Local(t)] = map[Shared] /\ map[Shared] # NULL /\ Mine(t) = Local(t)
        BY <1>4, <3>1, <4>1 DEF CallInv, Querying, Mine
      <4>3. PICK lo, hi \in Maps : lo =< hi /\ ChainOf(lo, hi)
        BY <4>2 DEF NssInv
      <4>4. \A s \in Procs : pc[s] # "published"
        BY <3>1, OthersRest, Types
      <4>5. map[Shared] = hi /\ hi \in lo .. hi
        BY <4>3, <4>4 DEF ChainOf
      <4>6. next[hi] = NULL
        BY <4>3, <4>5 DEF ChainOf
      <4> QED BY <3>1, <4>2, <4>5, <4>6
    <3>4. Mine(t) = Sess(t) /\ InSession(t)
      BY <1>4, <3>1, <3>3 DEF Mine, CallInv, Querying, InSession
    <3>5. CallInv(t)'
      BY <1>1, <1>4, <3>1, <3>2, <3>3 DEF CallInv, GettingShared, Querying, InSession, Mine
    <3> QED BY <3>1, <3>4, <3>5 DEF PCs
  <2> QED BY <2>1, <2>2, <2>3, <2>4, <2>5, <2>6, <2>7
<1>6. \A s \in Procs : s # t => pc[s] = "idle" /\ todo[s] = {}
  BY <1>5, OthersRest, Types
<1> QED BY <1>1, <1>2, <1>3, <1>5, <1>6, SameMaps, Types

\* A get*() in a session borrows the session's map, and with it its reference.
LEMMA BorrowStep ==
    ASSUME NssInv, Serial = TRUE, Nested # "ever", NEW t \in Procs,
           GetInSession(t) \/ GetReturnsInSession(t)
    PROVE  NssInv'
<1>1. /\ UNCHANGED <<ptr, next, refcnt, reopening, newer, ver, mtime, mem, nmaps, fver, fsec,
                     todo, nx, rm, nfail>>
      /\ InSession(t)
  BY DEF GetInSession, GetReturnsInSession, Calls, LockedFrame, fileVars
<1>2. \A s \in Procs : s # t => pc[s] = "idle" /\ todo[s] = {}
  BY OthersRest, Types DEF GetInSession, GetReturnsInSession, Calls, Goes, AtRest
<1>3. map[Sess(t)] \in Maps /\ map[Shared] # NULL
  BY <1>1, Pointers, Types DEF NssInv, Unopened, InSession
<1>4. PICK v \in Maps \cup {NULL} : map' = [map EXCEPT ![Local(t)] = v]
  BY <1>3 DEF GetInSession, GetReturnsInSession
<1>5. /\ map' \in [Ptrs -> Maps \cup {NULL}] /\ map'[Shared] = map[Shared]
      /\ \A s \in Procs : map'[Sess(s)] = map[Sess(s)]
      /\ \A s \in Procs : s # t => map'[Local(s)] = map[Local(s)]
      /\ map'[Local(t)] = v
      /\ \A p \in Ptrs : p # Local(t) => map'[p] = map[p]
  BY <1>4, Pointers, Types
<1>6. Counted(refcnt, map')
  <2>1. \A x \in Maps : RefsIn(map', x) = RefsIn(map, x)
    BY <1>1, <1>5, Pointers DEF RefsIn, InSession
  <2> QED BY <2>1, Types DEF Counted, RefCount
<1>7. CallInv(t)
  BY Types
<1>8. CASE GetInSession(t)
  <2>1. /\ pc[t] = "idle" /\ pc' = [pc EXCEPT ![t] = "query"] /\ op' = [op EXCEPT ![t] = "get"]
        /\ asof' = [asof EXCEPT ![t] = fver] /\ next[map[Sess(t)]] = NULL
        /\ map' = [map EXCEPT ![Local(t)] = map[Sess(t)]]
        /\ \A s \in Procs : pc[s] = "idle" /\ todo[s] = {}
    BY <1>8, NssAssumption DEF GetInSession, Calls, Goes
  <2>2. /\ pc'[t] = "query" /\ op'[t] = "get" /\ op' \in [Procs -> Ops]
        /\ asof' \in [Procs -> Versions] /\ map'[Local(t)] = map[Sess(t)]
    BY <2>1, Types, Pointers DEF Ops
  <2>3. map[Sess(t)] = map[Shared]
    <3>1. PICK lo, hi \in Maps : lo =< hi /\ ChainOf(lo, hi)
      BY <1>3 DEF NssInv
    <3>2. map[Shared] = hi /\ map[Sess(t)] \in lo .. hi
      BY <1>1, <2>1, <3>1 DEF ChainOf
    <3>3. \A x \in lo .. hi : x # hi => next[x] # NULL
      BY <3>1, NullAssumption, BoundsAssumption DEF ChainOf, Maps
    <3> QED BY <2>1, <3>2, <3>3
  <2>4. CallInv(t)'
    BY <1>1, <1>3, <1>5, <2>2, <2>3, NullAssumption DEF CallInv, GettingShared, Querying, Mine, InSession
  <2> QED BY <1>1, <1>2, <1>3, <1>5, <1>6, <2>1, <2>2, <2>4, SameMaps, Types DEF PCs
<1>9. CASE GetReturnsInSession(t)
  <2>1. /\ pc[t] = "using" /\ pc' = [pc EXCEPT ![t] = "idle"] /\ UNCHANGED <<op, asof>>
        /\ map' = [map EXCEPT ![Local(t)] = NULL]
    BY <1>9 DEF GetReturnsInSession, Goes, LockedFrame, callVars
  <2>2. pc'[t] = "idle" /\ map'[Local(t)] = NULL
    BY <2>1, Types, Pointers
  <2>3. CallInv(t)'
    BY <2>2 DEF CallInv, GettingShared, Querying
  <2> QED BY <1>1, <1>2, <1>3, <1>5, <1>6, <2>1, <2>3, SameMaps, Types DEF PCs
<1> QED BY <1>8, <1>9

-----------------------------------------------------------------------------
(* Opening and reopening the file.                                         *)

LEMMA OpenCreatesStep == ASSUME NssInv, NEW t \in Procs, OpenCreates(t) PROVE NssInv'
<1> USE BoundsAssumption
<1>1. /\ pc[t] = "open" /\ pc' = [pc EXCEPT ![t] = "register"] /\ map[Shared] = NULL
      /\ nmaps' = 1 /\ mem' = [mem EXCEPT ![1] = "live"] /\ ptr' = [ptr EXCEPT ![1] = TRUE]
      /\ ver' = [ver EXCEPT ![1] = fver] /\ mtime' = [mtime EXCEPT ![1] = fsec]
      /\ refcnt' = [refcnt EXCEPT ![1] = 1] /\ map' = [map EXCEPT ![Shared] = 1]
      /\ UNCHANGED <<next, reopening, newer, fver, fsec, todo, op, asof, rm, nx, nfail>>
  BY DEF OpenCreates, Goes, fileVars, callVars
<1>2. Unopened /\ 1 \in Maps /\ 1 \in 0 .. MaxMaps
  BY <1>1 DEF NssInv, Maps
<1>3. \A s \in Procs : s # t => pc[s] = "idle" /\ todo[s] = {} /\ pc'[s] = "idle" /\ todo'[s] = {}
  BY <1>1, OthersRest, Types
<1>4. NssTypeOK'
  <2>1. MmapTypeOK'
    BY <1>1, <1>2, Types, Pointers DEF MmapTypeOK
  <2> QED BY <1>1, <2>1, Types DEF NssTypeOK, PCs
<1>5. /\ map'[Shared] = 1 /\ \A p \in Ptrs : p # Shared => map'[p] = map[p]
      /\ \A p \in Ptrs : map[p] = NULL
  BY <1>1, <1>2, Types, Pointers DEF Unopened
<1>6. Counted(refcnt', map')
  <2>1. \A x \in Maps : RefsIn(map, x) = {}
    BY <1>5, NullAssumption DEF RefsIn
  <2>2. RefsIn(map', 1) = {Shared}
    BY <1>5, Pointers, NullAssumption, <1>2 DEF RefsIn
  <2>3. \A x \in Maps : x # 1 => RefsIn(map', x) = {}
    BY <1>5, Pointers, NullAssumption DEF RefsIn
  <2>4. Counted(refcnt, map) /\ refcnt \in [Maps -> Nat]
    BY Types DEF Counted
  <2>5. refcnt[1] = 0
    BY <1>2, <2>1, <2>4, RefsSome
  <2>6. refcnt' = [refcnt EXCEPT ![1] = @ + 1]
    BY <1>1, <1>2, <2>4, <2>5
  <2>7. /\ Shared \notin RefsIn(map, 1) /\ RefsIn(map', 1) = RefsIn(map, 1) \cup {Shared}
        /\ \A x \in Maps : x # 1 => RefsIn(map', x) = RefsIn(map, x)
    BY <1>2, <2>1, <2>2, <2>3
  <2>8. Counted([refcnt EXCEPT ![1] = @ + 1], map')
    BY <1>2, <2>4, <2>7, RefsAdd
  <2> QED BY <2>6, <2>8
<1>7. CallInv(t)'
  <2>1. pc'[t] = "register" /\ map'[Local(t)] = NULL /\ map'[Sess(t)] = NULL /\ map'[Shared] # NULL
    BY <1>1, <1>2, <1>5, Types, Pointers, NullAssumption
  <2> QED BY <2>1 DEF CallInv, GettingShared, Querying, InSession
<1>8. ChainOf(1, 1)'
  <2>1. \A x \in 1 .. 1 : x = 1
    OBVIOUS
  <2>2. 1 \in 1 .. 1
    OBVIOUS
  <2>3. ptr'[1] /\ next'[1] = NULL /\ ~newer'[1] /\ refcnt'[1] # 0
    BY <1>1, <1>2, Types DEF MmapTypeOK, Unopened
  <2>4. \A x \in Maps : (ptr'[x] => x = 1) /\ ~reopening'[x]
    BY <1>1, <1>2, Types DEF MmapTypeOK, Unopened
  <2>5. \A s \in Procs : pc'[s] \notin {"opened", "published", "moving"} /\ todo'[s] = {}
                          /\ map'[Sess(s)] = NULL
    BY <1>1, <1>2, <1>3, <1>5, Types, Pointers DEF Unopened
  <2> QED BY <1>1, <1>5, <2>1, <2>2, <2>3, <2>4, <2>5 DEF ChainOf, InSession, InUse
<1>9. \A s \in Procs : s # t => map'[Local(s)] = map[Local(s)]
  BY <1>5, Pointers
<1>10. map'[Shared] # NULL /\ \E lo, hi \in Maps : lo =< hi /\ ChainOf(lo, hi)'
  <2>1. 1 =< 1
    OBVIOUS
  <2> QED BY <1>2, <1>5, <1>8, <2>1, NullAssumption
<1> QED BY <1>1, <1>3, <1>4, <1>6, <1>7, <1>9, <1>10, Combine, Types

LEMMA BeginStep == ASSUME NssInv, NEW t \in Procs, ReopenBegin(t) PROVE NssInv'
<1>1. /\ pc[t] = "reopen" /\ pc' = [pc EXCEPT ![t] = "opening"]
      /\ reopening' = [reopening EXCEPT ![rm[t]] = TRUE]
      /\ UNCHANGED <<map, ptr, next, refcnt, newer, ver, mtime, mem, nmaps, fver, fsec, todo,
                     op, asof, rm, nx, nfail>>
  BY DEF ReopenBegin, Goes, LockedFrame, fileVars, callVars
<1>2. \A s \in Procs : s # t => pc[s] = "idle" /\ todo[s] = {} /\ pc'[s] = "idle" /\ todo'[s] = {}
  BY <1>1, OthersRest, Types
<1>3. CallInv(t) /\ pc'[t] = "opening"
  BY <1>1, Types
<1>4. rm[t] = map[Shared] /\ map[Shared] # NULL /\ map[Shared] \in Maps
  BY <1>1, <1>3, Types, Pointers DEF CallInv
<1>5. NssTypeOK' /\ reopening'[rm[t]] /\ \A x \in Maps : x # rm[t] => reopening'[x] = reopening[x]
  BY <1>1, <1>4, Types DEF NssTypeOK, MmapTypeOK, PCs
<1>6. CallInv(t)'
  BY <1>1, <1>3, <1>4, <1>5 DEF CallInv, GettingShared, Querying, InSession
<1>7. PICK lo, hi \in Maps : lo =< hi /\ ChainOf(lo, hi)
  BY <1>4 DEF NssInv
<1>8. \A s \in Procs : /\ pc[s] \notin {"opened", "published", "moving"}
                        /\ pc'[s] \notin {"opened", "published", "moving"}
  BY <1>1, <1>2, <1>3
<1>9. map[Shared] = hi
  BY <1>7, <1>8 DEF ChainOf
<1>10. InUse(refcnt', reopening', lo)
  BY <1>1, <1>5, <1>7 DEF ChainOf, InUse
<1>11. ChainOf(lo, hi)'
  BY <1>1, <1>4, <1>5, <1>7, <1>8, <1>9, <1>10 DEF ChainOf, InSession
<1> QED BY <1>1, <1>2, <1>4, <1>5, <1>6, <1>7, <1>11, Combine, Types

LEMMA MapsStep == ASSUME NssInv, NEW t \in Procs, ReopenMaps(t) PROVE NssInv'
<1> USE BoundsAssumption
<1> DEFINE n == nmaps + 1
<1>1. /\ pc[t] = "opening" /\ pc' = [pc EXCEPT ![t] = "opened"]
      /\ nmaps < MaxMaps /\ nmaps' = n /\ nx' = [nx EXCEPT ![t] = n]
      /\ mem' = [mem EXCEPT ![n] = "live"] /\ ptr' = [ptr EXCEPT ![n] = TRUE]
      /\ ver' = [ver EXCEPT ![n] = fver] /\ mtime' = [mtime EXCEPT ![n] = fsec]
      /\ next' = [next EXCEPT ![n] = NULL] /\ refcnt' = [refcnt EXCEPT ![n] = 0]
      /\ newer' = [newer EXCEPT ![n] = TRUE]
      /\ UNCHANGED <<map, reopening, todo, fver, fsec, op, asof, rm, nfail>>
  BY DEF ReopenMaps, NewMap, Goes, fileVars, callVars
<1>2. \A s \in Procs : s # t => pc[s] = "idle" /\ todo[s] = {} /\ pc'[s] = "idle" /\ todo'[s] = {}
  BY <1>1, OthersRest, Types
<1>3. CallInv(t) /\ pc'[t] = "opened" /\ todo[t] = {} /\ todo'[t] = {}
  BY <1>1, Types DEF ReopenMaps, Goes
<1>4. rm[t] = map[Shared] /\ map[Shared] # NULL /\ reopening[rm[t]]
  BY <1>1, <1>3 DEF CallInv
<1>5. PICK lo, hi \in Maps : lo =< hi /\ ChainOf(lo, hi)
  BY <1>4 DEF NssInv
<1>6. \A s \in Procs : pc[s] \notin {"opened", "published", "moving"}
  BY <1>1, <1>2
<1>7. nmaps = hi /\ map[Shared] = hi /\ n \in Maps /\ n = hi + 1 /\ n \in 0 .. MaxMaps
  BY <1>1, <1>5, <1>6 DEF ChainOf, Maps
<1> HIDE DEF n
<1>8. NssTypeOK'
  <2>1. MmapTypeOK'
    BY <1>1, <1>7, Types DEF MmapTypeOK
  <2> QED BY <1>1, <1>7, <2>1, Types DEF NssTypeOK, PCs
<1>9. CallInv(t)'
  BY <1>1, <1>3, <1>4 DEF CallInv, GettingShared, Querying, InSession
<1>10. \A s \in Procs : map[Sess(s)] # NULL => map[Sess(s)] \in lo .. hi
  BY <1>5 DEF ChainOf, InSession
<1>11. \A s \in Procs : map[Local(s)] # NULL => map[Local(s)] = hi
  BY <1>7, Types DEF CallInv
<1>12. \A x \in lo .. hi : x \in Maps /\ x # n
  BY <1>5, <1>7 DEF Maps
<1>13. Counted(refcnt', map')
  <2>1. RefsIn(map, n) = {}
    <3>1. \A p \in Ptrs : map[p] # n
      <4>1. hi \in lo .. hi
        BY <1>5 DEF Maps
      <4>2. n # NULL
        BY <1>7, NullAssumption
      <4> QED BY <1>7, <1>10, <1>11, <1>12, <4>1, <4>2, NssAssumption
    <3> QED BY <3>1 DEF RefsIn
  <2>2. Counted(refcnt, map) /\ refcnt \in [Maps -> Nat]
    BY Types DEF Counted
  <2>3. refcnt[n] = 0
    BY <1>7, <2>1, <2>2, RefsSome
  <2>4. refcnt' = refcnt
    BY <1>1, <1>7, <2>2, <2>3
  <2> QED BY <1>1, <2>2, <2>4
<1>14. /\ ptr'[n] /\ next'[n] = NULL /\ newer'[n] /\ nx'[t] = n
       /\ \A x \in Maps : x # n => /\ ptr'[x] = ptr[x] /\ next'[x] = next[x] /\ newer'[x] = newer[x]
                                   /\ refcnt'[x] = refcnt[x]
  BY <1>1, <1>7, Types DEF MmapTypeOK, NssTypeOK
<1>15. ChainOf(lo, hi)'
  <2>1. /\ \A x \in lo .. hi : ptr'[x]
        /\ \A x \in lo .. hi : next'[x] = IF x = hi THEN NULL ELSE x + 1
        /\ \A x \in lo .. hi : newer'[x] <=> x # lo
    BY <1>5, <1>12, <1>14 DEF ChainOf
  <2>2. InUse(refcnt', reopening', lo)
    <3>1. lo \in lo .. hi
      BY <1>5 DEF Maps
    <3> QED BY <1>1, <1>5, <1>12, <1>14, <3>1 DEF ChainOf, InUse
  <2>3. ASSUME NEW x \in Maps, ptr'[x], x \notin lo .. hi
        PROVE  \E s \in Procs : x \in todo'[s] \/ (pc'[s] = "opened" /\ nx'[s] = x)
    <3>1. CASE x = n
      BY <1>3, <1>14, <3>1
    <3>2. CASE x # n
      BY <1>1, <1>5, <1>6, <1>14, <2>3, <3>2 DEF ChainOf
    <3> QED BY <3>1, <3>2
  <2>4. /\ \A s \in Procs : pc'[s] \notin {"published", "moving"}
        /\ \A s \in Procs : pc'[s] = "opened" => s = t
        /\ \E s \in Procs : pc'[s] = "opened"
    BY <1>2, <1>3
  <2>5. \A x \in Maps : reopening[x] /\ x >= lo => x = hi
    BY <1>5, <1>6 DEF ChainOf
  <2> QED BY <1>1, <1>5, <1>7, <1>14, <2>1, <2>2, <2>3, <2>4, <2>5 DEF ChainOf, InSession
<1> QED BY <1>1, <1>2, <1>4, <1>5, <1>8, <1>9, <1>13, <1>15, Combine, Types

\* map->next = next: the chain is longer by one map.
LEMMA PublishStep == ASSUME NssInv, NEW t \in Procs, ReopenPublishes(t) PROVE NssInv'
<1> USE BoundsAssumption
<1>1. /\ pc[t] = "opened" /\ pc' = [pc EXCEPT ![t] = "published"]
      /\ next' = [next EXCEPT ![rm[t]] = nx[t]] /\ nx' = [nx EXCEPT ![t] = NULL]
      /\ UNCHANGED <<map, ptr, refcnt, reopening, newer, ver, mtime, mem, nmaps, fver, fsec, todo,
                     op, asof, rm, nfail>>
  BY DEF ReopenPublishes, Goes, fileVars, callVars
<1>2. \A s \in Procs : s # t => pc[s] = "idle" /\ todo[s] = {} /\ pc'[s] = "idle" /\ todo'[s] = {}
  BY <1>1, OthersRest, Types
<1>3. CallInv(t) /\ pc'[t] = "published" /\ todo[t] = {}
  BY <1>1, Types DEF ReopenPublishes, Goes
<1>4. rm[t] = map[Shared] /\ map[Shared] # NULL /\ reopening[rm[t]]
  BY <1>1, <1>3 DEF CallInv
<1>5. PICK lo, hi \in Maps : lo =< hi /\ ChainOf(lo, hi)
  BY <1>4 DEF NssInv
<1>6. \A s \in Procs : pc[s] \notin {"published", "moving"}
  BY <1>1, <1>2
<1>7. /\ nmaps = hi + 1 /\ map[Shared] = hi /\ nx[t] = hi + 1 /\ ptr[hi + 1] /\ newer[hi + 1]
      /\ next[hi + 1] = NULL
  BY <1>1, <1>5, <1>6 DEF ChainOf
<1>8. hi + 1 \in Maps /\ hi \in lo .. hi /\ lo =< hi + 1
  BY <1>5, <1>7, Types DEF MmapTypeOK, Maps
<1>9. NssTypeOK'
  BY <1>1, <1>4, <1>7, <1>8, Types DEF NssTypeOK, MmapTypeOK, PCs
<1>10. CallInv(t)'
  BY <1>1, <1>3, <1>4 DEF CallInv, GettingShared, Querying, InSession
<1>11. next'[hi] = hi + 1 /\ \A x \in Maps : x # hi => next'[x] = next[x]
  BY <1>1, <1>4, <1>7, Types DEF MmapTypeOK
<1>12. ChainOf(lo, hi + 1)'
  <2>0. \A x \in lo .. (hi + 1) : x = hi + 1 \/ x \in lo .. hi
    BY <1>5 DEF Maps
  <2>1. \A x \in lo .. hi : x \in Maps /\ x # hi + 1 /\ x \in lo .. (hi + 1)
    BY <1>5 DEF Maps
  <2>2. \A x \in lo .. (hi + 1) : ptr'[x] /\ (newer'[x] <=> x # lo)
    <3>1. hi + 1 # lo
      BY <1>5 DEF Maps
    <3> QED BY <1>1, <1>5, <1>7, <2>0, <3>1 DEF ChainOf
  <2>3. \A x \in lo .. (hi + 1) : next'[x] = IF x = hi + 1 THEN NULL ELSE x + 1
    <3>1. next'[hi + 1] = NULL
      BY <1>7, <1>8, <1>11 DEF Maps
    <3>2. \A x \in lo .. hi : x # hi => next'[x] = x + 1
      BY <1>5, <1>11, <2>1 DEF ChainOf
    <3> QED BY <1>11, <2>0, <2>1, <3>1, <3>2
  <2>4. InUse(refcnt', reopening', lo)
    BY <1>1, <1>5 DEF ChainOf, InUse
  <2>5. ASSUME NEW x \in Maps, ptr'[x], x \notin lo .. (hi + 1) PROVE \E s \in Procs : x \in todo'[s]
    <3>1. x \notin lo .. hi /\ x # hi + 1
      BY <1>8, <2>1, <2>5 DEF Maps
    <3> QED BY <1>1, <1>5, <1>7, <2>5, <3>1 DEF ChainOf
  <2>6. \A x \in Maps : reopening'[x] /\ x >= lo =>
            \E s \in Procs : pc'[s] = "published" /\ rm'[s] = x
    BY <1>1, <1>3, <1>4, <1>5, <1>6, <1>7 DEF ChainOf
  <2>7. /\ \A s \in Procs : pc'[s] \notin {"opened", "moving"}
        /\ \E s \in Procs : pc'[s] = "published"
    BY <1>2, <1>3
  <2>8. map'[Shared] = (hi + 1) - 1 /\ map'[Shared] \in lo .. (hi + 1)
    BY <1>1, <1>7, <1>8, <2>1 DEF Maps
  <2>9. \A s \in Procs : map'[Sess(s)] # NULL => map'[Sess(s)] \in lo .. (hi + 1)
    BY <1>1, <1>5, <2>1 DEF ChainOf, InSession
  <2> QED BY <1>1, <1>5, <1>7, <2>2, <2>3, <2>4, <2>5, <2>6, <2>7, <2>8, <2>9 DEF ChainOf, InSession
<1>13. map'[Shared] # NULL /\ \E l, h \in Maps : l =< h /\ ChainOf(l, h)'
  BY <1>1, <1>4, <1>5, <1>8, <1>12
<1> QED BY <1>1, <1>2, <1>9, <1>10, <1>13, Combine, Types

-----------------------------------------------------------------------------
(* References change hands under the lock.                                 *)

\* t drops a reference on a map of the chain lo .. hi, and perhaps takes one on
\* its last map; the flags are re then.
Drops(lo, hi, t, to, re) ==
    /\ lo =< hi /\ ChainOf(lo, hi)
    /\ \A s \in Procs : todo[s] = {}
    /\ \A s \in Procs : s # t => pc[s] = "idle"
    /\ pc[t] # "opened" /\ to \notin {"opened", "published", "moving"}
    /\ pc' = [pc EXCEPT ![t] = to]
    /\ LockedFrame
    /\ map' \in [Ptrs -> Maps \cup {NULL}] /\ map'[Shared] = hi
    /\ \A s \in Procs : map'[Sess(s)] # NULL => map'[Sess(s)] \in lo .. hi
    /\ \A s \in Procs : s # t => map'[Local(s)] = map[Local(s)]
    /\ \A x \in Maps : re[x] /\ x >= lo => x = hi

LEMMA LockedDrop ==
    ASSUME NssInv, NEW lo \in Maps, NEW hi \in Maps, NEW t \in Procs, NEW to \in PCs,
           NEW m \in lo .. hi, NEW rc \in [Maps -> Nat], NEW re \in [Maps -> BOOLEAN],
           Drops(lo, hi, t, to, re), DropRef(rc, re, m, t),
           Counted(rc, map'), m = lo \/ InUse(rc, re, lo), CallInv(t)'
    PROVE  NssInv'
<1>1. UNCHANGED <<ptr, ver, mtime, mem, nmaps, fver, fsec, op, asof, rm, nx, nfail>>
  BY DEF Drops, LockedFrame, fileVars, callVars
<1>2. NssTypeOK /\ MmapTypeOK
  BY Types
<1>3. Linked(next, lo, hi)
  BY DEF Drops, ChainOf, Linked
<1>4. \A x \in lo .. hi : newer[x] <=> x # lo
  BY DEF Drops, ChainOf
<1>5. hi \in lo .. hi /\ map'[Shared] = hi /\ rc[hi] # 0
  BY RefsOf, BoundsAssumption DEF Drops, Maps
<1>6. \E u \in lo .. hi : InUse(rc, re, u)
  BY <1>5 DEF InUse
<1>7. /\ refcnt' = rc /\ reopening' = re
      /\ next' \in [Maps -> Maps \cup {NULL}]
      /\ newer' \in [Maps -> BOOLEAN]
      /\ \A x \in Maps : x > hi => next'[x] = next[x] /\ newer'[x] = newer[x]
      /\ \E l \in lo .. hi :
           /\ InUse(rc, re, l)
           /\ \A x \in lo .. (l - 1) : ~InUse(rc, re, x)
           /\ Linked(next', l, hi)
           /\ \A x \in l .. hi : newer'[x] <=> x # l
           /\ todo' = IF l = lo THEN todo ELSE [todo EXCEPT ![t] = lo .. (l - 1)]
  BY <1>2, <1>3, <1>4, <1>6, DropRefChain
<1>8. PICK l \in lo .. hi :
           /\ InUse(rc, re, l)
           /\ \A x \in lo .. (l - 1) : ~InUse(rc, re, x)
           /\ Linked(next', l, hi)
           /\ \A x \in l .. hi : newer'[x] <=> x # l
           /\ todo' = IF l = lo THEN todo ELSE [todo EXCEPT ![t] = lo .. (l - 1)]
  BY <1>7
<1>9. ASSUME NEW s \in Procs, map'[Sess(s)] # NULL PROVE map'[Sess(s)] \in l .. hi
  <2>1. map'[Sess(s)] \in lo .. hi /\ map'[Sess(s)] \in Maps
    BY <1>9, BoundsAssumption DEF Drops, Maps
  <2>2. InUse(rc, re, map'[Sess(s)])
    BY <2>1, RefsOf DEF InUse
  <2> QED BY <1>8, <2>1, <2>2, BoundsAssumption DEF Maps
<1>10. l \in Maps /\ l =< hi /\ ChainOf(l, hi)'
  <2>1. InUse(refcnt', reopening', l) /\ UNCHANGED <<ptr, nmaps, nx>>
    BY <1>1, <1>7, <1>8
  <2>2. /\ lo =< hi /\ ChainOf(lo, hi)
        /\ \A s \in Procs : todo[s] = {}
        /\ \A s \in Procs : s # t => pc[s] = "idle"
        /\ pc' = [pc EXCEPT ![t] = to] /\ to \notin {"opened", "published", "moving"}
        /\ pc[t] # "opened"
    BY DEF Drops
  <2>3. \A x \in Maps : reopening'[x] /\ x >= lo => x = hi
    BY <1>7 DEF Drops
  <2> QED BY <1>2, <1>5, <1>8, <1>9, <2>1, <2>2, <2>3, ChainAfter
<1>11. lo .. (l - 1) \subseteq Maps
  BY BoundsAssumption DEF Maps
<1>12. todo' \in [Procs -> SUBSET Maps] /\ \A s \in Procs : s # t => todo'[s] = {} /\ todo[s] = {}
  BY <1>2, <1>8, <1>11 DEF MmapTypeOK, Drops
<1>13. NssTypeOK'
  BY <1>1, <1>2, <1>7, <1>12 DEF NssTypeOK, MmapTypeOK, Drops
<1>14. \A s \in Procs : s # t => pc[s] = "idle" /\ pc'[s] = "idle" /\ map'[Local(s)] = map[Local(s)]
  BY <1>2 DEF NssTypeOK, Drops
<1>15. map'[Shared] # NULL /\ fsec' =< fver' /\ refcnt' = rc
  BY <1>1, <1>5, <1>7, NullAssumption, Types
<1> QED BY <1>10, <1>12, <1>13, <1>14, <1>15, Combine

\* The chain, seen from a thread t in a call
LEMMA InCall ==
    ASSUME NssInv, NEW t \in Procs, map[Shared] # NULL, todo[t] = {},
           \A s \in Procs : s # t => pc[s] = "idle" /\ todo[s] = {}
    PROVE  \E lo, hi \in Maps :
              /\ lo =< hi /\ ChainOf(lo, hi) /\ Linked(next, lo, hi) /\ hi \in lo .. hi /\ lo \in lo .. hi
              /\ \A x \in lo .. hi : x \in Maps /\ Tail(x) = hi /\ (next[x] = NULL <=> x = hi)
              /\ \A s \in Procs : map[Sess(s)] # NULL => map[Sess(s)] \in lo .. hi
              /\ pc[t] # "published" => map[Shared] = hi
              /\ pc[t] # "published" => \A x \in Maps : reopening[x] /\ x >= lo => x = hi
<1> USE BoundsAssumption
<1>1. PICK lo, hi \in Maps : lo =< hi /\ ChainOf(lo, hi)
  BY DEF NssInv
<1>2. Linked(next, lo, hi) /\ hi \in lo .. hi /\ lo \in lo .. hi /\ \A x \in lo .. hi : x \in Maps
  BY <1>1 DEF ChainOf, Linked, Maps
<1>3. \A x \in lo .. hi : Tail(x) = hi
  BY <1>2, TailLinked
<1>4. \A x \in lo .. hi : next[x] = NULL <=> x = hi
  BY <1>1, NullAssumption DEF ChainOf, Maps
<1>5. \A s \in Procs : map[Sess(s)] # NULL => map[Sess(s)] \in lo .. hi
  BY <1>1 DEF ChainOf, InSession
<1>6. pc[t] # "published" => /\ map[Shared] = hi
                            /\ \A x \in Maps : reopening[x] /\ x >= lo => x = hi
  <2>1. pc[t] # "published" => \A s \in Procs : pc[s] # "published"
    OBVIOUS
  <2> QED BY <1>1, <2>1 DEF ChainOf
<1> QED BY <1>1, <1>2, <1>3, <1>4, <1>5, <1>6

\* The oldest map stays in use while a reference on another one is dropped.
LEMMA OldestInUse ==
    ASSUME NEW lo \in Maps, NEW hi \in Maps, NEW m \in Maps, ChainOf(lo, hi),
           refcnt \in [Maps -> Nat], reopening \in [Maps -> BOOLEAN],
           NEW rc, rc = [refcnt EXCEPT ![hi] = @ + 1, ![m] = @ - 1] \/ rc = [refcnt EXCEPT ![m] = @ - 1],
           NEW re, re = reopening \/ re = [reopening EXCEPT ![m] = FALSE]
    PROVE  m = lo \/ InUse(rc, re, lo)
<1>1. refcnt[lo] # 0 \/ reopening[lo]
  BY DEF ChainOf, InUse
<1>2. m # lo => re[lo] = reopening[lo] /\ (rc[lo] = refcnt[lo] \/ rc[lo] = refcnt[lo] + 1)
  OBVIOUS
<1>3. refcnt[lo] \in Nat
  OBVIOUS
<1> QED BY <1>1, <1>2, <1>3 DEF InUse

\* The pointer p of t moves from a superseded map to the last one.
LEMMA PointerMoves ==
    ASSUME NssInv, NEW t \in Procs, NEW p \in {Shared, Sess(t)}, map[p] # NULL,
           NEW n \in Maps, map[p] # n
    PROVE  Counted([refcnt EXCEPT ![n] = @ + 1, ![map[p]] = @ - 1], [map EXCEPT ![p] = n])
<1> DEFINE ptrs == [map EXCEPT ![p] = n]
<1>1. /\ p \in Ptrs /\ map[p] \in Maps /\ ptrs[p] = n /\ \A q \in Ptrs : q # p => ptrs[q] = map[q]
      /\ \A s \in Procs : p # Local(s)
  BY Pointers, Types
<1>2. \A s \in Procs : Sess(s) \in Ptrs /\ (ptrs[Sess(s)] = NULL <=> map[Sess(s)] = NULL)
  BY <1>1, Pointers, NullAssumption
<1>3. Counted(refcnt, map)
  BY Types
<1> HIDE DEF ptrs
<1>4. p \in RefsIn(map, map[p]) /\ p \notin RefsIn(map, n)
  BY <1>1 DEF RefsIn
<1>5. RefsIn(ptrs, map[p]) = RefsIn(map, map[p]) \ {p}
  BY <1>1, <1>2 DEF RefsIn
<1>6. RefsIn(ptrs, n) = RefsIn(map, n) \cup {p}
  BY <1>1, <1>2 DEF RefsIn
<1>7. \A x \in Maps : x # map[p] /\ x # n => RefsIn(ptrs, x) = RefsIn(map, x)
  BY <1>1, <1>2 DEF RefsIn
<1>8. Counted([refcnt EXCEPT ![n] = @ + 1, ![map[p]] = @ - 1], ptrs)
  BY <1>1, <1>3, <1>4, <1>5, <1>6, <1>7, RefsMove
<1> QED BY <1>8 DEF ptrs

\* The pointer p of t is set to NULL, its reference given back.
LEMMA PointerDrops ==
    ASSUME NssInv, NEW t \in Procs, NEW p \in {Sess(t), Local(t)}, map[p] # NULL,
           p = Local(t) => map[Sess(t)] = NULL, p = Sess(t) => map[Local(t)] = NULL
    PROVE  Counted([refcnt EXCEPT ![map[p]] = @ - 1], [map EXCEPT ![p] = NULL])
<1> DEFINE ptrs == [map EXCEPT ![p] = NULL]
<1>1. /\ p \in Ptrs /\ map[p] \in Maps /\ ptrs[p] = NULL /\ \A q \in Ptrs : q # p => ptrs[q] = map[q]
      /\ \A s \in Procs : s # t => p # Local(s) /\ p # Sess(s)
  BY Pointers, Types
<1>2. \A s \in Procs : s # t => Sess(s) \in Ptrs /\ ptrs[Sess(s)] = map[Sess(s)]
  BY <1>1, Pointers
<1>3. Counted(refcnt, map)
  BY Types
<1>4. /\ Local(t) \in Ptrs /\ Sess(t) \in Ptrs /\ ptrs[Sess(t)] = NULL
      /\ p = Sess(t) => ptrs[Local(t)] = NULL
  BY <1>1, Pointers
<1>5. \A s \in Procs : s # t => Local(s) # Local(t)
  BY Pointers
<1> HIDE DEF ptrs
<1>6. p \in RefsIn(map, map[p])
  BY <1>1, Pointers DEF RefsIn
<1>7. ASSUME NEW x \in Maps PROVE RefsIn(ptrs, x) = RefsIn(map, x) \ {p}
  <2>1. x # NULL
    BY NullAssumption
  <2>2. ASSUME NEW q \in Ptrs PROVE q \in RefsIn(ptrs, x) <=> q \in RefsIn(map, x) /\ q # p
    <3>1. CASE q = p
      BY <1>1, <2>1, <3>1 DEF RefsIn
    <3>2. CASE q # p /\ q # Local(t)
      BY <1>1, <1>2, <3>2 DEF RefsIn
    <3>3. CASE q # p /\ q = Local(t)
      <4>1. p = Sess(t) /\ map[Local(t)] = NULL /\ ptrs[Local(t)] = NULL
        BY <1>4, <3>3
      <4> QED BY <2>1, <3>3, <4>1 DEF RefsIn
    <3> QED BY <3>1, <3>2, <3>3
  <2> QED BY <2>2 DEF RefsIn
<1>8. \A x \in Maps : x # map[p] => RefsIn(ptrs, x) = RefsIn(map, x)
  <2>1. \A x \in Maps : x # map[p] => p \notin RefsIn(map, x)
    BY DEF RefsIn
  <2> QED BY <1>7, <2>1
<1>9. Counted([refcnt EXCEPT ![map[p]] = @ - 1], ptrs)
  BY <1>1, <1>3, <1>6, <1>7, <1>8, RefsDrop
<1> QED BY <1>9 DEF ptrs

\* A pointer of t that was NULL takes a reference on n.
LEMMA PointerTakes ==
    ASSUME NssInv, NEW t \in Procs, NEW p \in {Sess(t), Local(t)}, NEW n \in Maps,
           map[Sess(t)] = NULL, map[Local(t)] = NULL
    PROVE  Counted([refcnt EXCEPT ![n] = @ + 1], [map EXCEPT ![p] = n])
<1> DEFINE ptrs == [map EXCEPT ![p] = n]
<1>1. /\ p \in Ptrs /\ ptrs[p] = n /\ \A q \in Ptrs : q # p => ptrs[q] = map[q]
      /\ \A s \in Procs : s # t => p # Local(s) /\ p # Sess(s)
  BY Pointers, Types
<1>2. \A s \in Procs : s # t => Sess(s) \in Ptrs /\ ptrs[Sess(s)] = map[Sess(s)]
  BY <1>1, Pointers
<1>3. Counted(refcnt, map) /\ n # NULL
  BY Types, NullAssumption
<1>4. /\ Local(t) \in Ptrs /\ Sess(t) \in Ptrs
      /\ p = Local(t) => ptrs[Sess(t)] = NULL
      /\ p = Sess(t) => ptrs[Local(t)] = NULL
  BY <1>1, Pointers
<1>5. \A s \in Procs : Sess(s) # Local(t) /\ (s # t => Local(s) # Local(t))
  BY Pointers
<1> HIDE DEF ptrs
<1>6. p \notin RefsIn(map, n)
  BY <1>3 DEF RefsIn
<1>7. ASSUME NEW x \in Maps, NEW q \in Ptrs, q # p
      PROVE  q \in RefsIn(ptrs, x) <=> q \in RefsIn(map, x)
  <2>1. x # NULL
    BY NullAssumption
  <2>2. CASE q = Local(t)
    BY <1>4, <1>7, <2>1, <2>2 DEF RefsIn
  <2>3. CASE q # Local(t)
    BY <1>1, <1>2, <1>7, <2>3 DEF RefsIn
  <2> QED BY <2>2, <2>3
<1>8. \A x \in Maps : p \in RefsIn(ptrs, x) <=> x = n
  BY <1>1, <1>4, <1>5 DEF RefsIn
<1>9. RefsIn(ptrs, n) = RefsIn(map, n) \cup {p}
  BY <1>1, <1>7, <1>8 DEF RefsIn
<1>10. \A x \in Maps : x # n => RefsIn(ptrs, x) = RefsIn(map, x)
  <2>1. \A x \in Maps : p \notin RefsIn(map, x)
    BY NullAssumption DEF RefsIn
  <2> QED BY <1>7, <1>8, <2>1 DEF RefsIn
<1>11. Counted([refcnt EXCEPT ![n] = @ + 1], ptrs)
  BY <1>3, <1>6, <1>9, <1>10, RefsAdd
<1> QED BY <1>11 DEF ptrs

\* Second lock of mcdb_mmap_reopen_threadsafe: the shared pointer moves on to
\* the map just published.
LEMMA ReopenMovesStep == ASSUME NssInv, NEW t \in Procs, ReopenMoves(t) PROVE NssInv'
<1> DEFINE m  == map[Shared]
           re == [reopening EXCEPT ![rm[t]] = FALSE]
<1>1. /\ pc[t] = "published" /\ pc' = [pc EXCEPT ![t] = "register"] /\ todo[t] = {}
      /\ RegisterIncr(Shared, re, t) /\ LockedFrame
  BY DEF ReopenMoves, Goes
<1>2. \A s \in Procs : s # t => pc[s] = "idle" /\ todo[s] = {}
  BY <1>1, OthersRest, Types
<1>3. CallInv(t) /\ pc'[t] = "register" /\ op' = op
  BY <1>1, Types DEF LockedFrame, callVars
<1>4. rm[t] = m /\ m # NULL /\ m \in Maps /\ ~InSession(t) /\ map[Local(t)] = NULL
  BY <1>1, <1>3, Types, Pointers DEF CallInv, GettingShared, Querying
<1>5. PICK lo, hi \in Maps :
         /\ lo =< hi /\ ChainOf(lo, hi) /\ Linked(next, lo, hi) /\ hi \in lo .. hi /\ lo \in lo .. hi
         /\ \A x \in lo .. hi : x \in Maps /\ Tail(x) = hi /\ (next[x] = NULL <=> x = hi)
         /\ \A s \in Procs : map[Sess(s)] # NULL => map[Sess(s)] \in lo .. hi
  BY <1>1, <1>2, <1>4, InCall
<1> DEFINE rc == [refcnt EXCEPT ![hi] = @ + 1, ![m] = @ - 1]
<1>6. m \in lo .. hi /\ m = hi - 1 /\ m # hi
  BY <1>1, <1>5, BoundsAssumption DEF ChainOf, Maps
<1>7. /\ map' = [map EXCEPT ![Shared] = hi] /\ DropRef(rc, re, m, t)
  BY <1>1, <1>5, <1>6 DEF RegisterIncr, RegisterIncrInto
<1>8. /\ map' \in [Ptrs -> Maps \cup {NULL}] /\ map'[Shared] = hi
      /\ \A s \in Procs : map'[Sess(s)] = map[Sess(s)] /\ map'[Local(s)] = map[Local(s)]
  BY <1>7, Pointers, Types
<1>9. Counted(rc, map')
  <2>1. Counted([refcnt EXCEPT ![hi] = @ + 1, ![map[Shared]] = @ - 1], [map EXCEPT ![Shared] = hi])
    BY <1>4, <1>6, PointerMoves
  <2> QED BY <1>7, <2>1
<1>10. reopening \in [Maps -> BOOLEAN] /\ refcnt \in [Maps -> Nat]
  BY Types DEF MmapTypeOK
<1>11. re \in [Maps -> BOOLEAN] /\ \A x \in Maps : re[x] /\ x >= lo => x = hi
  <2>1. \A x \in Maps : reopening[x] /\ x >= lo => x = hi \/ x = rm[t]
    BY <1>2, <1>5 DEF ChainOf
  <2> QED BY <1>4, <1>10, <2>1
<1>12. m = lo \/ InUse(rc, re, lo)
  <2>1. re = [reopening EXCEPT ![m] = FALSE]
    BY <1>4
  <2> HIDE DEF re, m
  <2> QED BY <1>4, <1>5, <1>10, <2>1, OldestInUse
<1>13. rc \in [Maps -> Nat]
  BY <1>9 DEF Counted
<1>14. CallInv(t)'
  BY <1>3, <1>4, <1>5, <1>8, NullAssumption DEF CallInv, GettingShared, Querying, InSession
<1>15. Drops(lo, hi, t, "register", re) /\ "register" \in PCs
  BY <1>1, <1>2, <1>5, <1>8, <1>11 DEF Drops, PCs
<1> HIDE DEF rc, re, m
<1> QED BY <1>5, <1>6, <1>7, <1>9, <1>11, <1>12, <1>13, <1>14, <1>15, LockedDrop

\* A search in a session moves it on to the newest map.
LEMMA QueryMovesStep == ASSUME NssInv, NEW t \in Procs, QueryMoves(t) PROVE NssInv'
<1> DEFINE m == map[Sess(t)]
<1>1. /\ pc[t] = "moving" /\ pc' = [pc EXCEPT ![t] = "using"] /\ todo[t] = {}
      /\ RegisterIncr(Mine(t), reopening, t) /\ LockedFrame
  BY DEF QueryMoves, Goes
<1>2. \A s \in Procs : s # t => pc[s] = "idle" /\ todo[s] = {}
  BY <1>1, OthersRest, Types
<1>3. CallInv(t) /\ pc'[t] = "using" /\ op' = op
  BY <1>1, Types DEF LockedFrame, callVars
<1>4. op[t] = "start" /\ Mine(t) = Sess(t) /\ m # NULL /\ map[Shared] # NULL /\ map[Local(t)] = NULL
  BY <1>1, <1>3 DEF CallInv, Querying, Mine
<1>5. PICK lo, hi \in Maps :
         /\ lo =< hi /\ ChainOf(lo, hi) /\ Linked(next, lo, hi) /\ hi \in lo .. hi /\ lo \in lo .. hi
         /\ \A x \in lo .. hi : x \in Maps /\ Tail(x) = hi /\ (next[x] = NULL <=> x = hi)
         /\ \A s \in Procs : map[Sess(s)] # NULL => map[Sess(s)] \in lo .. hi
         /\ map[Shared] = hi
         /\ \A x \in Maps : reopening[x] /\ x >= lo => x = hi
  BY <1>1, <1>2, <1>4, InCall
<1> DEFINE rc == [refcnt EXCEPT ![hi] = @ + 1, ![m] = @ - 1]
<1>6. m \in lo .. hi /\ m \in Maps /\ m # hi
  BY <1>1, <1>4, <1>5 DEF ChainOf
<1>7. /\ map' = [map EXCEPT ![Sess(t)] = hi] /\ DropRef(rc, reopening, m, t)
  BY <1>1, <1>4, <1>5, <1>6 DEF RegisterIncr, RegisterIncrInto
<1>8. /\ map' \in [Ptrs -> Maps \cup {NULL}] /\ map'[Shared] = hi /\ map'[Sess(t)] = hi
      /\ \A s \in Procs : map'[Local(s)] = map[Local(s)]
      /\ \A s \in Procs : s # t => map'[Sess(s)] = map[Sess(s)]
  BY <1>5, <1>7, Pointers, Types
<1>9. Counted(rc, map')
  <2>1. Counted([refcnt EXCEPT ![hi] = @ + 1, ![map[Sess(t)]] = @ - 1], [map EXCEPT ![Sess(t)] = hi])
    BY <1>4, <1>6, PointerMoves
  <2> QED BY <1>7, <2>1
<1>10. reopening \in [Maps -> BOOLEAN] /\ refcnt \in [Maps -> Nat]
  BY Types DEF MmapTypeOK
<1>12. m = lo \/ InUse(rc, reopening, lo)
  <2> HIDE DEF m
  <2> QED BY <1>5, <1>6, <1>10, OldestInUse
<1>13. rc \in [Maps -> Nat]
  BY <1>9 DEF Counted
<1>14. CallInv(t)'
  BY <1>3, <1>4, <1>8, NullAssumption DEF CallInv, GettingShared, Querying, InSession, Mine
<1>15. Drops(lo, hi, t, "using", reopening) /\ "using" \in PCs
  BY <1>1, <1>2, <1>5, <1>8 DEF Drops, PCs
<1> HIDE DEF rc, m
<1> QED BY <1>5, <1>6, <1>7, <1>9, <1>10, <1>12, <1>13, <1>14, <1>15, LockedDrop

\* A get*() call or a session gives its reference back.
LEMMA ReleaseStep ==
    ASSUME NssInv, Serial = TRUE, NEW t \in Procs, GetReturns(t) \/ Endent(t)
    PROVE  NssInv'
<1>1. PICK p \in {Sess(t), Local(t)} :
         /\ pc[t] \in {"idle", "using"} /\ pc' = [pc EXCEPT ![t] = "idle"] /\ todo[t] = {}
         /\ RelShared(p, t) /\ LockedFrame
         /\ \A s \in Procs : s # t => pc[s] = "idle" /\ todo[s] = {}
         /\ p = Sess(t) => pc[t] = "idle" /\ map[Sess(t)] # NULL
         /\ p = Local(t) => pc[t] = "using" /\ op[t] = "get" /\ map[Sess(t)] = NULL
  <2>1. CASE GetReturns(t)
    BY <2>1, OthersRest, Types, Pointers DEF GetReturns, Goes, InSession
  <2>2. CASE Endent(t)
    BY <2>2, Pointers DEF Endent, Goes, InSession
  <2> QED BY <2>1, <2>2
<1> DEFINE m == map[p]
<1>2. CallInv(t) /\ pc'[t] = "idle"
  BY <1>1, Types
<1>3. p = Sess(t) => map[Local(t)] = NULL
  BY <1>1, <1>2 DEF CallInv, Querying
<1>4. p = Local(t) => map[Local(t)] # NULL
  BY <1>1, <1>2 DEF CallInv, Querying, Mine
<1>5. m # NULL /\ map[Shared] # NULL
  <2>1. m # NULL
    BY <1>1, <1>4
  <2>2. map[Shared] = NULL => m = NULL
    BY Pointers DEF NssInv, Unopened
  <2> QED BY <2>1, <2>2
<1>6. PICK lo, hi \in Maps :
         /\ lo =< hi /\ ChainOf(lo, hi) /\ hi \in lo .. hi
         /\ \A x \in lo .. hi : x \in Maps
         /\ \A s \in Procs : map[Sess(s)] # NULL => map[Sess(s)] \in lo .. hi
         /\ map[Shared] = hi
         /\ \A x \in Maps : reopening[x] /\ x >= lo => x = hi
  BY <1>1, <1>5, InCall
<1> DEFINE rc == [refcnt EXCEPT ![m] = @ - 1]
<1>7. m \in lo .. hi /\ m \in Maps
  <2>1. p = Local(t) => m = hi
    BY <1>2, <1>4, <1>6 DEF CallInv
  <2> QED BY <1>1, <1>6, <2>1
<1>8. map' = [map EXCEPT ![p] = NULL] /\ DropRef(rc, reopening, m, t)
  BY <1>1 DEF RelShared
<1>9. /\ map' \in [Ptrs -> Maps \cup {NULL}] /\ map'[Shared] = hi
      /\ \A s \in Procs : map'[Sess(s)] # NULL => map'[Sess(s)] = map[Sess(s)]
      /\ \A s \in Procs : s # t => map'[Local(s)] = map[Local(s)]
      /\ map'[Local(t)] = NULL
  BY <1>3, <1>6, <1>8, Pointers, Types
<1>10. Counted(rc, map')
  <2>1. Counted([refcnt EXCEPT ![map[p]] = @ - 1], [map EXCEPT ![p] = NULL])
    BY <1>1, <1>3, <1>5, PointerDrops
  <2> QED BY <1>8, <2>1
<1>11. reopening \in [Maps -> BOOLEAN] /\ refcnt \in [Maps -> Nat]
  BY Types DEF MmapTypeOK
<1>12. m = lo \/ InUse(rc, reopening, lo)
  <2> HIDE DEF m
  <2> QED BY <1>6, <1>7, <1>11, OldestInUse
<1>13. rc \in [Maps -> Nat]
  BY <1>10 DEF Counted
<1>14. CallInv(t)'
  BY <1>2, <1>9 DEF CallInv, GettingShared, Querying
<1>15. Drops(lo, hi, t, "idle", reopening) /\ "idle" \in PCs
  BY <1>1, <1>6, <1>9 DEF Drops, PCs
<1> HIDE DEF rc, m
<1> QED BY <1>6, <1>7, <1>8, <1>10, <1>11, <1>12, <1>13, <1>14, <1>15, LockedDrop

\* A call registers: the shared pointer is on the last map, which gets one
\* reference more.
LEMMA RegisterStep == ASSUME NssInv, NEW t \in Procs, Register(t) PROVE NssInv'
<1>1. PICK to \in {"idle", "using", "query"} :
         /\ pc[t] = "register" /\ pc' = [pc EXCEPT ![t] = to] /\ todo[t] = {}
         /\ RegisterIncrInto([map EXCEPT ![Mine(t)] = map[Shared]], Shared, reopening, t)
         /\ LockedFrame
         /\ to = "query" => op[t] \in {"get", "start"}
         /\ to # "query" => op[t] # "get"
         /\ op[t] \in Ops
  <2>1. op[t] \in Ops
    BY Types
  <2> QED BY <2>1 DEF Register, Goes, Ops
<1>2. \A s \in Procs : s # t => pc[s] = "idle" /\ todo[s] = {}
  BY <1>1, OthersRest, Types
<1>3. CallInv(t) /\ pc'[t] = to /\ op' = op
  BY <1>1, Types DEF LockedFrame, callVars
<1>4. map[Shared] # NULL /\ map[Sess(t)] = NULL /\ map[Local(t)] = NULL
  BY <1>1, <1>3 DEF CallInv, GettingShared, Querying, InSession
<1>5. PICK lo, hi \in Maps :
         /\ lo =< hi /\ ChainOf(lo, hi) /\ Linked(next, lo, hi) /\ hi \in lo .. hi /\ lo \in lo .. hi
         /\ \A x \in lo .. hi : x \in Maps /\ (next[x] = NULL <=> x = hi)
         /\ \A s \in Procs : map[Sess(s)] # NULL => map[Sess(s)] \in lo .. hi
         /\ map[Shared] = hi
         /\ \A x \in Maps : reopening[x] /\ x >= lo => x = hi
  BY <1>1, <1>2, <1>4, InCall
<1>6. /\ refcnt' = [refcnt EXCEPT ![hi] = @ + 1] /\ map' = [map EXCEPT ![Mine(t)] = hi]
      /\ UNCHANGED <<ptr, next, newer, reopening, ver, mtime, mem, nmaps, fver, fsec, todo,
                     op, asof, rm, nx, nfail>>
  BY <1>1, <1>5 DEF RegisterIncrInto, LockedFrame, fileVars, callVars
<1>7. Mine(t) \in {Sess(t), Local(t)} /\ (Mine(t) = Local(t) <=> op[t] = "get")
  BY Pointers DEF Mine
<1>8. /\ map' \in [Ptrs -> Maps \cup {NULL}] /\ map'[Shared] = hi /\ map'[Mine(t)] = hi
      /\ \A s \in Procs : s # t => map'[Local(s)] = map[Local(s)] /\ map'[Sess(s)] = map[Sess(s)]
      /\ op[t] # "get" => map'[Local(t)] = NULL
      /\ op[t] = "get" => map'[Sess(t)] = NULL
  BY <1>4, <1>5, <1>6, <1>7, Pointers, Types
<1>9. Counted(refcnt', map')
  BY <1>4, <1>6, <1>7, PointerTakes
<1>10. NssTypeOK'
  <2>1. refcnt' \in [Maps -> Nat]
    BY <1>9 DEF Counted
  <2>2. to \in PCs
    BY DEF PCs
  <2>3. NssTypeOK
    BY Types
  <2> QED BY <1>1, <1>6, <1>8, <2>1, <2>2, <2>3 DEF NssTypeOK, MmapTypeOK
<1>11. CallInv(t)'
  <2>1. hi # NULL /\ op'[t] = op[t] /\ Mine(t)' = Mine(t)
    BY <1>3, NullAssumption DEF Mine
  <2>2. op[t] = "get" => map'[Local(t)] = hi
    BY <1>7, <1>8
  <2> QED BY <1>1, <1>3, <1>8, <2>1, <2>2 DEF CallInv, GettingShared, Querying, InSession
<1>12. ChainOf(lo, hi)'
  <2>1. refcnt \in [Maps -> Nat] /\ NssTypeOK
    BY Types DEF MmapTypeOK
  <2>2. InUse(refcnt, reopening, lo) /\ \A x \in lo .. hi : newer[x] <=> x # lo
    BY <1>5 DEF ChainOf
  <2>3. InUse(refcnt', reopening', lo)
    BY <1>6, <2>1, <2>2 DEF InUse
  <2>4. Linked(next', lo, hi) /\ \A x \in lo .. hi : newer'[x] <=> x # lo
    BY <1>5, <1>6, <2>2
  <2>5. \A s \in Procs : map'[Sess(s)] # NULL => map'[Sess(s)] \in lo .. hi
    BY <1>5, <1>7, <1>8
  <2>6. todo' = IF lo = lo THEN todo ELSE [todo EXCEPT ![t] = lo .. (lo - 1)]
    BY <1>6
  <2>7. \A s \in Procs : todo[s] = {}
    BY <1>1, <1>2
  <2>8. \A x \in Maps : reopening'[x] /\ x >= lo => x = hi
    BY <1>5, <1>6
  <2>9. to \in PCs /\ to \notin {"opened", "published", "moving"} /\ pc[t] # "opened"
    BY <1>1 DEF PCs
  <2>10. UNCHANGED <<ptr, nmaps, nx>>
    BY <1>6
  <2> QED BY <1>1, <1>2, <1>5, <1>8, <2>1, <2>3, <2>4, <2>5, <2>6, <2>7, <2>8, <2>9, <2>10, ChainAfter
<1>13. map'[Shared] # NULL /\ fsec' =< fver'
  BY <1>5, <1>6, <1>8, NullAssumption, Types
<1>14. \A s \in Procs : s # t => pc'[s] = "idle" /\ todo'[s] = {}
  BY <1>1, <1>2, <1>6, Types
<1> QED BY <1>2, <1>5, <1>8, <1>9, <1>10, <1>11, <1>12, <1>13, <1>14, Combine

\* An unlinked map is unmapped and freed: it is not in the chain.
LEMMA FreeStep == ASSUME NssInv, NEW t \in Procs, FreeUnlinkedStep(t) PROVE NssInv'
<1>1. PICK x \in todo[t] :
         /\ ptr' = [ptr EXCEPT ![x] = FALSE] /\ todo' = [todo EXCEPT ![t] = @ \ {x}]
         /\ mem' = IF Allocated THEN mem ELSE [mem EXCEPT ![x] = "freed"]
         /\ UNCHANGED <<map, next, refcnt, reopening, newer, ver, mtime, nmaps, fver, fsec,
                        pc, op, asof, rm, nx, nfail>>
  BY DEF FreeUnlinkedStep, FreeUnlinked, MmapFree, fileVars, callVars
<1>2. x \in Maps /\ ptr \in [Maps -> BOOLEAN] /\ todo \in [Procs -> SUBSET Maps]
  BY Types DEF MmapTypeOK
<1>3. \A s \in Procs : s # t => pc[s] = "idle" /\ todo[s] = {}
  BY <1>1, OthersRest, Types
<1>4. /\ ~ptr'[x] /\ \A y \in Maps : y # x => ptr'[y] = ptr[y]
      /\ todo'[t] = todo[t] \ {x} /\ \A s \in Procs : s # t => todo'[s] = todo[s]
  BY <1>1, <1>2
<1>5. NssTypeOK'
  BY <1>1, <1>2, Types DEF NssTypeOK, MmapTypeOK
<1>6. CallInv(t)'
  BY <1>1, Types DEF CallInv, Mine, InSession
<1>7. map[Shared] # NULL
  BY <1>1 DEF NssInv, Unopened
<1>8. PICK lo, hi \in Maps : lo =< hi /\ ChainOf(lo, hi)
  BY <1>7 DEF NssInv
<1>9. x \in 1 .. (lo - 1)
  BY <1>1, <1>8 DEF ChainOf
<1>10. ChainOf(lo, hi)'
  <2>1. \A y \in lo .. hi : y # x /\ y \in Maps
    BY <1>9, BoundsAssumption DEF Maps
  <2>2. \A y \in lo .. hi : ptr'[y]
    BY <1>4, <1>8, <2>1 DEF ChainOf
  <2>3. ASSUME NEW y \in Maps, ptr'[y], y \notin lo .. hi
        PROVE  \E s \in Procs : y \in todo'[s] \/ (pc'[s] = "opened" /\ nx'[s] = y)
    <3>1. y # x /\ ptr[y]
      BY <1>4, <2>3
    <3>2. PICK s \in Procs : y \in todo[s] \/ (pc[s] = "opened" /\ nx[s] = y)
      BY <1>8, <2>3, <3>1 DEF ChainOf
    <3>3. y \in todo[s] => y \in todo'[s]
      BY <1>4, <3>1
    <3> QED BY <1>1, <3>2, <3>3
  <2>4. \A s \in Procs : pc'[s] = "opened" => ptr'[hi + 1]
    <3>1. ASSUME NEW s \in Procs, pc[s] = "opened" PROVE ptr'[hi + 1]
      <4>1. ptr[hi + 1] /\ nmaps = hi + 1
        BY <1>8, <3>1 DEF ChainOf
      <4>2. hi + 1 \in Maps /\ hi + 1 # x
        BY <1>8, <1>9, <4>1, Types, BoundsAssumption DEF MmapTypeOK, Maps
      <4> QED BY <1>4, <4>1, <4>2
    <3> QED BY <1>1, <3>1
  <2>5. \A s \in Procs : todo'[s] \subseteq 1 .. (lo - 1)
    BY <1>4, <1>8 DEF ChainOf
  <2> QED BY <1>1, <1>8, <2>2, <2>3, <2>4, <2>5 DEF ChainOf, InSession, InUse
<1>11. Counted(refcnt', map') /\ map'[Shared] # NULL /\ fsec' =< fver'
  BY <1>1, <1>7, Types
<1>12. \A s \in Procs : s # t => pc'[s] = "idle" /\ todo'[s] = {} /\ map'[Local(s)] = map[Local(s)]
  BY <1>1, <1>3, <1>4
<1> QED BY <1>3, <1>5, <1>6, <1>8, <1>10, <1>11, <1>12, Combine

\* The file is replaced, or nothing happens.
LEMMA OutsideStep == ASSUME NssInv, FileUpdateStep \/ UNCHANGED vars PROVE NssInv'
<1>1. UNCHANGED <<map, ptr, next, refcnt, reopening, newer, ver, mtime, mem, nmaps, todo,
                  pc, op, asof, rm, nx, nfail>>
  BY DEF FileUpdateStep, FileUpdate, vars, mmapVars, callVars
<1>2. fver' \in Versions /\ fsec' \in Versions /\ fsec' =< fver'
  BY Types, FlagAssumption, BoundsAssumption
     DEF FileUpdateStep, FileUpdate, vars, mmapVars, MmapTypeOK, Versions
<1>3. NssTypeOK'
  BY <1>1, <1>2, Types DEF NssTypeOK, MmapTypeOK
<1>4. OneCall' /\ RefsAccounted'
  BY <1>1 DEF NssInv, OneCall, AtRest, RefsAccounted, InSession
<1>5. \A t \in Procs : CallInv(t)'
  BY <1>1 DEF NssInv, CallInv, Mine, InSession
<1>6. IF map'[Shared] = NULL THEN Unopened'
      ELSE \E lo, hi \in Maps : lo =< hi /\ ChainOf(lo, hi)'
  <2>1. CASE map[Shared] = NULL
    BY <1>1, <2>1 DEF NssInv, Unopened
  <2>2. CASE map[Shared] # NULL
    <3>1. PICK lo, hi \in Maps : lo =< hi /\ ChainOf(lo, hi)
      BY <2>2 DEF NssInv
    <3>2. ChainOf(lo, hi)'
      BY <1>1, <3>1 DEF ChainOf, InSession, InUse
    <3> QED BY <1>1, <2>2, <3>1, <3>2
  <2> QED BY <2>1, <2>2
<1> QED BY <1>2, <1>3, <1>4, <1>5, <1>6 DEF NssInv

-----------------------------------------------------------------------------
(* The invariant.                                                          *)

LEMMA InitStep == Init => NssInv
<1> SUFFICES ASSUME Init PROVE NssInv
  OBVIOUS
<1>1. NssTypeOK
  BY BoundsAssumption DEF Init, NssTypeOK, MmapTypeOK, Versions, PCs, Ops
<1>2. OneCall /\ fsec =< fver
  BY DEF Init, OneCall, AtRest
<1>3. \A p \in Ptrs : map[p] = NULL
  BY DEF Init
<1>4. RefsAccounted
  <2>1. \A x \in Maps : RefsIn(map, x) = {}
    BY <1>3, NullAssumption DEF RefsIn
  <2>2. \A x \in Maps : RefCount(map, x) = 0
    BY <2>1, FS_EmptySet DEF RefCount
  <2>3. refcnt = [x \in Maps |-> 0]
    BY DEF Init
  <2>4. Counted(refcnt, map)
    BY <2>2, <2>3 DEF Counted
  <2> QED BY <1>1, <2>4, AccountedCounted
<1>5. \A t \in Procs : CallInv(t)
  BY <1>3, Pointers, RestCall DEF Init
<1>6. Unopened /\ map[Shared] = NULL
  BY <1>3, Pointers DEF Init, Unopened
<1> QED BY <1>1, <1>2, <1>4, <1>5, <1>6 DEF NssInv

\* Every step preserves the invariant.
LEMMA NextStep ==
    ASSUME NssInv, Serial = TRUE, Nested # "ever", [Next]_vars
    PROVE  NssInv'
<1>1. ASSUME NEW t \in Procs, GetShared(t) PROVE NssInv'
  BY <1>1, LookStep, OpenCreatesStep, BeginStep, MapsStep, PublishStep, ReopenMovesStep, RegisterStep
     DEF GetShared
<1>2. ASSUME NEW t \in Procs,
             \/ Get(t) \/ GetInSession(t)
             \/ OpenSession(t) \/ Getent(t) \/ Getentstart(t) \/ Endent(t)
      PROVE  NssInv'
  BY <1>2, CallStep, BorrowStep, ReleaseStep
<1>3. ASSUME NEW t \in Procs,
             \/ QueryCurrent(t) \/ QuerySuperseded(t) \/ QueryMoves(t)
             \/ GetReturns(t) \/ GetReturnsInSession(t) \/ SessionReturns(t)
             \/ FreeUnlinkedStep(t)
      PROVE  NssInv'
  BY <1>3, LookStep, QueryMovesStep, ReleaseStep, BorrowStep, FreeStep
<1>4. ASSUME FileUpdateStep \/ UNCHANGED vars PROVE NssInv'
  BY <1>4, OutsideStep
<1> QED BY <1>1, <1>2, <1>3, <1>4 DEF Next

\* NssInv holds of every behaviour of a process whose calls do not overlap, be
\* its threads, sessions, updates and failed attempts to open the file as many
\* as they may.
THEOREM NssInvariant ==
    ASSUME Serial = TRUE, Nested # "ever" PROVE Spec => []NssInv
<1>1. Init => NssInv
  BY InitStep
<1>2. NssInv /\ [Next]_vars => NssInv'
  BY NextStep
<1> QED BY <1>1, <1>2, PTL DEF Spec

\* No call gives back a reference that was not taken: map->refcnt does not wrap.
THEOREM NssTypeCorrect ==
    ASSUME Serial = TRUE, Nested # "ever" PROVE Spec => []NssTypeOK
<1>1. NssInv => NssTypeOK
  BY DEF NssInv
<1> QED BY <1>1, NssInvariant, PTL

\* Every count in map->refcnt is the number of pointers that answer for it: the
\* shared one, each session's, and that of a get*() call outside a session.
THEOREM ReferencesAccountedFor ==
    ASSUME Serial = TRUE, Nested # "ever" PROVE Spec => []RefsAccounted
<1>1. NssInv => RefsAccounted
  BY DEF NssInv
<1> QED BY <1>1, NssInvariant, PTL

\* The map a call, a session or the shared pointer uses is mapped.
THEOREM UsedIsMapped ==
    ASSUME Serial = TRUE, Nested # "ever" PROVE Spec => []UsedStaysMapped
<1>1. ASSUME NssInv PROVE UsedStaysMapped
  <2>1. CASE map[Shared] = NULL
    BY <1>1, <2>1, Pointers DEF NssInv, Unopened, UsedStaysMapped, InSession
  <2>2. CASE map[Shared] # NULL
    <3>1. PICK lo, hi \in Maps : lo =< hi /\ ChainOf(lo, hi)
      BY <1>1, <2>2 DEF NssInv
    <3>2. \A t \in Procs : map[Local(t)] # NULL => map[Local(t)] = map[Shared]
      BY <1>1 DEF NssInv, CallInv
    <3> QED BY <3>1, <3>2 DEF ChainOf, UsedStaysMapped
  <2> QED BY <2>1, <2>2
<1> QED BY <1>1, NssInvariant, PTL

\* With no call and no session in progress, everything that was mapped for an
\* older content of the file has been unmapped.
THEOREM RestingMapsOne ==
    ASSUME Serial = TRUE, Nested # "ever" PROVE Spec => []OneMapAtRest
<1>1. ASSUME NssInv PROVE OneMapAtRest
  <2>1. SUFFICES ASSUME \A t \in Procs : AtRest(t) /\ ~InSession(t), map[Shared] # NULL
                 PROVE  {x \in Maps : ptr[x]} = {map[Shared]} /\ next[map[Shared]] = NULL
    BY DEF OneMapAtRest
  <2>2. PICK lo, hi \in Maps : lo =< hi /\ ChainOf(lo, hi)
    BY <1>1, <2>1 DEF NssInv
  <2>3. map[Shared] = hi /\ hi \in lo .. hi /\ \A t \in Procs : map[Local(t)] = NULL /\ map[Sess(t)] = NULL
    <3>1. \A t \in Procs : CallInv(t)
      BY <1>1 DEF NssInv
    <3> QED BY <2>1, <2>2, <3>1, RestCall DEF ChainOf, AtRest, InSession
  <2>4. Counted(refcnt, map) /\ lo \in Maps
    BY <1>1, Types
  <2>5. lo # hi => RefsIn(map, lo) = {}
    BY <2>3, NssAssumption, NullAssumption DEF RefsIn
  <2>6. lo # hi => refcnt[lo] = 0
    BY <2>4, <2>5, RefsSome
  <2>7. lo # hi => ~reopening[lo]
    <3>1. \A x \in Maps : reopening[x] /\ x >= lo => x = hi
      BY <2>1, <2>2 DEF ChainOf, AtRest
    <3> QED BY <3>1, BoundsAssumption DEF Maps
  <2>8. lo = hi
    BY <2>2, <2>6, <2>7 DEF ChainOf, InUse
  <2>9. \A x \in Maps : ptr[x] <=> x = hi
    <3>1. \A x \in Maps : ptr[x] => x \in lo .. hi
      BY <2>1, <2>2 DEF ChainOf, AtRest
    <3>2. \A x \in lo .. hi : x = hi
      BY <2>8, BoundsAssumption DEF Maps
    <3>3. ptr[hi]
      BY <2>2, <2>3 DEF ChainOf
    <3> QED BY <3>1, <3>2, <3>3
  <2>10. next[hi] = NULL
    BY <2>2, <2>3 DEF ChainOf
  <2> QED BY <2>3, <2>9, <2>10
<1> QED BY <1>1, NssInvariant, PTL

\* A session stays on its map from set*ent() to end*ent(), whatever happens to
\* the file and to the shared pointer, unless it starts a new search itself.
THEOREM SessionsConsistent ==
    ASSUME Serial = TRUE, Nested # "ever" PROVE Spec => SessionConsistent
<1>1. ASSUME NssInv, [Next]_vars, NEW t \in Procs, InSession(t), map'[Sess(t)] # NULL, op[t] # "start"
      PROVE  map'[Sess(t)] = map[Sess(t)]
  <2>1. CASE map' = map
    BY <2>1
  <2>2. ASSUME NEW s \in Procs, OpenCreates(s) \/ ReopenMoves(s)
        PROVE  map'[Sess(t)] = map[Sess(t)]
    <3>1. PICK v : map' = [map EXCEPT ![Shared] = v] \/ map' = map
      BY <2>2 DEF OpenCreates, ReopenMoves, RegisterIncr, RegisterIncrInto
    <3> QED BY <1>1, <3>1, Pointers, Types
  <2>3. ASSUME NEW s \in Procs, GetInSession(s) \/ GetReturnsInSession(s) \/ GetReturns(s)
        PROVE  map'[Sess(t)] = map[Sess(t)]
    <3>1. PICK v : map' = [map EXCEPT ![Local(s)] = v]
      BY <2>3 DEF GetInSession, GetReturnsInSession, GetReturns, RelShared
    <3> QED BY <1>1, <3>1, Pointers, Types
  <2>4. ASSUME NEW s \in Procs, Endent(s) PROVE map'[Sess(t)] = map[Sess(t)]
    <3>1. map' = [map EXCEPT ![Sess(s)] = NULL]
      BY <2>4 DEF Endent, RelShared
    <3> QED BY <1>1, <3>1, Pointers, Types
  <2>5. ASSUME NEW s \in Procs, Register(s) PROVE map'[Sess(t)] = map[Sess(t)]
    <3>1. s # t
      BY <1>1, <2>5, Types DEF Register, Goes, CallInv, GettingShared
    <3>2. PICK v, w : \/ map' = [map EXCEPT ![Mine(s)] = v]
                      \/ map' = [[map EXCEPT ![Mine(s)] = v] EXCEPT ![Shared] = w]
      BY <2>5 DEF Register, RegisterIncrInto
    <3>3. Mine(s) \in {Sess(s), Local(s)}
      BY DEF Mine
    <3> QED BY <1>1, <3>1, <3>2, <3>3, Pointers, Types
  <2>6. ASSUME NEW s \in Procs, QueryMoves(s) PROVE map'[Sess(t)] = map[Sess(t)]
    <3>1. op[s] = "start" /\ Mine(s) = Sess(s)
      BY <1>1, <2>6, Types DEF QueryMoves, Goes, CallInv, Mine
    <3>2. PICK v : map' = [map EXCEPT ![Sess(s)] = v] \/ map' = map
      BY <2>6, <3>1 DEF QueryMoves, RegisterIncr, RegisterIncrInto
    <3> QED BY <1>1, <3>1, <3>2, Pointers, Types
  <2>7. map' = map \/ \E s \in Procs :
           \/ OpenCreates(s) \/ ReopenMoves(s) \/ GetInSession(s) \/ GetReturnsInSession(s)
           \/ GetReturns(s) \/ Endent(s) \/ Register(s) \/ QueryMoves(s)
    <3>1. CASE UNCHANGED vars
      BY <3>1 DEF vars, mmapVars
    <3>2. CASE FileUpdateStep
      BY <3>2 DEF FileUpdateStep, FileUpdate
    <3>3. ASSUME NEW s \in Procs,
                 Get(s) \/ OpenSession(s) \/ Getent(s) \/ Getentstart(s) PROVE map' = map
      BY <3>3 DEF Get, OpenSession, Getent, Getentstart
    <3>4. ASSUME NEW s \in Procs,
                 \/ SharedClosed(s) \/ OpenFails(s) \/ SharedFresh(s) \/ SharedStatFails(s)
                 \/ SharedChanged(s)
                 \/ ReopenEnter(s) \/ ReopenBusy(s) \/ ReopenBegin(s) \/ ReopenFails(s)
                 \/ ReopenMaps(s) \/ ReopenPublishes(s)
          PROVE  map' = map
      BY <3>4 DEF SharedClosed, OpenFails, SharedFresh, SharedStatFails, SharedChanged, ReopenEnter,
                  ReopenBusy, ReopenBegin, ReopenFails, ReopenMaps, ReopenPublishes, mmapVars
    <3>5. ASSUME NEW s \in Procs,
                 QueryCurrent(s) \/ QuerySuperseded(s) \/ SessionReturns(s) \/ FreeUnlinkedStep(s)
          PROVE  map' = map
      BY <3>5 DEF QueryCurrent, QuerySuperseded, SessionReturns, FreeUnlinkedStep, FreeUnlinked, mmapVars
    <3> QED BY <1>1, <3>1, <3>2, <3>3, <3>4, <3>5 DEF Next, GetShared
  <2> QED BY <2>1, <2>2, <2>3, <2>4, <2>5, <2>6, <2>7
<1>2. NssInv /\ [Next]_vars =>
      [\A t \in Procs :
          (/\ InSession(t) /\ map'[Sess(t)] # NULL
           /\ op[t] # "start") => map'[Sess(t)] = map[Sess(t)]]_vars
  BY <1>1
<1> QED BY <1>2, NssInvariant, PTL DEF Spec, SessionConsistent
=============================================================================
