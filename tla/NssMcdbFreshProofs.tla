------------------------- MODULE NssMcdbFreshProofs -------------------------
(***************************************************************************)
(* Proof that a get*() call sees the file as it was when the call began,   *)
(* or later, for calls that do not overlap and updates that change         *)
(* st_mtime.                                                               *)
(***************************************************************************)
EXTENDS NssMcdbProofs

\* Places between the two locks of mcdb_mmap_reopen_threadsafe
InReopen == {"opening", "opened", "published"}

\* What a step of t has to establish: the other threads are at rest.
LEMMA FreshFrame ==
    ASSUME NEW t \in Procs, \A s \in Procs : s # t => pc'[s] = "idle",
           fsec' = fver', \A x \in 1 .. nmaps' : mtime'[x] = ver'[x],
           \A s \in Procs : asof'[s] =< fver',
           nfail' = 0 => /\ \A x \in Maps : reopening'[x] => pc'[t] \in InReopen /\ rm'[t] = x
                         /\ FreshCall(t)'
    PROVE  FreshInv'
<1>1. \A s \in Procs : s # t => FreshCall(s)'
  BY DEF FreshCall, Querying
<1> QED BY <1>1 DEF FreshInv, InReopen

\* While t is in a call, a flag is t's.
LEMMA FreshNow ==
    ASSUME FreshInv, NEW t \in Procs, \A s \in Procs : s # t => pc[s] = "idle"
    PROVE  nfail = 0 => /\ \A x \in Maps : reopening[x] => pc[t] \in InReopen /\ rm[t] = x
                        /\ FreshCall(t)
BY DEF FreshInv, InReopen

\* The maps and the file are as they were, no time of a call changes.
SameContents == UNCHANGED <<ver, mtime, nmaps, fver, fsec, asof>>

LEMMA FreshSame ==
    ASSUME FreshInv, SameContents, NEW t \in Procs, \A s \in Procs : s # t => pc'[s] = "idle",
           nfail' = 0 => /\ \A x \in Maps : reopening'[x] => pc'[t] \in InReopen /\ rm'[t] = x
                         /\ FreshCall(t)'
    PROVE  FreshInv'
<1>1. fsec' = fver' /\ (\A x \in 1 .. nmaps' : mtime'[x] = ver'[x]) /\ \A s \in Procs : asof'[s] =< fver'
  BY DEF FreshInv, SameContents
<1> QED BY <1>1, FreshFrame

\* A call begins.
LEMMA FreshCalls ==
    ASSUME NssInv, FreshInv, Serial = TRUE, NEW t \in Procs,
           Get(t) \/ GetInSession(t) \/ OpenSession(t) \/ Getent(t) \/ Getentstart(t)
    PROVE  FreshInv'
<1>1. PICK o \in Ops, to \in {"shared", "using", "query"} :
         Calls(t, o, to) /\ (to # "shared" => o # "get" \/ InSession(t)')
  <2>1. CASE GetInSession(t)
    <3>1. map' = [map EXCEPT ![Local(t)] = map[Sess(t)]] /\ InSession(t) /\ Calls(t, "get", "query")
      BY <2>1 DEF GetInSession
    <3>2. InSession(t)'
      BY <3>1, Pointers, Types DEF InSession
    <3> QED BY <3>1, <3>2 DEF Ops
  <2> QED BY <2>1 DEF Get, OpenSession, Getent, Getentstart, Ops
<1>2. /\ \A s \in Procs : pc[s] = "idle"
      /\ pc' = [pc EXCEPT ![t] = to] /\ op' = [op EXCEPT ![t] = o]
      /\ asof' = [asof EXCEPT ![t] = fver]
      /\ UNCHANGED <<reopening, ver, mtime, nmaps, fver, fsec, nfail>>
  BY <1>1 DEF Calls, Goes, fileVars
<1>3. pc'[t] = to /\ op'[t] = o /\ (\A s \in Procs : s # t => pc'[s] = "idle") /\ fver \in Nat
  BY <1>2, Types DEF Versions
<1>4. fsec' = fver' /\ (\A x \in 1 .. nmaps' : mtime'[x] = ver'[x]) /\ \A s \in Procs : asof'[s] =< fver'
  BY <1>2, <1>3, Types DEF FreshInv
<1>5. nfail = 0 => \A x \in Maps : ~reopening[x]
  BY <1>2, FreshNow DEF InReopen
<1>6. FreshCall(t)'
  BY <1>1, <1>3 DEF FreshCall, Querying
<1> QED BY <1>2, <1>3, <1>4, <1>5, <1>6, FreshFrame

\* The steps of a call that only look at the maps: the shared pointer is found
\* fresh when the times agree, and no other thread can hold the flag.
LEMMA FreshLook ==
    ASSUME NssInv, FreshInv, NEW t \in Procs,
           \/ SharedClosed(t) \/ OpenFails(t) \/ SharedFresh(t) \/ SharedStatFails(t)
           \/ SharedChanged(t)
           \/ ReopenEnter(t) \/ ReopenBusy(t) \/ ReopenFails(t)
           \/ QueryCurrent(t) \/ QuerySuperseded(t) \/ SessionReturns(t)
    PROVE  FreshInv'
<1>1. /\ SameContents /\ UNCHANGED <<map, reopening, op>>
      /\ pc[t] # "idle" /\ \E to \in PCs : pc' = [pc EXCEPT ![t] = to]
  BY DEF SharedClosed, OpenFails, SharedFresh, SharedStatFails, SharedChanged, ReopenEnter,
         ReopenBusy, ReopenFails, QueryCurrent, QuerySuperseded, SessionReturns, mmapVars, callVars, SameContents, Goes, PCs
<1>2. \A s \in Procs : s # t => pc[s] = "idle" /\ pc'[s] = "idle"
  BY <1>1, OthersRest, Types
<1>3. nfail = 0 => /\ \A x \in Maps : reopening[x] => pc[t] \in InReopen /\ rm[t] = x
                   /\ FreshCall(t)
  BY <1>2, FreshNow
<1>4. CASE OpenFails(t) \/ SharedStatFails(t) \/ ReopenFails(t)
  <2>1. nfail' # 0
    BY <1>4, Types, BoundsAssumption DEF OpenFails, SharedStatFails, ReopenFails
  <2> QED BY <1>1, <1>2, <2>1, FreshSame
<1>5. CASE SharedClosed(t) \/ SharedChanged(t) \/ ReopenEnter(t) \/ SessionReturns(t)
  <2>1. pc[t] \notin InReopen /\ pc'[t] \in {"open", "enter", "reopen", "idle"} /\ nfail' = nfail
    BY <1>5, Types DEF SharedClosed, SharedChanged, ReopenEnter, SessionReturns, Goes, InReopen
  <2>2. FreshCall(t)'
    BY <2>1 DEF FreshCall, Querying
  <2> QED BY <1>1, <1>2, <1>3, <2>1, <2>2, FreshSame
<1>6. CASE SharedFresh(t)
  <2>1. /\ pc[t] = "shared" /\ pc'[t] = "register" /\ nfail' = nfail
        /\ map[Shared] # NULL /\ mtime[map[Shared]] = fsec
    BY <1>6, Types DEF SharedFresh, Goes, RefreshCheck
  <2>2. map[Shared] \in 1 .. nmaps
    <3>1. PICK lo, hi \in Maps : lo =< hi /\ ChainOf(lo, hi)
      BY <2>1 DEF NssInv
    <3> QED BY <1>2, <2>1, <3>1, BoundsAssumption DEF ChainOf, Maps
  <2>3. ver[map[Shared]] = fver /\ fver \in Nat /\ asof[t] =< fver
    BY <2>1, <2>2, Types DEF FreshInv, Versions
  <2>4. FreshCall(t)'
    BY <1>1, <2>1, <2>3 DEF FreshCall, Querying, SameContents
  <2> QED BY <1>1, <1>2, <1>3, <2>1, <2>4, FreshSame DEF InReopen
<1>7. CASE ReopenBusy(t)
  <2>1. pc[t] = "reopen" /\ reopening[rm[t]] /\ nfail' = nfail
    BY <1>7 DEF ReopenBusy, Goes
  <2>2. rm[t] \in Maps
    BY <2>1, Types, Pointers DEF CallInv
  <2>3. nfail' # 0
    BY <1>3, <2>1, <2>2 DEF InReopen
  <2> QED BY <1>1, <1>2, <2>3, FreshSame
<1>8. CASE QueryCurrent(t) \/ QuerySuperseded(t)
  <2>1. pc[t] = "query" /\ pc'[t] \in {"using", "moving"} /\ nfail' = nfail
    BY <1>8, Types DEF QueryCurrent, QuerySuperseded, Goes
  <2>2. nfail = 0 => FreshCall(t)'
    BY <1>1, <1>3, <2>1 DEF FreshCall, Querying, InSession, SameContents
  <2> QED BY <1>1, <1>2, <1>3, <2>1, <2>2, FreshSame DEF InReopen
<1> QED BY <1>4, <1>5, <1>6, <1>7, <1>8

\* The file is opened, or opened anew.
LEMMA FreshOpens ==
    ASSUME NssInv, FreshInv, NEW t \in Procs, OpenCreates(t) \/ ReopenMaps(t)
    PROVE  FreshInv'
<1> DEFINE n == nmaps + 1
<1>1. /\ nmaps' = n /\ ver' = [ver EXCEPT ![n] = fver] /\ mtime' = [mtime EXCEPT ![n] = fsec]
      /\ n \in Maps /\ UNCHANGED <<fver, fsec, asof, reopening>>
  <2>1. nmaps \in 0 .. MaxMaps
    BY Types DEF MmapTypeOK
  <2>2. CASE OpenCreates(t)
    <3>1. nmaps = 0
      BY <2>2 DEF OpenCreates, NssInv, Unopened
    <3> QED BY <2>2, <3>1, BoundsAssumption DEF OpenCreates, fileVars, callVars, Maps
  <2>3. CASE ReopenMaps(t)
    BY <2>1, <2>3, BoundsAssumption DEF ReopenMaps, NewMap, fileVars, callVars, Maps
  <2> QED BY <2>2, <2>3
<1>2. pc[t] # "idle" /\ \E to \in PCs : pc' = [pc EXCEPT ![t] = to]
  BY DEF OpenCreates, ReopenMaps, Goes, PCs
<1>3. \A s \in Procs : s # t => pc[s] = "idle" /\ pc'[s] = "idle"
  BY <1>2, OthersRest, Types
<1>4. nfail = 0 => /\ \A x \in Maps : reopening[x] => pc[t] \in InReopen /\ rm[t] = x
                   /\ FreshCall(t)
  BY <1>3, FreshNow
<1>5. /\ ver'[n] = fver /\ mtime'[n] = fsec
      /\ \A x \in Maps : x # n => ver'[x] = ver[x] /\ mtime'[x] = mtime[x]
  BY <1>1, Types DEF MmapTypeOK
<1>6. nmaps \in Nat /\ fver \in Nat /\ fsec = fver /\ asof[t] =< fver
  BY Types DEF MmapTypeOK, Versions, FreshInv
<1>7. \A x \in 1 .. nmaps' : mtime'[x] = ver'[x]
  <2>1. \A x \in 1 .. n : x = n \/ (x \in 1 .. nmaps /\ x \in Maps /\ x # n)
    BY <1>1, <1>6, BoundsAssumption DEF Maps
  <2>2. n \in Maps
    BY <1>1
  <2> QED BY <1>1, <1>5, <1>6, <2>1 DEF FreshInv
<1>8. fsec' = fver' /\ \A s \in Procs : asof'[s] =< fver'
  BY <1>1 DEF FreshInv
<1> HIDE DEF n
<1>9. CASE OpenCreates(t)
  <2>1. pc[t] = "open" /\ pc'[t] = "register" /\ map'[Shared] = 1 /\ nfail' = nfail /\ n = 1
    <3>1. nmaps' = 1
      BY <1>9 DEF OpenCreates
    <3> QED BY <1>1, <1>9, <3>1, Types, Pointers DEF OpenCreates, Goes
  <2>2. FreshCall(t)'
    BY <1>1, <1>5, <1>6, <2>1 DEF FreshCall, Querying
  <2> QED BY <1>1, <1>3, <1>4, <1>7, <1>8, <2>1, <2>2, FreshFrame DEF InReopen
<1>10. CASE ReopenMaps(t)
  <2>1. pc[t] = "opening" /\ pc'[t] = "opened" /\ nx'[t] = n /\ UNCHANGED <<rm, nfail>>
    BY <1>10, Types DEF ReopenMaps, Goes, NssTypeOK, n
  <2>2. FreshCall(t)'
    BY <1>1, <1>5, <1>6, <2>1 DEF FreshCall, Querying
  <2> QED BY <1>1, <1>3, <1>4, <1>7, <1>8, <2>1, <2>2, FreshFrame DEF InReopen
<1> QED BY <1>9, <1>10

\* The other steps of mcdb_mmap_reopen_threadsafe, and the registration
LEMMA FreshReopens ==
    ASSUME NssInv, FreshInv, NEW t \in Procs,
           ReopenBegin(t) \/ ReopenPublishes(t) \/ ReopenMoves(t) \/ Register(t)
    PROVE  FreshInv'
<1>1. /\ SameContents /\ nfail' = nfail /\ rm' = rm /\ op' = op
      /\ pc[t] # "idle" /\ todo[t] = {} /\ \E to \in PCs : pc' = [pc EXCEPT ![t] = to]
  <2>1. op[t] \in Ops
    BY Types
  <2> QED BY <2>1 DEF ReopenBegin, ReopenPublishes, ReopenMoves, Register, Goes, LockedFrame, fileVars,
                      callVars, SameContents, PCs, Ops
<1>2. \A s \in Procs : s # t => pc[s] = "idle" /\ pc'[s] = "idle" /\ todo[s] = {}
  BY <1>1, OthersRest, Types
<1>3. nfail = 0 => /\ \A x \in Maps : reopening[x] => pc[t] \in InReopen /\ rm[t] = x
                   /\ FreshCall(t)
  BY <1>2, FreshNow
<1>4. CallInv(t) /\ NssTypeOK /\ MmapTypeOK
  BY Types
<1>5. CASE ReopenBegin(t)
  <2>1. /\ pc[t] = "reopen" /\ pc'[t] = "opening" /\ reopening' = [reopening EXCEPT ![rm[t]] = TRUE]
    BY <1>5, Types DEF ReopenBegin, Goes
  <2>2. FreshCall(t)'
    BY <2>1 DEF FreshCall, Querying
  <2>3. nfail = 0 => \A x \in Maps : reopening'[x] => x = rm[t]
    BY <1>3, <1>4, <2>1 DEF InReopen, MmapTypeOK
  <2> QED BY <1>1, <1>2, <2>1, <2>2, <2>3, FreshSame DEF InReopen
<1>6. CASE ReopenPublishes(t)
  <2>1. /\ pc[t] = "opened" /\ pc'[t] = "published" /\ reopening' = reopening
        /\ next' = [next EXCEPT ![rm[t]] = nx[t]]
    BY <1>6, Types DEF ReopenPublishes, Goes
  <2>2. rm[t] \in Maps
    BY <1>4, <2>1, Pointers DEF CallInv, MmapTypeOK
  <2>3. next'[rm[t]] = nx[t]
    BY <1>4, <2>1, <2>2 DEF MmapTypeOK
  <2>4. nfail = 0 => FreshCall(t)'
    BY <1>1, <1>3, <2>1, <2>3 DEF FreshCall, Querying, SameContents
  <2> QED BY <1>1, <1>2, <1>3, <2>1, <2>4, FreshSame DEF InReopen
<1>7. CASE ReopenMoves(t)
  <2>1. /\ pc[t] = "published" /\ pc'[t] = "register"
        /\ RegisterIncr(Shared, [reopening EXCEPT ![rm[t]] = FALSE], t)
    BY <1>7, Types DEF ReopenMoves, Goes
  <2>2. rm[t] = map[Shared] /\ map[Shared] # NULL /\ map[Shared] \in Maps
    BY <1>4, <2>1, Pointers DEF CallInv, MmapTypeOK
  <2>3. PICK lo, hi \in Maps :
           /\ lo =< hi /\ ChainOf(lo, hi) /\ hi \in lo .. hi
           /\ \A x \in lo .. hi : x \in Maps /\ Tail(x) = hi /\ (next[x] = NULL <=> x = hi)
    BY <1>1, <1>2, <2>2, InCall
  <2>4. map[Shared] \in lo .. hi /\ map[Shared] = hi - 1 /\ map[Shared] # hi
    BY <2>1, <2>3, BoundsAssumption DEF ChainOf, Maps
  <2>5. next[rm[t]] = hi
    BY <2>2, <2>3, <2>4, BoundsAssumption DEF ChainOf, Maps
  <2>6. map'[Shared] = hi /\ reopening' = [reopening EXCEPT ![rm[t]] = FALSE]
    BY <1>4, <2>1, <2>2, <2>3, <2>4, Pointers DEF RegisterIncr, RegisterIncrInto, DropRef, MmapTypeOK
  <2>7. nfail = 0 => \A x \in Maps : ~reopening'[x]
    BY <1>3, <1>4, <2>6 DEF MmapTypeOK
  <2>8. nfail = 0 => FreshCall(t)'
    BY <1>1, <1>3, <2>1, <2>5, <2>6 DEF FreshCall, Querying, SameContents
  <2> QED BY <1>1, <1>2, <2>7, <2>8, FreshSame
<1>8. CASE Register(t)
  <2>1. /\ pc[t] = "register" /\ pc'[t] \in {"idle", "using", "query"}
        /\ RegisterIncrInto([map EXCEPT ![Mine(t)] = map[Shared]], Shared, reopening, t)
    BY <1>4, <1>8 DEF Register, Goes, NssTypeOK
  <2>2. map[Shared] # NULL
    BY <1>4, <2>1 DEF CallInv
  <2>3. PICK lo, hi \in Maps : /\ hi \in lo .. hi /\ map[Shared] = hi
                               /\ \A x \in lo .. hi : next[x] = NULL <=> x = hi
    BY <1>1, <1>2, <2>1, <2>2, InCall
  <2>4. map' = [map EXCEPT ![Mine(t)] = map[Shared]] /\ reopening' = reopening
    BY <2>1, <2>3 DEF RegisterIncrInto
  <2>5. op[t] = "get" => map'[Local(t)] = map[Shared]
    BY <1>4, <2>4, Pointers DEF Mine, MmapTypeOK
  <2>6. nfail = 0 => FreshCall(t)'
    BY <1>1, <1>3, <2>1, <2>5 DEF FreshCall, SameContents
  <2> QED BY <1>1, <1>2, <1>3, <2>1, <2>4, <2>6, FreshSame DEF InReopen
<1> QED BY <1>5, <1>6, <1>7, <1>8

\* The other steps
LEMMA FreshRest ==
    ASSUME NssInv, FreshInv, Serial = TRUE, NEW t \in Procs,
           \/ QueryMoves(t) \/ GetReturns(t) \/ GetReturnsInSession(t) \/ Endent(t)
    PROVE  FreshInv'
<1>1. /\ SameContents /\ nfail' = nfail /\ op' = op /\ reopening' = reopening
      /\ pc'[t] \in {"idle", "using"} /\ pc[t] \notin InReopen
      /\ pc[t] # "idle" \/ \A s \in Procs : pc[s] = "idle"
      /\ \A s \in Procs : s # t => pc'[s] = pc[s]
      /\ pc'[t] = "using" => pc[t] = "moving"
  BY Types DEF QueryMoves, GetReturns, GetReturnsInSession, Endent, RelShared, DropRef, RegisterIncr,
               RegisterIncrInto, LockedFrame, SameContents, fileVars, callVars, Goes, InReopen
<1>2. \A s \in Procs : s # t => pc[s] = "idle" /\ pc'[s] = "idle"
  BY <1>1, OthersRest, Types
<1>3. nfail = 0 => \A x \in Maps : ~reopening[x]
  BY <1>1, <1>2, FreshNow
<1>4. pc'[t] = "using" => op'[t] = "start"
  BY <1>1, Types DEF CallInv
<1>5. FreshCall(t)'
  BY <1>1, <1>4 DEF FreshCall, Querying
<1> QED BY <1>1, <1>2, <1>3, <1>5, FreshSame

\* The file is replaced, an unlinked map is freed, or nothing happens.
LEMMA FreshOutside ==
    ASSUME NssInv, FreshInv, SameSecond = FALSE,
           FileUpdateStep \/ (\E t \in Procs : FreeUnlinkedStep(t)) \/ UNCHANGED vars
    PROVE  FreshInv'
<1>1. UNCHANGED <<map, next, reopening, ver, mtime, nmaps, pc, op, asof, rm, nx, nfail>>
  BY DEF FileUpdateStep, FileUpdate, FreeUnlinkedStep, FreeUnlinked, vars, mmapVars, callVars
<1>2. fver \in Nat /\ fsec = fver /\ \A t \in Procs : asof[t] \in Nat /\ asof[t] =< fver
  BY Types DEF FreshInv, Versions
<1>3. fsec' = fver' /\ fver' >= fver
  BY <1>2 DEF FileUpdateStep, FileUpdate, FreeUnlinkedStep, FreeUnlinked, fileVars, vars, mmapVars
<1>4. fver' \in Nat
  BY <1>2 DEF FileUpdateStep, FileUpdate, FreeUnlinkedStep, FreeUnlinked, fileVars, vars, mmapVars
<1>5. \A t \in Procs : FreshCall(t)' <=> FreshCall(t)
  BY <1>1 DEF FreshCall, InSession
<1>6. \A t \in Procs : asof'[t] =< fver'
  BY <1>1, <1>2, <1>3, <1>4
<1> QED BY <1>1, <1>3, <1>5, <1>6 DEF FreshInv

\* With calls that do not overlap, updates that change st_mtime and no failed
\* attempt to open the file, every get*() outside a session sees a content at
\* least as new as the file had when the call began.
THEOREM GetsAreFresh ==
    ASSUME Serial = TRUE, Nested # "ever", SameSecond = FALSE
    PROVE  Spec => []GetIsFresh
<1>1. Init => FreshInv
  <2>1. ASSUME Init PROVE FreshInv
    <3>1. /\ fsec = 1 /\ fver = 1 /\ nmaps = 0 /\ pc = [t \in Procs |-> "idle"]
          /\ asof = [t \in Procs |-> 1] /\ reopening = [x \in Maps |-> FALSE]
      BY <2>1 DEF Init
    <3>2. \A t \in Procs : FreshCall(t)
      BY <3>1 DEF FreshCall, Querying
    <3> QED BY <3>1, <3>2 DEF FreshInv
  <2> QED BY <2>1
<1>2. NssInv /\ FreshInv /\ [Next]_vars => FreshInv'
  <2>1. ASSUME NssInv, FreshInv, NEW t \in Procs, GetShared(t) PROVE FreshInv'
    BY <2>1, FreshLook, FreshOpens, FreshReopens DEF GetShared
  <2>2. ASSUME NssInv, FreshInv, NEW t \in Procs,
               \/ Get(t) \/ GetInSession(t)
               \/ OpenSession(t) \/ Getent(t) \/ Getentstart(t) \/ Endent(t)
               \/ QueryCurrent(t) \/ QuerySuperseded(t) \/ QueryMoves(t)
               \/ GetReturns(t) \/ GetReturnsInSession(t) \/ SessionReturns(t)
        PROVE  FreshInv'
    BY <2>2, FreshCalls, FreshLook, FreshRest
  <2>3. ASSUME NssInv, FreshInv,
               FileUpdateStep \/ (\E t \in Procs : FreeUnlinkedStep(t)) \/ UNCHANGED vars
        PROVE  FreshInv'
    BY <2>3, FreshOutside
  <2> QED BY <2>1, <2>2, <2>3 DEF Next
<1>3. FreshInv => GetIsFresh
  BY DEF FreshInv, FreshCall, GetIsFresh, Querying
<1> QED BY <1>1, <1>2, <1>3, NssInvariant, PTL DEF Spec
=============================================================================
