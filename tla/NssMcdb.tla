------------------------------ MODULE NssMcdb ------------------------------
(***************************************************************************)
(* The name service switch module (nss/nss_mcdb.c) for one database.  All  *)
(* threads of a process share one pointer to the newest map,               *)
(* _nss_mcdb_mmap[dbtype], opened by the first call that needs it and      *)
(* refreshed by later ones.  A thread may have a session of its own, from  *)
(* set*ent() to end*ent(), in _nss_mcdb_st[dbtype]; a get*() call has a    *)
(* local struct mcdb.                                                      *)
(*                                                                         *)
(* With Serial, calls of different threads do not overlap; the steps that  *)
(* exist only when they do are in NssMcdbOverlap.  The database is one     *)
(* whose modification time is checked on every call (all but protocols,    *)
(* rpc and services).                                                      *)
(***************************************************************************)
EXTENDS McdbMmap

CONSTANTS Serial,       \* do calls of different threads exclude each other?
          Nested        \* get*() in a session: "never", "current" (while the
                        \* session's map is the newest), or "ever"

Shared   == <<"shared", NULL>>      \* _nss_mcdb_mmap[dbtype]
Sess(t)  == <<"session", t>>        \* _nss_mcdb_st[dbtype].map of thread t
Local(t) == <<"local", t>>          \* m.map in nss_mcdb_get_generic

ASSUME NssAssumption ==
    /\ Ptrs = {Shared} \cup {Sess(t) : t \in Procs} \cup {Local(t) : t \in Procs}
    /\ Serial \in BOOLEAN /\ Nested \in {"never", "current", "ever"}

VARIABLES pc,       \* where each thread is
          op,       \* the call it makes
          rm,       \* "map" of mcdb_mmap_reopen_threadsafe
          nx,       \* "next" of mcdb_mmap_reopen_threadsafe, not yet published
          asof,     \* ghost: content of the file when the call began
          nfail

callVars == <<op, asof>>
vars == <<mmapVars, pc, callVars, rm, nx, nfail>>

\* Where a thread can be:
\*   idle       not in the library
\*   shared     at the top of _nss_mcdb_db_getshared
\*   open       in _nss_mcdb_db_openshared
\*   enter      saw that the file has changed
\*   reopen, opening, opened, published    in mcdb_mmap_reopen_threadsafe
\*   register   about to register through the shared pointer
\*   query      at mcdb_thread_refresh_self in mcdb_findtagstart
\*   moving     saw map->next # NULL there
\*   using      searching, iterating or decoding
PCs == {"idle", "shared", "open", "enter", "reopen", "opening", "opened",
        "published", "register", "query", "moving", "using"}

\* get: nss_mcdb_get_generic; set: nss_mcdb_setent; ent: nss_mcdb_getent and
\* nss_mcdb_getnetgrentnext; start: nss_mcdb_getentstart
Ops == {"get", "set", "ent", "start"}

\* Type invariant: pointers and fields as in MmapTypeOK, threads in one of the
\* places above.  It says that no call gives back a reference that was not
\* taken (map->refcnt would wrap below zero).
NssTypeOK ==
    /\ MmapTypeOK
    /\ pc \in [Procs -> PCs]
    /\ op \in [Procs -> Ops]
    /\ rm \in [Procs -> Maps \cup {NULL}]
    /\ nx \in [Procs -> Maps \cup {NULL}]
    /\ asof \in [Procs -> Versions]
    /\ nfail \in 0 .. MaxFail

Init ==
    /\ map = [q \in Ptrs |-> NULL]
    /\ ptr = [x \in Maps |-> FALSE]
    /\ next = [x \in Maps |-> NULL]
    /\ refcnt = [x \in Maps |-> 0]
    /\ reopening = [x \in Maps |-> FALSE]
    /\ newer = [x \in Maps |-> FALSE]
    /\ ver = [x \in Maps |-> 1]
    /\ mtime = [x \in Maps |-> 1]
    /\ mem = [x \in Maps |-> "none"]
    /\ nmaps = 0
    /\ fver = 1 /\ fsec = 1
    /\ todo = [t \in Procs |-> {}]
    /\ pc = [t \in Procs |-> "idle"]
    /\ op = [t \in Procs |-> "get"]
    /\ rm = [t \in Procs |-> NULL]
    /\ nx = [t \in Procs |-> NULL]
    /\ asof = [t \in Procs |-> 1]
    /\ nfail = 0

Goes(t, from, to) ==
    /\ todo[t] = {}
    /\ pc[t] = from
    /\ pc' = [pc EXCEPT ![t] = to]

\* The pointer a call works with.
Mine(t) == IF op[t] = "get" THEN Local(t) ELSE Sess(t)

InSession(t) == map[Sess(t)] # NULL

\* What a step under the lock leaves alone.
LockedFrame ==
    UNCHANGED <<ptr, ver, mtime, mem, nmaps, fileVars, callVars, rm, nx, nfail>>

-----------------------------------------------------------------------------
(* The calls.                                                              *)

\* Thread t calls o and gets to the place "to".
Calls(t, o, to) ==
    /\ Serial => \A s \in Procs : pc[s] = "idle" /\ todo[s] = {}
    /\ Goes(t, "idle", to)
    /\ op' = [op EXCEPT ![t] = o]
    /\ asof' = [asof EXCEPT ![t] = fver]
    /\ UNCHANGED <<ptr, next, refcnt, reopening, newer, ver, mtime, mem, nmaps,
                   fileVars, todo, rm, nx, nfail>>

\* nss_mcdb_get_generic outside a session
Get(t) ==
    /\ ~InSession(t)
    /\ Calls(t, "get", "shared")
    /\ UNCHANGED map

\* ... and inside one: _nss_mcdb_db_getshared returns the session's map
GetInSession(t) ==
    /\ InSession(t)
    /\ Nested # "never"
    /\ Nested = "current" => next[map[Sess(t)]] = NULL
    /\ Calls(t, "get", "query")
    /\ map' = [map EXCEPT ![Local(t)] = map[Sess(t)]]

\* nss_mcdb_setent, nss_mcdb_getent and nss_mcdb_getentstart open a session
\* when there is none.
OpenSession(t) ==
    /\ ~InSession(t)
    /\ \E o \in {"set", "ent", "start"} : Calls(t, o, "shared")
    /\ UNCHANGED map

\* Mutant: a session that is open is opened again.
GetentReopens(t) ==
    /\ InSession(t)
    /\ Calls(t, "ent", "shared")
    /\ UNCHANGED map

\* nss_mcdb_getent and nss_mcdb_getnetgrentnext read on in the session's map.
Getent(t) ==
    /\ InSession(t)
    /\ Calls(t, "ent", "using")
    /\ UNCHANGED map

\* nss_mcdb_getentstart in a session
Getentstart(t) ==
    /\ InSession(t)
    /\ Calls(t, "start", "query")
    /\ UNCHANGED map

\* Give back the reference that p holds.
RelShared(p, t) ==
    /\ DropRef([refcnt EXCEPT ![map[p]] = @ - 1], reopening, map[p], t)
    /\ map' = [map EXCEPT ![p] = NULL]

\* Mutant: the thread-local pointer is not set to NULL.
EndentKeeps(t) ==
    /\ InSession(t)
    /\ Serial => \A s \in Procs : pc[s] = "idle" /\ todo[s] = {}
    /\ Goes(t, "idle", "idle")
    /\ DropRef([refcnt EXCEPT ![map[Sess(t)]] = @ - 1], reopening, map[Sess(t)], t)
    /\ UNCHANGED map
    /\ LockedFrame

\* nss_mcdb_endent
Endent(t) ==
    /\ InSession(t)
    /\ Serial => \A s \in Procs : pc[s] = "idle" /\ todo[s] = {}
    /\ Goes(t, "idle", "idle")
    /\ RelShared(Sess(t), t)
    /\ LockedFrame

-----------------------------------------------------------------------------
(* _nss_mcdb_db_getshared.                                                 *)

SharedClosed(t) ==
    /\ Goes(t, "shared", "open")
    /\ map[Shared] = NULL
    /\ UNCHANGED <<mmapVars, callVars, rm, nx, nfail>>

\* _nss_mcdb_db_openshared, under its mutex: the static struct is map 1
OpenCreates(t) ==
    /\ Goes(t, "open", "register")
    /\ map[Shared] = NULL
    /\ nmaps' = 1
    /\ mem' = [mem EXCEPT ![1] = "live"]
    /\ ptr' = [ptr EXCEPT ![1] = TRUE]
    /\ ver' = [ver EXCEPT ![1] = fver]
    /\ mtime' = [mtime EXCEPT ![1] = fsec]
    /\ refcnt' = [refcnt EXCEPT ![1] = 1]
    /\ map' = [map EXCEPT ![Shared] = 1]
    /\ UNCHANGED <<next, reopening, newer, fileVars, todo, callVars, rm, nx, nfail>>

\* mcdb_mmap_create fails: NSS_STATUS_UNAVAIL
OpenFails(t) ==
    /\ Goes(t, "open", "idle")
    /\ map[Shared] = NULL
    /\ nfail < MaxFail
    /\ nfail' = nfail + 1
    /\ UNCHANGED <<mmapVars, callVars, rm, nx>>

\* Mutant: an open database is not checked for changes.
SharedUnchecked(t) ==
    /\ Goes(t, "shared", "register")
    /\ map[Shared] # NULL
    /\ UNCHANGED <<mmapVars, callVars, rm, nx, nfail>>

SharedFresh(t) ==
    /\ Goes(t, "shared", "register")
    /\ map[Shared] # NULL
    /\ ~RefreshCheck(map[Shared])
    /\ UNCHANGED <<mmapVars, callVars, rm, nx, nfail>>

\* stat() fails: the check says there is nothing to refresh.
SharedStatFails(t) ==
    /\ Goes(t, "shared", "register")
    /\ map[Shared] # NULL
    /\ ptr[map[Shared]]
    /\ nfail < MaxFail
    /\ nfail' = nfail + 1
    /\ UNCHANGED <<mmapVars, callVars, rm, nx>>

SharedChanged(t) ==
    /\ Goes(t, "shared", "enter")
    /\ map[Shared] # NULL
    /\ RefreshCheck(map[Shared])
    /\ UNCHANGED <<mmapVars, callVars, rm, nx, nfail>>

\* map = *mapptr
ReopenEnter(t) ==
    /\ Goes(t, "enter", "reopen")
    /\ rm' = [rm EXCEPT ![t] = map[Shared]]
    /\ UNCHANGED <<mmapVars, callVars, nx, nfail>>

\* First lock: the flag is taken already.
ReopenBusy(t) ==
    /\ Goes(t, "reopen", "register")
    /\ next[rm[t]] = NULL
    /\ reopening[rm[t]]
    /\ UNCHANGED <<mmapVars, callVars, rm, nx, nfail>>

\* First lock: take the flag.
ReopenBegin(t) ==
    /\ Goes(t, "reopen", "opening")
    /\ next[rm[t]] = NULL
    /\ ~reopening[rm[t]]
    /\ reopening' = [reopening EXCEPT ![rm[t]] = TRUE]
    /\ UNCHANGED <<map, next, newer, refcnt, todo>>
    /\ LockedFrame

\* "continue with open database if failure refreshing"
ReopenFails(t) ==
    /\ Goes(t, "opening", "register")
    /\ nfail < MaxFail
    /\ nfail' = nfail + 1
    /\ UNCHANGED <<mmapVars, callVars, rm, nx>>

ReopenMaps(t) ==
    /\ Goes(t, "opening", "opened")
    /\ NewMap
    /\ nx' = [nx EXCEPT ![t] = nmaps + 1]
    /\ UNCHANGED <<map, reopening, todo, fileVars, callVars, rm, nfail>>

\* map->next = next, without the lock
ReopenPublishes(t) ==
    /\ Goes(t, "opened", "published")
    /\ next' = [next EXCEPT ![rm[t]] = nx[t]]
    /\ nx' = [nx EXCEPT ![t] = NULL]
    /\ UNCHANGED <<map, ptr, refcnt, reopening, newer, ver, mtime, mem, nmaps,
                   fileVars, todo, callVars, rm, nfail>>

\* Second lock: clear the flag of the map read on entry, and register through
\* the shared pointer, whatever map that is by now.
ReopenMoves(t) ==
    /\ Goes(t, "published", "register")
    /\ RegisterIncr(Shared, [reopening EXCEPT ![rm[t]] = FALSE], t)
    /\ LockedFrame

\* Register through the shared pointer.  The routine returns the map it found
\* there, and the call goes on with that one.
Register(t) ==
    /\ Goes(t, "register", CASE op[t] = "set" -> "idle"
                             [] op[t] = "ent" -> "using"
                             [] OTHER         -> "query")
    /\ RegisterIncrInto([map EXCEPT ![Mine(t)] = map[Shared]], Shared, reopening, t)
    /\ LockedFrame

-----------------------------------------------------------------------------
(* mcdb_findtagstart on the call's pointer, and the end of a call.         *)

QueryCurrent(t) ==
    /\ Goes(t, "query", "using")
    /\ next[map[Mine(t)]] = NULL
    /\ UNCHANGED <<mmapVars, callVars, rm, nx, nfail>>

QuerySuperseded(t) ==
    /\ Goes(t, "query", "moving")
    /\ next[map[Mine(t)]] # NULL
    /\ UNCHANGED <<mmapVars, callVars, rm, nx, nfail>>

QueryMoves(t) ==
    /\ Goes(t, "moving", "using")
    /\ RegisterIncr(Mine(t), reopening, t)
    /\ LockedFrame

\* nss_mcdb_get_generic outside a session
GetReturns(t) ==
    /\ Goes(t, "using", "idle")
    /\ op[t] = "get" /\ ~InSession(t)
    /\ RelShared(Local(t), t)
    /\ LockedFrame

\* Mutant: the reference is given back in a session, too.
SessionReleases(t) ==
    /\ Goes(t, "using", "idle")
    /\ op[t] = "get" /\ InSession(t)
    /\ RelShared(Local(t), t)
    /\ LockedFrame

\* ... and inside one, where the session keeps the reference
GetReturnsInSession(t) ==
    /\ Goes(t, "using", "idle")
    /\ op[t] = "get" /\ InSession(t)
    /\ map' = [map EXCEPT ![Local(t)] = NULL]
    /\ UNCHANGED <<next, newer, reopening, refcnt, todo>>
    /\ LockedFrame

SessionReturns(t) ==
    /\ Goes(t, "using", "idle")
    /\ op[t] # "get"
    /\ UNCHANGED <<mmapVars, callVars, rm, nx, nfail>>

FreeUnlinkedStep(t) == FreeUnlinked(t) /\ UNCHANGED <<pc, callVars, rm, nx, nfail>>
FileUpdateStep      == FileUpdate /\ UNCHANGED <<pc, callVars, rm, nx, nfail>>

GetShared(t) ==
    \/ SharedClosed(t) \/ OpenCreates(t) \/ OpenFails(t)
    \/ SharedFresh(t) \/ SharedStatFails(t) \/ SharedChanged(t)
    \/ ReopenEnter(t) \/ ReopenBusy(t) \/ ReopenBegin(t) \/ ReopenFails(t)
    \/ ReopenMaps(t) \/ ReopenPublishes(t) \/ ReopenMoves(t)
    \/ Register(t)

Next ==
    \/ FileUpdateStep
    \/ \E t \in Procs :
        \/ Get(t) \/ GetInSession(t)
        \/ OpenSession(t) \/ Getent(t) \/ Getentstart(t) \/ Endent(t)
        \/ GetShared(t)
        \/ QueryCurrent(t) \/ QuerySuperseded(t) \/ QueryMoves(t)
        \/ GetReturns(t) \/ GetReturnsInSession(t) \/ SessionReturns(t)
        \/ FreeUnlinkedStep(t)

Spec == Init /\ [][Next]_vars

-----------------------------------------------------------------------------
(* Properties.                                                             *)

AtRest(t) == pc[t] = "idle" /\ todo[t] = {}

\* A call in progress and an open session always have their map mapped, and so
\* has the shared pointer ("these routines retain mmap of mcdb files once
\* opened", nss_mcdb.c): no thread reads what another one has unmapped.
UsedStaysMapped ==
    \A t \in Procs :
        /\ InSession(t) => ptr[map[Sess(t)]]
        /\ map[Local(t)] # NULL => ptr[map[Local(t)]]
        /\ map[Shared] # NULL => ptr[map[Shared]]

\* Every reference is accounted for: one of the shared pointer, one of each
\* session, one of each get*() call outside a session.
RefsAccounted ==
    \A x \in Maps :
        refcnt[x] = Cardinality({p \in Ptrs :
            /\ map[p] = x
            /\ \A t \in Procs : p = Local(t) => ~InSession(t)})

\* Between calls, with no session open, the process maps one content of the
\* file, and the shared pointer is on the last map of its chain.
OneMapAtRest ==
    ((\A t \in Procs : AtRest(t) /\ ~InSession(t)) /\ map[Shared] # NULL) =>
        {x \in Maps : ptr[x]} = {map[Shared]} /\ next[map[Shared]] = NULL

\* A get*() call outside a session sees the file as it was when the call began,
\* or a later content, as long as no attempt to stat or open it has failed.
GetIsFresh ==
    \A t \in Procs :
        (/\ pc[t] = "using" /\ op[t] = "get"
         /\ ~InSession(t) /\ nfail = 0) => ver[map[Local(t)]] >= asof[t]

\* "To maintain a consistent view of a database, set*ent() opens a session ...
\* held open until end*ent()" (nss_mcdb.h): while a session is open its map
\* does not change, except by a new search in the session itself.
SessionConsistent ==
    [][\A t \in Procs :
        (/\ InSession(t) /\ map'[Sess(t)] # NULL
         /\ op[t] # "start") => map'[Sess(t)] = map[Sess(t)]]_vars

-----------------------------------------------------------------------------
(* The inductive invariant behind these properties when calls do not       *)
(* overlap and a get*() in a session finds the session's map current.      *)

OneCall == \A s, t \in Procs : s = t \/ AtRest(s) \/ AtRest(t)

\* Places in _nss_mcdb_db_getshared, and places in a query
GettingShared == {"shared", "open", "enter", "reopen", "opening", "opened", "published", "register"}
Querying      == {"query", "moving", "using"}

\* The pointers of a call and of a session
CallInv(t) ==
    /\ pc[t] \in GettingShared => ~InSession(t)
    /\ pc[t] \in Querying => map[Mine(t)] # NULL
    /\ pc[t] = "query" => op[t] \in {"get", "start"}
    /\ pc[t] = "moving" => op[t] = "start"
    /\ map[Local(t)] # NULL =>
           pc[t] \in Querying /\ op[t] = "get" /\ map[Local(t)] = map[Shared]
    /\ map[Local(t)] # NULL /\ InSession(t) => map[Sess(t)] = map[Local(t)]
    /\ pc[t] = "open" => map[Shared] = NULL
    /\ pc[t] \notin {"idle", "shared", "open"} => map[Shared] # NULL
    /\ pc[t] \in {"reopen", "opening", "opened", "published"} => rm[t] = map[Shared]
    /\ pc[t] \in {"opening", "opened", "published"} => reopening[rm[t]]

\* Before the first call that needs the file
Unopened ==
    /\ nmaps = 0
    /\ \A x \in Maps : ~ptr[x] /\ next[x] = NULL /\ ~newer[x] /\ ~reopening[x]
    /\ \A p \in Ptrs : map[p] = NULL
    /\ \A t \in Procs : todo[t] = {}

\* The chain lo .. hi: links, flags, and what points at it.  The shared pointer
\* is on its last map but for the moment after map->next = next.
ChainOf(lo, hi) ==
    /\ \A x \in lo .. hi : ptr[x]
    /\ \A x \in lo .. hi : next[x] = IF x = hi THEN NULL ELSE x + 1
    /\ \A x \in lo .. hi : newer[x] <=> x # lo
    /\ InUse(refcnt, reopening, lo)
    /\ \A x \in Maps : ptr[x] => \/ x \in lo .. hi
                                 \/ \E t \in Procs : x \in todo[t] \/ (pc[t] = "opened" /\ nx[t] = x)
    /\ \A x \in Maps : reopening[x] /\ x >= lo =>
           x = hi \/ \E t \in Procs : pc[t] = "published" /\ rm[t] = x
    /\ \A t \in Procs : todo[t] \subseteq 1 .. (lo - 1)
    /\ \A t \in Procs : InSession(t) => map[Sess(t)] \in lo .. hi
    /\ \A t \in Procs : pc[t] = "moving" => map[Sess(t)] # hi
    /\ map[Shared] \in lo .. hi
    /\ map[Shared] = IF \E t \in Procs : pc[t] = "published" THEN hi - 1 ELSE hi
    /\ nmaps = IF \E t \in Procs : pc[t] = "opened" THEN hi + 1 ELSE hi
    /\ \A t \in Procs : pc[t] = "opened" =>
           nx[t] = hi + 1 /\ ptr[hi + 1] /\ newer[hi + 1] /\ next[hi + 1] = NULL

NssInv ==
    /\ NssTypeOK
    /\ fsec =< fver
    /\ OneCall
    /\ RefsAccounted
    /\ \A t \in Procs : CallInv(t)
    /\ IF map[Shared] = NULL THEN Unopened
       ELSE \E lo, hi \in Maps : lo =< hi /\ ChainOf(lo, hi)

\* A map that a call is about to use is not older than the call.
FreshCall(t) ==
    /\ pc[t] = "opened" => ver[nx[t]] >= asof[t]
    /\ pc[t] = "published" => ver[next[rm[t]]] >= asof[t]
    /\ pc[t] = "register" => ver[map[Shared]] >= asof[t]
    /\ pc[t] \in Querying /\ op[t] = "get" /\ ~InSession(t) => ver[map[Local(t)]] >= asof[t]

\* Times tell contents apart; unless an attempt to open the file has failed, a
\* flag is one that a call in progress will clear, and calls are fresh.
FreshInv ==
    /\ fsec = fver
    /\ \A x \in 1 .. nmaps : mtime[x] = ver[x]
    /\ \A t \in Procs : asof[t] =< fver
    /\ nfail = 0 =>
        /\ \A x \in Maps : reopening[x] => \E t \in Procs :
               pc[t] \in {"opening", "opened", "published"} /\ rm[t] = x
        /\ \A t \in Procs : FreshCall(t)
=============================================================================
