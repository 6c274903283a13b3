------------------------------ MODULE McdbMmap ------------------------------
(***************************************************************************)
(* The chain of memory maps behind one open mcdb file (mcdb.c, mcdb.h):    *)
(* struct mcdb_mmap, its reference counts, and the two routines that       *)
(* change the chain, mcdb_mmap_thread_registration and                     *)
(* mcdb_mmap_reopen_threadsafe.                                            *)
(*                                                                         *)
(* A struct mcdb_mmap is a number of Maps, handed out in the order in      *)
(* which the structs come into being.  A pointer variable of the program   *)
(* is a member of Ptrs.  The 32-bit word refcnt is split into the count    *)
(* refcnt[x] and its two flag bits: reopening[x] (0x80000000, one thread   *)
(* is reopening) and newer[x] (0x40000000, x is not the oldest map of its  *)
(* chain).                                                                 *)
(*                                                                         *)
(* Everything done between plasma_spin_lock_acquire and _release is one    *)
(* step.  This module has the pieces of those steps; the modules that      *)
(* extend it say who runs them and when.                                   *)
(***************************************************************************)
EXTENDS Integers, FiniteSets

CONSTANTS Ptrs,         \* pointer variables that hold a struct mcdb_mmap *
          Procs,        \* threads that run the routines of this module
          MaxMaps,      \* bound: structs that can be created
          MaxVersion,   \* bound: contents the file goes through
          MaxFail,      \* bound: reopen attempts that fail
          SameSecond,   \* may two updates carry the same st_mtime (seconds)?
          Allocated,    \* was the first struct passed in by the caller?
          NULL

Maps == 1 .. MaxMaps

ASSUME BoundsAssumption == /\ MaxMaps \in Nat \ {0}
                           /\ MaxVersion \in Nat \ {0}
                           /\ MaxFail \in Nat
ASSUME FlagAssumption   == SameSecond \in BOOLEAN /\ Allocated \in BOOLEAN
ASSUME NullAssumption   == NULL \notin Maps
ASSUME FiniteAssumption == IsFiniteSet(Procs) /\ IsFiniteSet(Ptrs)

VARIABLES
    map,        \* [Ptrs -> Maps or NULL]  the pointer variables
    ptr,        \* [Maps -> BOOLEAN]  map->ptr # NULL: the file is mapped
    next,       \* [Maps -> Maps or NULL]  map->next
    refcnt,     \* [Maps -> Nat]  count part of map->refcnt
    reopening,  \* [Maps -> BOOLEAN]  bit 0x80000000 of map->refcnt
    newer,      \* [Maps -> BOOLEAN]  bit 0x40000000 of map->refcnt
    ver,        \* [Maps -> content version that is mapped]
    mtime,      \* [Maps -> map->mtime]
    mem,        \* [Maps -> memory of the struct: "none", "live", "freed"]
    nmaps,      \* structs created so far
    fver,       \* content version of the file under map->fname
    fsec,       \* its st_mtime
    todo        \* [Procs -> maps this thread unlinked and has yet to free]

fileVars == <<fver, fsec>>
mmapVars == <<map, ptr, next, refcnt, reopening, newer, ver, mtime, mem,
              nmaps, fver, fsec, todo>>

Versions == 1 .. MaxVersion

\* The fields of struct mcdb_mmap and the pointers to it have values of their
\* C types; in particular a count in map->refcnt never drops below zero.
MmapTypeOK ==
    /\ map \in [Ptrs -> Maps \cup {NULL}]
    /\ ptr \in [Maps -> BOOLEAN]
    /\ next \in [Maps -> Maps \cup {NULL}]
    /\ refcnt \in [Maps -> Nat]
    /\ reopening \in [Maps -> BOOLEAN]
    /\ newer \in [Maps -> BOOLEAN]
    /\ ver \in [Maps -> Versions]
    /\ mtime \in [Maps -> Versions]
    /\ mem \in [Maps -> {"none", "live", "freed"}]
    /\ nmaps \in 0 .. MaxMaps
    /\ fver \in Versions
    /\ fsec \in Versions
    /\ todo \in [Procs -> SUBSET Maps]

-----------------------------------------------------------------------------
(* Following map->next.                                                    *)

\* The maps reached from m along nxt, m included.
Reach(nxt, m) ==
    {x \in Maps : \A S \in SUBSET Maps :
        (m \in S /\ \A y \in S : nxt[y] \in Maps => nxt[y] \in S) => x \in S}

\* The last map of the chain m is on: while (next->next != NULL) next = ...
Tail(m) == CHOOSE x \in Reach(next, m) : next[x] = NULL

\* An element of S, or NULL when there is none.
PickOrNull(S) == IF S = {} THEN NULL ELSE CHOOSE x \in S : TRUE

-----------------------------------------------------------------------------
(* mcdb_mmap_create with the file present: one map, one reference, held by *)
(* the pointer p.                                                          *)
MmapCreated(p) ==
    /\ map = [q \in Ptrs |-> IF q = p THEN 1 ELSE NULL]
    /\ ptr = [x \in Maps |-> x = 1]
    /\ next = [x \in Maps |-> NULL]
    /\ refcnt = [x \in Maps |-> IF x = 1 THEN 1 ELSE 0]
    /\ reopening = [x \in Maps |-> FALSE]
    /\ newer = [x \in Maps |-> FALSE]
    /\ ver = [x \in Maps |-> 1]
    /\ mtime = [x \in Maps |-> 1]
    /\ mem = [x \in Maps |-> IF x = 1 THEN "live" ELSE "none"]
    /\ nmaps = 1
    /\ fver = 1
    /\ fsec = 1
    /\ todo = [t \in Procs |-> {}]

\* External: mcdb_makefn renames a new file over the old one.  st_mtime has
\* a resolution of one second, so a second update can leave it as it was.
FileUpdate ==
    /\ fver < MaxVersion
    /\ fver' = fver + 1
    /\ fsec' \in IF SameSecond THEN {fsec, fsec + 1} ELSE {fsec + 1}
    /\ UNCHANGED <<map, ptr, next, refcnt, reopening, newer, ver, mtime, mem,
                   nmaps, todo>>

\* Mutant: the modification time is not looked at.
RefreshCheckUnmapped(m) == ~ptr[m]

\* mcdb_mmap_refresh_check(map), when its stat() does not fail
RefreshCheck(m) == ~ptr[m] \/ mtime[m] # fsec

-----------------------------------------------------------------------------
(* mcdb_mmap_thread_registration, entered with the lock held.              *)

\* re is the flag 0x80000000 of each map as the routine finds it, rc the
\* counts once its increments and decrements are done.

\* map == NULL, or registering through a map that has been unmapped
RegisterRefused(p) == map[p] = NULL \/ ~ptr[map[p]]

\* Mutant: the flag 0x40000000 does not protect a map that is not the oldest.
WordZeroUnflagged(rc, re, m) == rc[m] = 0 /\ ~re[m]

\* The whole word is zero: no reference and neither flag.
WordZero(rc, re, m) == rc[m] = 0 /\ ~re[m] /\ ~newer[m]

\* (next->refcnt & ~0x40000000) != 0
InUse(rc, re, x) == rc[x] # 0 \/ re[x]

\* Maps that stay when m goes: the first one in use after m, and all that
\* follow it.
Kept(rc, re, m) ==
    {x \in Maps : \E u \in Reach(next, m) \ {m} :
                      InUse(rc, re, u) /\ x \in Reach(next, u)}

\* Maps unlinked together with m because nobody uses them.
Popped(rc, re, m) == (Reach(next, m) \ {m}) \ Kept(rc, re, m)

\* Mutant: the flag of the first kept map is not cleared.
ReleaseFlagKept(rc, re, m, t) ==
    LET gone == Popped(rc, re, m) IN
    /\ next' = [x \in Maps |->
                  CASE x = m      -> PickOrNull({y \in gone : next[y] \notin gone})
                    [] x \in gone -> PickOrNull({y \in gone : next[y] = x})
                    [] OTHER      -> next[x]]
    /\ todo' = [todo EXCEPT ![t] = gone \cup {m}]
    /\ UNCHANGED newer

\* m's last reference is gone: unlink m and the unused maps after it, mark
\* the first kept map as the oldest, and leave the rest to be freed by t
\* once the lock is released.  The popped maps are pushed on a list, so
\* their next pointers end up reversed, with m in front.
Release(rc, re, m, t) ==
    LET gone == Popped(rc, re, m)
        kept == Kept(rc, re, m) IN
    /\ newer' = [x \in Maps |->
                    newer[x] /\ ~(x \in kept /\ kept \subseteq Reach(next, x))]
    /\ next' = [x \in Maps |->
                  CASE x = m      -> PickOrNull({y \in gone : next[y] \notin gone})
                    [] x \in gone -> PickOrNull({y \in gone : next[y] = x})
                    [] OTHER      -> next[x]]
    /\ todo' = [todo EXCEPT ![t] = gone \cup {m}]

\* --map->refcnt has been done; what follows if that made the word zero
DropRef(rc, re, m, t) ==
    /\ refcnt' = rc
    /\ reopening' = re
    /\ \/ WordZero(rc, re, m) /\ Release(rc, re, m, t)
       \/ ~WordZero(rc, re, m) /\ UNCHANGED <<next, newer, todo>>

\* Mutant: moving on to the new map keeps the reference on the old one.
RegisterIncrKeepsOld(ptrs, p, re, t) ==
    LET last == Tail(map[p]) IN
    /\ ~RegisterRefused(p)
    /\ map' = [ptrs EXCEPT ![p] = last]
    /\ refcnt' = [refcnt EXCEPT ![last] = @ + 1]
    /\ reopening' = re
    /\ UNCHANGED <<next, newer, todo>>

\* MCDB_REGISTER_USE_INCR through the pointer p.  ptrs are the pointers with
\* the routine's return value assigned, *mapptr not yet.
RegisterIncrInto(ptrs, p, re, t) ==
    LET m == map[p] IN
    /\ ~RegisterRefused(p)
    /\ \/ /\ next[m] = NULL
          /\ refcnt' = [refcnt EXCEPT ![m] = @ + 1]
          /\ map' = ptrs
          /\ reopening' = re
          /\ UNCHANGED <<next, newer, todo>>
       \/ /\ next[m] # NULL
          /\ map' = [ptrs EXCEPT ![p] = Tail(m)]
          /\ DropRef([refcnt EXCEPT ![Tail(m)] = @ + 1, ![m] = @ - 1], re, m, t)

\* ... when the return value is only compared with NULL
RegisterIncr(p, re, t) == RegisterIncrInto(map, p, re, t)

\* MCDB_REGISTER_USE_DECR through the pointer p
RegisterDecr(p, t) ==
    LET m  == map[p]
        rc == [refcnt EXCEPT ![m] = @ - 1] IN
    /\ m # NULL
    /\ DropRef(rc, reopening, m, t)
    /\ map' = IF WordZero(rc, reopening, m) THEN [map EXCEPT ![p] = NULL] ELSE map

-----------------------------------------------------------------------------
(* Outside the lock.                                                       *)

\* Mutant: the struct is not freed.
MmapFreeKeepsStruct(x) == ptr' = [ptr EXCEPT ![x] = FALSE] /\ UNCHANGED mem

\* mcdb_mmap_free(x): unmap; the struct itself goes back to the heap unless
\* "allocated" says the caller owns it.
MmapFree(x) ==
    /\ ptr' = [ptr EXCEPT ![x] = FALSE]
    /\ mem' = IF Allocated THEN mem ELSE [mem EXCEPT ![x] = "freed"]

\* The loop over unmap at the end of mcdb_mmap_thread_registration
FreeUnlinked(t) ==
    \E x \in todo[t] :
        /\ MmapFree(x)
        /\ todo' = [todo EXCEPT ![t] = @ \ {x}]
        /\ UNCHANGED <<map, next, refcnt, reopening, newer, ver, mtime, nmaps,
                       fileVars>>

\* Mutant: the new map is not marked 0x40000000.
NewMapUnmarked ==
    LET n == nmaps + 1 IN
    /\ nmaps < MaxMaps
    /\ nmaps' = n
    /\ mem' = [mem EXCEPT ![n] = "live"]
    /\ ptr' = [ptr EXCEPT ![n] = TRUE]
    /\ ver' = [ver EXCEPT ![n] = fver]
    /\ mtime' = [mtime EXCEPT ![n] = fsec]
    /\ next' = [next EXCEPT ![n] = NULL]
    /\ refcnt' = [refcnt EXCEPT ![n] = 0]
    /\ UNCHANGED newer

\* malloc, memcpy, mcdb_mmap_reopen: a struct nobody else can see yet
NewMap ==
    LET n == nmaps + 1 IN
    /\ nmaps < MaxMaps
    /\ nmaps' = n
    /\ mem' = [mem EXCEPT ![n] = "live"]
    /\ ptr' = [ptr EXCEPT ![n] = TRUE]
    /\ ver' = [ver EXCEPT ![n] = fver]
    /\ mtime' = [mtime EXCEPT ![n] = fsec]
    /\ next' = [next EXCEPT ![n] = NULL]
    /\ refcnt' = [refcnt EXCEPT ![n] = 0]
    /\ newer' = [newer EXCEPT ![n] = TRUE]
=============================================================================
