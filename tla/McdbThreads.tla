---------------------------- MODULE McdbThreads ----------------------------
(***************************************************************************)
(* The documented use of one mcdb by the threads of a program (comment     *)
(* above mcdb_mmap_create): a maintenance thread creates the map, refreshes*)
(* it now and then and destroys it in the end; querying threads register,  *)
(* query (each query starts with mcdb_thread_refresh_self) and unregister. *)
(*                                                                         *)
(* Each thread has a pointer of its own: Maint its "map", a querying thread*)
(* the member "map" of its struct mcdb.  A thread that joins copies Maint's*)
(* pointer and registers through the copy.  Here the program makes these   *)
(* two steps one, taken while the copied map is not superseded: nothing in *)
(* the library protects the copy.                                          *)
(***************************************************************************)
EXTENDS McdbMmap

CONSTANTS Maint,        \* the maintenance thread
          Refreshers    \* threads that call mcdb_thread_refresh

ASSUME ThreadsAssumption == /\ Ptrs = Procs
                            /\ Maint \in Procs
                            /\ Maint \in Refreshers
                            /\ Refreshers \subseteq Procs

VARIABLES pc,       \* where each thread is
          nx,       \* "next" of mcdb_mmap_reopen_threadsafe, not yet published
          nfail     \* reopen attempts that failed so far

vars == <<mmapVars, pc, nx, nfail>>

\* Where a thread can be:
\*   out        holds no reference (not registered, or unregistered)
\*   reg        registered; idle, or using what a query returned
\*   moving     in mcdb_thread_refresh_self, saw map->next # NULL
\*   reopen     in mcdb_mmap_reopen_threadsafe, before the first lock
\*   opening    set the flag 0x80000000, about to open and map the file
\*   opened     has the new map in "next"
\*   published  did map->next = next, before the second lock
\*   destroyed  (Maint) called mcdb_mmap_destroy
Registered == {"reg", "moving", "reopen", "opening", "opened", "published"}
PCs == Registered \cup {"out", "destroyed"}

Queriers == Procs \ {Maint}

\* Type invariant: struct fields as in MmapTypeOK, threads at the places listed
\* above.  It says that no thread gives back a reference it does not have
\* (map->refcnt would wrap below zero).
TypeOK ==
    /\ MmapTypeOK
    /\ pc \in [Procs -> PCs]
    /\ nx \in [Procs -> Maps \cup {NULL}]
    /\ nfail \in 0 .. MaxFail

Init ==
    /\ MmapCreated(Maint)
    /\ pc = [t \in Procs |-> IF t = Maint THEN "reg" ELSE "out"]
    /\ nx = [t \in Procs |-> NULL]
    /\ nfail = 0

\* Thread t goes from one place to another; it first frees what it unlinked.
Goes(t, from, to) ==
    /\ todo[t] = {}
    /\ pc[t] = from
    /\ pc' = [pc EXCEPT ![t] = to]

\* What a step under the lock leaves alone.
LockedFrame ==
    UNCHANGED <<ptr, ver, mtime, mem, nmaps, fileVars, nx, nfail>>

-----------------------------------------------------------------------------
(* Querying threads.                                                       *)

\* Mutant: the new thread is not counted.
JoinUncounted(t) ==
    /\ t \in Queriers
    /\ Goes(t, "out", "reg")
    /\ pc[Maint] # "destroyed"
    /\ next[map[Maint]] = NULL
    /\ map' = [map EXCEPT ![t] = map[Maint]]
    /\ UNCHANGED <<refcnt, next, newer, reopening, todo>>
    /\ LockedFrame

\* m.map = map; mcdb_thread_register(&m), with no update in between
Join(t) ==
    /\ t \in Queriers
    /\ Goes(t, "out", "reg")
    /\ pc[Maint] # "destroyed"
    /\ next[map[Maint]] = NULL
    /\ map' = [map EXCEPT ![t] = map[Maint]]
    /\ refcnt' = [refcnt EXCEPT ![map[Maint]] = @ + 1]
    /\ UNCHANGED <<next, newer, reopening, todo>>
    /\ LockedFrame

\* mcdb_findtagstart reads map->next in mcdb_thread_refresh_self.  When it
\* is NULL the query runs on the current map and nothing changes here.
FindStartSuperseded(t) ==
    /\ Goes(t, "reg", "moving")
    /\ next[map[t]] # NULL
    /\ UNCHANGED <<mmapVars, nx, nfail>>

\* ... and then takes the lock
MoveSelf(t) ==
    /\ Goes(t, "moving", "reg")
    /\ RegisterIncr(t, reopening, t)
    /\ LockedFrame

\* mcdb_thread_unregister(&m)
Unregister(t) ==
    /\ t \in Queriers
    /\ Goes(t, "reg", "out")
    /\ RegisterDecr(t, t)
    /\ LockedFrame

-----------------------------------------------------------------------------
(* mcdb_mmap_refresh_threadsafe and mcdb_mmap_reopen_threadsafe.           *)

\* Mutant: the file is reopened whether or not it has changed.
RefreshAlways(t) ==
    /\ t \in Refreshers
    /\ Goes(t, "reg", "reopen")
    /\ UNCHANGED <<mmapVars, nx, nfail>>

\* mcdb_mmap_refresh_check says the file changed
RefreshNeeded(t) ==
    /\ t \in Refreshers
    /\ Goes(t, "reg", "reopen")
    /\ RefreshCheck(map[t])
    /\ UNCHANGED <<mmapVars, nx, nfail>>

\* First lock: someone else has already put a new map behind this one.
ReopenFindsNext(t) ==
    /\ Goes(t, "reopen", "reg")
    /\ next[map[t]] # NULL
    /\ RegisterIncr(t, reopening, t)
    /\ LockedFrame

\* First lock: another thread has the flag; return without reopening.
ReopenBusy(t) ==
    /\ Goes(t, "reopen", "reg")
    /\ next[map[t]] = NULL
    /\ reopening[map[t]]
    /\ UNCHANGED <<mmapVars, nx, nfail>>

\* Mutant: the flag is not tested.
ReopenBeginUntested(t) ==
    /\ Goes(t, "reopen", "opening")
    /\ next[map[t]] = NULL
    /\ reopening' = [reopening EXCEPT ![map[t]] = TRUE]
    /\ UNCHANGED <<map, next, newer, refcnt, todo>>
    /\ LockedFrame

\* First lock: take the flag.
ReopenBegin(t) ==
    /\ Goes(t, "reopen", "opening")
    /\ next[map[t]] = NULL
    /\ ~reopening[map[t]]
    /\ reopening' = [reopening EXCEPT ![map[t]] = TRUE]
    /\ UNCHANGED <<map, next, newer, refcnt, todo>>
    /\ LockedFrame

\* malloc, open, fstat or mmap fails: return false.  The flag stays set.
ReopenFails(t) ==
    /\ Goes(t, "opening", "reg")
    /\ nfail < MaxFail
    /\ nfail' = nfail + 1
    /\ UNCHANGED <<mmapVars, nx>>

ReopenMaps(t) ==
    /\ Goes(t, "opening", "opened")
    /\ NewMap
    /\ nx' = [nx EXCEPT ![t] = nmaps + 1]
    /\ UNCHANGED <<map, reopening, todo, fileVars, nfail>>

\* map->next = next, without the lock
ReopenPublishes(t) ==
    /\ Goes(t, "opened", "published")
    /\ next' = [next EXCEPT ![map[t]] = nx[t]]
    /\ nx' = [nx EXCEPT ![t] = NULL]
    /\ UNCHANGED <<map, ptr, refcnt, reopening, newer, ver, mtime, mem, nmaps,
                   fileVars, todo, nfail>>

\* Mutant: the flag is not cleared.
ReopenMovesFlagged(t) ==
    /\ Goes(t, "published", "reg")
    /\ RegisterIncr(t, reopening, t)
    /\ LockedFrame

\* Second lock: clear the flag and, still under the lock, move on to the
\* new map.
ReopenMoves(t) ==
    /\ Goes(t, "published", "reg")
    /\ RegisterIncr(t, [reopening EXCEPT ![map[t]] = FALSE], t)
    /\ LockedFrame

-----------------------------------------------------------------------------
FreeUnlinkedStep(t) == FreeUnlinked(t) /\ UNCHANGED <<pc, nx, nfail>>

\* mcdb_mmap_destroy(map), when every other thread is gone
Destroy ==
    /\ Goes(Maint, "reg", "destroyed")
    /\ \A t \in Queriers : pc[t] = "out" /\ todo[t] = {}
    /\ MmapFree(map[Maint])
    /\ UNCHANGED <<map, next, refcnt, reopening, newer, ver, mtime, nmaps,
                   fileVars, todo, nx, nfail>>

FileUpdateStep == FileUpdate /\ UNCHANGED <<pc, nx, nfail>>

Refresh(t) ==
    \/ RefreshNeeded(t)
    \/ ReopenFindsNext(t) \/ ReopenBusy(t) \/ ReopenBegin(t)
    \/ ReopenFails(t) \/ ReopenMaps(t) \/ ReopenPublishes(t) \/ ReopenMoves(t)

Next ==
    \/ FileUpdateStep
    \/ Destroy
    \/ \E t \in Procs : \/ Join(t)
                        \/ FindStartSuperseded(t) \/ MoveSelf(t)
                        \/ Unregister(t)
                        \/ Refresh(t)
                        \/ FreeUnlinkedStep(t)

Spec == Init /\ [][Next]_vars

-----------------------------------------------------------------------------
(* Safety.                                                                 *)

\* The threads that hold a reference on x.
Holders(x) == {t \in Procs : pc[t] \in Registered /\ map[t] = x}

\* Maps whose struct a thread still has to link in or to free.
InTransit == {x \in Maps : \E t \in Procs :
                  x \in todo[t] \/ (pc[t] = "opened" /\ nx[t] = x)}

\* A registered thread's map stays mapped and its struct allocated, whatever
\* the other threads release, reopen or free (mcdb_mmap_thread_registration:
\* a map goes only with its last reference).
RegisteredStaysMapped ==
    \A t \in Procs : pc[t] \in Registered =>
        map[t] \in Maps /\ ptr[map[t]] /\ mem[map[t]] = "live"

\* The count of every map is the number of threads registered on it: no
\* step of the hand-over between maps loses or adds a reference.
RefcntExact ==
    pc[Maint] # "destroyed" =>
        \A x \in Maps : refcnt[x] = Cardinality(Holders(x))

\* Nothing is leaked: every struct with the file mapped is on its way in or
\* out, or sits on the one chain whose oldest map somebody uses, so that
\* the release of that map reaches it.
NoLeak ==
    pc[Maint] # "destroyed" =>
        \E old \in Maps :
            /\ ~newer[old] /\ InUse(refcnt, reopening, old)
            /\ {x \in Maps : ptr[x]} \subseteq Reach(next, old) \cup InTransit

\* One reopen at a time per map: two threads never both hold, or are both
\* about to make, the successor of the same map (flag 0x80000000).
OneReopener ==
    \A s, t \in Procs :
        (/\ s # t
         /\ {pc[s], pc[t]} \subseteq {"opening", "opened", "published"})
            => map[s] # map[t]

\* A thread that moves to another map while registered moves to a later
\* content of the file, never to the same or an earlier one.
MovesForward ==
    [][\A t \in Procs :
        (/\ pc[t] \in Registered
         /\ pc'[t] \in Registered
         /\ map'[t] # map[t]) => ver'[map'[t]] > ver[map[t]]]_vars

\* mcdb_mmap_destroy by a maintenance thread that is on the last map of the
\* chain, every other thread gone, leaves nothing mapped and no struct on the
\* heap but the one the caller passed in (comment above mcdb_mmap_create:
\* "internal allocations and resources are free'd"): what destroy itself does
\* not free, the releases before it have.
DestroyReleasesAll ==
    (pc[Maint] = "destroyed" /\ next[map[Maint]] = NULL) =>
        \A x \in Maps : ~ptr[x] /\ (mem[x] = "live" => Allocated /\ x = 1)

-----------------------------------------------------------------------------
(* The inductive invariant behind the safety properties.  The structs on   *)
(* the chain are lo .. hi, in the order in which they were created; only   *)
(* the oldest is unmarked, and somebody uses it.                           *)

\* Links, flags and memory of the chain lo .. hi, and of all else.
ChainShape(lo, hi) ==
    /\ \A x \in lo .. hi : ptr[x] /\ mem[x] = "live"
    /\ \A x \in lo .. hi : next[x] = IF x = hi THEN NULL ELSE x + 1
    /\ \A x \in lo .. hi : newer[x] <=> x # lo
    /\ InUse(refcnt, reopening, lo)
    /\ \A x \in Maps : ptr[x] => x \in lo .. hi \/ x \in InTransit
    /\ \A x \in Maps : x > hi => ~reopening[x]

\* Threads and what they point at.
ThreadsOnChain(lo, hi) ==
    /\ \A t \in Procs : todo[t] \subseteq 1 .. (lo - 1)
    /\ \A t \in Procs : pc[t] \in Registered => map[t] \in lo .. hi
    /\ \A t \in Procs : pc[t] \in {"moving", "published"} => map[t] # hi
    /\ \A t \in Procs : pc[t] \in {"opening", "opened"} => map[t] = hi
    /\ \A t \in Procs : pc[t] \in {"opening", "opened", "published"} =>
                            reopening[map[t]]

\* Structs are numbered as they are created; the one that is not published
\* yet is next in line.
Unpublished(hi) ==
    /\ nmaps = IF \E t \in Procs : pc[t] = "opened" THEN hi + 1 ELSE hi
    /\ \A t \in Procs : pc[t] = "opened" =>
        /\ nx[t] = hi + 1
        /\ ptr[hi + 1] /\ mem[hi + 1] = "live" /\ newer[hi + 1]
        /\ next[hi + 1] = NULL

ChainInv ==
    /\ pc[Maint] \in Registered
    /\ RefcntExact
    /\ OneReopener
    /\ \E lo, hi \in Maps :
        /\ lo =< hi
        /\ ChainShape(lo, hi)
        /\ ThreadsOnChain(lo, hi)
        /\ Unpublished(hi)

AllGone == \A t \in Procs :
              todo[t] = {} /\ pc[t] = IF t = Maint THEN "destroyed" ELSE "out"

\* Either Maint has destroyed the map with every other thread gone, or the
\* chain is as described above.
IInv ==
    /\ TypeOK
    /\ fsec =< fver
    /\ \A t \in Queriers : pc[t] # "destroyed"
    /\ \/ AllGone
       \/ ChainInv

\* Structs created later map later contents, and a thread that goes to reopen
\* is on a content that is no longer the file's.
OrderInv ==
    /\ \A x \in 1 .. nmaps : ver[x] =< fver /\ (ver[x] = fver => mtime[x] = fsec)
    /\ \A x, y \in 1 .. nmaps : x < y => ver[x] < ver[y]
    /\ \A t \in Procs : pc[t] \in {"reopen", "opening"} => ver[map[t]] < fver

\* The flag 0x80000000 of a superseded map has an owner, about to clear it.
FlagInv ==
    \A x \in Maps : reopening[x] /\ next[x] # NULL =>
        \E t \in Procs : pc[t] = "published" /\ map[t] = x

\* Structs are freed as the file is unmapped; what mcdb_mmap_destroy leaves.
HeapInv ==
    /\ ~Allocated => \A x \in Maps : mem[x] = "live" => ptr[x]
    /\ pc[Maint] = "destroyed" /\ next[map[Maint]] = NULL => \A x \in Maps : ~ptr[x]

-----------------------------------------------------------------------------
(* Liveness.  A thread inside a routine of the library finishes it, Maint  *)
(* calls refresh again and again, and a querying thread queries again and  *)
(* again (or leaves).                                                      *)

InLibrary(t) ==
    \/ MoveSelf(t)
    \/ ReopenFindsNext(t) \/ ReopenBusy(t) \/ ReopenBegin(t)
    \/ ReopenFails(t) \/ ReopenMaps(t) \/ ReopenPublishes(t) \/ ReopenMoves(t)
    \/ FreeUnlinkedStep(t)

Fairness ==
    /\ \A t \in Procs : WF_vars(InLibrary(t)) /\ WF_vars(FindStartSuperseded(t))
    /\ \A t \in Refreshers : WF_vars(RefreshNeeded(t))

LiveSpec == Spec /\ Fairness

\* Once the file stops changing, every registered thread ends up on its
\* latest content and stays there (mcdb_mmap_refresh_threadsafe by one
\* thread, mcdb_thread_refresh_self by the others), until Maint destroys
\* the map.
EventuallyFresh ==
    <>[](\A t \in Procs : pc[t] \in Registered => ver[map[t]] = fver)

\* ... and the superseded maps are unmapped and their structs freed: nothing
\* is left but the map that Maint and the others use.
EventuallyReclaimed ==
    <>[](pc[Maint] # "destroyed" =>
            \A x \in Maps : ptr[x] \/ mem[x] = "live" => x = map[Maint])
=============================================================================
