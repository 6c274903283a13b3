--------------------------- MODULE NssMcdbOverlap ---------------------------
(***************************************************************************)
(* NssMcdb with calls of several threads in progress at the same time: the *)
(* steps that only another thread's call makes possible.                   *)
(***************************************************************************)
EXTENDS NssMcdb

\* The database was opened while this thread waited for the mutex.
OpenFinds(t) ==
    /\ Goes(t, "open", "register")
    /\ map[Shared] # NULL
    /\ UNCHANGED <<mmapVars, callVars, rm, nx, nfail>>

\* First lock: there is a successor already.
ReopenFindsNext(t) ==
    /\ Goes(t, "reopen", "register")
    /\ next[rm[t]] # NULL
    /\ RegisterIncr(Shared, reopening, t)
    /\ LockedFrame

\* The shared pointer's map has been unmapped: NULL, NSS_STATUS_UNAVAIL.  In
\* mcdb_mmap_reopen_threadsafe the result is ignored.
RegisterFails(t) ==
    /\ \/ Goes(t, "register", "idle") \/ Goes(t, "published", "register")
    /\ RegisterRefused(Shared)
    /\ reopening' = IF pc[t] = "published" THEN [reopening EXCEPT ![rm[t]] = FALSE]
                    ELSE reopening
    /\ UNCHANGED <<map, next, newer, refcnt, todo>>
    /\ LockedFrame

\* mcdb_findtagstart goes on with the map it has.
QueryStays(t) ==
    /\ Goes(t, "moving", "using")
    /\ RegisterRefused(Mine(t))
    /\ UNCHANGED <<mmapVars, callVars, rm, nx, nfail>>

OverlapNext ==
    \/ Next
    \/ \E t \in Procs : \/ OpenFinds(t) \/ ReopenFindsNext(t)
                        \/ RegisterFails(t) \/ QueryStays(t)

OverlapSpec == Init /\ [][OverlapNext]_vars
=============================================================================
