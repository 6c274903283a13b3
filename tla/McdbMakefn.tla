----------------------------- MODULE McdbMakefn -----------------------------
(***************************************************************************)
(* Replacing a file by a new mcdb (mcdb_makefn.c): a temporary file is     *)
(* made, filled through mcdb_make_*, given its mode, synced, closed and    *)
(* renamed over the name; mcdb_makefn_cleanup removes what is left over.   *)
(*                                                                         *)
(* The file system is one that writes changes of inode attributes and of   *)
(* directories to the disk late but in order: "disk" is the directory as   *)
(* it would be found after a crash, the attributes of the files in it are  *)
(* there too, and their data for certain only if fdatasync was called.     *)
(* A file has one link and nobody writes to it once it has its name, so    *)
(* that files are values.  Temporary files that a crash leaves behind have *)
(* no further effect (mkstemp chooses another name) and are left out.      *)
(***************************************************************************)
EXTENDS Integers

CONSTANTS Names, Databases, NoDb,
          Makers,        \* callers, each with its struct mcdb_make
          NoFile,
          Partial        \* a content that is no complete database

ASSUME MakefnAssumption == {NoDb, Partial} \cap Databases = {}

VARIABLES dir,    \* name -> file
          disk,   \* name -> file, after a crash
          mk,     \* maker -> struct mcdb_make, its temporary file, and how far it is
          now     \* time(2)

fsVars == <<dir, disk>>

Files == [data : Databases \cup {Partial}, mtime : Nat,
          mode : {"mkstemp", "final"},  \* permissions as mkstemp or as fchmod left them
          synced : BOOLEAN]
ASSUME NoFileAssumption == NoFile \notin Files

EmptyFile == [data |-> Partial, mtime |-> 0, mode |-> "mkstemp", synced |-> FALSE]

\* fd as in struct mcdb_make: 0 stands for an open descriptor, -1 for none
\* and -2 for one that mcdb_makefn_finish has closed
Steps == {"none", "making", "made", "chmod", "sync", "close", "rename", "failed", "over"}
NoMake == [fd |-> -1, file |-> EmptyFile, linked |-> FALSE, name |-> NoFile, step |-> "none"]

\* struct mcdb_make, and the temporary file
MakeStates == [fd : {0, -1, -2}, file : Files, linked : BOOLEAN,
               name : Names \cup {NoFile}, step : Steps]

MakefnTypeOK ==
    /\ dir \in [Names -> Files \cup {NoFile}]
    /\ disk \in [Names -> Files \cup {NoFile}]
    /\ mk \in [Makers -> MakeStates]
    /\ now \in Nat

MakefnInit == /\ dir = [n \in Names |-> NoFile] /\ disk = dir
              /\ mk = [p \in Makers |-> NoMake]
              /\ now = 1

-----------------------------------------------------------------------------
(* mcdb_makefn_start, mcdb_make_start and mcdb_make_finish.                *)

MakefnStart(p, n) ==
    /\ mk[p].step = "none"
    /\ mk' = [mk EXCEPT ![p] = [fd |-> 0, file |-> EmptyFile, linked |-> TRUE, name |-> n,
                                step |-> "making"]]
    /\ UNCHANGED <<fsVars, now>>

\* mcdb_make_start and the calls that add records.  (The time of these writes
\* is of no consequence: mcdb_make_finish writes again.)
MakeAdds(p) ==
    /\ mk[p].step \in {"making", "made"}
    /\ mk' = [mk EXCEPT ![p].step = "making", ![p].file = EmptyFile]
    /\ UNCHANGED <<fsVars, now>>

MakeFinish(p, c) ==
    /\ mk[p].step = "making"
    /\ mk' = [mk EXCEPT ![p].step = "made", ![p].file.data = c, ![p].file.mtime = now]
    /\ UNCHANGED <<fsVars, now>>

\* Some call on the way returned an error.
MakeFails(p) ==
    /\ mk[p].step \in {"making", "made", "chmod", "sync", "close"}
    /\ mk' = [mk EXCEPT ![p].step = "failed", ![p].file = EmptyFile]
    /\ UNCHANGED <<fsVars, now>>

-----------------------------------------------------------------------------
(* mcdb_makefn_finish: fchmod, fdatasync, close, rename.                   *)

FinishChmod(p) ==
    /\ mk[p].step = "made"
    /\ mk' = [mk EXCEPT ![p].step = "chmod", ![p].file.mode = "final"]
    /\ UNCHANGED <<fsVars, now>>

\* Mutant: fdatasync is left out.
FinishSyncSkipped(p) ==
    /\ mk[p].step = "chmod"
    /\ mk' = [mk EXCEPT ![p].step = "sync"]
    /\ UNCHANGED <<fsVars, now>>

FinishSync(p) ==
    /\ mk[p].step = "chmod"
    /\ mk' = [mk EXCEPT ![p].step = "sync", ![p].file.synced = TRUE]
    /\ UNCHANGED <<fsVars, now>>

\* the descriptor is closed, and m->fd = -2 says so to mcdb_makefn_cleanup
FinishClose(p) ==
    /\ mk[p].step = "sync"
    /\ mk' = [mk EXCEPT ![p].step = "close", ![p].fd = -2]
    /\ UNCHANGED <<fsVars, now>>

FinishRename(p) ==
    /\ mk[p].step = "close"
    /\ dir' = [dir EXCEPT ![mk[p].name] = mk[p].file]
    /\ mk' = [mk EXCEPT ![p].step = "rename", ![p].fd = -1, ![p].linked = FALSE,
                        ![p].file = EmptyFile]
    /\ UNCHANGED <<disk, now>>

\* Mutant: unlinks only while the descriptor is open.
MakefnCleanupOpen(p) ==
    /\ mk[p].step \in {"rename", "failed"}
    /\ mk' = [mk EXCEPT ![p] = [NoMake EXCEPT !.step = IF mk[p].step = "failed" THEN "failed"
                                                                                ELSE "over",
                                              !.linked = mk[p].linked /\ mk[p].fd # 0]]
    /\ UNCHANGED <<fsVars, now>>

\* unlinks unless m->fd = -1
MakefnCleanup(p) ==
    /\ mk[p].step \in {"rename", "failed"}
    /\ mk' = [mk EXCEPT ![p] = [NoMake EXCEPT !.step = IF mk[p].step = "failed" THEN "failed"
                                                                                ELSE "over",
                                              !.linked = mk[p].linked /\ mk[p].fd = -1]]
    /\ UNCHANGED <<fsVars, now>>

-----------------------------------------------------------------------------
(* The file system.                                                        *)

WriteBackMeta == disk' = dir /\ UNCHANGED <<dir, mk, now>>

\* What was not synced of a file's data is there, or not.
AfterCrash(f) ==
    IF f = NoFile \/ f.synced THEN {f} ELSE {f, [f EXCEPT !.data = Partial]}

Crash ==
    /\ dir' \in [Names -> UNION {AfterCrash(disk[n]) : n \in Names}]
    /\ \A n \in Names : dir'[n] \in AfterCrash(disk[n])
    /\ disk' = dir'
    /\ mk' = [p \in Makers |-> NoMake]
    /\ UNCHANGED now

-----------------------------------------------------------------------------
Shown(f) == IF f = NoFile THEN NoDb ELSE f.data
Lasting(f) == IF f = NoFile THEN NoDb ELSE IF f.synced THEN f.data ELSE Partial

\* mcdb_makefn_finish installs atomically, and with datasync durably: what a
\* name shows, and what it will show after a crash, is always a complete
\* database.
Store == INSTANCE McdbStore WITH
             shown <- [n \in Names |-> Shown(dir[n])],
             kept <- [n \in Names |-> Lasting(disk[n])]
=============================================================================
