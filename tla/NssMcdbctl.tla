----------------------------- MODULE NssMcdbctl -----------------------------
(***************************************************************************)
(* nss_mcdbctl: rebuild the databases whose text files (or nsswitch.conf)  *)
(* have changed (main of nss_mcdbctl.c, nss_mcdb_make_dbfile and           *)
(* nss_mcdb_nsswitch of nss_mcdb_make.c), while administrators replace the *)
(* text files, several nss_mcdbctl may run at once, and the system crashes.*)
(* Text files are replaced as the comment in nss_mcdb_make_dbfile asks     *)
(* for: a new file is written, and renamed over the old one some time      *)
(* later.  rename leaves the time at which the file was written.           *)
(***************************************************************************)
EXTENDS McdbMakefn, Sequences

CONSTANTS Order,        \* fdb[]: the databases in the order they are built
          MaxEdits,     \* bound: files the administrator replaces or removes
          MaxTime,      \* bound: the clock
          MaxFaults     \* bound: calls that fail and crashes of the system

ASSUME CtlAssumption ==
    /\ Order \in Seq(Names) /\ Len(Order) > 0
    /\ MaxEdits \in Nat /\ MaxTime \in Nat /\ MaxFaults \in Nat

VARIABLES text,      \* name -> [ver, mtime, there]: the text file, and whether it exists
          nsw,       \* [ver, mtime]: nsswitch.conf
          run,       \* maker -> [pc, i, in, nswtime, nswmap]
          edits,     \* files replaced or removed so far
          faults,    \* calls that failed and crashes so far
          unseen     \* history: name -> second in which the text file took its name, or in
                     \* which a database was finished whose second stat failed to see it

ctlVars == <<fsVars, mk, now, text, nsw, run, edits, faults, unseen>>

\* A complete database made from version v of its text file with the entry of
\* version w of nsswitch.conf as its first record
Db(v, w) == <<v, w>>
Versions == 1 .. (MaxEdits + 1)
AllDbs == Versions \X Versions
ASSUME DbAssumption == AllDbs \subseteq Databases

NoFileStat == [ver |-> 0, mtime |-> 0, there |-> FALSE]
Idle == [pc |-> "idle", i |-> 1, in |-> NoFileStat, nswtime |-> 0, nswmap |-> 0]

Pcs == {"idle", "stat", "compare", "open", "nsswitch", "parse", "restat", "install", "next"}

Stats == [ver : 0 .. MaxEdits + 1, mtime : Nat, there : BOOLEAN]
Runs  == [pc : Pcs, i : 1 .. Len(Order), in : Stats, nswtime : Nat, nswmap : 0 .. MaxEdits + 1]

\* Type invariant of the processes, of their files and of the text files
CtlTypeOK ==
    /\ MakefnTypeOK
    /\ text \in [Names -> Stats]
    /\ nsw \in [ver : Versions, mtime : Nat]
    /\ run \in [Makers -> Runs]
    /\ edits \in 0 .. MaxEdits
    /\ faults \in 0 .. MaxFaults
    /\ unseen \in [Names -> Nat]

CtlInit ==
    /\ MakefnInit
    /\ text = [n \in Names |-> [ver |-> 1, mtime |-> 0, there |-> TRUE]]
    /\ nsw = [ver |-> 1, mtime |-> 0]
    /\ run = [p \in Makers |-> Idle]
    /\ edits = 0 /\ faults = 0
    /\ unseen = [n \in Names |-> 0]

envVars == <<text, nsw, edits, unseen>>
To(p, pc) == run' = [run EXCEPT ![p].pc = pc]
Cur(p)    == Order[run[p].i]
MtimeOf(n) == IF dir[n] = NoFile THEN 0 ELSE dir[n].mtime

\* A value that main needs again for a later database; after the last one it is
\* forgotten, which saves states.
Kept(p, v) == IF run[p].i < Len(Order) THEN v ELSE 0

\* To the next database of fdb[], or the end of main
Onwards(p) ==
    IF run[p].i < Len(Order)
    THEN run' = [run EXCEPT ![p].i = @ + 1, ![p].pc = "stat"]
    ELSE run' = [run EXCEPT ![p] = Idle]

-----------------------------------------------------------------------------
(* main: the loop over fdb[].                                              *)

StartRun(p) ==
    /\ run[p].pc = "idle"
    /\ run' = [run EXCEPT ![p] = [Idle EXCEPT !.pc = "stat", !.nswtime = nsw.mtime]]
    /\ UNCHANGED <<fsVars, mk, now, envVars, faults>>

\* stat of nsswitch.conf fails: its time is taken to be 0
StartRunNoNsswitch(p) ==
    /\ run[p].pc = "idle"
    /\ faults < MaxFaults /\ faults' = faults + 1
    /\ run' = [run EXCEPT ![p] = [Idle EXCEPT !.pc = "stat"]]
    /\ UNCHANGED <<fsVars, mk, now, envVars>>

StatInput(p) ==
    /\ run[p].pc = "stat"
    /\ IF ~text[Cur(p)].there
       THEN Onwards(p)
       ELSE run' = [run EXCEPT ![p].pc = "compare", ![p].in.mtime = text[Cur(p)].mtime]
    /\ UNCHANGED <<fsVars, mk, now, envVars, faults>>

\* Mutant: a database of the same second is left alone.
UpToDateEqual(p) == /\ run[p].in.mtime <= MtimeOf(Cur(p))
                    /\ run[p].nswtime <= MtimeOf(Cur(p))

UpToDate(p) == /\ run[p].in.mtime < MtimeOf(Cur(p))
               /\ run[p].nswtime < MtimeOf(Cur(p))

SkipUpToDate(p) ==
    /\ run[p].pc = "compare"
    /\ UpToDate(p)
    /\ Onwards(p)
    /\ UNCHANGED <<fsVars, mk, now, envVars, faults>>

StartMake(p) ==
    /\ run[p].pc = "compare"
    /\ ~UpToDate(p)
    /\ MakefnStart(p, Cur(p))
    /\ run' = [run EXCEPT ![p].pc = "open", ![p].in = NoFileStat, ![p].nswtime = Kept(p, @)]
    /\ UNCHANGED <<envVars, faults>>

\* stat, mcdb_makefn_start fails: break
StartMakeFails(p) ==
    /\ run[p].pc \in {"stat", "compare"}
    /\ faults < MaxFaults /\ faults' = faults + 1
    /\ run' = [run EXCEPT ![p] = Idle]
    /\ UNCHANGED <<fsVars, mk, now, envVars>>

-----------------------------------------------------------------------------
(* nss_mcdb_make_dbfile.                                                   *)

\* On to mcdb_makefn_finish or, after an error, to mcdb_makefn_cleanup
Finished(p) ==
    run' = [run EXCEPT ![p].pc = "install", ![p].in = NoFileStat, ![p].nswmap = Kept(p, @)]

\* open, fstat and mmap of the text file, and mcdb_make_start
OpenInput(p) ==
    /\ run[p].pc = "open"
    /\ text[Cur(p)].there
    /\ run' = [run EXCEPT ![p].pc = "nsswitch", ![p].in = text[Cur(p)]]
    /\ MakeAdds(p)
    /\ UNCHANGED <<envVars, faults>>

OpenInputGone(p) ==
    /\ run[p].pc = "open"
    /\ ~text[Cur(p)].there
    /\ Finished(p)
    /\ MakeFails(p)
    /\ UNCHANGED <<envVars, faults>>

\* nss_mcdb_nsswitch maps nsswitch.conf once and keeps the mapping
ReadNsswitch(p) ==
    /\ run[p].pc = "nsswitch"
    /\ run' = [run EXCEPT ![p].pc = "parse",
                          ![p].nswmap = IF @ = 0 THEN nsw.ver ELSE @]
    /\ MakeAdds(p)
    /\ UNCHANGED <<envVars, faults>>

\* parse_mmap, flush and mcdb_make_finish
Parse(p) ==
    /\ run[p].pc = "parse"
    /\ To(p, "restat")
    /\ MakeFinish(p, Db(run[p].in.ver, run[p].nswmap))
    /\ UNCHANGED <<envVars, faults>>

\* Mutant: the text file is not looked at again.
RestatSkipped(p) ==
    /\ run[p].pc = "restat"
    /\ Finished(p)
    /\ UNCHANGED <<fsVars, mk, now, envVars, faults>>

\* stat finds no file, or the inode and the time unchanged: done
RestatSame(p) ==
    /\ run[p].pc = "restat"
    /\ ~text[Cur(p)].there \/ text[Cur(p)] = run[p].in
    /\ Finished(p)
    /\ UNCHANGED <<fsVars, mk, now, envVars, faults>>

RestatChanged(p) ==
    /\ run[p].pc = "restat"
    /\ text[Cur(p)].there /\ text[Cur(p)] # run[p].in
    /\ run' = [run EXCEPT ![p].pc = "open", ![p].in = NoFileStat]
    /\ MakeAdds(p)
    /\ UNCHANGED <<envVars, faults>>

\* stat fails although there is a file, the one that was mapped or another:
\* "proceed in event stat() fails since file parse succeeded"
RestatFails(p) ==
    /\ run[p].pc = "restat"
    /\ text[Cur(p)].there
    /\ faults < MaxFaults /\ faults' = faults + 1
    /\ Finished(p)
    /\ unseen' = IF text[Cur(p)] # run[p].in /\ mk[p].file.mtime > unseen[Cur(p)]
                 THEN [unseen EXCEPT ![Cur(p)] = mk[p].file.mtime] ELSE unseen
    /\ UNCHANGED <<fsVars, mk, now, text, nsw, edits>>

-----------------------------------------------------------------------------
(* mcdb_makefn_finish(m, true) and mcdb_makefn_cleanup.                    *)

Install(p) ==
    /\ run[p].pc = "install"
    /\ FinishChmod(p) \/ FinishSync(p) \/ FinishClose(p) \/ FinishRename(p)
    /\ UNCHANGED <<run, envVars, faults>>

\* Any call from opening the text file to the rename fails.
BuildFails(p) ==
    /\ run[p].pc \in {"open", "nsswitch", "parse", "install"}
    /\ faults < MaxFaults /\ faults' = faults + 1
    /\ MakeFails(p)
    /\ Finished(p)
    /\ UNCHANGED envVars

CleanupBuilt(p) ==
    /\ run[p].pc = "install"
    /\ MakefnCleanup(p)
    /\ To(p, "next")
    /\ UNCHANGED <<envVars, faults>>

\* rc false: break
NextDb(p) ==
    /\ run[p].pc = "next"
    /\ mk' = [mk EXCEPT ![p].step = "none"]
    /\ IF mk[p].step = "failed" THEN run' = [run EXCEPT ![p] = Idle] ELSE Onwards(p)
    /\ UNCHANGED <<fsVars, now, envVars, faults>>

Step(p) == \/ StatInput(p) \/ SkipUpToDate(p) \/ StartMake(p)
           \/ OpenInput(p) \/ OpenInputGone(p) \/ ReadNsswitch(p) \/ Parse(p)
           \/ RestatSame(p) \/ RestatChanged(p) \/ Install(p) \/ CleanupBuilt(p) \/ NextDb(p)

-----------------------------------------------------------------------------
(* The administrator, the clock and crashes.                               *)

Edit == edits < MaxEdits /\ edits' = edits + 1

\* A file written at some time up to now is renamed.  (Nothing looks at it before.)
ReplaceText(n) ==
    /\ Edit
    /\ \E written \in 0 .. now :
         text' = [text EXCEPT ![n] = [ver |-> text[n].ver + 1, mtime |-> written, there |-> TRUE]]
    /\ unseen' = [unseen EXCEPT ![n] = now]
    /\ UNCHANGED <<fsVars, mk, now, nsw, run, faults>>

RemoveText(n) ==
    /\ Edit /\ text[n].there
    /\ text' = [text EXCEPT ![n].there = FALSE]
    /\ UNCHANGED <<fsVars, mk, now, nsw, run, faults, unseen>>

ReplaceNsswitch ==
    /\ Edit
    /\ \E written \in 0 .. now : nsw' = [ver |-> nsw.ver + 1, mtime |-> written]
    /\ UNCHANGED <<fsVars, mk, now, text, run, faults, unseen>>

Tick == /\ now < MaxTime
        /\ now' = now + 1
        /\ UNCHANGED <<fsVars, mk, envVars, run, faults>>

SystemCrash ==
    /\ faults < MaxFaults /\ faults' = faults + 1
    /\ Crash
    /\ run' = [p \in Makers |-> Idle]
    /\ UNCHANGED envVars

WriteBack ==
    /\ WriteBackMeta
    /\ UNCHANGED <<envVars, run, faults>>

CtlNext ==
    \/ \E p \in Makers : \/ StartRun(p) \/ Step(p)
                         \/ StartRunNoNsswitch(p) \/ StartMakeFails(p) \/ BuildFails(p) \/ RestatFails(p)
    \/ \E n \in Names : ReplaceText(n) \/ RemoveText(n)
    \/ ReplaceNsswitch \/ Tick \/ SystemCrash \/ WriteBack

CtlSpec == CtlInit /\ [][CtlNext]_ctlVars

\* nss_mcdbctl is run again and again (from cron), and each run goes on.
CtlFairSpec == CtlSpec /\ \A p \in Makers : WF_ctlVars(StartRun(p)) /\ WF_ctlVars(Step(p))

-----------------------------------------------------------------------------
Current(n) == dir[n] # NoFile /\ dir[n].data[1] = text[n].ver

\* The two ways in which the code lets a database look newer than a text that it
\* was not made from: the text was written before the database was finished and
\* renamed then or later, or the second stat failed when the text had changed.
Overlooked(n) == dir[n].mtime <= unseen[n]

\* A database that a run would leave alone because it is newer than its text
\* file ("dbfile up-to-date (redo if time matches)") was made from the text
\* file that is there now, or the change was one of those overlooked: whoever
\* replaces the text, builds, fails or crashes in between.
SkipMeansCurrent ==
    \A n \in Names : dir[n] # NoFile /\ text[n].there /\ text[n].mtime < dir[n].mtime
                         => Current(n) \/ Overlooked(n)

\* What main relies on.  A text that is renamed late and a stat that fails
\* refute it.
SkipMeansUpToDate ==
    \A n \in Names : dir[n] # NoFile /\ text[n].there /\ text[n].mtime < dir[n].mtime
                         => Current(n)

\* The same for nsswitch.conf, whose entry is the database's first record and
\* whose time main compares in the same way
SkipMeansNsswitchCurrent ==
    \A n \in Names : dir[n] # NoFile /\ nsw.mtime < dir[n].mtime => dir[n].data[2] = nsw.ver

\* Every way out of a run, whichever call failed, has removed the temporary
\* file of the run.
NoLitter == \A p \in Makers : run[p].pc = "idle" => ~mk[p].linked

\* mcdb_makefn_finish and nss_mcdbctl implement McdbStore: at any time, and
\* after any crash, a name shows no file or a complete database.
Implements == Store!Spec

\* Once the text files stay as they are, each database catches up with its text,
\* except one whose text's change was overlooked, while main leaves it alone.
EventuallyCurrent ==
    \A n \in Names :
        <>[](text[n].there => \/ Current(n)
                              \/ /\ text[n].mtime < MtimeOf(n) /\ nsw.mtime < MtimeOf(n)
                                 /\ Overlooked(n))

-----------------------------------------------------------------------------
(* The inductive invariant behind the safety properties.                   *)

\* File f was made from a text n that had its name in an earlier second, unless
\* the second stat failed.
MadeFrom(f, n) == text[n].there /\ unseen[n] < f.mtime => f.data[1] = text[n].ver

\* What has a name, now or after a crash, is a complete database on the disk.
InstalledInv ==
    \A n \in Names : \A f \in {dir[n], disk[n]} : f # NoFile =>
        f.data \in Databases /\ f.synced /\ f.mtime =< now /\ MadeFrom(f, n)

\* Where main is, and how far the temporary file is
PlacesInv(p) ==
    CASE run[p].pc \in {"idle", "stat", "compare"}   -> mk[p].step = "none"
      [] run[p].pc \in {"open", "nsswitch", "parse"} -> mk[p].step = "making"
      [] run[p].pc = "restat"  -> mk[p].step = "made"
      [] run[p].pc = "install" -> mk[p].step \in {"made", "chmod", "sync", "close", "rename", "failed"}
      [] run[p].pc = "next"    -> mk[p].step \in {"over", "failed"}

\* m->fd = -1 exactly when there is no temporary file to unlink.
DescriptorInv(p) ==
    /\ mk[p].linked <=> mk[p].fd # -1
    /\ run[p].pc \in {"idle", "stat", "compare", "next"} => mk[p].fd = -1
    /\ mk[p].step \in {"making", "made", "chmod", "sync", "close"} =>
           mk[p].name = Cur(p) /\ mk[p].linked

\* What the text file was when it was mapped, and what the temporary file has of it
ContentInv(p) ==
    /\ run[p].pc \in {"nsswitch", "parse", "restat"} => run[p].in.ver \in Versions
    /\ run[p].pc \in {"parse", "restat"} => run[p].nswmap \in Versions
    /\ run[p].pc = "restat" => mk[p].file.data = Db(run[p].in.ver, run[p].nswmap)
    /\ mk[p].step \in {"made", "chmod", "sync", "close"} =>
           mk[p].file.data \in Databases /\ mk[p].file.mtime =< now
    /\ run[p].pc = "install" /\ mk[p].step \in {"made", "chmod", "sync", "close"} =>
           MadeFrom(mk[p].file, Cur(p))
    /\ mk[p].step \in {"sync", "close"} => mk[p].file.synced

\* Nothing bears a time that is yet to come; a version is an edit.
TextInv ==
    /\ \A n \in Names : text[n].mtime =< unseen[n] /\ unseen[n] =< now /\ text[n].ver \in 1 .. edits + 1
    /\ nsw.ver \in 1 .. edits + 1

CtlInv == /\ CtlTypeOK /\ TextInv /\ InstalledInv
          /\ \A p \in Makers : PlacesInv(p) /\ DescriptorInv(p) /\ ContentInv(p)
=============================================================================
