-------------------------- MODULE NssMcdbctlProofs --------------------------
(***************************************************************************)
(* Proofs about NssMcdbctl, for any number of databases, of nss_mcdbctl at *)
(* work, of edits, failures and crashes: CtlInv is inductive, the safety   *)
(* properties follow from it, and every step is a step of McdbStore.       *)
(***************************************************************************)
EXTENDS NssMcdbctl, TLAPS

-----------------------------------------------------------------------------
(* One nss_mcdbctl at a time.                                              *)

MakerInv(p) == PlacesInv(p) /\ DescriptorInv(p) /\ ContentInv(p)

\* More databases than before may lack the text that is there.
SeesLess ==
    /\ unseen' \in [Names -> Nat]
    /\ \A n \in Names : unseen[n] =< unseen'[n] /\ unseen'[n] =< now

\* A step of p leaves the struct mcdb_make and the program counters of the
\* others alone, and does not touch the text files.
StepOf(p) ==
    /\ mk' = [mk EXCEPT ![p] = mk'[p]]
    /\ run' = [run EXCEPT ![p] = run'[p]]
    /\ UNCHANGED <<text, nsw, edits, now>>
    /\ unseen' = unseen \/ SeesLess

\* A database that was made from its text still is, though more may not be.
LEMMA StillMade ==
    ASSUME CtlInv, NEW p \in Makers, StepOf(p), NEW n \in Names, NEW f \in Files, MadeFrom(f, n)
    PROVE  MadeFrom(f, n)'
<1>1. text' = text /\ unseen[n] \in Nat /\ unseen'[n] \in Nat /\ unseen[n] =< unseen'[n]
  BY DEF StepOf, SeesLess, CtlInv, CtlTypeOK
<1>2. f.mtime \in Nat
  BY DEF Files
<1> QED BY <1>1, <1>2 DEF MadeFrom

\* Cur(p) is a name.
LEMMA CurName == ASSUME CtlTypeOK, NEW p \in Makers PROVE Cur(p) \in Names
BY CtlAssumption DEF CtlTypeOK, Runs, Cur

\* After a step of p only what belongs to p, and what has a name, is in question.
LEMMA OneMaker ==
    ASSUME CtlInv, NEW p \in Makers, StepOf(p),
           mk'[p] \in MakeStates, run'[p] \in Runs, MakerInv(p)',
           dir' \in [Names -> Files \cup {NoFile}],
           disk' \in [Names -> Files \cup {NoFile}],
           InstalledInv',
           faults' \in 0 .. MaxFaults
    PROVE  CtlInv'
<1>1. CtlTypeOK'
  BY DEF CtlInv, CtlTypeOK, MakefnTypeOK, StepOf, SeesLess
<1>2. TextInv'
  <2>1. ASSUME NEW n \in Names PROVE text[n].mtime =< unseen'[n] /\ unseen'[n] =< now
    <3>1. text[n].mtime \in Nat /\ unseen[n] \in Nat /\ text[n].mtime =< unseen[n] /\ unseen[n] =< now
      BY DEF CtlInv, CtlTypeOK, TextInv, Stats
    <3>2. unseen'[n] \in Nat /\ unseen[n] =< unseen'[n] /\ unseen'[n] =< now
      BY <3>1 DEF StepOf, SeesLess
    <3> QED BY <3>1, <3>2
  <2> QED BY <2>1 DEF CtlInv, TextInv, StepOf
<1>3. ASSUME NEW q \in Makers, q # p PROVE MakerInv(q)'
  <2>1. mk'[q] = mk[q] /\ run'[q] = run[q]
    BY <1>3 DEF StepOf, CtlInv, CtlTypeOK, MakefnTypeOK
  <2>2. Cur(q)' = Cur(q) /\ text' = text /\ now' = now
    BY <2>1 DEF Cur, StepOf
  <2>3. PlacesInv(q)'
    BY <2>1 DEF PlacesInv, CtlInv
  <2>4. DescriptorInv(q)'
    BY <2>1, <2>2 DEF DescriptorInv, CtlInv
  <2>5. mk[q].file \in Files /\ Cur(q) \in Names
    BY CurName DEF CtlInv, CtlTypeOK, MakefnTypeOK, MakeStates
  <2>6. MadeFrom(mk[q].file, Cur(q)) => MadeFrom(mk[q].file, Cur(q))'
    <3>1. MadeFrom(mk[q].file, Cur(q)) =>
              (text'[Cur(q)].there /\ unseen'[Cur(q)] < mk[q].file.mtime
                  => mk[q].file.data[1] = text'[Cur(q)].ver)
      BY <2>5, StillMade DEF MadeFrom
    <3> QED BY <2>1, <2>2, <3>1 DEF MadeFrom
  <2>7. ContentInv(q)'
    BY <2>1, <2>2, <2>6 DEF ContentInv, CtlInv
  <2> QED BY <2>3, <2>4, <2>7 DEF MakerInv
<1> QED BY <1>1, <1>2, <1>3 DEF CtlInv, MakerInv

\* The steps that leave the directory as it is
LEMMA SameDir ==
    ASSUME CtlInv, NEW p \in Makers, StepOf(p), UNCHANGED fsVars,
           mk'[p] \in MakeStates, run'[p] \in Runs, MakerInv(p)',
           faults' \in 0 .. MaxFaults
    PROVE  CtlInv'
<1>1. dir' = dir /\ disk' = disk /\ now' = now
  BY DEF fsVars, StepOf
<1>2. ASSUME NEW n \in Names, NEW f \in {dir[n], disk[n]}, f # NoFile
      PROVE  f.data \in Databases /\ f.synced /\ f.mtime =< now /\ MadeFrom(f, n)'
  <2>1. f \in Files
    BY <1>2 DEF CtlInv, CtlTypeOK, MakefnTypeOK
  <2> QED BY <1>2, <2>1, StillMade DEF CtlInv, InstalledInv
<1>3. InstalledInv'
  BY <1>1, <1>2 DEF InstalledInv, MadeFrom
<1> QED BY <1>1, <1>3, OneMaker DEF CtlInv, CtlTypeOK, MakefnTypeOK

\* The records that the actions assign to run[p]
LEMMA NoStat == NoFileStat \in Stats
BY CtlAssumption DEF Stats, NoFileStat

LEMMA NoContent == EmptyFile \in Files
BY DEF EmptyFile, Files

LEMMA IdleRun == Idle \in Runs /\ Idle.pc = "idle"
<1>1. 1 \in 1 .. Len(Order) /\ 0 \in 0 .. MaxEdits + 1
  BY CtlAssumption
<1> QED BY <1>1, NoStat DEF Idle, Runs, Pcs

-----------------------------------------------------------------------------
(* Each action of main and of nss_mcdb_make_dbfile.                        *)


\* What CtlInv says about p itself
LEMMA Here ==
    ASSUME CtlInv, NEW p \in Makers
    PROVE  /\ mk[p] \in MakeStates /\ run[p] \in Runs /\ MakerInv(p)
           /\ mk[p].file \in Files /\ run[p].pc \in Pcs /\ run[p].i \in 1 .. Len(Order)
           /\ faults \in 0 .. MaxFaults /\ nsw.mtime \in Nat /\ Cur(p) \in Names
           /\ text[Cur(p)] \in Stats /\ text[Cur(p)].ver \in Versions
<1>1. mk[p] \in MakeStates /\ run[p] \in Runs /\ CtlTypeOK /\ TextInv
  BY DEF CtlInv, CtlTypeOK, MakefnTypeOK
<1>2. MakerInv(p)
  BY DEF CtlInv, MakerInv
<1>3. mk[p].file \in Files /\ run[p].pc \in Pcs /\ run[p].i \in 1 .. Len(Order)
  BY <1>1 DEF MakeStates, Runs
<1>4. faults \in 0 .. MaxFaults /\ nsw.mtime \in Nat /\ Cur(p) \in Names /\ text \in [Names -> Stats]
  BY <1>1, CurName DEF CtlTypeOK
<1>5. text[Cur(p)].ver \in Versions
  BY <1>1, <1>4, CtlAssumption DEF TextInv, Versions, CtlTypeOK
<1> QED BY <1>1, <1>2, <1>3, <1>4, <1>5

LEMMA StartRunStep ==
    ASSUME CtlInv, NEW p \in Makers, StartRun(p) \/ StartRunNoNsswitch(p) PROVE CtlInv'
<1>1. /\ StepOf(p) /\ UNCHANGED fsVars /\ faults' \in 0 .. MaxFaults /\ mk'[p] = mk[p]
      /\ run[p].pc = "idle"
      /\ \/ run'[p] = [Idle EXCEPT !.pc = "stat", !.nswtime = nsw.mtime]
         \/ run'[p] = [Idle EXCEPT !.pc = "stat"]
  <2>1. CASE StartRun(p)
    BY <2>1, Here DEF StartRun, StepOf, CtlInv, CtlTypeOK, MakefnTypeOK, envVars
  <2>2. CASE StartRunNoNsswitch(p)
    <3>1. faults' \in 0 .. MaxFaults
      BY <2>2, Here, CtlAssumption DEF StartRunNoNsswitch
    <3> QED BY <2>2, <3>1 DEF StartRunNoNsswitch, StepOf, CtlInv, CtlTypeOK, MakefnTypeOK, envVars
  <2> QED BY <2>1, <2>2
<1>2. run'[p] \in Runs /\ run'[p].pc = "stat"
  BY <1>1, Here, IdleRun DEF Pcs, Runs
<1>3. MakerInv(p)'
  BY <1>1, <1>2, Here DEF MakerInv, PlacesInv, DescriptorInv, ContentInv
<1> QED BY <1>1, <1>2, <1>3, Here, SameDir

\* The end of an iteration over fdb[], in which nothing is left to unlink
LEMMA OnwardsStep ==
    ASSUME CtlInv, NEW p \in Makers, Onwards(p) \/ run' = [run EXCEPT ![p] = Idle],
           mk' = [mk EXCEPT ![p] = mk'[p]], mk'[p] \in MakeStates,
           mk'[p].step = "none", mk'[p].fd = -1, ~mk'[p].linked,
           UNCHANGED <<text, nsw, edits, unseen, now, fsVars>>, faults' \in 0 .. MaxFaults
    PROVE  CtlInv'
<1>1. run[p].i < Len(Order) => run[p].i + 1 \in 1 .. Len(Order)
  BY Here, CtlAssumption
<1>2. StepOf(p) /\ run'[p] \in Runs /\ run'[p].pc \in {"stat", "idle"}
  <2>1. CASE run' = [run EXCEPT ![p] = Idle]
    BY <2>1, IdleRun DEF StepOf, CtlInv, CtlTypeOK
  <2>2. CASE Onwards(p) /\ run[p].i < Len(Order)
    <3>1. run'[p] = [run[p] EXCEPT !.i = run[p].i + 1, !.pc = "stat"]
      BY <2>2 DEF Onwards, CtlInv, CtlTypeOK
    <3>2. run' = [run EXCEPT ![p] = run'[p]]
      BY <2>2, <3>1 DEF Onwards, CtlInv, CtlTypeOK
    <3>3. run'[p] \in Runs /\ run'[p].pc = "stat"
      BY <1>1, <2>2, <3>1, Here DEF Pcs, Runs
    <3> QED BY <3>2, <3>3 DEF StepOf
  <2>3. CASE Onwards(p) /\ ~(run[p].i < Len(Order))
    BY <2>3, IdleRun DEF Onwards, StepOf, CtlInv, CtlTypeOK
  <2> QED BY <2>1, <2>2, <2>3
<1>3. MakerInv(p)'
  BY <1>2 DEF MakerInv, PlacesInv, DescriptorInv, ContentInv
<1> QED BY <1>2, <1>3, SameDir

LEMMA StatStep ==
    ASSUME CtlInv, NEW p \in Makers, StatInput(p) \/ SkipUpToDate(p) \/ StartMakeFails(p)
    PROVE  CtlInv'
<1>1. /\ run[p].pc \in {"stat", "compare"} /\ mk'[p] = mk[p] /\ mk' = [mk EXCEPT ![p] = mk'[p]]
      /\ UNCHANGED <<text, nsw, edits, unseen, now, fsVars>> /\ faults' \in 0 .. MaxFaults
  BY Here, CtlAssumption DEF StatInput, SkipUpToDate, StartMakeFails, envVars, CtlInv, CtlTypeOK, MakefnTypeOK
<1>2. mk[p].step = "none" /\ mk[p].fd = -1 /\ ~mk[p].linked
  BY <1>1, Here DEF MakerInv, PlacesInv, DescriptorInv
<1>3. CASE run' = [run EXCEPT ![p].pc = "compare", ![p].in.mtime = text[Cur(p)].mtime]
  <2> DEFINE in == [run[p].in EXCEPT !.mtime = text[Cur(p)].mtime]
  <2>1. in \in Stats
    BY Here DEF Runs, Stats
  <2>2. run'[p] = [run[p] EXCEPT !.pc = "compare", !.in = in] /\ StepOf(p)
    BY <1>1, <1>3, Here DEF StepOf, CtlInv, CtlTypeOK, Runs, Stats
  <2> HIDE DEF in
  <2>4. run'[p] \in Runs /\ run'[p].pc = "compare"
    BY <2>1, <2>2, Here DEF Pcs, Runs
  <2>3. MakerInv(p)'
    BY <1>1, <1>2, <2>4 DEF MakerInv, PlacesInv, DescriptorInv, ContentInv
  <2> QED BY <1>1, <2>2, <2>3, <2>4, Here, SameDir
<1>4. CASE Onwards(p) \/ run' = [run EXCEPT ![p] = Idle]
  BY <1>1, <1>2, <1>4, Here, OnwardsStep
<1> QED BY <1>3, <1>4 DEF StatInput, SkipUpToDate, StartMakeFails

LEMMA StartMakeStep == ASSUME CtlInv, NEW p \in Makers, StartMake(p) PROVE CtlInv'
<1>1. /\ StepOf(p) /\ UNCHANGED fsVars /\ faults' = faults /\ run[p].pc = "compare"
      /\ run'[p] = [run[p] EXCEPT !.pc = "open", !.in = NoFileStat,
                                 !.nswtime = Kept(p, run[p].nswtime)]
      /\ mk'[p] = [fd |-> 0, file |-> EmptyFile, linked |-> TRUE, name |-> Cur(p),
                   step |-> "making"]
  BY DEF StartMake, MakefnStart, StepOf, CtlInv, CtlTypeOK, MakefnTypeOK, envVars
<1>2. run'[p] \in Runs /\ run'[p].pc = "open" /\ run'[p].i = run[p].i
  <2>1. Kept(p, run[p].nswtime) \in Nat
    BY Here DEF Kept, Runs
  <2> QED BY <1>1, <2>1, Here, NoStat DEF Pcs, Runs
<1>3. mk'[p] \in MakeStates
  BY <1>1, Here, NoContent DEF MakeStates, Steps
<1>4. PlacesInv(p)'
  BY <1>1, <1>2 DEF PlacesInv
<1>5. DescriptorInv(p)'
  BY <1>1, <1>2 DEF DescriptorInv, Cur
<1>6. ContentInv(p)'
  BY <1>1, <1>2 DEF ContentInv
<1> QED BY <1>1, <1>2, <1>3, <1>4, <1>5, <1>6, Here, SameDir DEF MakerInv

\* The steps after which records are to be added to an empty file
LEMMA MakeAddsStep ==
    ASSUME CtlInv, NEW p \in Makers, OpenInput(p) \/ ReadNsswitch(p) \/ RestatChanged(p)
    PROVE  CtlInv'
<1>1. /\ StepOf(p) /\ UNCHANGED fsVars /\ faults' = faults
      /\ run[p].pc \in {"open", "nsswitch", "restat"} /\ mk[p].step \in {"making", "made"}
      /\ mk'[p] = [mk[p] EXCEPT !.step = "making", !.file = EmptyFile]
  BY DEF OpenInput, ReadNsswitch, RestatChanged, MakeAdds, StepOf, CtlInv, CtlTypeOK,
         MakefnTypeOK, envVars
<1>2. /\ mk'[p] \in MakeStates /\ mk'[p].step = "making" /\ mk'[p].name = mk[p].name
      /\ mk'[p].fd = mk[p].fd /\ mk'[p].linked = mk[p].linked
  BY <1>1, Here, NoContent DEF MakeStates, Steps
<1>3. /\ run'[p] \in Runs /\ run'[p].i = run[p].i
      /\ \/ run'[p].pc = "open"
         \/ run'[p].pc = "nsswitch" /\ run'[p].in.ver \in Versions
         \/ /\ run'[p].pc = "parse" /\ run'[p].in.ver \in Versions
            /\ run'[p].nswmap \in Versions
  <2>1. CASE OpenInput(p)
    <3>1. run'[p] = [run[p] EXCEPT !.pc = "nsswitch", !.in = text[Cur(p)]]
      BY <2>1 DEF OpenInput, CtlInv, CtlTypeOK
    <3> QED BY <3>1, Here DEF Runs, Pcs
  <2>2. CASE ReadNsswitch(p)
    <3>1. PICK v \in Versions : run'[p] = [run[p] EXCEPT !.pc = "parse", !.nswmap = v]
      <4>1. nsw.ver \in Versions /\ run[p].nswmap \in 0 .. MaxEdits + 1
        BY Here DEF CtlInv, CtlTypeOK, Runs
      <4>2. (IF run[p].nswmap = 0 THEN nsw.ver ELSE run[p].nswmap) \in Versions
        BY <4>1, CtlAssumption DEF Versions
      <4> QED BY <4>2, <2>2 DEF ReadNsswitch, CtlInv, CtlTypeOK
    <3>2. run[p].in.ver \in Versions
      BY <2>2, Here DEF ReadNsswitch, MakerInv, ContentInv
    <3>3. v \in 0 .. MaxEdits + 1
      BY CtlAssumption DEF Versions
    <3> QED BY <3>1, <3>2, <3>3, Here DEF Runs, Pcs
  <2>3. CASE RestatChanged(p)
    <3>1. run'[p] = [run[p] EXCEPT !.pc = "open", !.in = NoFileStat]
      BY <2>3 DEF RestatChanged, CtlInv, CtlTypeOK
    <3> QED BY <3>1, Here, NoStat DEF Runs, Pcs
  <2> QED BY <2>1, <2>2, <2>3
<1>4. PlacesInv(p)'
  BY <1>2, <1>3 DEF PlacesInv
<1>5. DescriptorInv(p)'
  BY <1>1, <1>2, <1>3, Here DEF DescriptorInv, MakerInv, Cur
<1>6. ContentInv(p)'
  BY <1>2, <1>3 DEF ContentInv
<1> QED BY <1>1, <1>2, <1>3, <1>4, <1>5, <1>6, Here, SameDir DEF MakerInv

\* On to mcdb_makefn_finish or to mcdb_makefn_cleanup
LEMMA FinishedRun ==
    ASSUME CtlInv, NEW p \in Makers, Finished(p)
    PROVE  run'[p] \in Runs /\ run'[p].pc = "install" /\ run'[p].i = run[p].i
<1>1. run'[p] = [run[p] EXCEPT !.pc = "install", !.in = NoFileStat, !.nswmap = Kept(p, run[p].nswmap)]
  BY DEF Finished, CtlInv, CtlTypeOK
<1>2. Kept(p, run[p].nswmap) \in 0 .. MaxEdits + 1
  BY Here, CtlAssumption DEF Kept, Runs
<1> QED BY <1>1, <1>2, Here, NoStat DEF Runs, Pcs

\* The steps on which an error is met
LEMMA MakeFailsStep ==
    ASSUME CtlInv, NEW p \in Makers, OpenInputGone(p) \/ BuildFails(p) PROVE CtlInv'
<1>1. /\ StepOf(p) /\ UNCHANGED fsVars /\ faults' \in 0 .. MaxFaults
      /\ mk[p].step \in {"making", "made", "chmod", "sync", "close"}
      /\ run[p].pc \in {"open", "nsswitch", "parse", "install"}
      /\ mk'[p] = [mk[p] EXCEPT !.step = "failed", !.file = EmptyFile]
  <2>1. CASE OpenInputGone(p)
    BY <2>1, Here DEF OpenInputGone, MakeFails, Finished, StepOf, CtlInv, CtlTypeOK, MakefnTypeOK,
           envVars
  <2>2. CASE BuildFails(p)
    <3>1. faults' \in 0 .. MaxFaults
      BY <2>2, Here, CtlAssumption DEF BuildFails
    <3> QED BY <2>2, <3>1 DEF BuildFails, MakeFails, Finished, StepOf, CtlInv, CtlTypeOK, MakefnTypeOK,
                envVars
  <2> QED BY <2>1, <2>2
<1>2. /\ mk'[p] \in MakeStates /\ mk'[p].step = "failed"
      /\ mk'[p].fd = mk[p].fd /\ mk'[p].linked = mk[p].linked
  BY <1>1, Here, NoContent DEF MakeStates, Steps
<1>3. run'[p] \in Runs /\ run'[p].pc = "install"
  BY FinishedRun DEF OpenInputGone, BuildFails
<1>4. PlacesInv(p)'
  BY <1>2, <1>3 DEF PlacesInv
<1>5. DescriptorInv(p)'
  BY <1>1, <1>2, <1>3, Here DEF DescriptorInv, MakerInv
<1>6. ContentInv(p)'
  BY <1>2, <1>3 DEF ContentInv
<1> QED BY <1>1, <1>2, <1>3, <1>4, <1>5, <1>6, Here, SameDir DEF MakerInv

LEMMA ParseStep == ASSUME CtlInv, NEW p \in Makers, Parse(p) PROVE CtlInv'
<1> DEFINE db == Db(run[p].in.ver, run[p].nswmap)
<1>1. /\ StepOf(p) /\ UNCHANGED fsVars /\ faults' = faults
      /\ run[p].pc = "parse" /\ mk[p].step = "making"
      /\ run'[p] = [run[p] EXCEPT !.pc = "restat"]
      /\ mk'[p] = [mk[p] EXCEPT !.step = "made", !.file = [mk[p].file EXCEPT !.data = db, !.mtime = now]]
  BY Here DEF Parse, MakeFinish, To, StepOf, CtlInv, CtlTypeOK, MakefnTypeOK, envVars,
         MakeStates, Files
<1>2. run'[p] \in Runs /\ run'[p].pc = "restat" /\ run'[p].i = run[p].i
      /\ run'[p].in = run[p].in /\ run'[p].nswmap = run[p].nswmap
  BY <1>1, Here DEF Runs, Pcs
<1>3. run[p].in.ver \in Versions /\ run[p].nswmap \in Versions
  BY <1>1, Here DEF MakerInv, ContentInv
<1>4. db \in Databases
  BY <1>3, DbAssumption DEF AllDbs, Db
<1>5. now \in Nat /\ now' = now
  BY <1>1 DEF CtlInv, CtlTypeOK, MakefnTypeOK, StepOf
<1>6. /\ [mk[p].file EXCEPT !.data = db, !.mtime = now] \in Files
      /\ [mk[p].file EXCEPT !.data = db, !.mtime = now].data = db
      /\ [mk[p].file EXCEPT !.data = db, !.mtime = now].mtime = now
  BY <1>4, <1>5, Here DEF Files
<1>7. /\ mk'[p] \in MakeStates /\ mk'[p].step = "made" /\ mk'[p].name = mk[p].name
      /\ mk'[p].file.data = db /\ mk'[p].file.mtime = now
      /\ mk'[p].fd = mk[p].fd /\ mk'[p].linked = mk[p].linked
  BY <1>1, <1>6, Here DEF MakeStates, Steps
<1>8. PlacesInv(p)'
  BY <1>2, <1>7 DEF PlacesInv
<1>9. DescriptorInv(p)'
  BY <1>1, <1>2, <1>7, Here DEF DescriptorInv, MakerInv, Cur
<1>10. ContentInv(p)'
  BY <1>2, <1>3, <1>4, <1>5, <1>7 DEF ContentInv
<1> QED BY <1>1, <1>2, <1>7, <1>8, <1>9, <1>10, Here, SameDir DEF MakerInv

\* The text file is the one that was mapped, or it is no longer there, or the
\* database is one that may lack the text.
LEMMA RestatStep ==
    ASSUME CtlInv, NEW p \in Makers, RestatSame(p) \/ RestatFails(p) PROVE CtlInv'
<1>1. /\ UNCHANGED fsVars /\ UNCHANGED <<mk, text, nsw, edits, now>> /\ faults' \in 0 .. MaxFaults
      /\ run[p].pc = "restat" /\ Finished(p)
  BY Here, CtlAssumption DEF RestatSame, RestatFails, envVars
<1>2. run'[p] \in Runs /\ run'[p].pc = "install" /\ run'[p].i = run[p].i
  BY <1>1, FinishedRun
<1>3. mk[p].step = "made" /\ mk[p].file.data = Db(run[p].in.ver, run[p].nswmap)
      /\ mk[p].file \in Files /\ mk[p].file.mtime \in Nat /\ mk[p].file.mtime =< now /\ Cur(p) \in Names
  BY <1>1, Here DEF MakerInv, PlacesInv, ContentInv, Files
<1>4. Cur(p)' = Cur(p)
  BY <1>2 DEF Cur
<1>5. unseen \in [Names -> Nat] /\ now \in Nat /\ \A n \in Names : unseen[n] =< now
  BY DEF CtlInv, CtlTypeOK, MakefnTypeOK, TextInv
<1>6. /\ unseen' = unseen \/ SeesLess
      /\ \/ ~text[Cur(p)].there \/ text[Cur(p)].ver = run[p].in.ver
         \/ mk[p].file.mtime =< unseen'[Cur(p)]
  <2>1. CASE unseen' = unseen
    BY <1>3, <1>5, <2>1 DEF RestatSame, RestatFails, envVars
  <2>2. CASE RestatFails(p) /\ unseen' # unseen
    <3>1. unseen' = [unseen EXCEPT ![Cur(p)] = mk[p].file.mtime] /\ mk[p].file.mtime > unseen[Cur(p)]
      BY <2>2 DEF RestatFails
    <3>2. unseen' \in [Names -> Nat] /\ unseen'[Cur(p)] = mk[p].file.mtime
      BY <1>3, <1>5, <3>1
    <3>3. \A n \in Names : unseen[n] =< unseen'[n] /\ unseen'[n] =< now
      BY <1>3, <1>5, <3>1
    <3> QED BY <1>3, <3>2, <3>3 DEF SeesLess
  <2> QED BY <2>1, <2>2 DEF RestatSame, envVars
<1>7. StepOf(p)
  BY <1>1, <1>6 DEF StepOf, Finished, CtlInv, CtlTypeOK, MakefnTypeOK
<1>8. MadeFrom(mk[p].file, Cur(p))'
  <2>1. mk[p].file.data[1] = run[p].in.ver
    BY <1>3 DEF Db
  <2>2. unseen'[Cur(p)] \in Nat
    BY <1>3, <1>5, <1>6 DEF SeesLess
  <2> QED BY <1>1, <1>3, <1>4, <1>6, <2>1, <2>2 DEF MadeFrom
<1>9. PlacesInv(p)'
  BY <1>1, <1>2, <1>3 DEF PlacesInv
<1>10. DescriptorInv(p)'
  BY <1>1, <1>2, <1>4, Here DEF DescriptorInv, MakerInv
<1>11. ContentInv(p)'
  BY <1>1, <1>2, <1>3, <1>4, <1>8, Here DEF ContentInv, MakerInv
<1> QED BY <1>1, <1>2, <1>7, <1>9, <1>10, <1>11, Here, SameDir DEF MakerInv

-----------------------------------------------------------------------------
(* mcdb_makefn_finish and mcdb_makefn_cleanup.                             *)

\* fchmod, fdatasync and close
LEMMA FinishStep ==
    ASSUME CtlInv, NEW p \in Makers, run[p].pc = "install",
           FinishChmod(p) \/ FinishSync(p) \/ FinishClose(p),
           UNCHANGED <<run, envVars, faults>>
    PROVE  CtlInv'
<1>0. mk[p] \in MakeStates /\ mk[p].file \in Files
  BY Here
<1>1. /\ StepOf(p) /\ UNCHANGED fsVars /\ faults' = faults /\ run'[p] = run[p]
      /\ mk[p].step \in {"made", "chmod", "sync"} /\ unseen' = unseen
  BY DEF FinishChmod, FinishSync, FinishClose, StepOf, CtlInv, CtlTypeOK, MakefnTypeOK, envVars
<1>2. /\ mk'[p] \in MakeStates /\ mk'[p].name = mk[p].name
      /\ mk'[p].linked = mk[p].linked /\ (mk'[p].fd = -1 <=> mk[p].fd = -1)
      /\ mk'[p].step \in {"chmod", "sync", "close"}
      /\ mk'[p].file.data = mk[p].file.data /\ mk'[p].file.mtime = mk[p].file.mtime
      /\ mk'[p].step \in {"sync", "close"} => mk'[p].file.synced
  <2>1. CASE FinishChmod(p)
    <3> DEFINE f == [mk[p].file EXCEPT !.mode = "final"]
    <3>1. mk'[p] = [mk[p] EXCEPT !.step = "chmod", !.file = f]
      BY <2>1 DEF FinishChmod, CtlInv, CtlTypeOK, MakefnTypeOK, MakeStates
    <3>2. f \in Files /\ f.data = mk[p].file.data /\ f.mtime = mk[p].file.mtime
      BY Here DEF Files
    <3> HIDE DEF f
    <3>3. /\ mk'[p] \in MakeStates /\ mk'[p].file = f /\ mk'[p].step \in {"chmod"}
          /\ mk'[p].name = mk[p].name /\ mk'[p].linked = mk[p].linked /\ mk'[p].fd = mk[p].fd
      BY <1>0, <3>1, <3>2 DEF MakeStates, Steps
    <3> QED BY <3>2, <3>3, Zenon
  <2>2. CASE FinishSync(p)
    <3> DEFINE f == [mk[p].file EXCEPT !.synced = TRUE]
    <3>1. mk'[p] = [mk[p] EXCEPT !.step = "sync", !.file = f]
      BY <2>2 DEF FinishSync, CtlInv, CtlTypeOK, MakefnTypeOK, MakeStates
    <3>2. f \in Files /\ f.data = mk[p].file.data /\ f.mtime = mk[p].file.mtime /\ f.synced
      BY Here DEF Files
    <3> HIDE DEF f
    <3>3. /\ mk'[p] \in MakeStates /\ mk'[p].file = f /\ mk'[p].step \in {"chmod", "sync"}
          /\ mk'[p].name = mk[p].name /\ mk'[p].linked = mk[p].linked /\ mk'[p].fd = mk[p].fd
      BY <1>0, <3>1, <3>2 DEF MakeStates, Steps
    <3> QED BY <3>2, <3>3, Zenon
  <2>3. CASE FinishClose(p)
    <3>1. mk'[p] = [mk[p] EXCEPT !.step = "close", !.fd = -2] /\ mk[p].step = "sync"
      BY <2>3 DEF FinishClose, CtlInv, CtlTypeOK, MakefnTypeOK
    <3>2. mk[p].file.synced /\ mk[p].linked /\ mk[p].fd # -1
      BY <3>1, Here DEF MakerInv, ContentInv, DescriptorInv
    <3>3. /\ mk'[p].file = mk[p].file /\ mk'[p].step = "close" /\ mk'[p].fd = -2
          /\ mk'[p].name = mk[p].name /\ mk'[p].linked = mk[p].linked
      BY <1>0, <3>1 DEF MakeStates
    <3>4. mk'[p] \in MakeStates
      BY <1>0, <3>1 DEF MakeStates, Steps
    <3>5. mk'[p].fd # -1
      BY <3>3
    <3> QED BY <3>2, <3>3, <3>4, <3>5, Zenon
  <2> QED BY <2>1, <2>2, <2>3
<1>3. Cur(p)' = Cur(p) /\ text' = text /\ now' = now
  BY <1>1 DEF Cur, StepOf
<1>4. PlacesInv(p)'
  BY <1>1, <1>2 DEF PlacesInv
<1>5. DescriptorInv(p)'
  BY <1>1, <1>2, <1>3, Here DEF DescriptorInv, MakerInv
<1>6. ContentInv(p)'
  BY <1>1, <1>2, <1>3, Here DEF ContentInv, MakerInv, MadeFrom
<1> QED BY <1>1, <1>2, <1>4, <1>5, <1>6, Here, SameDir DEF MakerInv

\* rename: what gets the name is complete, synced, and not older than what it is made of.
LEMMA RenameStep ==
    ASSUME CtlInv, NEW p \in Makers, run[p].pc = "install", FinishRename(p),
           UNCHANGED <<run, envVars, faults>>
    PROVE  CtlInv'
<1>0. mk[p] \in MakeStates /\ mk[p].file \in Files
  BY Here
<1>1. /\ StepOf(p) /\ disk' = disk /\ faults' = faults /\ run'[p] = run[p]
      /\ mk[p].step = "close" /\ text' = text /\ now' = now /\ unseen' = unseen
      /\ mk'[p] = [mk[p] EXCEPT !.step = "rename", !.fd = -1, !.linked = FALSE,
                               !.file = EmptyFile]
      /\ dir' = [dir EXCEPT ![mk[p].name] = mk[p].file]
  BY DEF FinishRename, StepOf, CtlInv, CtlTypeOK, MakefnTypeOK, envVars
<1>2. /\ mk[p].name = Cur(p) /\ Cur(p) \in Names
      /\ mk[p].file.data \in Databases /\ mk[p].file.synced /\ mk[p].file.mtime =< now
      /\ MadeFrom(mk[p].file, Cur(p))
  BY <1>1, Here DEF MakerInv, DescriptorInv, ContentInv
<1>3. mk'[p] \in MakeStates
  BY <1>0, <1>1, NoContent DEF MakeStates, Steps
<1>4. mk'[p].step = "rename" /\ ~mk'[p].linked /\ mk'[p].fd = -1
  BY <1>0, <1>1 DEF MakeStates
<1>5. MakerInv(p)'
  BY <1>1, <1>4 DEF MakerInv, PlacesInv, DescriptorInv, ContentInv
<1>6. dir' \in [Names -> Files \cup {NoFile}] /\ disk' \in [Names -> Files \cup {NoFile}]
  BY <1>0, <1>1 DEF CtlInv, CtlTypeOK, MakefnTypeOK
<1>7. InstalledInv'
  <2>1. ASSUME NEW n \in Names, NEW f \in {dir'[n], disk'[n]}, f # NoFile
        PROVE  f.data \in Databases /\ f.synced /\ f.mtime =< now /\ MadeFrom(f, n)
    <3>1. CASE f \in {dir[n], disk[n]}
      BY <2>1, <3>1 DEF CtlInv, InstalledInv
    <3>2. CASE f \notin {dir[n], disk[n]}
      <4>1. n = Cur(p) /\ f = mk[p].file
        BY <1>1, <1>2, <2>1, <3>2 DEF CtlInv, CtlTypeOK, MakefnTypeOK
      <4> QED BY <1>2, <4>1
    <3> QED BY <3>1, <3>2
  <2> QED BY <1>1, <2>1 DEF InstalledInv, MadeFrom
<1> QED BY <1>1, <1>3, <1>5, <1>6, <1>7, Here, OneMaker

\* unlink unless the file was renamed
LEMMA CleanupStep == ASSUME CtlInv, NEW p \in Makers, CleanupBuilt(p) PROVE CtlInv'
<1>1. /\ StepOf(p) /\ UNCHANGED fsVars /\ faults' = faults
      /\ run'[p] = [run[p] EXCEPT !.pc = "next"]
      /\ mk'[p] = [NoMake EXCEPT !.step = IF mk[p].step = "failed" THEN "failed" ELSE "over",
                                !.linked = mk[p].linked /\ mk[p].fd = -1]
  BY DEF CleanupBuilt, MakefnCleanup, To, StepOf, CtlInv, CtlTypeOK, MakefnTypeOK, envVars
<1>2. run'[p] \in Runs /\ run'[p].pc = "next"
  BY <1>1, Here DEF Runs, Pcs
<1>3. ~(mk[p].linked /\ mk[p].fd = -1)
  BY Here DEF MakerInv, DescriptorInv
<1>4. PICK s \in {"failed", "over"} : mk'[p] = [NoMake EXCEPT !.step = s, !.linked = FALSE]
  <2>1. (mk[p].linked /\ mk[p].fd = -1) = FALSE
    BY <1>3
  <2> QED BY <1>1, <2>1
<1>5. mk'[p] \in MakeStates /\ mk'[p].step \in {"failed", "over"} /\ mk'[p].fd = -1
      /\ ~mk'[p].linked
  BY <1>4, NoContent DEF NoMake, MakeStates, Steps
<1>6. MakerInv(p)'
  BY <1>2, <1>5 DEF MakerInv, PlacesInv, DescriptorInv, ContentInv
<1> QED BY <1>1, <1>2, <1>5, <1>6, Here, SameDir

LEMMA NextDbStep == ASSUME CtlInv, NEW p \in Makers, NextDb(p) PROVE CtlInv'
<1>1. /\ run[p].pc = "next" /\ (Onwards(p) \/ run' = [run EXCEPT ![p] = Idle])
      /\ mk' = [mk EXCEPT ![p] = mk'[p]] /\ mk'[p] = [mk[p] EXCEPT !.step = "none"]
      /\ UNCHANGED <<text, nsw, edits, unseen, now, fsVars>> /\ faults' = faults
  BY DEF NextDb, CtlInv, CtlTypeOK, MakefnTypeOK, envVars
<1>2. mk[p] \in MakeStates /\ mk[p].fd = -1 /\ ~mk[p].linked
  BY <1>1, Here DEF MakerInv, DescriptorInv
<1>3. mk'[p] \in MakeStates /\ mk'[p].step = "none" /\ mk'[p].fd = mk[p].fd
      /\ mk'[p].linked = mk[p].linked
  BY <1>1, <1>2 DEF MakeStates, Steps
<1> QED BY <1>1, <1>2, <1>3, Here, OnwardsStep

-----------------------------------------------------------------------------
(* The administrator, the clock, the file system and crashes.              *)

\* The steps on which no nss_mcdbctl moves
LEMMA OthersStep ==
    ASSUME CtlInv, UNCHANGED <<mk, run, faults>>,
           now' \in Nat, now =< now',
           dir' \in [Names -> Files \cup {NoFile}], disk' \in [Names -> Files \cup {NoFile}],
           text' \in [Names -> Stats], nsw' \in [ver : Versions, mtime : Nat],
           edits' \in 0 .. MaxEdits, unseen' \in [Names -> Nat], TextInv', InstalledInv',
           \A n \in Names : \A f \in Files : f.mtime =< now /\ MadeFrom(f, n) => MadeFrom(f, n)'
    PROVE  CtlInv'
<1>1. CtlTypeOK'
  BY DEF CtlInv, CtlTypeOK, MakefnTypeOK
<1>2. ASSUME NEW p \in Makers PROVE MakerInv(p)'
  <2>1. MakerInv(p) /\ mk[p].file \in Files /\ Cur(p) \in Names /\ mk[p].file.mtime \in Nat
    BY Here DEF Files
  <2>2. PlacesInv(p)'
    BY <2>1 DEF MakerInv, PlacesInv
  <2>3. DescriptorInv(p)'
    BY <2>1 DEF MakerInv, DescriptorInv, Cur
  <2>4. Cur(p)' = Cur(p)
    BY DEF Cur
  <2>5. mk[p].file.mtime =< now => mk[p].file.mtime =< now'
    BY <2>1 DEF CtlInv, CtlTypeOK, MakefnTypeOK
  <2>6. mk[p].file.mtime =< now /\ MadeFrom(mk[p].file, Cur(p)) => MadeFrom(mk[p].file, Cur(p))'
    BY <2>1, <2>4 DEF MadeFrom
  <2>7. ContentInv(p)'
    BY <2>1, <2>4, <2>5, <2>6 DEF MakerInv, ContentInv
  <2> QED BY <2>2, <2>3, <2>7 DEF MakerInv
<1> QED BY <1>1, <1>2 DEF CtlInv, MakerInv

\* Replacing a text file by rename, removing it, replacing nsswitch.conf and the clock:
\* a file made before is not newer than a text file that is replaced now.
LEMMA EditStep ==
    ASSUME CtlInv,
           \/ \E n \in Names : ReplaceText(n) \/ RemoveText(n)
           \/ ReplaceNsswitch
           \/ Tick
    PROVE  CtlInv'
<1>0. CtlTypeOK /\ TextInv /\ InstalledInv /\ now \in Nat /\ text \in [Names -> Stats]
      /\ edits \in 0 .. MaxEdits /\ unseen \in [Names -> Nat]
  BY DEF CtlInv, CtlTypeOK, MakefnTypeOK
<1>1. UNCHANGED <<mk, run, faults, dir, disk>>
  BY DEF ReplaceText, RemoveText, ReplaceNsswitch, Tick, Edit, fsVars, envVars
<1>2. now' \in Nat /\ now =< now'
  BY <1>0 DEF ReplaceText, RemoveText, ReplaceNsswitch, Tick
<1>3. edits' \in 0 .. MaxEdits /\ edits =< edits'
  BY <1>0, CtlAssumption DEF ReplaceText, RemoveText, ReplaceNsswitch, Tick, Edit, envVars
<1>4. ASSUME NEW n \in Names
      PROVE  /\ text'[n] \in Stats /\ text'[n].ver \in 1 .. edits' + 1
             /\ unseen'[n] \in Nat /\ text'[n].mtime =< unseen'[n] /\ unseen'[n] =< now'
             /\ \/ text'[n] = text[n] /\ unseen'[n] = unseen[n]
                \/ unseen'[n] = now
                \/ ~text'[n].there
  <2>1. /\ text[n] \in Stats /\ text[n].ver \in 1 .. edits + 1
        /\ unseen[n] \in Nat /\ text[n].mtime =< unseen[n] /\ unseen[n] =< now
    BY <1>0 DEF TextInv
  <2>2. CASE text'[n] = text[n] /\ unseen'[n] = unseen[n]
    <3>1. text[n].ver \in 1 .. edits' + 1
      BY <1>0, <1>3, <2>1
    <3>2. unseen[n] =< now'
      BY <1>0, <1>2, <2>1
    <3> QED BY <2>1, <2>2, <3>1, <3>2
  <2>3. CASE ReplaceText(n)
    <3>1. PICK written \in 0 .. now :
             text'[n] = [ver |-> text[n].ver + 1, mtime |-> written, there |-> TRUE]
      BY <1>0, <2>3 DEF ReplaceText
    <3>2. unseen'[n] = now /\ now' = now /\ edits' = edits + 1 /\ edits < MaxEdits
      BY <1>0, <2>3 DEF ReplaceText, Edit
    <3>3. text[n].ver + 1 \in 1 .. edits' + 1 /\ text[n].ver + 1 \in 0 .. MaxEdits + 1
      BY <1>0, <2>1, <3>2, CtlAssumption
    <3>4. written \in Nat /\ written =< now
      BY <1>0
    <3> QED BY <1>0, <3>1, <3>2, <3>3, <3>4 DEF Stats
  <2>4. CASE RemoveText(n)
    <3>1. /\ text'[n] = [text[n] EXCEPT !.there = FALSE] /\ now' = now /\ edits' = edits + 1
          /\ unseen' = unseen
      BY <1>0, <2>4 DEF RemoveText, Edit
    <3>2. text'[n] \in Stats /\ text'[n].ver = text[n].ver /\ text'[n].mtime = text[n].mtime
          /\ ~text'[n].there
      BY <2>1, <3>1 DEF Stats
    <3>3. text[n].ver \in 1 .. edits' + 1
      BY <1>0, <2>1, <3>1
    <3> QED BY <2>1, <3>1, <3>2, <3>3
  <2>5. ReplaceText(n) \/ RemoveText(n) \/ (text'[n] = text[n] /\ unseen'[n] = unseen[n])
    <3>1. ASSUME NEW m \in Names, ReplaceText(m), m # n
          PROVE  text'[n] = text[n] /\ unseen'[n] = unseen[n]
      BY <1>0, <3>1 DEF ReplaceText
    <3>2. ASSUME NEW m \in Names, RemoveText(m), m # n
          PROVE  text'[n] = text[n] /\ unseen'[n] = unseen[n]
      BY <1>0, <3>2 DEF RemoveText
    <3>3. CASE ReplaceNsswitch \/ Tick
      BY <3>3 DEF ReplaceNsswitch, Tick, envVars
    <3> QED BY <3>1, <3>2, <3>3
  <2> QED BY <2>2, <2>3, <2>4, <2>5
<1>5. text' \in [Names -> Stats] /\ unseen' \in [Names -> Nat]
  <2>1. text' = [n \in Names |-> text'[n]] /\ unseen' = [n \in Names |-> unseen'[n]]
    BY <1>0 DEF ReplaceText, RemoveText, ReplaceNsswitch, Tick, envVars
  <2> QED BY <1>4, <2>1
<1>6. nsw' \in [ver : Versions, mtime : Nat] /\ nsw'.ver \in 1 .. edits' + 1
  <2>1. nsw \in [ver : Versions, mtime : Nat] /\ nsw.ver \in 1 .. edits + 1
    BY <1>0 DEF CtlTypeOK, TextInv
  <2>2. CASE nsw' = nsw
    <3>1. nsw.ver \in 1 .. edits' + 1
      BY <1>0, <1>3, <2>1
    <3> QED BY <2>1, <2>2, <3>1
  <2>3. CASE ReplaceNsswitch
    <3>1. PICK written \in 0 .. now : nsw' = [ver |-> nsw.ver + 1, mtime |-> written]
      BY <2>3 DEF ReplaceNsswitch
    <3>3. edits' = edits + 1 /\ edits < MaxEdits /\ written \in Nat
      BY <1>0, <2>3 DEF ReplaceNsswitch, Edit
    <3>2. nsw.ver + 1 \in Versions /\ nsw.ver + 1 \in 1 .. edits' + 1
      BY <1>0, <2>1, <3>3, CtlAssumption DEF Versions
    <3> QED BY <1>0, <3>1, <3>2, <3>3
  <2> QED BY <2>2, <2>3 DEF ReplaceText, RemoveText, Tick, envVars
<1>7. TextInv'
  BY <1>4, <1>6 DEF TextInv
<1>8. ASSUME NEW n \in Names, NEW f \in Files, f.mtime =< now, MadeFrom(f, n)
      PROVE  MadeFrom(f, n)'
  <2>1. f.mtime \in Nat
    BY DEF Files
  <2> QED BY <1>0, <1>4, <1>8, <2>1 DEF MadeFrom
<1>9. InstalledInv'
  <2>1. ASSUME NEW n \in Names, NEW f \in {dir[n], disk[n]}, f # NoFile
        PROVE  f.data \in Databases /\ f.synced /\ f.mtime =< now' /\ MadeFrom(f, n)'
    <3>1. f \in Files /\ f.mtime \in Nat
      BY <1>0, <2>1 DEF CtlTypeOK, MakefnTypeOK, Files
    <3>2. f.data \in Databases /\ f.synced /\ f.mtime =< now /\ MadeFrom(f, n)
      BY <1>0, <2>1 DEF InstalledInv
    <3>3. f.mtime =< now'
      BY <1>0, <1>2, <3>1, <3>2
    <3> QED BY <1>8, <3>1, <3>2, <3>3
  <2> QED BY <1>1, <2>1 DEF InstalledInv, MadeFrom
<1> QED
  BY <1>0, <1>1, <1>2, <1>3, <1>5, <1>6, <1>7, <1>8, <1>9, OthersStep DEF CtlTypeOK, MakefnTypeOK

LEMMA WriteBackStep == ASSUME CtlInv, WriteBack PROVE CtlInv'
<1>1. /\ UNCHANGED <<mk, run, faults, dir, text, nsw, edits, unseen, now>> /\ disk' = dir
      /\ CtlTypeOK /\ InstalledInv /\ TextInv
  BY DEF WriteBack, WriteBackMeta, envVars, CtlInv
<1>2. TextInv'
  BY <1>1 DEF TextInv
<1>3. InstalledInv'
  BY <1>1 DEF InstalledInv, MadeFrom
<1>4. \A n \in Names : \A f \in Files : MadeFrom(f, n) => MadeFrom(f, n)'
  BY <1>1 DEF MadeFrom
<1>5. now' \in Nat /\ now =< now'
  BY <1>1 DEF CtlTypeOK, MakefnTypeOK
<1> QED BY <1>1, <1>2, <1>3, <1>4, <1>5, OthersStep DEF CtlTypeOK, MakefnTypeOK

\* A crash loses no part of a file that has a name on the disk: it was synced first.
LEMMA CrashTakesDisk == ASSUME CtlInv, Crash PROVE dir' = disk /\ disk' = disk
<1>1. ASSUME NEW n \in Names PROVE dir'[n] = disk[n]
  <2>1. disk[n] = NoFile \/ disk[n].synced
    BY DEF CtlInv, InstalledInv
  <2>2. dir'[n] \in AfterCrash(disk[n])
    BY DEF Crash
  <2> QED BY <2>1, <2>2 DEF AfterCrash
<1>2. dir' = [n \in Names |-> dir'[n]] /\ disk' = dir'
  BY DEF Crash
<1>3. disk = [n \in Names |-> disk[n]]
  BY DEF CtlInv, CtlTypeOK, MakefnTypeOK
<1> QED BY <1>1, <1>2, <1>3

LEMMA NoMakeState == NoMake \in MakeStates
BY NoContent DEF NoMake, MakeStates, Steps

LEMMA CrashStep == ASSUME CtlInv, SystemCrash PROVE CtlInv'
<1>1. /\ dir' = disk /\ disk' = disk /\ mk' = [p \in Makers |-> NoMake]
      /\ run' = [p \in Makers |-> Idle] /\ UNCHANGED <<text, nsw, edits, unseen, now>>
      /\ faults < MaxFaults /\ faults' = faults + 1
  BY CrashTakesDisk DEF SystemCrash, Crash, envVars
<1>2. CtlTypeOK /\ TextInv /\ InstalledInv
  BY DEF CtlInv
<1>3. faults' \in 0 .. MaxFaults
  BY <1>1, <1>2, CtlAssumption DEF CtlTypeOK
<1>4. mk' \in [Makers -> MakeStates] /\ run' \in [Makers -> Runs]
  BY <1>1, NoMakeState, IdleRun
<1>5. CtlTypeOK'
  BY <1>1, <1>2, <1>3, <1>4 DEF CtlTypeOK, MakefnTypeOK
<1>6. TextInv'
  BY <1>1, <1>2 DEF TextInv
<1>7. InstalledInv'
  BY <1>1, <1>2 DEF InstalledInv, MadeFrom
<1>8. ASSUME NEW p \in Makers PROVE MakerInv(p)'
  <2>1. run'[p].pc = "idle" /\ mk'[p].step = "none" /\ mk'[p].fd = -1 /\ ~mk'[p].linked
    BY <1>1, IdleRun DEF NoMake
  <2> QED BY <2>1 DEF MakerInv, PlacesInv, DescriptorInv, ContentInv
<1> QED BY <1>5, <1>6, <1>7, <1>8 DEF CtlInv, MakerInv

-----------------------------------------------------------------------------
(* CtlInv is inductive.                                                    *)

LEMMA CtlInvInit == CtlInit => CtlInv
<1> SUFFICES ASSUME CtlInit PROVE CtlInv
  OBVIOUS
<1>1. /\ dir = [n \in Names |-> NoFile] /\ disk = dir /\ mk = [p \in Makers |-> NoMake]
      /\ now = 1 /\ text = [n \in Names |-> [ver |-> 1, mtime |-> 0, there |-> TRUE]]
      /\ nsw = [ver |-> 1, mtime |-> 0] /\ run = [p \in Makers |-> Idle]
      /\ edits = 0 /\ faults = 0 /\ unseen = [n \in Names |-> 0]
  BY DEF CtlInit, MakefnInit
<1>2. 1 \in Versions /\ 1 \in 0 .. MaxEdits + 1 /\ 0 \in 0 .. MaxEdits /\ 0 \in 0 .. MaxFaults
  BY CtlAssumption DEF Versions
<1>3. MakefnTypeOK
  BY <1>1, NoMakeState DEF MakefnTypeOK
<1>4. text \in [Names -> Stats] /\ nsw \in [ver : Versions, mtime : Nat]
  BY <1>1, <1>2 DEF Stats
<1>5. CtlTypeOK
  BY <1>1, <1>2, <1>3, <1>4, IdleRun DEF CtlTypeOK
<1>6. TextInv
  BY <1>1, <1>2 DEF TextInv
<1>7. InstalledInv
  BY <1>1 DEF InstalledInv
<1>8. ASSUME NEW p \in Makers PROVE MakerInv(p)
  <2>1. run[p].pc = "idle" /\ mk[p].step = "none" /\ mk[p].fd = -1 /\ ~mk[p].linked
    BY <1>1, IdleRun DEF NoMake
  <2> QED BY <2>1 DEF MakerInv, PlacesInv, DescriptorInv, ContentInv
<1> QED BY <1>5, <1>6, <1>7, <1>8 DEF CtlInv, MakerInv

LEMMA CtlInvStep == CtlInv /\ [CtlNext]_ctlVars => CtlInv'
<1> SUFFICES ASSUME CtlInv, [CtlNext]_ctlVars PROVE CtlInv'
  OBVIOUS
<1>1. CASE \E p \in Makers : StartRun(p) \/ StartRunNoNsswitch(p)
  BY <1>1, StartRunStep
<1>2. CASE \E p \in Makers : Step(p)
  <2>1. PICK p \in Makers : Step(p)
    BY <1>2
  <2>2. CASE StatInput(p) \/ SkipUpToDate(p)
    BY <2>2, StatStep
  <2>3. CASE StartMake(p)
    BY <2>3, StartMakeStep
  <2>4. CASE OpenInput(p) \/ ReadNsswitch(p) \/ RestatChanged(p)
    BY <2>4, MakeAddsStep
  <2>5. CASE OpenInputGone(p)
    BY <2>5, MakeFailsStep
  <2>6. CASE Parse(p)
    BY <2>6, ParseStep
  <2>7. CASE RestatSame(p)
    BY <2>7, RestatStep
  <2>8. CASE Install(p)
    BY <2>8, FinishStep, RenameStep DEF Install
  <2>9. CASE CleanupBuilt(p)
    BY <2>9, CleanupStep
  <2>10. CASE NextDb(p)
    BY <2>10, NextDbStep
  <2> QED BY <2>1, <2>2, <2>3, <2>4, <2>5, <2>6, <2>7, <2>8, <2>9, <2>10 DEF Step
<1>3. CASE \E p \in Makers : StartMakeFails(p)
  BY <1>3, StatStep
<1>4. CASE \E p \in Makers : BuildFails(p) \/ RestatFails(p)
  BY <1>4, MakeFailsStep, RestatStep
<1>5. CASE (\E n \in Names : ReplaceText(n) \/ RemoveText(n)) \/ ReplaceNsswitch \/ Tick
  BY <1>5, EditStep
<1>6. CASE SystemCrash
  BY <1>6, CrashStep
<1>7. CASE WriteBack
  BY <1>7, WriteBackStep
<1>8. CASE UNCHANGED ctlVars
  <2>1. UNCHANGED <<dir, disk, mk, now, text, nsw, run, edits, faults, unseen>>
    BY <1>8 DEF ctlVars, fsVars
  <2>2. CtlTypeOK' /\ TextInv' /\ InstalledInv'
    BY <2>1 DEF CtlInv, CtlTypeOK, MakefnTypeOK, TextInv, InstalledInv, MadeFrom
  <2>3. ASSUME NEW p \in Makers PROVE MakerInv(p)'
    BY <2>1, Here DEF MakerInv, PlacesInv, DescriptorInv, ContentInv, Cur, MadeFrom
  <2> QED BY <2>2, <2>3 DEF CtlInv, MakerInv
<1> QED BY <1>1, <1>2, <1>3, <1>4, <1>5, <1>6, <1>7, <1>8 DEF CtlNext

\* The invariant about main, its temporary files, the installed databases and
\* the text files holds however many nss_mcdbctl run at once, and whatever fails.
THEOREM CtlInvariant == CtlSpec => []CtlInv
BY CtlInvInit, CtlInvStep, PTL DEF CtlSpec

\* Type correctness of nss_mcdbctl and mcdb_makefn
THEOREM CtlTypeCorrect == CtlSpec => []CtlTypeOK
<1>1. CtlInv => CtlTypeOK
  BY DEF CtlInv
<1> QED BY <1>1, CtlInvariant, PTL

\* A database that main leaves alone because it is newer than its text file was
\* made from that text file, unless the text was renamed in the second in which
\* the database was finished or later, or a second stat failed: replacing the
\* text during a build, several builds of one database, failing calls and crashes
\* do no other harm.
THEOREM SkippingIsSafe == CtlSpec => []SkipMeansCurrent
<1>1. CtlInv => SkipMeansCurrent
  <2> SUFFICES ASSUME CtlInv, NEW n \in Names, dir[n] # NoFile, text[n].there, ~Overlooked(n)
               PROVE  Current(n)
    BY DEF SkipMeansCurrent
  <2>1. MadeFrom(dir[n], n) /\ dir[n] \in Files /\ unseen[n] \in Nat
    BY DEF CtlInv, InstalledInv, CtlTypeOK, MakefnTypeOK
  <2>2. unseen[n] < dir[n].mtime
    BY <2>1 DEF Overlooked, Files
  <2> QED BY <2>1, <2>2 DEF MadeFrom, Current
<1> QED BY <1>1, CtlInvariant, PTL

\* However a run ends, mcdb_makefn_cleanup or the rename has taken its temporary
\* file away.
THEOREM LeavesNoLitter == CtlSpec => []NoLitter
<1>1. CtlInv => NoLitter
  BY DEF CtlInv, DescriptorInv, NoLitter
<1> QED BY <1>1, CtlInvariant, PTL

-----------------------------------------------------------------------------
(* nss_mcdbctl implements McdbStore: rename is Install, the write-back of  *)
(* directories is Persist, a crash is Crash, and nothing else is seen.     *)

ShownNow == [n \in Names |-> Shown(dir[n])]
KeptNow  == [n \in Names |-> Lasting(disk[n])]

\* What is on the disk is synced, so that it is kept as it is shown.
LEMMA SyncedIsKept ==
    ASSUME CtlInv, NEW n \in Names
    PROVE  Lasting(disk[n]) = Shown(disk[n]) /\ Lasting(dir[n]) = Shown(dir[n])
BY DEF CtlInv, InstalledInv, Lasting, Shown

LEMMA StoreStep ==
    CtlInv /\ [CtlNext]_ctlVars => [Store!Next]_<<ShownNow, KeptNow>>
<1> SUFFICES ASSUME CtlInv, [CtlNext]_ctlVars PROVE Store!Next \/ UNCHANGED <<ShownNow, KeptNow>>
  OBVIOUS
<1>1. CASE UNCHANGED <<dir, disk>>
  BY <1>1 DEF ShownNow, KeptNow
<1>2. CASE WriteBack
  <2>1. disk' = dir /\ dir' = dir
    BY <1>2 DEF WriteBack, WriteBackMeta
  <2>2. KeptNow' = ShownNow /\ ShownNow' = ShownNow
    BY <2>1, SyncedIsKept DEF ShownNow, KeptNow
  <2> QED BY <2>2 DEF Store!Next, Store!Persist, ShownNow, KeptNow
<1>3. CASE SystemCrash
  <2>1. dir' = disk /\ disk' = disk
    BY <1>3, CrashTakesDisk DEF SystemCrash
  <2>2. ShownNow' = KeptNow /\ KeptNow' = KeptNow
    BY <2>1, SyncedIsKept DEF ShownNow, KeptNow
  <2> QED BY <2>2 DEF Store!Next, Store!Crash, ShownNow, KeptNow
<1>4. ASSUME NEW p \in Makers, Install(p), FinishRename(p) PROVE Store!Next
  <2>1. /\ mk[p].step = "close" /\ dir' = [dir EXCEPT ![mk[p].name] = mk[p].file] /\ disk' = disk
    BY <1>4 DEF FinishRename
  <2>2. /\ mk[p].name = Cur(p) /\ Cur(p) \in Names /\ mk[p].file \in Files
        /\ mk[p].file.data \in Databases
    BY <2>1, Here DEF MakerInv, DescriptorInv, ContentInv
  <2>3. Shown(mk[p].file) = mk[p].file.data
    BY <2>2, NoFileAssumption DEF Shown
  <2>4. dir \in [Names -> Files \cup {NoFile}]
    BY DEF CtlInv, CtlTypeOK, MakefnTypeOK
  <2>5. ShownNow' = [ShownNow EXCEPT ![Cur(p)] = mk[p].file.data] /\ KeptNow' = KeptNow
    BY <2>1, <2>2, <2>3, <2>4 DEF ShownNow, KeptNow
  <2> QED BY <2>2, <2>5 DEF Store!Next, Store!Install, ShownNow, KeptNow
<1>5. \/ UNCHANGED <<dir, disk>> \/ WriteBack \/ SystemCrash
      \/ \E p \in Makers : Install(p) /\ FinishRename(p)
  <2>1. ASSUME NEW p \in Makers, Step(p), ~(Install(p) /\ FinishRename(p))
        PROVE  UNCHANGED <<dir, disk>>
    BY <2>1 DEF Step, StatInput, SkipUpToDate, StartMake, OpenInput, OpenInputGone, ReadNsswitch,
                Parse, RestatSame, RestatChanged, Install, CleanupBuilt, NextDb, MakefnStart,
                MakeAdds, MakeFinish, MakeFails, FinishChmod, FinishSync, FinishClose,
                MakefnCleanup, fsVars
  <2>2. ASSUME NEW p \in Makers,
               \/ StartRun(p) \/ StartRunNoNsswitch(p)
               \/ StartMakeFails(p) \/ BuildFails(p) \/ RestatFails(p)
        PROVE  UNCHANGED <<dir, disk>>
    BY <2>2 DEF StartRun, StartRunNoNsswitch, StartMakeFails, BuildFails, RestatFails, MakeFails, fsVars
  <2>3. CASE (\E n \in Names : ReplaceText(n) \/ RemoveText(n)) \/ ReplaceNsswitch \/ Tick
    BY <2>3 DEF ReplaceText, RemoveText, ReplaceNsswitch, Tick, fsVars
  <2>4. CASE UNCHANGED ctlVars
    BY <2>4 DEF ctlVars, fsVars
  <2> QED BY <2>1, <2>2, <2>3, <2>4 DEF CtlNext
<1> QED BY <1>1, <1>2, <1>3, <1>4, <1>5

\* Installing with mcdb_makefn is atomic and durable: a name shows no file or a
\* complete database at any time, and a crash takes all names back to one
\* earlier moment.
THEOREM CtlImplementsStore == CtlSpec => Implements
<1>1. CtlInit => Store!Init
  <2> SUFFICES ASSUME CtlInit PROVE Store!Init
    OBVIOUS
  <2>1. dir = [n \in Names |-> NoFile] /\ disk = dir
    BY DEF CtlInit, MakefnInit
  <2> QED BY <2>1 DEF Store!Init, Shown, Lasting
<1> QED BY <1>1, StoreStep, CtlInvariant, PTL DEF CtlSpec, Implements, Store!Spec, ShownNow, KeptNow
=============================================================================
