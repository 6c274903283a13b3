------------------------- MODULE McdbRoundTripProofs -------------------------
(***************************************************************************)
(* Proofs about a database that is made and then read: what an iteration   *)
(* gives, that writer and reader agree on the width of hash table entries, *)
(* that a search stays inside the table of its slot, and what it finds.    *)
(***************************************************************************)
EXTENDS McdbRoundTrip, McdbMakeProofs

-----------------------------------------------------------------------------
(* The hash looked for, and the place in a table where a search stops.     *)

\* The hash mcdb_findtagstart looks for
LEMMA QueryHash == ASSUME NEW q \in Queries
                   PROVE  Hash(Hash(HashInit, TagSeq(q.tag)), q.key) \in 0 .. UINT_MAX
<1>1. q.tag \in Nat /\ q.key \in Seq(Nat)
  BY FindAssumption
<1>2. /\ \A h \in 0 .. UINT_MAX : Mix(h, q.tag) \in 0 .. UINT_MAX
      /\ \A i \in DOMAIN q.key : \A h \in 0 .. UINT_MAX : Mix(h, q.key[i]) \in 0 .. UINT_MAX
  BY FindHashAssumption
<1>3. TagSeq(q.tag) \in Seq(Nat) /\ \A i \in DOMAIN TagSeq(q.tag) : TagSeq(q.tag)[i] = q.tag
  BY <1>1 DEF TagSeq
<1>4. Hash(HashInit, TagSeq(q.tag)) \in 0 .. UINT_MAX
  BY <1>2, <1>3, HashFits, FormatAssumption
<1> QED BY <1>1, <1>2, <1>4, HashFits

LEMMA SlotOfHash == ASSUME NEW h \in 0 .. UINT_MAX, NEW len \in Nat \ {0}
                    PROVE  SlotOf(h) \in Slots /\ Home(h, len) \in 0 .. len - 1
<1>1. SLOTS \in Nat \ {0} /\ h \in Nat
  BY PowerAssumption
<1>2. h % SLOTS \in 0 .. SLOTS - 1 /\ h \div SLOTS \in Nat
  BY <1>1
<1>3. (h \div SLOTS) % len \in 0 .. len - 1
  BY <1>2
<1> QED BY <1>2, <1>3 DEF SlotOf, Home, Slots

\* The loop of mcdb_findtagnext passes over as many entries as are left at most.
LEMMA PassedIs == ASSUME find.hslots \in Nat, find.loop \in 0 .. find.hslots
                  PROVE  /\ Passed \in 0 .. find.hslots - find.loop /\ Stops(Passed)
                         /\ \A j \in 0 .. Passed - 1 : ~Stops(j)
<1> DEFINE T == {i \in 0 .. find.hslots - find.loop : Stops(i)}
<1>1. find.hslots - find.loop \in 0 .. find.hslots - find.loop /\ find.hslots - find.loop \in Nat
  OBVIOUS
<1>2. Stops(find.hslots - find.loop)
  BY DEF Stops
<1> HIDE DEF Stops
<1>3. T \in SUBSET Nat /\ T # {}
  BY <1>1, <1>2
<1>4. PICK i \in T : \A y \in T : i =< y
  BY <1>3, LeastNat
<1>5. \A j \in 0 .. i - 1 : ~Stops(j)
  <2>1. SUFFICES ASSUME NEW j \in 0 .. i - 1, Stops(j) PROVE FALSE
    OBVIOUS
  <2>2. j \in T /\ ~ (i =< j)
    BY <1>1, <2>1
  <2> QED BY <1>4, <2>2
<1>6. i \in 0 .. find.hslots - find.loop /\ Stops(i)
  OBVIOUS
<1> QED BY <1>5, <1>6 DEF Passed

LEMMA StrideIs == Stride \in {8, 16}
<1>1. 2 ^ 3 = 8 /\ 2 ^ 4 = 16
  OBVIOUS
<1> QED BY <1>1 DEF Stride, MapBits

\* kpos wraps: it stays inside the table.
LEMMA KposInside ==
    ASSUME find.hslots \in Nat \ {0}, find.hpos \in Nat, find.kpos \in Nat, NEW i \in Nat,
           find.kpos - find.hpos \in Nat
    PROVE  Kpos(i) \in Nat /\ Kpos(i) - find.hpos \in 0 .. find.hslots * Stride - 1
<1> DEFINE a == ((find.kpos - find.hpos) \div Stride + i) % find.hslots
<1>1. (find.kpos - find.hpos) \div Stride \in Nat
  BY StrideIs
<1>2. a \in 0 .. find.hslots - 1
  BY <1>1
<1>3. Kpos(i) = find.hpos + a * Stride
  BY DEF Kpos
<1> HIDE DEF a
<1>4. a * Stride \in 0 .. find.hslots * Stride - 1
  BY <1>2, StrideIs
<1> QED BY <1>3, <1>4

-----------------------------------------------------------------------------
(* The invariant.                                                          *)

\* Reading is nothing to the writer.
LEMMA NextIsMake == [Next]_vars => [MakeNext]_makeVars
BY DEF Next, Make, Find, FindAny, FindStart, FindNextFound, FindNextEnds, IterInit, IterRecord,
   IterPadding, IterEnd, vars, makeVars

\* A finished file stays as it is, and nothing is added to it.
LEMMA FileStays ==
    ASSUME RecordsInv, file # NoFile, [Next]_vars
    PROVE  file' = file /\ added' = added /\ [FindAny]_findVars /\ (~FindAny => UNCHANGED findVars)
<1>1. phase = "done"
  BY DEF RecordsInv
<1>2. ~MakeNext
  BY <1>1 DEF MakeNext, Start, StartFails, AddBegin, AddBeginFails, AddbufKey, AddbufData, AddEnd,
     AddRevert, FinishPad, FinishSlot, FinishFails, FinishCommit, CommitFails, Destroy, Between
<1>3. CASE Find
  BY <1>3 DEF Find, FindAny, FindStart, FindNextFound, FindNextEnds, IterInit, IterRecord, IterPadding,
     IterEnd
<1>4. CASE UNCHANGED vars
  BY <1>4 DEF vars, makeVars
<1> QED BY <1>2, <1>3, <1>4 DEF Next, Make, vars

\* Before the file is finished nothing is read.
LEMMA NothingRead ==
    ASSUME SearchInv, file = NoFile, [Next]_vars
    PROVE  st = "none" /\ UNCHANGED findVars
<1>1. st = "none"
  BY DEF SearchInv
<1>2. ~FindAny
  BY <1>1 DEF FindAny, FindStart, FindNextFound, FindNextEnds, IterInit, IterRecord, IterPadding,
     IterEnd
<1> QED BY <1>1, <1>2 DEF Next, Make, Find, vars

\* The header of the file
LEMMA FileHeader ==
    ASSUME LayoutInv, file # NoFile
    PROVE  /\ file.hdr \in [Slots -> [hpos : Nat, hslots : Nat]]
           /\ file.hdr[0].hpos \in Nat /\ file.hdr[0].hpos =< file.size /\ file.size \in Int
           /\ file.hdr[0].hpos % PAD_ALIGN = 0 /\ bits = Width(file.hdr[0].hpos)
           /\ TablesTo(file.hdr, SLOTS, file.size) /\ HEADER_SZ =< file.size
<1>1. TablesTo(file.hdr, SLOTS, file.size) /\ HEADER_SZ =< file.size
  BY DEF LayoutInv
<1>2. 0 \in Slots /\ SLOTS - 1 \in Slots
  BY SlotsAre
<1>3. bits \in {3, 4} /\ 2 ^ 3 = 8 /\ 2 ^ 4 = 16
  BY <1>1 DEF TablesTo, Width
<1>4. PICK p \in Nat, n \in Nat : file.size = p + n * 2 ^ bits
  BY <1>1, <1>2 DEF TablesTo
<1>5. file.size \in Int
  BY <1>3, <1>4
<1> QED BY <1>1, <1>2, <1>5 DEF TablesTo

LEMMA SearchInit == Init => SearchInv /\ IterInv
<1> SUFFICES ASSUME Init PROVE SearchInv /\ IterInv
  OBVIOUS
<1>1. /\ st = "none" /\ ptr = 0 /\ got = <<>> /\ nquery = 0
      /\ find = [q |-> [tag |-> 0, key |-> <<>>], khash |-> 0, hpos |-> 0,
                 hslots |-> 0, kpos |-> 0, loop |-> 0]
  BY DEF Init, FindInit
<1>2. UINT_MAX \in Nat /\ MaxQueries \in Nat
  BY PowerAssumption, FindAssumption
<1>3. /\ find = [q |-> find.q, khash |-> find.khash, hpos |-> find.hpos,
                 hslots |-> find.hslots, kpos |-> find.kpos, loop |-> find.loop]
      /\ find.khash = 0 /\ find.hslots = 0 /\ find.hpos = 0 /\ find.kpos = 0 /\ find.loop = 0
  BY <1>1
<1>4. FindTypeOK
  BY <1>1, <1>2, <1>3 DEF FindTypeOK
<1> QED BY <1>1, <1>3, <1>4 DEF SearchInv, IterInv, LoopMeansFound

\* A step that leaves the search alone
LEMMA SearchKept ==
    ASSUME SearchInv, UNCHANGED <<find, file, nquery>>, ptr' \in Nat, file # NoFile,
           st \notin {"start", "next"}, st' \in {"iter", "eof"}
    PROVE  SearchInv'
BY DEF SearchInv, FindTypeOK, LoopMeansFound, Stride, MapBits

\* mcdb_findtagstart begins at the home of the key, in the table of its slot.
LEMMA StartSearch ==
    ASSUME SearchInv, LayoutInv, file # NoFile, NEW q \in Queries, FindStart(q) PROVE SearchInv'
<1> DEFINE khash == Hash(Hash(HashInit, TagSeq(q.tag)), q.key)
           e     == file.hdr[SlotOf(khash)]
<1>1. /\ file' = file /\ ptr' = ptr /\ nquery < MaxQueries /\ nquery' = nquery + 1
      /\ \/ /\ e.hslots = 0 /\ st' = "end"
            /\ find' = [find EXCEPT !.q = q, !.hpos = e.hpos, !.hslots = 0, !.loop = 0]
         \/ /\ e.hslots # 0 /\ st' = "start"
            /\ find' = [q |-> q, khash |-> khash, hpos |-> e.hpos, hslots |-> e.hslots,
                        kpos |-> e.hpos + Home(khash, e.hslots) * Stride, loop |-> 0]
  BY DEF FindStart
<1>2. khash \in 0 .. UINT_MAX
  BY QueryHash
<1> HIDE DEF khash
<1>3. SlotOf(khash) \in Slots
  BY <1>2, SlotOfHash
<1>4. e.hpos \in Nat /\ e.hslots \in Nat
  BY <1>3, FileHeader
<1> HIDE DEF e
<1>5. ptr' \in Nat /\ nquery' \in 0 .. MaxQueries
  BY <1>1, FindAssumption DEF SearchInv, FindTypeOK
<1>6. CASE st' = "end"
  <2>1. find' = [q |-> q, khash |-> find.khash, hpos |-> e.hpos, hslots |-> 0,
                 kpos |-> find.kpos, loop |-> 0]
    <3>1. PICK a, b, c, f, g, h : find = [q |-> a, khash |-> b, hpos |-> c, hslots |-> f, kpos |-> g,
                                          loop |-> h]
      BY DEF SearchInv
    <3>2. find' = [find EXCEPT !.q = q, !.hpos = e.hpos, !.hslots = 0, !.loop = 0]
      BY <1>1, <1>6
    <3> QED BY <3>1, <3>2
  <2>2. find.khash \in 0 .. UINT_MAX /\ find.kpos \in Nat
    BY DEF SearchInv, FindTypeOK
  <2>3. /\ find'.khash = find.khash /\ find'.hpos = e.hpos /\ find'.hslots = 0
        /\ find'.kpos = find.kpos /\ find'.loop = 0 /\ find'.q = q
    BY <2>1
  <2> QED BY <1>1, <1>4, <1>5, <1>6, <2>1, <2>2, <2>3 DEF SearchInv, FindTypeOK, LoopMeansFound
<1>7. CASE st' = "start"
  <2>1. /\ e.hslots # 0
        /\ find' = [q |-> q, khash |-> khash, hpos |-> e.hpos, hslots |-> e.hslots,
                    kpos |-> e.hpos + Home(khash, e.hslots) * Stride, loop |-> 0]
    BY <1>1, <1>7
  <2>2. Home(khash, e.hslots) \in 0 .. e.hslots - 1
    BY <1>2, <1>4, <2>1, SlotOfHash
  <2>3. Home(khash, e.hslots) * Stride \in 0 .. e.hslots * Stride - 1
    BY <1>4, <2>2, StrideIs
  <2>4. /\ find'.khash = khash /\ find'.hpos = e.hpos /\ find'.hslots = e.hslots
        /\ find'.kpos = e.hpos + Home(khash, e.hslots) * Stride /\ find'.loop = 0 /\ find'.q = q
    BY <2>1
  <2>5. /\ find'.kpos \in Nat
        /\ find'.kpos - find'.hpos \in 0 .. find'.hslots * Stride - 1
    <3>1. Home(khash, e.hslots) * Stride \in Int
      BY <2>3
    <3>2. PICK x \in 0 .. e.hslots * Stride - 1 : x = Home(khash, e.hslots) * Stride
      BY <2>3
    <3>3. e.hpos + x \in Nat /\ (e.hpos + x) - e.hpos = x
      BY <1>4
    <3> QED BY <2>4, <3>2, <3>3
  <2>6. Stride' = Stride
    BY <1>1 DEF Stride, MapBits
  <2> QED BY <1>1, <1>2, <1>4, <1>5, <1>7, <2>1, <2>4, <2>5, <2>6
       DEF SearchInv, FindTypeOK, LoopMeansFound
<1> QED BY <1>1, <1>6, <1>7

\* mcdb_findtagnext goes on from there, wrapping, until the table is used up.
LEMMA NextSearch ==
    ASSUME SearchInv, FindNextFound \/ FindNextEnds PROVE SearchInv'
<1>1. /\ st \in {"start", "next"} /\ file' = file /\ ptr' = ptr /\ nquery' = nquery
      /\ \/ /\ ~Exhausted /\ st' = "next"
            /\ find' = [find EXCEPT !.kpos = Kpos(Passed + 1), !.loop = @ + Passed + 1]
         \/ /\ st' = "end"
            /\ find' = [find EXCEPT !.kpos = Kpos(IF Exhausted THEN Passed ELSE Passed + 1),
                                    !.loop = 0]
  BY DEF FindNextFound, FindNextEnds
<1>2. /\ find.hslots \in Nat /\ find.hpos \in Nat /\ find.kpos \in Nat /\ find.loop \in 0 .. find.hslots
      /\ find.kpos - find.hpos \in 0 .. find.hslots * Stride - 1 /\ find.khash \in 0 .. UINT_MAX
      /\ ptr \in Nat /\ nquery \in 0 .. MaxQueries /\ file # NoFile
  BY <1>1 DEF SearchInv, FindTypeOK
<1>3. find.hslots # 0
  BY <1>2, StrideIs
<1>4. Passed \in 0 .. find.hslots - find.loop
  BY <1>2, PassedIs
<1>5. Stride' = Stride
  BY <1>1 DEF Stride, MapBits
<1>6. PICK i \in Nat, l \in 0 .. find.hslots :
         /\ find' = [find EXCEPT !.kpos = Kpos(i), !.loop = l]
         /\ st' \in {"next", "end"} /\ (l # 0 <=> st' = "next")
  <2>1. CASE st' = "next"
    <3>1. /\ Passed # find.hslots - find.loop
          /\ find' = [find EXCEPT !.kpos = Kpos(Passed + 1), !.loop = find.loop + Passed + 1]
      BY <1>1, <2>1 DEF Exhausted
    <3>2. Passed + 1 \in Nat /\ find.loop + Passed + 1 \in 0 .. find.hslots
          /\ find.loop + Passed + 1 # 0
      BY <1>2, <1>4, <3>1
    <3> QED BY <2>1, <3>1, <3>2
  <2>2. CASE st' = "end"
    <3>1. find' = [find EXCEPT !.kpos = Kpos(IF Exhausted THEN Passed ELSE Passed + 1), !.loop = 0]
      BY <1>1, <2>2
    <3>2. (IF Exhausted THEN Passed ELSE Passed + 1) \in Nat /\ 0 \in 0 .. find.hslots
      BY <1>2, <1>4
    <3> QED BY <2>2, <3>1, <3>2
  <2> QED BY <1>1, <2>1, <2>2
<1>7. Kpos(i) \in Nat /\ Kpos(i) - find.hpos \in 0 .. find.hslots * Stride - 1
  <2>1. find.hslots \in Nat \ {0} /\ find.kpos - find.hpos \in Nat
    BY <1>2, <1>3
  <2> QED BY <1>2, <2>1, KposInside
<1> HIDE DEF Kpos
<1>8. find' = [q |-> find.q, khash |-> find.khash, hpos |-> find.hpos, hslots |-> find.hslots,
               kpos |-> Kpos(i), loop |-> l]
  <2>1. find = [q |-> find.q, khash |-> find.khash, hpos |-> find.hpos,
                hslots |-> find.hslots, kpos |-> find.kpos, loop |-> find.loop]
    BY DEF SearchInv
  <2>2. PICK a, b, c, f, g, h : /\ find = [q |-> a, khash |-> b, hpos |-> c, hslots |-> f, kpos |-> g,
                                           loop |-> h]
                                /\ a = find.q /\ b = find.khash /\ c = find.hpos /\ f = find.hslots
    BY <2>1
  <2>3. find' = [q |-> a, khash |-> b, hpos |-> c, hslots |-> f, kpos |-> Kpos(i), loop |-> l]
    BY <1>6, <2>2
  <2> QED BY <2>2, <2>3
<1>9. /\ find'.q = find.q /\ find'.khash = find.khash /\ find'.hpos = find.hpos
      /\ find'.hslots = find.hslots /\ find'.kpos = Kpos(i) /\ find'.loop = l
  BY <1>8
<1> QED BY <1>1, <1>2, <1>5, <1>6, <1>7, <1>8, <1>9 DEF SearchInv, FindTypeOK, LoopMeansFound

\* Eod lies behind the last record, by the 7 bytes that mcdb_iter_init takes
\* off the position of the first table: what begins before it is a record, or
\* padding of 8 bytes at least.
LEMMA RecordsBeforeEod ==
    ASSUME LayoutInv, RecordsInv, file # NoFile
    PROVE  /\ file.recs = Range(added) /\ Adjoining(added) /\ NextPos \in Nat /\ Eod \in Int
           /\ \A i \in DOMAIN added : added[i].p < Eod
<1>1. file.recs = Range(added) /\ Adjoining(added) /\ NextPos =< file.hdr[0].hpos
  BY DEF RecordsInv
<1>2. file.hdr[0].hpos \in Nat
  BY FileHeader
<1>3. NextPos \in Nat /\ \A i \in DOMAIN added : EndOf(added[i]) =< NextPos
  BY <1>1, AfterIs DEF NextPos
<1>4. ASSUME NEW i \in DOMAIN added PROVE added[i].p < Eod
  <2>1. added[i].p \in Nat /\ EndOf(added[i]) \in Nat /\ added[i].p + 8 =< EndOf(added[i])
    BY <1>1, RecordAt
  <2>2. EndOf(added[i]) =< NextPos
    BY <1>3
  <2> QED BY <1>1, <1>2, <1>3, <2>1, <2>2 DEF Eod
<1> QED BY <1>1, <1>2, <1>3, <1>4 DEF Eod

\* A record is known by where it begins, and none begins where the last ends.
LEMMA OneRecordAt ==
    ASSUME NEW rs, Adjoining(rs), NEW i \in DOMAIN rs, NEW r \in Range(rs)
    PROVE  (r.p = rs[i].p => r = rs[i]) /\ r.p # After(rs)
<1>1. PICK j \in DOMAIN rs : r = rs[j]
  BY DEF Range
<1>2. /\ rs[i].p \in Nat /\ EndOf(rs[i]) \in Nat /\ rs[i].p + 8 =< EndOf(rs[i])
      /\ rs[j].p \in Nat /\ EndOf(rs[j]) \in Nat /\ rs[j].p + 8 =< EndOf(rs[j])
      /\ i \in Nat /\ j \in Nat
  BY RecordAt
<1>3. i < j => EndOf(rs[i]) =< rs[j].p
  BY DEF Adjoining
<1>4. j < i => EndOf(rs[j]) =< rs[i].p
  BY DEF Adjoining
<1>5. rs[j].p = rs[i].p => i = j
  BY <1>2, <1>3, <1>4
<1>6. EndOf(rs[j]) =< After(rs) /\ After(rs) \in Nat
  BY AfterIs
<1> QED BY <1>1, <1>2, <1>5, <1>6

\* Where the record after the n-th begins
PosAfter(n) == IF n = Len(added) THEN NextPos ELSE added[n + 1].p

LEMMA PosAfterIs == ASSUME Adjoining(added), NEW n \in DOMAIN added
                    PROVE  EndOf(added[n]) = PosAfter(n)
<1>1. added \in Seq(Recs)
  BY DEF Adjoining
<1>2. CASE n = Len(added)
  <2>1. added # <<>>
    BY <1>1
  <2> QED BY <1>2, <2>1 DEF PosAfter, NextPos, After
<1>3. CASE n # Len(added)
  <2>1. n + 1 \in DOMAIN added
    BY <1>1, <1>3
  <2> QED BY <1>3, <2>1 DEF PosAfter, Adjoining
<1> QED BY <1>2, <1>3

\* mcdb_iter_init begins at the first record, or where it would be.
LEMMA IterBegins ==
    ASSUME SearchInv, LayoutInv, RecordsInv, IterInv, IterInit, added' = added
    PROVE  SearchInv' /\ IterInv'
<1>1. /\ file # NoFile /\ st = "none" /\ ptr' = HEADER_SZ /\ st' = "iter"
      /\ UNCHANGED <<find, got, nquery, file>>
  BY DEF IterInit
<1>2. got = <<>> /\ Adjoining(added)
  BY <1>1 DEF IterInv, RecordsInv
<1>3. added \in Seq(Recs)
  BY <1>2 DEF Adjoining
<1>4. HEADER_SZ = PosAfter(0)
  <2>1. CASE added = <<>>
    BY <2>1 DEF PosAfter, NextPos, After
  <2>2. CASE added # <<>>
    <3>1. Len(added) # 0 /\ 0 + 1 = 1
      BY <1>3, <2>2
    <3> QED BY <1>2, <2>2, <3>1 DEF PosAfter, Adjoining
  <2> QED BY <2>1, <2>2
<1>5. Len(got) = 0 /\ got \in Seq(Nat) /\ Len(added) \in Nat /\ DOMAIN got = {}
  BY <1>2, <1>3
<1>6. IterInv'
  BY <1>1, <1>4, <1>5 DEF IterInv, PosAfter, NextPos
<1>7. HEADER_SZ \in Nat
  BY PowerAssumption DEF HEADER_SZ
<1> QED BY <1>1, <1>6, <1>7, SearchKept

\* mcdb_iter returns the record at ptr and goes on to the next.
LEMMA IterGives ==
    ASSUME SearchInv, LayoutInv, RecordsInv, IterInv, file # NoFile, IterRecord, added' = added
    PROVE  SearchInv' /\ IterInv'
<1>1. PICK r \in RecAt(ptr) : got' = Append(got, r.p) /\ ptr' = ptr + RecLen(r.k, r.d)
  BY DEF IterRecord
<1>2. st = "iter" /\ st' = st /\ UNCHANGED <<find, nquery, file>>
  BY DEF IterRecord
<1>3. r \in Range(added) /\ r.p = ptr
  BY <1>1, RecordsBeforeEod DEF RecAt
<1>4. /\ Adjoining(added) /\ added \in Seq(Recs) /\ got \in Seq(Nat) /\ Len(got) =< Len(added)
      /\ ptr = PosAfter(Len(got)) /\ \A i \in DOMAIN got : got[i] = added[i].p
  BY <1>2 DEF RecordsInv, IterInv, Adjoining, PosAfter
<1> DEFINE n == Len(got) + 1
<1>5. Len(got) # Len(added)
  <2>1. 1 \in DOMAIN added
    <3>1. added # <<>>
      BY <1>3, <1>4 DEF Range
    <3> QED BY <1>4, <3>1
  <2>2. r.p # After(added)
    BY <1>3, <1>4, <2>1, OneRecordAt
  <2> QED BY <1>3, <1>4, <2>2 DEF PosAfter, NextPos
<1>6. n \in DOMAIN added /\ n =< Len(added) /\ n \in Nat
  BY <1>4, <1>5
<1>7. r = added[n]
  <2>1. r.p = added[n].p
    BY <1>3, <1>4, <1>5 DEF PosAfter
  <2> QED BY <1>3, <1>4, <1>6, <2>1, OneRecordAt
<1>8. ptr' = EndOf(added[n]) /\ added[n].p \in Nat /\ EndOf(added[n]) \in Nat
  BY <1>1, <1>3, <1>4, <1>6, <1>7, RecordAt DEF EndOf
<1>9. ptr' = PosAfter(n)
  BY <1>4, <1>6, <1>8, PosAfterIs
<1>10. /\ got' \in Seq(Nat) /\ Len(got') = n /\ DOMAIN got' = DOMAIN got \cup {n}
       /\ \A i \in DOMAIN got : got'[i] = got[i]
       /\ got'[n] = added[n].p
  BY <1>1, <1>4, <1>7, <1>8
<1> HIDE DEF n
<1>11. IterInv'
  <2>1. \A i \in DOMAIN got' : got'[i] = added[i].p
    BY <1>4, <1>10
  <2> QED BY <1>2, <1>6, <1>9, <1>10, <2>1 DEF IterInv, PosAfter, NextPos
<1> QED BY <1>2, <1>8, <1>11, SearchKept

\* mcdb_iter gives up in the padding, or at its end, and not before.
LEMMA IterStops ==
    ASSUME SearchInv, LayoutInv, RecordsInv, IterInv, file # NoFile, IterPadding \/ IterEnd,
           added' = added
    PROVE  SearchInv' /\ IterInv'
<1>1. /\ st = "iter" /\ st' = "eof" /\ UNCHANGED <<find, got, nquery, file>>
      /\ \/ ptr < Eod /\ RecAt(ptr) = {} /\ ptr' = Eod
         \/ ptr >= Eod /\ ptr' = ptr
  BY DEF IterPadding, IterEnd
<1>2. /\ Adjoining(added) /\ added \in Seq(Recs) /\ got \in Seq(Nat) /\ Len(got) =< Len(added)
      /\ ptr = PosAfter(Len(got))
  BY <1>1 DEF RecordsInv, IterInv, Adjoining, PosAfter
<1>3. ptr \in Nat /\ Eod \in Int
  BY RecordsBeforeEod DEF SearchInv, FindTypeOK
<1>4. Len(got) = Len(added)
  <2>1. SUFFICES ASSUME Len(got) # Len(added) PROVE FALSE
    OBVIOUS
  <2>2. Len(got) + 1 \in DOMAIN added /\ ptr = added[Len(got) + 1].p
    BY <1>2, <2>1 DEF PosAfter
  <2>3. ptr < Eod
    BY <2>2, RecordsBeforeEod
  <2>4. added[Len(got) + 1] \in RecAt(ptr)
    BY <2>2, RecordsBeforeEod DEF RecAt, Range
  <2> QED BY <1>1, <1>3, <2>3, <2>4
<1>5. IterInv'
  BY <1>1, <1>4 DEF IterInv
<1>6. ptr' \in Nat
  BY <1>1, <1>3
<1> QED BY <1>1, <1>5, <1>6, SearchKept

LEMMA RoundTripNext == RoundTripInv /\ [Next]_vars => RoundTripInv'
<1> SUFFICES ASSUME RoundTripInv, [Next]_vars PROVE RoundTripInv'
  OBVIOUS
<1> USE DEF RoundTripInv
<1>1. WindowInv' /\ LayoutInv' /\ RecordsInv'
  BY NextIsMake, WindowNext, LayoutNext, RecordsNext
<1>2. CASE file = NoFile
  <2>1. st = "none" /\ UNCHANGED findVars
    BY <1>2, NothingRead
  <2> QED BY <1>1, <2>1 DEF findVars, SearchInv, FindTypeOK, LoopMeansFound, IterInv
<1>3. CASE file # NoFile
  <2>1. file' = file /\ added' = added /\ (~FindAny => UNCHANGED findVars)
    BY <1>3, FileStays
  <2>2. CASE UNCHANGED findVars
    BY <1>1, <2>1, <2>2 DEF findVars, SearchInv, FindTypeOK, LoopMeansFound, IterInv, Stride, MapBits,
       NextPos
  <2>3. ASSUME NEW q \in Queries, FindStart(q) PROVE SearchInv' /\ IterInv'
    <3>1. SearchInv'
      BY <1>3, <2>3, StartSearch
    <3>2. st' \in {"start", "end"}
      BY <2>3 DEF FindStart
    <3> QED BY <3>1, <3>2 DEF IterInv
  <2>4. CASE FindNextFound \/ FindNextEnds
    <3>1. st' \in {"next", "end"}
      BY <2>4 DEF FindNextFound, FindNextEnds
    <3>2. SearchInv' /\ IterInv'
      BY <2>4, <3>1, NextSearch DEF IterInv
    <3> QED BY <1>1, <3>2
  <2>5. CASE IterInit \/ IterRecord \/ IterPadding \/ IterEnd
    <3>1. SearchInv' /\ IterInv'
      BY <1>3, <2>1, <2>5, IterBegins, IterGives, IterStops
    <3> QED BY <1>1, <3>1
  <2> QED BY <1>1, <2>1, <2>2, <2>3, <2>4, <2>5 DEF FindAny
<1> QED BY <1>2, <1>3

-----------------------------------------------------------------------------
(* The theorems.                                                           *)

\* The invariant holds of every database, made in whatever way and read in
\* whatever way.
THEOREM RoundTripInvariant == Spec => []RoundTripInv
<1>1. Init => RoundTripInv
  BY WindowInit, LayoutInit, RecordsInit, SearchInit DEF Init, RoundTripInv
<1> QED BY <1>1, RoundTripNext, PTL DEF Spec

\* An iteration gives exactly the records added and not reverted, in order,
\* and reads no header across the end of the padding: for records of any
\* lengths, and so whatever padding there is.
THEOREM IterationExact == Spec => []IterExact
<1>1. RoundTripInv => IterExact
  <2> SUFFICES ASSUME RoundTripInv PROVE IterExact
    OBVIOUS
  <2> USE DEF RoundTripInv
  <2>1. ASSUME st = "eof" PROVE got = [i \in DOMAIN added |-> added[i].p]
    <3>1. got \in Seq(Nat) /\ Len(got) = Len(added) /\ \A i \in DOMAIN got : got[i] = added[i].p
      BY <2>1 DEF IterInv
    <3>2. added \in Seq(Recs)
      BY DEF RecordsInv, Adjoining
    <3>3. DOMAIN got = DOMAIN added /\ got = [i \in DOMAIN got |-> got[i]]
      BY <3>1, <3>2
    <3> QED BY <3>1, <3>3
  <2>2. ASSUME st = "iter", ptr < Eod PROVE ptr + 8 =< file.hdr[0].hpos
    <3>1. file # NoFile /\ ptr \in Nat
      BY <2>2 DEF SearchInv, FindTypeOK
    <3>2. file.hdr[0].hpos \in Nat
      BY <3>1, FileHeader
    <3> QED BY <2>2, <3>1, <3>2 DEF Eod
  <2> QED BY <2>1, <2>2 DEF IterExact
<1> QED BY <1>1, RoundTripInvariant, PTL

\* The reader works out the width of hash table entries that the writer chose,
\* at and around the size where it changes.
THEOREM WidthsAgree == Spec => []StrideAgrees
<1>1. RoundTripInv => StrideAgrees
  <2> SUFFICES ASSUME RoundTripInv, file # NoFile PROVE MapBits = bits
    BY DEF StrideAgrees
  <2>1. /\ file.hdr[0].hpos \in Nat /\ file.hdr[0].hpos =< file.size
        /\ file.hdr[0].hpos % 16 = 0 /\ bits = Width(file.hdr[0].hpos)
    BY FileHeader DEF RoundTripInv, PAD_ALIGN
  <2>2. file.size \in Int
    BY FileHeader DEF RoundTripInv
  <2>3. 2 ^ W \in Nat /\ UINT_MAX = 2 ^ W - 1 /\ 2 ^ W % 16 = 0
    BY PowerAssumption, FormatAssumption DEF UINT_MAX, PAD_ALIGN
  <2>4. file.hdr[0].hpos < UINT_MAX <=> file.hdr[0].hpos < 2 ^ W
    BY <2>1, <2>3
  <2>5. file.size < UINT_MAX => file.hdr[0].hpos < UINT_MAX
    BY <2>1, <2>2, <2>3
  <2> QED BY <2>1, <2>4, <2>5 DEF MapBits, Width
<1> QED BY <1>1, RoundTripInvariant, PTL

\* Each hash table starts where the one before it ends, and the last one ends
\* with the file: mcdb_validate_slots accepts every file mcdb_make finishes.
THEOREM SlotsValidate == Spec => [](file # NoFile => ValidateSlots)
<1>1. RoundTripInv /\ StrideAgrees => (file # NoFile => ValidateSlots)
  <2> SUFFICES ASSUME RoundTripInv, StrideAgrees, file # NoFile PROVE ValidateSlots
    OBVIOUS
  <2>1. TablesTo(file.hdr, SLOTS, file.size) /\ HEADER_SZ =< file.size
    BY FileHeader DEF RoundTripInv
  <2>2. Stride = 2 ^ bits
    BY DEF StrideAgrees, Stride
  <2>3. Slots \ {0} = 1 .. SLOTS - 1
    BY SlotsAre DEF Slots
  <2> QED BY <2>1, <2>2, <2>3 DEF TablesTo, ValidateSlots
<1> QED BY <1>1, RoundTripInvariant, WidthsAgree, PTL

\* Twice the counts add up to twice the sum.
LEMMA TwiceAddsUp ==
    ASSUME NEW c \in [Slots -> Nat], NEW n \in Nat, AddUpTo(c, n)
    PROVE  AddUpTo([s \in Slots |-> 2 * c[s]], 2 * n)
<1>1. PICK p \in [-1 .. SLOTS - 1 -> 0 .. n] :
         p[-1] = 0 /\ p[SLOTS - 1] = n /\ \A s \in Slots : p[s] = p[s - 1] + c[s]
  BY DEF AddUpTo
<1> DEFINE d == [s \in Slots |-> 2 * c[s]]
           q == [s \in -1 .. SLOTS - 1 |-> 2 * p[s]]
<1>2. \A s \in Slots : s \in -1 .. SLOTS - 1 /\ s - 1 \in -1 .. SLOTS - 1
  BY PowerAssumption DEF Slots
<1>3. q \in [-1 .. SLOTS - 1 -> 0 .. 2 * n]
  <2>1. \A x \in 0 .. n : 2 * x \in 0 .. 2 * n
    OBVIOUS
  <2> QED BY <2>1
<1>4. q[-1] = 0 /\ q[SLOTS - 1] = 2 * n
  BY <1>1, PowerAssumption
<1>5. ASSUME NEW s \in Slots PROVE q[s] = q[s - 1] + d[s]
  <2>1. p[s] = p[s - 1] + c[s] /\ p[s] \in Nat /\ p[s - 1] \in Nat /\ c[s] \in Nat
    BY <1>1, <1>2
  <2>2. q[s] = 2 * p[s] /\ q[s - 1] = 2 * p[s - 1] /\ d[s] = 2 * c[s]
    BY <1>2
  <2> HIDE DEF q, d
  <2> QED BY <2>1, <2>2
<1> HIDE DEF q, d
<1>6. AddUpTo(d, 2 * n)
  BY <1>3, <1>4, <1>5 DEF AddUpTo
<1> QED BY <1>6 DEF d

\* mcdb_numrecs adds the sizes of the tables, and halves the sum.
LEMMA NumRecsIs ==
    ASSUME CountInv, count \in [Slots -> Nat], Len(added) \in Nat, file # NoFile
    PROVE  NumRecs = Len(added)
<1> DEFINE c == [s \in Slots |-> 2 * count[s]]
           n == 2 * Len(added)
           F == CHOOSE f : f = [s \in -1 .. SLOTS - 1 |->
                    IF s = -1 THEN 0 ELSE (f[s - 1] + file.hdr[s].hslots) % 2 ^ W]
<1>1. Len(added) =< INT_MAX /\ AddUpTo(count, Len(added))
  BY DEF CountInv
<1>2. n \in 0 .. UINT_MAX /\ n \in Nat
  BY <1>1, PowerAssumption
<1>3. AddUpTo(c, n)
  BY <1>1, TwiceAddsUp
<1>4. c \in [Slots -> Nat]
  OBVIOUS
<1>5. \A s \in Slots : file.hdr[s].hslots = c[s]
  BY <1>1, TableFits DEF CountInv
<1>6. \A s \in -1 .. SLOTS - 1 : s # -1 => s \in Slots
  BY PowerAssumption DEF Slots
<1>7. n \div 2 = Len(added)
  OBVIOUS
<1>8. NumRecs = F[SLOTS - 1] \div 2
  BY DEF NumRecs
<1> HIDE DEF c, n
<1>9. F = [s \in -1 .. SLOTS - 1 |-> IF s = -1 THEN 0 ELSE (F[s - 1] + file.hdr[s].hslots) % 2 ^ W]
  <2>1. PICK G : G = [s \in -1 .. SLOTS - 1 |-> IF s = -1 THEN 0 ELSE (G[s - 1] + c[s]) % 2 ^ W]
    BY <1>2, <1>3, <1>4, SomeSum
  <2>2. \A s \in -1 .. SLOTS - 1 :
           G[s] = IF s = -1 THEN 0 ELSE (G[s - 1] + file.hdr[s].hslots) % 2 ^ W
    BY <2>1, <1>5, <1>6
  <2>3. G = [s \in -1 .. SLOTS - 1 |-> G[s]]
    BY <2>1
  <2>4. G = [s \in -1 .. SLOTS - 1 |->
                IF s = -1 THEN 0 ELSE (G[s - 1] + file.hdr[s].hslots) % 2 ^ W]
    BY <2>2, <2>3
  <2> QED BY <2>4
<1> HIDE DEF F
<1>10. \A s \in -1 .. SLOTS - 1 : F[s] = IF s = -1 THEN 0 ELSE (F[s - 1] + c[s]) % 2 ^ W
  BY <1>5, <1>6, <1>9
<1>11. F[SLOTS - 1] = n
  BY <1>2, <1>3, <1>4, <1>10, OnlySum
<1> QED BY <1>7, <1>8, <1>11

\* mcdb_numrecs counts the records added and mcdb_validate_slots accepts the
\* file, if fewer than 2^32 records were added and no completed one was
\* reverted.
THEOREM FilesValid ==
    ASSUME RevertPrior = FALSE, MaxRecs =< UINT_MAX PROVE Spec => []FileValid
<1>1. Init => RoundTripInv /\ KeyInv /\ CountInv
  BY WindowInit, LayoutInit, RecordsInit, SearchInit, KeyInit, CountInit DEF Init, RoundTripInv
<1>2. RoundTripInv /\ KeyInv /\ CountInv /\ [Next]_vars => (RoundTripInv /\ KeyInv /\ CountInv)'
  <2> SUFFICES ASSUME RoundTripInv, KeyInv, CountInv, [Next]_vars
               PROVE  RoundTripInv' /\ KeyInv' /\ CountInv'
    OBVIOUS
  <2>1. RoundTripInv'
    BY RoundTripNext
  <2>2. [MakeNext]_makeVars
    BY NextIsMake
  <2>3. WindowInv /\ LayoutInv /\ RecordsInv
    BY DEF RoundTripInv
  <2> QED BY <2>1, <2>2, <2>3, KeyNext, CountNext
<1>3. RoundTripInv /\ CountInv /\ (file # NoFile => ValidateSlots) => FileValid
  <2> SUFFICES ASSUME RoundTripInv, CountInv, file # NoFile PROVE NumRecs = Len(added)
    BY DEF FileValid
  <2>1. Len(added) \in Nat /\ count \in [Slots -> Nat]
    BY WindowTypes DEF RoundTripInv, RecordsInv, Adjoining
  <2> QED BY <2>1, NumRecsIs
<1> QED BY <1>1, <1>2, <1>3, SlotsValidate, PTL DEF Spec

\* The writer and the reader keep the types of their structures, whichever
\* calls are made of each: struct mcdb_make, struct mcdb and struct mcdb_iter.
THEOREM TypesKept == Spec => []TypeOK
<1>1. Init => RoundTripInv /\ TypesInv
  BY TypesInit, SearchInit DEF Init, RoundTripInv, TypesInv
<1>2. RoundTripInv /\ TypesInv /\ [Next]_vars => (RoundTripInv /\ TypesInv)'
  BY RoundTripNext, NextIsMake, TypesNext
<1>3. RoundTripInv /\ TypesInv => TypeOK
  BY TypesAre DEF RoundTripInv, SearchInv, TypeOK
<1> QED BY <1>1, <1>2, <1>3, PTL DEF Spec

\* Between the calls of a search kpos is inside the hash table of its slot and
\* no more entries have been looked at than there are, and m->loop tells
\* whether the last search succeeded.
THEOREM SearchStaysInside == Spec => []FindTypeOK
<1>1. RoundTripInv => FindTypeOK
  BY DEF RoundTripInv, SearchInv
<1> QED BY <1>1, RoundTripInvariant, PTL

\* m->loop is non-zero exactly while the last search succeeded.
THEOREM LoopTellsFound == Spec => []LoopMeansFound
<1>1. RoundTripInv => LoopMeansFound
  BY DEF RoundTripInv, SearchInv
<1> QED BY <1>1, RoundTripInvariant, PTL

-----------------------------------------------------------------------------
(* What a search finds: the key looked for and that of a record, the       *)
(* places from a home on, and what is at them.                             *)

\* Whatever makes the steps gives the hash.
LEMMA HashIs ==
    ASSUME NEW h, NEW k \in Seq(Nat), NEW f, HashSteps(f, h, k) PROVE Hash(h, k) = f[Len(k)]
<1>1. Len(k) \in Nat
  OBVIOUS
<1>2. PICK g : HashSteps(g, h, k) /\ Hash(h, k) = g[Len(k)]
  BY HashHas
<1> DEFINE T == {n \in 0 .. Len(k) : f[n] # g[n]}
<1>3. T = {}
  <2>1. SUFFICES ASSUME T # {} PROVE FALSE
    OBVIOUS
  <2>2. PICK n \in T : \A y \in T : n =< y
    <3>1. T \in SUBSET Nat
      BY <1>1
    <3> QED BY <2>1, <3>1, LeastNat
  <2>3. n # 0
    BY <1>2 DEF HashSteps
  <2>4. n \in 1 .. Len(k) /\ n - 1 \in 0 .. Len(k) /\ ~ (n =< n - 1) /\ f[n] # g[n]
    BY <1>1, <2>3
  <2>5. f[n - 1] = g[n - 1]
    BY <2>2, <2>4
  <2>6. f[n] = Mix(f[n - 1], k[n]) /\ g[n] = Mix(g[n - 1], k[n])
    BY <1>2, <2>4 DEF HashSteps
  <2> QED BY <2>4, <2>5, <2>6
<1> QED BY <1>1, <1>2, <1>3

\* The hash of the tag and then of the key is that of both, as one key.
LEMMA HashJoins ==
    ASSUME NEW h, NEW a \in Seq(Nat), NEW b \in Seq(Nat)
    PROVE  Hash(Hash(h, a), b) = Hash(h, a \o b)
<1> DEFINE m == Len(a)
           n == Len(b)
<1>1. m \in Nat /\ n \in Nat /\ a \o b \in Seq(Nat) /\ Len(a \o b) = m + n
  OBVIOUS
<1>2. \A i \in 1 .. m : (a \o b)[i] = a[i]
  OBVIOUS
<1>3. \A i \in 1 .. n : (a \o b)[m + i] = b[i]
  OBVIOUS
<1>4. PICK f : HashSteps(f, h, a) /\ Hash(h, a) = f[m]
  BY HashHas
<1>5. PICK g : HashSteps(g, f[m], b) /\ Hash(f[m], b) = g[n]
  BY HashHas
<1> DEFINE c == [i \in 0 .. m + n |-> IF i =< m THEN f[i] ELSE g[i - m]]
           ab == a \o b
<1>6. \A i \in 1 .. m : ab[i] = a[i]
  BY <1>2
<1>7. \A i \in 1 .. n : ab[m + i] = b[i]
  BY <1>3
<1>8. ab \in Seq(Nat) /\ Len(ab) = m + n
  BY <1>1
<1> HIDE DEF m, n, ab
<1>9. ASSUME NEW i \in 1 .. m + n PROVE c[i] = Mix(c[i - 1], ab[i])
  <2>1. i \in 0 .. m + n /\ i - 1 \in 0 .. m + n /\ i \in Nat /\ i - 1 \in Nat
    BY <1>1
  <2>2. CASE i =< m
    <3>1. i \in 1 .. m /\ i - 1 =< m
      BY <1>1, <2>1, <2>2
    <3>2. f[i] = Mix(f[i - 1], a[i])
      BY <1>4, <3>1 DEF HashSteps, m
    <3> QED BY <1>6, <2>1, <2>2, <3>1, <3>2
  <2>3. CASE i = m + 1
    <3>1. 1 \in 1 .. n /\ i - m = 1 /\ i - 1 = m /\ ~ (i =< m)
      BY <1>1, <2>3
    <3>2. g[1] = Mix(g[0], b[1]) /\ g[0] = f[m]
      <4>1. 1 - 1 = 0
        OBVIOUS
      <4> QED BY <1>5, <3>1, <4>1 DEF HashSteps, n
    <3>3. ab[i] = b[1]
      BY <1>7, <2>3, <3>1
    <3>4. c[i] = g[1] /\ c[i - 1] = f[m]
      BY <1>1, <2>1, <3>1
    <3> QED BY <3>2, <3>3, <3>4
  <2>4. CASE i > m + 1
    <3>1. i - m \in 1 .. n /\ ~ (i =< m) /\ ~ (i - 1 =< m) /\ (i - 1) - m = (i - m) - 1 /\ m + (i - m) = i
      BY <1>1, <2>1, <2>4
    <3>2. g[i - m] = Mix(g[(i - m) - 1], b[i - m])
      BY <1>5, <3>1 DEF HashSteps, n
    <3>3. ab[i] = b[i - m]
      <4>1. ab[m + (i - m)] = b[i - m]
        BY <1>7, <3>1
      <4> QED BY <3>1, <4>1
    <3>4. c[i] = g[i - m] /\ c[i - 1] = g[(i - m) - 1]
      BY <2>1, <3>1
    <3> QED BY <3>2, <3>3, <3>4
  <2> QED BY <1>1, <2>1, <2>2, <2>3, <2>4
<1>10. c[0] = h
  BY <1>1, <1>4 DEF HashSteps
<1>11. c[m + n] = g[n]
  <2>1. CASE n = 0
    <3>1. g[0] = f[m]
      BY <1>5 DEF HashSteps
    <3> QED BY <1>1, <2>1, <3>1
  <2>2. CASE n # 0
    BY <1>1, <2>2
  <2> QED BY <2>1, <2>2
<1> HIDE DEF c
<1>12. HashSteps(c, h, ab)
  BY <1>8, <1>9, <1>10 DEF HashSteps
<1>13. Hash(h, ab) = c[m + n]
  BY <1>8, <1>12, HashIs
<1> QED BY <1>4, <1>5, <1>11, <1>13 DEF ab, m, n

\* Tag and key, looked for one after the other, are one key.
LEMMA WholeKeyIs ==
    ASSUME NEW q \in Queries
    PROVE  /\ WholeKey(q) \in Seq(Nat)
           /\ Hash(Hash(HashInit, TagSeq(q.tag)), q.key) = Hash(HashInit, WholeKey(q))
<1>1. q.key \in Seq(Nat) /\ TagSeq(q.tag) \in Seq(Nat)
  BY FindAssumption DEF TagSeq
<1> QED BY <1>1, HashJoins DEF WholeKey

\* What mcdb_findtagnext compares: the tag, then the rest of the key
LEMMA SameKey ==
    ASSUME NEW q \in Queries, NEW k \in Seq(Nat)
    PROVE  LET n == Len(TagSeq(q.tag)) IN
           (/\ Len(q.key) + n = Len(k)
            /\ q.tag = 0 \/ k[1] = q.tag
            /\ SubSeq(k, n + 1, n + Len(q.key)) = q.key) <=> k = WholeKey(q)
<1> DEFINE a == TagSeq(q.tag)
           b == q.key
           n == Len(a)
           m == Len(b)
           w == a \o b
<1>1. a \in Seq(Nat) /\ b \in Seq(Nat) /\ n \in {0, 1} /\ m \in Nat /\ (n = 0 <=> q.tag = 0)
      /\ (n = 1 => a[1] = q.tag)
  BY FindAssumption DEF TagSeq
<1>2. w \in Seq(Nat) /\ Len(w) = n + m /\ DOMAIN w = 1 .. n + m
  BY <1>1
<1>3. (\A i \in 1 .. n : w[i] = a[i]) /\ (\A i \in 1 .. m : w[n + i] = b[i])
  BY <1>1
<1>4. WholeKey(q) = w
  BY DEF WholeKey
<1>5. Len(k) \in Nat /\ DOMAIN k = 1 .. Len(k)
  OBVIOUS
<1>6. DOMAIN b = 1 .. m
  BY <1>1
<1> DEFINE c == SubSeq(k, n + 1, n + m)
<1>7. m + n = Len(k) => c \in Seq(Nat) /\ Len(c) = m /\ DOMAIN c = 1 .. m
  <2> SUFFICES ASSUME m + n = Len(k) PROVE c \in Seq(Nat) /\ Len(c) = m /\ DOMAIN c = 1 .. m
    OBVIOUS
  <2>1. n \in Nat /\ m \in Nat
    BY <1>1
  <2> HIDE DEF a, b, n, m, w
  <2>2. c \in Seq(Nat)
    BY <1>5, <2>1
  <2>3. Len(c) = m
    BY <1>5, <2>1
  <2> HIDE DEF c
  <2> QED BY <2>1, <2>2, <2>3
<1>8. m + n = Len(k) => \A i \in 1 .. m : c[i] = k[n + i]
  <2> SUFFICES ASSUME m + n = Len(k), NEW i \in 1 .. m PROVE c[i] = k[n + i]
    OBVIOUS
  <2> HIDE DEF a, b
  <2>1. c[i] = k[(n + 1) + i - 1]
    BY <1>1
  <2>2. (n + 1) + i - 1 = n + i
    BY <1>1
  <2> QED BY <2>1, <2>2
<1> HIDE DEF c, w, n, m, a, b
<1>9. ASSUME k = w PROVE m + n = Len(k) /\ (q.tag = 0 \/ k[1] = q.tag) /\ c = b
  <2>1. m + n = Len(k)
    BY <1>1, <1>2, <1>9
  <2>2. q.tag = 0 \/ k[1] = q.tag
    BY <1>1, <1>3, <1>9
  <2>3. \A i \in 1 .. m : c[i] = b[i]
    BY <1>3, <1>8, <1>9, <2>1
  <2>4. c = [i \in 1 .. m |-> c[i]] /\ b = [i \in 1 .. m |-> b[i]]
    BY <1>1, <1>6, <1>7, <2>1
  <2> QED BY <2>1, <2>2, <2>3, <2>4
<1>10. ASSUME m + n = Len(k), q.tag = 0 \/ k[1] = q.tag, c = b PROVE k = w
  <2>1. ASSUME NEW i \in 1 .. m + n PROVE k[i] = w[i]
    <3>1. CASE i =< n
      <4>1. i = 1 /\ n = 1
        BY <1>1, <3>1
      <4>2. w[1] = a[1] /\ a[1] = q.tag /\ q.tag # 0
        BY <1>1, <1>3, <4>1
      <4> QED BY <1>10, <4>1, <4>2
    <3>2. CASE ~ (i =< n)
      <4>1. i - n \in 1 .. m /\ n + (i - n) = i
        BY <1>1, <3>2
      <4>2. c[i - n] = k[n + (i - n)] /\ w[n + (i - n)] = b[i - n]
        BY <1>3, <1>8, <1>10, <4>1
      <4> QED BY <1>10, <4>1, <4>2
    <3> QED BY <3>1, <3>2
  <2>2. k = [i \in 1 .. m + n |-> k[i]] /\ w = [i \in 1 .. m + n |-> w[i]]
    BY <1>1, <1>2, <1>5, <1>10
  <2> QED BY <2>1, <2>2
<1>11. (m + n = Len(k) /\ (q.tag = 0 \/ k[1] = q.tag) /\ c = b) <=> k = WholeKey(q)
  BY <1>4, <1>9, <1>10
<1> QED BY <1>11 DEF c, a, b, n, m

\* An entry matches if its record was added under the key looked for.
LEMMA MatchesIs ==
    ASSUME Adjoining(added), file.recs = Range(added), find.q \in Queries,
           find.khash = Hash(HashInit, WholeKey(find.q)), NEW r \in Range(added),
           NEW e, e.h = Hash(HashInit, r.k), e.l = Len(r.k), e.v = r.p
    PROVE  /\ r \in Recs
           /\ Matches(e) <=> r.k = WholeKey(find.q)
           /\ r.p \in Wanted(find.q) <=> r.k = WholeKey(find.q)
<1>1. PICK i \in DOMAIN added : r = added[i]
  BY DEF Range
<1>2. r \in Recs /\ r.k \in Seq(Nat)
  BY <1>1, RecordAt DEF Recs
<1>3. \A x \in Range(added) : x.p = r.p => x = r
  BY <1>1, OneRecordAt
<1> DEFINE n == Len(TagSeq(find.q.tag))
           A(k) == /\ Len(find.q.key) + n = Len(k)
                   /\ find.q.tag = 0 \/ k[1] = find.q.tag
                   /\ SubSeq(k, n + 1, n + Len(find.q.key)) = find.q.key
<1>4. A(r.k) <=> r.k = WholeKey(find.q)
  BY <1>2, SameKey
<1>5. Len(r.k) \in Nat
  BY <1>2
<1>6. Matches(e) <=> e.h = find.khash /\ A(r.k)
  <2>1. Matches(e) => A(r.k) /\ e.h = find.khash
    BY <1>3 DEF Matches
  <2>2. ASSUME e.h = find.khash, A(r.k) PROVE Matches(e)
    <3>1. /\ Len(find.q.key) + n = IF MapBits = 3 THEN Len(r.k) ELSE e.l
          /\ Len(find.q.key) + n =< Len(r.k)
      <4>1. PICK x, y \in Nat : x = Len(find.q.key) + n /\ y = Len(r.k) /\ x = y /\ e.l = y
        BY <1>5, <2>2, Zenon
      <4>2. x =< y
        <5>1. \A z \in Nat : z =< z
          OBVIOUS
        <5> QED BY <4>1, <5>1, Zenon
      <4> QED BY <4>1, <4>2, Zenon
    <3>2. r \in file.recs /\ r.p = e.v
      OBVIOUS
    <3> QED BY <2>2, <3>1, <3>2, Zenon DEF Matches
  <2> QED BY <2>1, <2>2
<1>7. r.k = WholeKey(find.q) => e.h = find.khash
  OBVIOUS
<1>8. r.p \in Wanted(find.q) <=> r.k = WholeKey(find.q)
  BY <1>3 DEF Wanted
<1> HIDE DEF A
<1> QED BY <1>2, <1>4, <1>6, <1>7, <1>8

\* The places from a home on are all places of the table, each once.
LEMMA PlacesFrom ==
    ASSUME NEW len \in Nat \ {0}, NEW h \in 0 .. len - 1
    PROVE  /\ \A i \in 0 .. len - 1 : /\ (h + i) % len \in 0 .. len - 1
                                      /\ Dist((h + i) % len, h, len) = i
           /\ \A x \in 0 .. len - 1 : /\ Dist(x, h, len) \in 0 .. len - 1
                                      /\ (h + Dist(x, h, len)) % len = x
<1>1. ASSUME NEW i \in 0 .. len - 1
      PROVE  (h + i) % len \in 0 .. len - 1 /\ Dist((h + i) % len, h, len) = i
  <2>1. h + i \in Int /\ h + i \in 0 .. 2 * len - 1
    OBVIOUS
  <2>2. PICK x \in 0 .. len - 1 : x = (h + i) % len /\ x = IF h + i < len THEN h + i ELSE h + i - len
    <3>1. CASE h + i < len
      <4>1. h + i \in 0 .. len - 1
        BY <2>1, <3>1
      <4>2. (h + i) % len = h + i
        BY <2>1, <4>1, Remainder
      <4> QED BY <3>1, <4>1, <4>2
    <3>2. CASE ~ (h + i < len)
      <4>1. h + i \in len .. 2 * len - 1 /\ h + i - len \in 0 .. len - 1
        BY <2>1, <3>2
      <4>2. (h + i) % len = h + i - len
        BY <2>1, <4>1, Remainder
      <4> QED BY <3>2, <4>1, <4>2
    <3> QED BY <3>1, <3>2
  <2>3. Dist(x, h, len) = IF x >= h THEN x - h ELSE x - h + len
    BY DistIs
  <2>4. Dist(x, h, len) = i
    BY <2>2, <2>3
  <2> QED BY <2>2, <2>4
<1>2. ASSUME NEW x \in 0 .. len - 1
      PROVE  Dist(x, h, len) \in 0 .. len - 1 /\ (h + Dist(x, h, len)) % len = x
  <2>1. PICK d \in 0 .. len - 1 : d = Dist(x, h, len) /\ d = IF x >= h THEN x - h ELSE x - h + len
    BY DistIs
  <2>2. (h + d) % len \in 0 .. len - 1 /\ Dist((h + d) % len, h, len) = d
    BY <1>1
  <2>3. PICK y \in 0 .. len - 1 : y = (h + d) % len /\ Dist(y, h, len) = d
    BY <2>2
  <2>4. d = IF y >= h THEN y - h ELSE y - h + len
    BY <2>3, DistIs
  <2>5. y = x
    BY <2>1, <2>4
  <2> QED BY <2>1, <2>3, <2>5
<1> QED BY <1>1, <1>2

\* kpos moves on along the places, one by one.
LEMMA KposIs ==
    ASSUME find.hslots \in Nat \ {0}, find.hpos \in Nat, find.khash \in 0 .. UINT_MAX,
           find.loop \in 0 .. find.hslots, find.kpos = PlaceAt(find.loop),
           NEW i \in Nat, find.loop + i =< find.hslots
    PROVE  Kpos(i) = PlaceAt(find.loop + i)
<1> DEFINE len == find.hslots
           l   == find.loop
           h   == Home(find.khash, len)
           a   == (h + l) % len
<1>1. h \in 0 .. len - 1
  BY SlotOfHash
<1>2. len \in Nat \ {0} /\ l \in 0 .. len /\ l + i =< len
  OBVIOUS
<1>3. find.kpos = find.hpos + a * Stride
  BY DEF PlaceAt
<1>4. PlaceAt(l + i) = find.hpos + ((h + (l + i)) % len) * Stride
  BY DEF PlaceAt
<1>5. Kpos(i) = find.hpos + (((find.kpos - find.hpos) \div Stride + i) % len) * Stride
  BY DEF Kpos
<1> HIDE DEF h, l, len
<1>6. h + l \in Int /\ h + l \in 0 .. 2 * len - 1 /\ h + (l + i) \in 0 .. 2 * len - 1 /\ h + (l + i) \in Int
  BY <1>1, <1>2
<1>7. a \in 0 .. len - 1 /\ (a + i) % len = (h + (l + i)) % len
  <2>1. CASE h + l < len
    <3>1. h + l \in 0 .. len - 1
      BY <1>1, <1>2, <1>6, <2>1
    <3>2. a = h + l
      BY <1>2, <1>6, <3>1, Remainder
    <3>3. a + i = h + (l + i)
      BY <1>1, <1>2, <3>2
    <3> QED BY <3>1, <3>2, <3>3
  <2>2. CASE ~ (h + l < len)
    <3>1. h + l \in len .. 2 * len - 1 /\ h + (l + i) \in len .. 2 * len - 1
      BY <1>1, <1>2, <1>6, <2>2
    <3>2. a = h + l - len /\ (h + (l + i)) % len = h + (l + i) - len
      <4>1. PICK u \in Int, v \in Int : /\ u = h + l /\ u \in len .. 2 * len - 1
                                        /\ v = h + (l + i) /\ v \in len .. 2 * len - 1
        BY <1>6, <3>1
      <4>2. u % len = u - len
        BY <1>2, <4>1, Remainder
      <4>3. v % len = v - len
        BY <1>2, <4>1, Remainder
      <4>4. a = u % len /\ (h + (l + i)) % len = v % len
        BY <4>1, Zenon
      <4>5. u - len = h + l - len /\ v - len = h + (l + i) - len
        BY <1>1, <1>2, <4>1
      <4> QED BY <4>2, <4>3, <4>4, <4>5, Zenon
    <3>3. PICK x \in 0 .. len - 1 : x = h + (l + i) - len
      BY <1>1, <1>2, <3>1
    <3>4. x \in Int /\ x % len = x
      BY <1>2, <3>3, Remainder
    <3>5. a + i = x
      BY <1>1, <1>2, <3>2, <3>3
    <3>6. a \in 0 .. len - 1
      BY <1>1, <1>2, <3>1, <3>2
    <3> QED BY <3>2, <3>3, <3>4, <3>5, <3>6
  <2> QED BY <2>1, <2>2
<1> HIDE DEF a
<1>8. (find.kpos - find.hpos) \div Stride = a
  <2>1. PICK z \in {8, 16} : z = Stride
    BY StrideIs
  <2>2. (a * z) \div z = a
    BY <1>7, <2>1
  <2>3. find.kpos - find.hpos = a * z
    BY <1>3, <1>7, <2>1
  <2> QED BY <2>1, <2>2, <2>3
<1> QED BY <1>4, <1>5, <1>7, <1>8 DEF l

LEMMA EntryIs ==
    ASSUME find.hslots \in Nat \ {0}, find.hpos \in Nat, find.khash \in 0 .. UINT_MAX,
           find.loop \in 0 .. find.hslots, find.kpos = PlaceAt(find.loop),
           NEW i \in Nat, find.loop + i =< find.hslots
    PROVE  EntryAt(i) = Here(find.loop + i)
BY KposIs DEF EntryAt, Here

\* Reader and writer agree on the width of an entry.
LEMMA WidthIs == ASSUME RoundTripInv, StrideAgrees, file # NoFile PROVE Stride = 2 ^ bits
BY DEF StrideAgrees, Stride

\* The table that a search goes through
FileTable(t) ==
    LET s == SlotOf(find.khash) IN
    /\ TableFor(t, s, find.hslots)
    /\ \A i \in 0 .. find.hslots - 1 :
          {e \in file.tab : e.at = find.hpos + i * Stride} =
              IF t[i].p = 0 THEN {}
              ELSE {[at |-> find.hpos + i * Stride, h |-> t[i].h, l |-> t[i].l, v |-> t[i].p]}

LEMMA TableFound ==
    ASSUME RoundTripInv, StrideAgrees, TablesInv, file # NoFile, find.khash \in 0 .. UINT_MAX,
           file.hdr[SlotOf(find.khash)] = [hpos |-> find.hpos, hslots |-> find.hslots],
           ShortTable
    PROVE  \E t : FileTable(t)
<1> DEFINE s == SlotOf(find.khash)
<1>1. SLOTS \in Nat \ {0} /\ find.khash \in Nat
  BY PowerAssumption
<1>2. s \in 0 .. SLOTS - 1
  BY <1>1 DEF SlotOf
<1>3. file.hdr[s].hpos = find.hpos /\ file.hdr[s].hslots = find.hslots
  OBVIOUS
<1> HIDE DEF s
<1>4. PICK t : TableFor(t, s, file.hdr[s].hslots) /\ Stored(file.tab, t, file.hdr[s].hpos, file.hdr[s].hslots)
  <2>1. file.hdr[s].hslots =< 2 ^ (W - bits)
    BY <1>3 DEF ShortTable, StrideAgrees
  <2> QED BY <1>2, <2>1 DEF TablesInv, OpenTables
<1>5. TableFor(t, s, find.hslots) /\ Stored(file.tab, t, find.hpos, find.hslots)
  BY <1>3, <1>4
<1>6. Stride = 2 ^ bits
  BY WidthIs
<1> QED BY <1>5, <1>6 DEF FileTable, Stored, s

\* What a search meets: at each place no entry or one, which matches if its
\* record is wanted; no record twice; and each wanted record before the first
\* empty place.
Met ==
    LET places == 0 .. find.hslots - 1 IN
    /\ \A i \in places : Here(i) = {} \/ \E e : Here(i) = {e}
    /\ \A i \in places : \A e \in Here(i) : e.v \in Nat /\ (Matches(e) <=> e.v \in Wanted(find.q))
    /\ \A i, j \in places : \A e \in Here(i), f \in Here(j) : e.v = f.v => i = j
    /\ \A p \in Wanted(find.q) : \E i \in places : /\ \E e \in Here(i) : e.v = p
                                                   /\ \A j \in 0 .. i - 1 : Here(j) # {}

LEMMA SearchMeets ==
    ASSUME RoundTripInv, StrideAgrees, TablesInv, file # NoFile, find.khash \in 0 .. UINT_MAX,
           find.hslots \in Nat \ {0}, find.hpos \in Nat, find.q \in Queries,
           find.khash = Hash(HashInit, WholeKey(find.q)),
           file.hdr[SlotOf(find.khash)] = [hpos |-> find.hpos, hslots |-> find.hslots],
           ShortTable
    PROVE  Met
<1> DEFINE len == find.hslots
           h   == Home(find.khash, len)
           s   == SlotOf(find.khash)
           P   == 0 .. len - 1
           Nth(i) == (h + i) % len
           z   == Stride
<1>1. PICK t : FileTable(t)
  BY TableFound
<1>2. h \in P /\ len \in Nat \ {0} /\ z \in {8, 16} /\ find.hpos \in Nat
  BY SlotOfHash, StrideIs
<1>3. \A i : PlaceAt(i) = find.hpos + Nth(i) * z
  BY DEF PlaceAt
<1>4. RecordsInv /\ file.recs = Range(added) /\ Adjoining(added)
  BY DEF RoundTripInv, RecordsInv
<1>5. TableFor(t, s, len)
  BY <1>1 DEF FileTable
<1>6. \A x \in P : {e \in file.tab : e.at = find.hpos + x * z} =
              IF t[x].p = 0 THEN {}
              ELSE {[at |-> find.hpos + x * z, h |-> t[x].h, l |-> t[x].l, v |-> t[x].p]}
  BY <1>1 DEF FileTable
<1> HIDE DEF len, h, s, z
<1>7. /\ \A i \in P : Nth(i) \in P /\ Dist(Nth(i), h, len) = i
      /\ \A x \in P : Dist(x, h, len) \in P /\ Nth(Dist(x, h, len)) = x
  BY <1>2, PlacesFrom
<1> HIDE DEF Nth
<1>8. \A i \in P : Here(i) = IF t[Nth(i)].p = 0 THEN {}
              ELSE {[at |-> find.hpos + Nth(i) * z, h |-> t[Nth(i)].h, l |-> t[Nth(i)].l, v |-> t[Nth(i)].p]}
  BY <1>3, <1>6, <1>7 DEF Here
<1>9. ASSUME NEW i \in P, NEW e \in Here(i)
      PROVE  /\ t[Nth(i)].p # 0 /\ e.h = t[Nth(i)].h /\ e.l = t[Nth(i)].l /\ e.v = t[Nth(i)].p
             /\ t[Nth(i)] \in Listed
  <2>1. t[Nth(i)].p # 0 /\ e.h = t[Nth(i)].h /\ e.l = t[Nth(i)].l /\ e.v = t[Nth(i)].p
    BY <1>8, <1>9
  <2> QED BY <1>5, <1>7, <2>1 DEF TableFor, P
<1>10. \A i \in P : Here(i) = {} \/ \E e : Here(i) = {e}
  BY <1>8
<1>11. ASSUME NEW i \in P, NEW e \in Here(i) PROVE e.v \in Nat /\ (Matches(e) <=> e.v \in Wanted(find.q))
  <2>1. PICK r \in Range(added) : t[Nth(i)] = EntryOf(r) /\ r \in Recs
    BY <1>4, <1>9, <1>11, ListedAt
  <2>2. e.h = Hash(HashInit, r.k) /\ e.l = Len(r.k) /\ e.v = r.p /\ r.p \in Nat
    BY <1>9, <1>11, <2>1 DEF EntryOf, Recs
  <2> QED BY <1>4, <2>2, MatchesIs
<1>12. ASSUME NEW i \in P, NEW j \in P, NEW e \in Here(i), NEW f \in Here(j), e.v = f.v PROVE i = j
  <2>1. t[Nth(i)].p # 0 /\ t[Nth(i)].p = t[Nth(j)].p
    BY <1>9, <1>12
  <2>2. Nth(i) = Nth(j)
    BY <1>5, <1>7, <2>1 DEF TableFor, P
  <2>3. Dist(Nth(i), h, len) = i /\ Dist(Nth(j), h, len) = j
    BY <1>7
  <2> QED BY <2>2, <2>3
<1>13. ASSUME NEW p \in Wanted(find.q)
       PROVE  \E i \in P : (\E e \in Here(i) : e.v = p) /\ \A j \in 0 .. i - 1 : Here(j) # {}
  <2>1. PICK r \in Range(added) : r.k = WholeKey(find.q) /\ p = r.p
    BY DEF Wanted
  <2>2. p \in PosOf(s)
    BY <2>1 DEF PosOf, s
  <2>3. PICK x \in P : t[x].p = p /\ p # 0
    BY <1>5, <2>2 DEF TableFor, P
  <2>4. PICK y \in Range(added) : t[x] = EntryOf(y)
    BY <1>5, <2>3 DEF TableFor, P, Listed
  <2>5. y = r
    <3>1. PICK n \in DOMAIN added : r = added[n]
      BY DEF Range
    <3>2. y.p = r.p
      BY <2>1, <2>3, <2>4 DEF EntryOf
    <3> QED BY <1>4, <3>1, <3>2, OneRecordAt
  <2>6. t[x].h = find.khash /\ Home(t[x].h, len) = h
    BY <2>1, <2>4, <2>5 DEF EntryOf, h
  <2>7. PICK i \in P : i = Dist(x, h, len) /\ Nth(i) = x
    BY <1>7
  <2>8. \E e \in Here(i) : e.v = p
    <3>1. Here(i) = {[at |-> find.hpos + x * z, h |-> t[x].h, l |-> t[x].l, v |-> t[x].p]}
      BY <1>8, <2>3, <2>7
    <3> QED BY <2>3, <3>1
  <2>9. ASSUME NEW j \in 0 .. i - 1 PROVE Here(j) # {}
    <3>1. j \in P /\ j < i
      BY <1>2
    <3>2. Nth(j) \in P /\ Dist(Nth(j), h, len) = j
      BY <1>7, <3>1
    <3>3. t[Nth(j)].p # 0
      <4>1. Dist(Nth(j), Home(t[x].h, len), len) < Dist(x, Home(t[x].h, len), len)
        BY <2>6, <2>7, <3>1, <3>2
      <4>2. t[x].p # 0
        BY <2>3
      <4> QED BY <1>5, <3>2, <4>1, <4>2 DEF TableFor, Probed, P
    <3> QED BY <1>8, <3>1, <3>3
  <2> QED BY <2>8, <2>9
<1> QED BY <1>10, <1>11, <1>12, <1>13 DEF Met, P, len

\* A search that is under way
LEMMA UnderWay ==
    ASSUME RoundTripInv, StrideAgrees, TablesInv, FindInv, ShortTable, st \in {"start", "next"}
    PROVE  /\ SearchAt /\ Met /\ file # NoFile
           /\ find.hslots \in Nat \ {0} /\ find.hpos \in Nat /\ find.khash \in 0 .. UINT_MAX
           /\ find.loop \in 0 .. find.hslots
           /\ \A i \in 0 .. find.hslots - find.loop : EntryAt(i) = Here(find.loop + i)
           /\ Passed \in 0 .. find.hslots - find.loop /\ Stops(Passed)
           /\ \A j \in 0 .. Passed - 1 : ~Stops(j)
<1>1. SearchAt
  BY DEF FindInv
<1>2. /\ find.hslots \in Nat /\ find.hpos \in Nat /\ find.khash \in 0 .. UINT_MAX
      /\ find.loop \in 0 .. find.hslots /\ file # NoFile
  BY DEF RoundTripInv, SearchInv, FindTypeOK
<1>3. find.hslots # 0 /\ find.kpos = PlaceAt(find.loop)
  BY <1>1 DEF SearchAt
<1>4. Met
  BY <1>1, <1>2, <1>3, SearchMeets DEF SearchAt
<1>5. ASSUME NEW i \in 0 .. find.hslots - find.loop PROVE EntryAt(i) = Here(find.loop + i)
  <2>1. i \in Nat /\ find.loop + i =< find.hslots
    BY <1>2
  <2> QED BY <1>2, <1>3, <2>1, EntryIs
<1>6. /\ Passed \in 0 .. find.hslots - find.loop /\ Stops(Passed)
      /\ \A j \in 0 .. Passed - 1 : ~Stops(j)
  BY <1>2, PassedIs
<1> QED BY <1>1, <1>2, <1>3, <1>4, <1>5, <1>6

\* What is passed over is not wanted.
LEMMA PassedOver ==
    ASSUME RoundTripInv, StrideAgrees, TablesInv, FindInv, ShortTable, st \in {"start", "next"}
    PROVE  /\ \A i \in 0 .. (find.loop + Passed) - 1 :
                 i \in 0 .. find.hslots - 1 /\ \E e : Here(i) = {e}
           /\ Range(got) = {p \in Wanted(find.q) :
                               \E i \in 0 .. (find.loop + Passed) - 1 : \E e \in Here(i) : e.v = p}
<1> DEFINE l   == find.loop
           n   == Passed
           len == find.hslots
<1>1. /\ SearchAt /\ Met /\ len \in Nat \ {0} /\ l \in 0 .. len /\ n \in 0 .. len - l
      /\ \A i \in 0 .. len - l : EntryAt(i) = Here(l + i)
      /\ \A j \in 0 .. n - 1 : ~Stops(j)
  BY UnderWay
<1>2. /\ \A i \in 0 .. l - 1 : Here(i) # {}
      /\ Range(got) = {p \in Wanted(find.q) : \E i \in 0 .. l - 1 : \E e \in Here(i) : e.v = p}
  BY <1>1 DEF SearchAt
<1>3. /\ \A i \in 0 .. len - 1 : Here(i) = {} \/ \E e : Here(i) = {e}
      /\ \A i \in 0 .. len - 1 : \A e \in Here(i) : e.v \in Nat /\ (Matches(e) <=> e.v \in Wanted(find.q))
  BY <1>1 DEF Met
<1> HIDE DEF l, n, len
<1>4. ASSUME NEW j \in 0 .. n - 1 PROVE Here(l + j) # {} /\ \A e \in Here(l + j) : e.v \notin Wanted(find.q)
  <2>1. j \in 0 .. len - l /\ l + j \in 0 .. len - 1
    BY <1>1
  <2>2. EntryAt(j) # {} /\ \A e \in EntryAt(j) : ~Matches(e)
    BY <1>1 DEF Stops
  <2> QED BY <1>1, <1>3, <2>1, <2>2
<1>5. ASSUME NEW i \in 0 .. (l + n) - 1, ~ (i \in 0 .. l - 1) PROVE i - l \in 0 .. n - 1 /\ l + (i - l) = i
  BY <1>1, <1>5
<1>6. ASSUME NEW i \in 0 .. (l + n) - 1 PROVE i \in 0 .. len - 1 /\ \E e : Here(i) = {e}
  <2>1. i \in 0 .. len - 1
    BY <1>1
  <2>2. Here(i) # {}
    BY <1>2, <1>4, <1>5
  <2> QED BY <1>3, <2>1, <2>2
<1>7. \A i \in 0 .. l - 1 : i \in 0 .. (l + n) - 1
  BY <1>1
<1>8. Range(got) = {p \in Wanted(find.q) : \E i \in 0 .. (l + n) - 1 : \E e \in Here(i) : e.v = p}
  <2>1. ASSUME NEW p \in Wanted(find.q), NEW i \in 0 .. (l + n) - 1, NEW e \in Here(i), e.v = p
        PROVE  i \in 0 .. l - 1
    BY <1>4, <1>5, <2>1
  <2> QED BY <1>2, <1>7, <2>1
<1> QED BY <1>6, <1>8 DEF l, n, len

\* mcdb_findtagnext returns false: what is left of the table has no record
\* that is wanted.
LEMMA SearchOver ==
    ASSUME RoundTripInv, StrideAgrees, TablesInv, FindInv, ShortTable, FindNextEnds, added' = added
    PROVE  FindExact' /\ (st' # "end" => SearchAt')
<1> DEFINE m == find.loop + Passed
<1>1. /\ st \in {"start", "next"} /\ (Exhausted \/ EntryAt(Passed) = {}) /\ got' = got
      /\ st' = "end" /\ UNCHANGED <<ptr, nquery, file>>
      /\ find' = [find EXCEPT !.kpos = Kpos(IF Exhausted THEN Passed ELSE Passed + 1), !.loop = 0]
  BY DEF FindNextEnds
<1>2. /\ SearchAt /\ Met /\ find.hslots \in Nat \ {0} /\ find.loop \in 0 .. find.hslots
      /\ Passed \in 0 .. find.hslots - find.loop
      /\ \A i \in 0 .. find.hslots - find.loop : EntryAt(i) = Here(find.loop + i)
  BY <1>1, UnderWay
<1>3. Range(got) = {p \in Wanted(find.q) : \E i \in 0 .. m - 1 : \E e \in Here(i) : e.v = p}
  BY <1>1, PassedOver
<1>4. m = find.hslots \/ Here(m) = {}
  BY <1>1, <1>2 DEF Exhausted
<1>5. m \in 0 .. find.hslots
  BY <1>2
<1> HIDE DEF m
<1>6. ASSUME NEW p \in Wanted(find.q) PROVE \E i \in 0 .. m - 1 : \E e \in Here(i) : e.v = p
  <2>1. PICK i \in 0 .. find.hslots - 1 : (\E e \in Here(i) : e.v = p) /\ \A j \in 0 .. i - 1 : Here(j) # {}
    BY <1>2 DEF Met
  <2>2. i # m \/ m = find.hslots
    BY <1>4, <2>1
  <2>3. ~ (m < i)
    <3>1. ASSUME m < i PROVE FALSE
      <4>1. m \in 0 .. i - 1 /\ m # find.hslots
        BY <1>2, <1>5, <3>1
      <4> QED BY <1>4, <2>1, <4>1
    <3> QED BY <3>1
  <2>4. i \in 0 .. m - 1
    BY <1>2, <1>5, <2>2, <2>3
  <2> QED BY <2>1, <2>4
<1>7. Range(got) = Wanted(find.q)
  BY <1>3, <1>6
<1>8. IsInjective(got)
  BY <1>2 DEF SearchAt
<1>9. find'.q = find.q
  <2>1. PICK a, b, c, d, f, g :
           find = [q |-> a, khash |-> b, hpos |-> c, hslots |-> d, kpos |-> f, loop |-> g]
    BY DEF RoundTripInv, SearchInv
  <2> QED BY <1>1, <2>1
<1>10. Wanted(find.q)' = Wanted(find.q)
  BY <1>9 DEF Wanted, WholeKey, TagSeq
<1> QED BY <1>1, <1>7, <1>8, <1>10 DEF FindExact

\* mcdb_findtagnext returns true: the record is wanted, and was not returned
\* before.
LEMMA SearchGoesOn ==
    ASSUME RoundTripInv, StrideAgrees, TablesInv, FindInv, ShortTable, FindNextFound, added' = added
    PROVE  FindExact' /\ (st' # "end" => SearchAt')
<1> DEFINE m == find.loop + Passed
<1>1. /\ st \in {"start", "next"} /\ ~Exhausted /\ \E e \in EntryAt(Passed) : got' = Append(got, e.v)
      /\ st' = "next" /\ file' = file
      /\ find' = [find EXCEPT !.kpos = Kpos(Passed + 1), !.loop = @ + Passed + 1]
  BY DEF FindNextFound
<1>2. /\ SearchAt /\ Met /\ find.hslots \in Nat \ {0} /\ find.loop \in 0 .. find.hslots
      /\ find.hpos \in Nat /\ find.khash \in 0 .. UINT_MAX
      /\ Passed \in 0 .. find.hslots - find.loop /\ Stops(Passed)
      /\ \A i \in 0 .. find.hslots - find.loop : EntryAt(i) = Here(find.loop + i)
  BY <1>1, UnderWay
<1>3. /\ Range(got) = {p \in Wanted(find.q) : \E i \in 0 .. m - 1 : \E e \in Here(i) : e.v = p}
      /\ \A i \in 0 .. m - 1 : i \in 0 .. find.hslots - 1 /\ \E e : Here(i) = {e}
  BY <1>1, PassedOver
<1>4. Passed # find.hslots - find.loop
  BY <1>1 DEF Exhausted
<1>5. m \in 0 .. find.hslots - 1 /\ EntryAt(Passed) = Here(m) /\ find.loop + Passed + 1 = m + 1
  BY <1>2, <1>4
<1>6. PICK e \in Here(m) : /\ got' = Append(got, e.v) /\ Here(m) = {e}
                           /\ e.v \in Nat /\ (Matches(e) <=> e.v \in Wanted(find.q))
  <2> HIDE DEF m
  <2>1. PICK e \in Here(m) : got' = Append(got, e.v)
    BY <1>1, <1>5
  <2>2. \E f : Here(m) = {f}
    BY <1>2, <1>5 DEF Met
  <2>3. e.v \in Nat /\ (Matches(e) <=> e.v \in Wanted(find.q))
    BY <1>2, <1>5, <2>1 DEF Met
  <2>4. Here(m) = {e}
    BY <2>1, <2>2
  <2> QED BY <2>1, <2>3, <2>4
<1>7. Matches(e)
  BY <1>2, <1>4, <1>5, <1>6 DEF Stops
<1>8. got \in Seq(Nat) /\ IsInjective(got)
  BY <1>2 DEF SearchAt
<1>9. Kpos(Passed + 1) = PlaceAt(m + 1)
  <2>1. find.loop + (Passed + 1) = m + 1 /\ Passed + 1 \in Nat /\ find.loop + (Passed + 1) =< find.hslots
    BY <1>2, <1>4
  <2>2. find.kpos = PlaceAt(find.loop)
    BY <1>2 DEF SearchAt
  <2> QED BY <1>2, <2>1, <2>2, KposIs
<1> HIDE DEF m
<1>10. e.v \notin Range(got)
  <2>1. SUFFICES ASSUME NEW i \in 0 .. m - 1, NEW f \in Here(i), f.v = e.v PROVE FALSE
    BY <1>3
  <2>2. i \in 0 .. find.hslots - 1
    BY <1>3
  <2>3. i = m
    BY <1>2, <1>5, <2>1, <2>2 DEF Met
  <2> QED BY <1>5, <2>3
<1>11. /\ got' \in Seq(Nat) /\ IsInjective(got') /\ Range(got') = Range(got) \cup {e.v}
  <2>1. PICK x \in Nat : x = e.v /\ got' = Append(got, x) /\ x \notin Range(got)
    BY <1>6, <1>10
  <2>2. DOMAIN got = 1 .. Len(got) /\ Len(got) \in Nat
    BY <1>8
  <2>3. /\ got' \in Seq(Nat) /\ DOMAIN got' = 1 .. Len(got) + 1
        /\ got'[Len(got) + 1] = x /\ \A i \in 1 .. Len(got) : got'[i] = got[i]
    BY <1>8, <2>1
  <2>4. \A i \in 1 .. Len(got) + 1 : i \in 1 .. Len(got) \/ i = Len(got) + 1
    BY <2>2
  <2>5. \A i \in 1 .. Len(got) : i \in 1 .. Len(got) + 1 /\ got[i] # x
    BY <2>1, <2>2 DEF Range
  <2>6. Len(got) + 1 \in 1 .. Len(got) + 1
    BY <2>2
  <2>7. Range(got') = Range(got) \cup {x}
    BY <2>2, <2>3, <2>4, <2>5, <2>6 DEF Range
  <2>8. IsInjective(got')
    BY <1>8, <2>2, <2>3, <2>4, <2>5 DEF IsInjective
  <2> QED BY <2>1, <2>3, <2>7, <2>8
<1>12. Range(got') = {p \in Wanted(find.q) : \E i \in 0 .. (m + 1) - 1 : \E f \in Here(i) : f.v = p}
  <2>1. \A i : i \in 0 .. (m + 1) - 1 <=> i \in 0 .. m - 1 \/ i = m
    BY <1>5
  <2>2. e.v \in Wanted(find.q)
    BY <1>6, <1>7
  <2> QED BY <1>3, <1>6, <1>11, <2>1, <2>2
<1>13. \A i \in 0 .. (m + 1) - 1 : Here(i) # {}
  <2>1. \A i \in 0 .. (m + 1) - 1 : i \in 0 .. m - 1 \/ i = m
    BY <1>5
  <2> QED BY <1>3, <1>6, <2>1
<1>14. find' = [q |-> find.q, khash |-> find.khash, hpos |-> find.hpos, hslots |-> find.hslots,
                kpos |-> PlaceAt(m + 1), loop |-> m + 1]
  <2>1. PICK a, b, c, d, f, g :
           /\ find = [q |-> a, khash |-> b, hpos |-> c, hslots |-> d, kpos |-> f, loop |-> g]
           /\ a = find.q /\ b = find.khash /\ c = find.hpos /\ d = find.hslots
    BY DEF RoundTripInv, SearchInv
  <2>2. find' = [find EXCEPT !.kpos = PlaceAt(m + 1), !.loop = m + 1]
    BY <1>1, <1>5, <1>9
  <2> QED BY <2>1, <2>2
<1>15. /\ find'.q = find.q /\ find'.khash = find.khash /\ find'.hpos = find.hpos /\ find'.hslots = find.hslots
       /\ find'.kpos = PlaceAt(m + 1) /\ find'.loop = m + 1
  BY <1>14
<1>16. Stride' = Stride
  BY <1>1 DEF Stride, MapBits
<1>17. \A i : PlaceAt(i)' = PlaceAt(i) /\ Here(i)' = Here(i)
  BY <1>1, <1>15, <1>16 DEF PlaceAt, Here
<1>18. Wanted(find.q)' = Wanted(find.q) /\ WholeKey(find.q)' = WholeKey(find.q)
  BY <1>15 DEF Wanted, WholeKey, TagSeq
<1>19. /\ find.q \in Queries /\ find.khash = Hash(HashInit, WholeKey(find.q)) /\ find.hslots # 0
       /\ file.hdr[SlotOf(find.khash)] = [hpos |-> find.hpos, hslots |-> find.hslots]
  BY <1>2 DEF SearchAt
<1>20. SearchAt'
  BY <1>1, <1>11, <1>12, <1>13, <1>15, <1>17, <1>18, <1>19 DEF SearchAt
<1> QED BY <1>1, <1>20 DEF FindExact

\* mcdb_findtagstart: where the slot has no table, nothing was added under
\* its hashes.
LEMMA SearchBegins ==
    ASSUME RoundTripInv, StrideAgrees, TablesInv, file # NoFile, NEW q \in Queries, FindStart(q),
           added' = added
    PROVE  /\ \E s \in Slots : find'.hslots = 0 \/ find'.hslots = file.hdr[s].hslots
           /\ ShortTable' => FindExact' /\ (st' # "end" => SearchAt')
<1> DEFINE h == Hash(HashInit, WholeKey(q))
           s == SlotOf(h)
           e == file.hdr[s]
<1>1. Hash(Hash(HashInit, TagSeq(q.tag)), q.key) = h /\ h \in 0 .. UINT_MAX
  BY WholeKeyIs, QueryHash
<1>2. /\ file' = file /\ got' = <<>>
      /\ \/ /\ e.hslots = 0 /\ st' = "end"
            /\ find' = [find EXCEPT !.q = q, !.hpos = e.hpos, !.hslots = 0, !.loop = 0]
         \/ /\ e.hslots # 0 /\ st' = "start"
            /\ find' = [q |-> q, khash |-> h, hpos |-> e.hpos, hslots |-> e.hslots,
                        kpos |-> e.hpos + Home(h, e.hslots) * Stride, loop |-> 0]
  BY <1>1 DEF FindStart
<1> HIDE DEF h
<1>3. s \in Slots /\ s \in 0 .. SLOTS - 1
  <2>1. SLOTS \in Nat \ {0} /\ h \in Nat
    BY <1>1, PowerAssumption
  <2> QED BY <2>1 DEF SlotOf, Slots
<1>4. e \in [hpos : Nat, hslots : Nat]
  BY <1>3, FileHeader DEF RoundTripInv
<1>5. <<>> \in Seq(Nat) /\ IsInjective(<<>>) /\ Range(<<>>) = {}
  BY DEF IsInjective, Range
<1> HIDE DEF s
<1>6. CASE st' = "end"
  <2>1. e.hslots = 0 /\ find' = [find EXCEPT !.q = q, !.hpos = e.hpos, !.hslots = 0, !.loop = 0]
    BY <1>2, <1>6
  <2>2. find'.q = q /\ find'.hslots = 0
    <3>1. PICK a, b, c, d, f, g :
             find = [q |-> a, khash |-> b, hpos |-> c, hslots |-> d, kpos |-> f, loop |-> g]
      BY DEF RoundTripInv, SearchInv
    <3> QED BY <2>1, <3>1
  <2>3. PICK t : TableFor(t, s, e.hslots)
    <3>1. e.hslots =< 2 ^ (W - bits)
      <4>1. 0 =< 2 ^ (W - bits)
        <5>1. bits \in {3, 4}
          BY FileHeader DEF RoundTripInv, TablesTo, Width
        <5> QED BY <5>1, PowerAssumption
      <4> QED BY <2>1, <4>1
    <3> QED BY <1>3, <3>1 DEF TablesInv, OpenTables
  <2>4. PosOf(s) = {}
    <3>1. 0 .. e.hslots - 1 = {}
      BY <2>1
    <3> QED BY <2>3, <3>1 DEF TableFor
  <2>5. Wanted(q) = {}
    BY <2>4 DEF Wanted, PosOf, s, h
  <2>6. Wanted(find.q)' = Wanted(q)
    BY <2>2 DEF Wanted, WholeKey, TagSeq
  <2> QED BY <1>2, <1>3, <1>5, <1>6, <2>2, <2>5, <2>6 DEF FindExact
<1>7. CASE st' = "start"
  <2>1. /\ e.hslots # 0
        /\ find' = [q |-> q, khash |-> h, hpos |-> e.hpos, hslots |-> e.hslots,
                    kpos |-> e.hpos + Home(h, e.hslots) * Stride, loop |-> 0]
    BY <1>2, <1>7
  <2>2. /\ find'.q = q /\ find'.khash = h /\ find'.hpos = e.hpos /\ find'.hslots = e.hslots
        /\ find'.kpos = e.hpos + Home(h, e.hslots) * Stride /\ find'.loop = 0
    BY <2>1
  <2>3. Stride' = Stride
    BY <1>2 DEF Stride, MapBits
  <2>4. (Home(h, e.hslots) + 0) % e.hslots = Home(h, e.hslots)
    <3>1. Home(h, e.hslots) \in 0 .. e.hslots - 1 /\ e.hslots \in Nat \ {0}
      BY <1>1, <1>4, <2>1, SlotOfHash
    <3>2. PICK x \in 0 .. e.hslots - 1, n \in Nat \ {0} : x = Home(h, e.hslots) /\ n = e.hslots
      BY <3>1
    <3>3. x + 0 = x /\ x \in Int /\ x \in 0 .. n - 1
      BY <3>2
    <3>4. x % n = x
      BY <3>2, <3>3, Remainder
    <3> QED BY <3>2, <3>3, <3>4
  <2>5. PlaceAt(find.loop)' = find'.kpos
    BY <2>2, <2>3, <2>4 DEF PlaceAt
  <2>6. WholeKey(find.q)' = WholeKey(q) /\ h = Hash(HashInit, WholeKey(q))
    BY <2>2 DEF WholeKey, TagSeq, h
  <2>7. file.hdr[SlotOf(h)] = [hpos |-> e.hpos, hslots |-> e.hslots]
    BY <1>4 DEF s
  <2>8. 0 .. find'.loop - 1 = {}
    BY <2>2
  <2>9. SearchAt'
    BY <1>2, <1>5, <2>1, <2>2, <2>5, <2>6, <2>7, <2>8 DEF SearchAt
  <2> QED BY <1>3, <1>7, <2>2, <2>9 DEF FindExact
<1> QED BY <1>2, <1>6, <1>7

\* The invariant about a search: it holds before any, and is kept.
LEMMA FoundInit == Init => FindInv
BY DEF Init, FindInit, FindInv, FindExact

LEMMA FoundNext == RoundTripInv /\ StrideAgrees /\ TablesInv /\ FindInv /\ [Next]_vars => FindInv'
<1> SUFFICES ASSUME RoundTripInv, StrideAgrees, TablesInv, FindInv, [Next]_vars PROVE FindInv'
  OBVIOUS
<1>1. CASE file = NoFile
  <2>1. st = "none" /\ UNCHANGED findVars
    BY <1>1, NothingRead DEF RoundTripInv
  <2> QED BY <2>1 DEF findVars, FindInv
<1>2. CASE file # NoFile
  <2>1. file' = file /\ added' = added /\ (~FindAny => UNCHANGED findVars)
    BY <1>2, FileStays DEF RoundTripInv
  <2>2. CASE UNCHANGED findVars
    <3>1. st' = st /\ got' = got /\ find' = find
      BY <2>2 DEF findVars
    <3>2. \A i : PlaceAt(i)' = PlaceAt(i) /\ Here(i)' = Here(i)
      BY <2>1, <3>1 DEF PlaceAt, Here, Stride, MapBits
    <3>3. \A q : Wanted(q)' = Wanted(q)
      BY <2>1 DEF Wanted
    <3>4. SearchAt => SearchAt'
      BY <2>1, <3>1, <3>2, <3>3 DEF SearchAt
    <3>5. FindExact => FindExact'
      BY <3>1, <3>3 DEF FindExact
    <3>6. ShortTable' <=> ShortTable
      BY <2>1, <3>1 DEF ShortTable, MapBits
    <3> QED BY <2>1, <3>1, <3>4, <3>5, <3>6 DEF FindInv
  <2>3. ASSUME NEW q \in Queries, FindStart(q) PROVE FindInv'
    <3>1. /\ \E s \in Slots : find'.hslots = 0 \/ find'.hslots = file.hdr[s].hslots
          /\ ShortTable' => FindExact' /\ (st' # "end" => SearchAt')
      BY <1>2, <2>1, <2>3, SearchBegins
    <3> QED BY <2>1, <3>1 DEF FindInv
  <2>4. CASE FindNextFound \/ FindNextEnds
    <3>1. find'.hslots = find.hslots
      <4>1. PICK a, b, c, d, f, g :
               find = [q |-> a, khash |-> b, hpos |-> c, hslots |-> d, kpos |-> f, loop |-> g]
        BY DEF RoundTripInv, SearchInv
      <4>2. \E x, y : find' = [find EXCEPT !.kpos = x, !.loop = y]
        BY <2>4 DEF FindNextFound, FindNextEnds
      <4> QED BY <4>1, <4>2
    <3>2. st \in {"start", "next"}
      BY <2>4 DEF FindNextFound, FindNextEnds
    <3>3. ShortTable => FindExact' /\ (st' # "end" => SearchAt')
      BY <2>1, <2>4, SearchGoesOn, SearchOver
    <3>4. ShortTable' <=> ShortTable
      BY <2>1, <3>1 DEF ShortTable, MapBits
    <3> QED BY <2>1, <3>1, <3>2, <3>3, <3>4 DEF FindInv
  <2>5. CASE IterInit \/ IterRecord \/ IterPadding \/ IterEnd
    BY <2>5 DEF IterInit, IterRecord, IterPadding, IterEnd, FindInv
  <2> QED BY <2>1, <2>2, <2>3, <2>4, <2>5 DEF FindAny
<1> QED BY <1>1, <1>2

LEMMA SearchesFind ==
    ASSUME RevertPrior = FALSE, MaxRecs =< UINT_MAX
    PROVE  Spec => [](RoundTripInv /\ StrideAgrees /\ TableParts /\ FindInv)
<1>1. Init => TableParts /\ FindInv
  BY TablePartsInit, FoundInit DEF Init
<1>2. RoundTripInv /\ StrideAgrees /\ TableParts /\ FindInv /\ [Next]_vars => (TableParts /\ FindInv)'
  <2> SUFFICES ASSUME RoundTripInv, StrideAgrees, TableParts, FindInv, [Next]_vars
               PROVE  TableParts' /\ FindInv'
    OBVIOUS
  <2>1. TableParts'
    BY NextIsMake, TablePartsNext
  <2>2. TablesInv
    BY DEF TableParts
  <2> QED BY <2>1, <2>2, FoundNext
<1> QED BY <1>1, <1>2, RoundTripInvariant, WidthsAgree, PTL DEF Spec

\* A search returns every record added under the key, once, and no other,
\* whatever collisions there are and whichever width the entries have, in each
\* table that the 32-bit shift of mcdb_make_finish reaches: also beside one
\* that it does not reach.  No add that was complete is reverted.
THEOREM SearchInShortTable ==
    ASSUME RevertPrior = FALSE, MaxRecs =< UINT_MAX
    PROVE  Spec => [](ShortTable => FindExact)
<1>1. FindInv => (ShortTable => FindExact)
  BY DEF FindInv, FindExact
<1> QED BY <1>1, SearchesFind, PTL

\* So every search is exact where there are few enough records for the shift
\* to reach all of any table.
THEOREM SearchExact ==
    ASSUME RevertPrior = FALSE, 2 * MaxRecs =< 2 ^ (W - 4) PROVE Spec => []FindExact
<1>1. MaxRecs =< UINT_MAX
  BY FewRecords
<1>2. RoundTripInv /\ StrideAgrees /\ TableParts /\ FindInv => FindExact
  <2> SUFFICES ASSUME RoundTripInv, StrideAgrees, TableParts, FindInv, st = "end" PROVE FindExact
    BY DEF FindExact
  <2>1. ShortTable => FindExact
    BY DEF FindInv
  <2>2. file # NoFile
    BY DEF RoundTripInv, SearchInv
  <2>3. find.hslots = 0 \/ \E s \in Slots : find.hslots = file.hdr[s].hslots
    BY DEF FindInv
  <2>4. PICK a \in Nat, b \in Nat : a = 2 ^ (W - 4) /\ b = 2 ^ (W - 3) /\ b = 2 * a
    BY PowerAssumption
  <2>5. MaxRecs \in Nat /\ 2 * MaxRecs =< a
    BY <2>4, MakeAssumption
  <2>6. find.hslots =< a /\ find.hslots \in Nat
    <3>1. CASE find.hslots = 0
      BY <2>4, <3>1
    <3>2. ASSUME NEW s \in Slots, find.hslots = file.hdr[s].hslots PROVE find.hslots =< a /\ find.hslots \in Nat
      <4>1. CountInv /\ WindowInv /\ RecordsInv
        BY DEF TableParts, RoundTripInv
      <4>2. Len(added) \in Nat /\ count \in [Slots -> Nat] /\ Len(added) =< INT_MAX /\ Len(added) =< MaxRecs
            /\ AddUpTo(count, Len(added)) /\ file.hdr[s].hslots = TableLen(s)
        BY <2>2, <4>1, WindowTypes DEF RecordsInv, Adjoining, CountInv
      <4>3. TableLen(s) = 2 * count[s] /\ count[s] \in Nat
        BY <4>1, <4>2, TableFits
      <4>4. count[s] =< Len(added)
        BY <4>2, CountAtMost
      <4> QED BY <2>5, <3>2, <4>2, <4>3, <4>4
    <3> QED BY <2>3, <3>1, <3>2
  <2>7. ShortTable
    <3>1. CASE MapBits = 3
      BY <2>4, <2>6, <3>1 DEF ShortTable
    <3>2. CASE MapBits = 4
      BY <2>4, <2>6, <3>2 DEF ShortTable
    <3> QED BY <3>1, <3>2 DEF MapBits
  <2> QED BY <2>1, <2>7
<1> QED BY <1>1, <1>2, SearchesFind, PTL
=============================================================================
