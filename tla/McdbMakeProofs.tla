--------------------------- MODULE McdbMakeProofs ---------------------------
(***************************************************************************)
(* Proofs about mcdb_make, for records of any lengths in any order, any    *)
(* page size, window size and block size, and any system calls that fail:  *)
(* it writes inside its window and inside the space it has allocated, the  *)
(* hash tables follow each other, the number of records fits them, the     *)
(* lists hold what was added, their arrays are freed once each, and a      *)
(* search in a table finds the entry of every record of its slot.          *)
(***************************************************************************)
EXTENDS McdbMake, NaturalsInduction, WellFoundedInduction, SequenceTheorems, FiniteSetTheorems,
        TLAPS

-----------------------------------------------------------------------------
(* Rounding, and the window of mcdb_mmap_upsize.                           *)

LEMMA RoundsDown ==
    ASSUME NEW n \in Nat, NEW unit \in Nat \ {0}
    PROVE  RoundDown(n, unit) \in Nat /\ RoundDown(n, unit) =< n /\ n - RoundDown(n, unit) < unit
<1>1. n % unit \in Nat /\ n % unit < unit
  OBVIOUS
<1>2. n % unit =< n
  OBVIOUS
<1> QED BY <1>1, <1>2 DEF RoundDown

LEMMA RoundsUp ==
    ASSUME NEW n \in Nat, NEW unit \in Nat \ {0}
    PROVE  RoundUp(n, unit) \in Nat /\ RoundUp(n, unit) >= n
<1>1. n + unit - 1 \in Nat
  OBVIOUS
<1>2. /\ RoundDown(n + unit - 1, unit) \in Nat
      /\ (n + unit - 1) - RoundDown(n + unit - 1, unit) < unit
  BY <1>1, RoundsDown
<1> QED BY <1>2 DEF RoundUp

\* A new window starts at or before pos and reaches to end at least, and the
\* file is at least as long as the window asks for.
LEMMA NewWindow ==
    ASSUME pos \in Nat, offset \in Nat, NEW end \in Nat
    PROVE  /\ NewOffset \in Nat /\ NewOffset =< pos
           /\ NewMsz(end) \in Nat /\ end =< NewOffset + NewMsz(end)
           /\ NewFsz(end) \in Nat /\ NewOffset + NewMsz(end) =< NewFsz(end)
<1> USE WindowAssumption
<1>1. NewOffset \in Nat /\ NewOffset =< pos
  BY RoundsDown DEF NewOffset
<1>2. end - NewOffset \in Int
  BY <1>1
<1>3. end - NewOffset \in Nat =>
        RoundUp(end - NewOffset, PageSz) \in Nat /\ RoundUp(end - NewOffset, PageSz) >= end - NewOffset
  BY RoundsUp
<1>4. NewMsz(end) \in Nat /\ end =< NewOffset + NewMsz(end)
  BY <1>1, <1>2, <1>3 DEF NewMsz
<1>5. /\ RoundUp(NewOffset + NewMsz(end), BLOCK_SZ) \in Nat
      /\ RoundUp(NewOffset + NewMsz(end), BLOCK_SZ) >= NewOffset + NewMsz(end)
      /\ RoundUp(NewOffset + NewMsz(end), MMAP_SZ) \in Nat
      /\ RoundUp(NewOffset + NewMsz(end), MMAP_SZ) >= NewOffset + NewMsz(end)
  <2>1. NewOffset + NewMsz(end) \in Nat
    BY <1>1, <1>4
  <2> QED BY <2>1, RoundsUp
<1> QED BY <1>1, <1>4, <1>5 DEF NewFsz

\* What mcdb_mmap_upsize and the test before it leave behind when they succeed
LEMMA Reserved ==
    ASSUME WindowTypeOK, WindowAt, mapped, NEW end \in Nat, Reserve(end)
    PROVE  /\ offset' \in Nat /\ msz' \in Nat /\ fsz' \in Nat /\ osz' \in Nat /\ mapped' = TRUE
           /\ fsz' = osz' /\ offset' + msz' =< osz' /\ offset' =< pos
           /\ end =< offset' + msz'
<1>1. CASE Outside(end) /\ Upsize(end)
  <2>1. /\ NewOffset \in Nat /\ NewOffset =< pos
        /\ NewMsz(end) \in Nat /\ end =< NewOffset + NewMsz(end)
        /\ NewFsz(end) \in Nat /\ NewOffset + NewMsz(end) =< NewFsz(end)
    BY NewWindow DEF WindowTypeOK
  <2> QED BY <1>1, <2>1 DEF Upsize, Grows, WindowAt, WindowTypeOK
<1>2. CASE ~Outside(end) /\ UNCHANGED windowVars
  BY <1>2 DEF Outside, windowVars, WindowAt, WindowTypeOK
<1> QED BY <1>1, <1>2 DEF Reserve

\* When it fails, the sizes are still sizes.
LEMMA NotReserved ==
    ASSUME WindowTypeOK, NEW end \in Nat, UpsizeFails(end)
    PROVE  offset' \in Nat /\ msz' \in Nat /\ fsz' \in Nat /\ osz' \in Nat /\ mapped' \in BOOLEAN
<1>1. NewFsz(end) \in Nat
  BY NewWindow DEF WindowTypeOK
<1> QED BY <1>1 DEF UpsizeFails, FallocateFails, MunmapFails, MmapFails, WindowTypeOK

-----------------------------------------------------------------------------
(* The invariant, step by step.                                            *)

LEMMA WindowInit == MakeInit => WindowInv
<1> SUFFICES ASSUME MakeInit PROVE WindowInv
  OBVIOUS
<1>1. HEADER_SZ \in Nat
  BY PowerAssumption DEF HEADER_SZ
<1>2. /\ pos = HEADER_SZ /\ offset = 0 /\ msz = 0 /\ mapped = FALSE /\ fsz = 0 /\ osz = 0
      /\ phase = "new" /\ hp = [p |-> HEADER_SZ, h |-> 0, l |-> 0] /\ cur = NoRec /\ wr = NoWrite
  BY DEF MakeInit
<1>3. hp = [p |-> hp.p, h |-> hp.h, l |-> hp.l] /\ hp.p \in Nat
  BY <1>1, <1>2
<1>4. cur \in [k : Seq(Nat), d : Nat, left : Nat] /\ wr \in [lo : Nat, hi : Nat]
  BY <1>2 DEF NoRec, NoWrite
<1>5. count \in [Slots -> Nat] /\ slot \in 0 .. SLOTS /\ bits \in {3, 4}
  BY PowerAssumption DEF MakeInit, NoLists
<1>6. WindowTypeOK /\ WindowAt
  <2>1. pos \in Nat /\ offset = 0 /\ msz = 0 /\ fsz = 0 /\ osz = 0
    BY <1>1, <1>2
  <2>2. mapped \in BOOLEAN
    BY <1>2
  <2> QED BY <2>1, <2>2 DEF WindowTypeOK, WindowAt
<1>7. WritesInside
  BY <1>2 DEF WritesInside, NoWrite
<1> QED BY <1>2, <1>3, <1>4, <1>5, <1>6, <1>7 DEF WindowInv, Phases, Between

\* The record in progress and hp, as any step may need them
LEMMA WindowTypes ==
    ASSUME WindowInv
    PROVE  /\ WindowTypeOK /\ pos \in Nat /\ offset \in Nat /\ msz \in Nat /\ osz \in Nat
           /\ hp = [p |-> hp.p, h |-> hp.h, l |-> hp.l] /\ hp.p \in Nat
           /\ cur \in [k : Seq(Nat), d : Nat, left : Nat] /\ wr \in [lo : Nat, hi : Nat]
           /\ Len(cur.k) \in Nat /\ phase \in Phases
           /\ count \in [Slots -> Nat] /\ slot \in 0 .. SLOTS /\ bits \in {3, 4}
           /\ phase \notin {"error", "done", "gone"} => WindowAt
           /\ phase \in Between \cup {"begun", "keyed", "tables"} => mapped
BY DEF WindowInv, WindowTypeOK

\* Types of the lists' counts and of the variables of mcdb_make_finish
CountsOK == count \in [Slots -> Nat] /\ slot \in 0 .. SLOTS /\ bits \in {3, 4}

\* Every step keeps the counts counts.
LEMMA CountsStep == ASSUME WindowInv, [MakeNext]_makeVars PROVE CountsOK'
<1>0. CountsOK
  BY WindowTypes DEF CountsOK
<1>1. CASE count' = count /\ slot' = slot /\ bits' \in {bits, 3, 4}
  BY <1>0, <1>1 DEF CountsOK
<1>2. CASE AddEnd
  <2>1. PICK s : count' = [count EXCEPT ![s] = @ + 1] /\ slot' = slot /\ bits' = bits
    BY <1>2 DEF AddEnd, HplistAdd, finishVars
  <2>2. count' \in [Slots -> Nat]
    <3>1. count \in [Slots -> Nat]
      BY <1>0 DEF CountsOK
    <3>2. \A x \in Slots : count[x] + 1 \in Nat
      BY <3>1
    <3> QED BY <2>1, <3>1, <3>2
  <2> QED BY <1>0, <2>1, <2>2 DEF CountsOK
<1>3. CASE FinishSlot
  <2>1. count' = count /\ slot' = slot + 1 /\ slot < SLOTS /\ bits' = bits
    BY <1>3 DEF FinishSlot, listVars
  <2>2. SLOTS \in Nat
    BY PowerAssumption
  <2>3. slot' \in 0 .. SLOTS
    BY <1>0, <2>1, <2>2 DEF CountsOK
  <2> QED BY <1>0, <2>1, <2>3 DEF CountsOK
<1>4. ASSUME MakeNext, ~AddEnd, ~FinishSlot PROVE count' = count /\ slot' = slot /\ bits' \in {bits, 3, 4}
  BY <1>4 DEF MakeNext, Start, StartFails, AddBegin, AddBeginFails, AddbufKey, AddbufData, AddRevert,
     FinishPad, FinishFails, FinishCommit, CommitFails, Destroy, Released0, FreeLists, FirstLists,
     FreeUnset, HplistRoom, HplistNoRoom, HplistPend, HplistNew, listVars, finishVars
<1>5. CASE UNCHANGED makeVars
  BY <1>1, <1>5 DEF makeVars, listVars
<1> QED BY <1>1, <1>2, <1>3, <1>4, <1>5

\* A step into a phase in which nothing is written any more
LEMMA WindowEnds ==
    ASSUME WindowInv, phase' \in {"error", "done", "gone"}, wr' = NoWrite,
           offset' \in Nat, msz' \in Nat, fsz' \in Nat, osz' \in Nat, mapped' \in BOOLEAN,
           UNCHANGED <<pos, cur>>, CountsOK',
           hp' = [p |-> hp'.p, h |-> hp'.h, l |-> hp'.l], hp'.p \in Nat
    PROVE  WindowInv'
<1>1. wr' \in [lo : Nat, hi : Nat] /\ WritesInside'
  BY DEF WritesInside, NoWrite
<1> QED BY <1>1, WindowTypes DEF WindowInv, WindowTypeOK, CountsOK, Phases, Between

\* mcdb_make_start, whatever becomes of it
LEMMA StartStep == ASSUME WindowInv, Start \/ StartFails, CountsOK' PROVE WindowInv'
<1>1. MMAP_SZ \in Nat
  BY WindowAssumption
<1>2. phase = "new" /\ offset = 0 /\ msz = 0 /\ wr = NoWrite /\ fsz = osz
  BY DEF Start, StartFails, WindowInv, WindowAt
<1>3. CASE Start
  <2>1. Upsize(MMAP_SZ) /\ phase' = "idle" /\ UNCHANGED <<pos, hp, cur, wr>>
    BY <1>3 DEF Start
  <2>2. /\ NewOffset \in Nat /\ NewOffset =< pos /\ NewMsz(MMAP_SZ) \in Nat
        /\ NewFsz(MMAP_SZ) \in Nat /\ NewOffset + NewMsz(MMAP_SZ) =< NewFsz(MMAP_SZ)
    BY <1>1, NewWindow, WindowTypes
  <2>3. WindowTypeOK' /\ WindowAt' /\ mapped'
    BY <1>2, <2>1, <2>2, WindowTypes DEF Upsize, Grows, WindowTypeOK, WindowAt
  <2>4. WritesInside'
    BY <1>2, <2>1 DEF WritesInside, NoWrite
  <2> QED BY <2>1, <2>3, <2>4, WindowTypes DEF WindowInv, CountsOK, Phases, Between
<1>4. CASE StartFails
  <2>1. /\ phase' = "gone" /\ UNCHANGED <<pos, hp, cur, wr>>
        /\ UNCHANGED windowVars \/ UpsizeFails(MMAP_SZ)
    BY <1>4 DEF StartFails
  <2>2. offset' \in Nat /\ msz' \in Nat /\ fsz' \in Nat /\ osz' \in Nat /\ mapped' \in BOOLEAN
    BY <1>1, <2>1, NotReserved, WindowTypes DEF WindowTypeOK, windowVars
  <2> QED BY <1>2, <2>1, <2>2, WindowEnds, WindowTypes
<1> QED BY <1>3, <1>4

\* A call that has reserved the space up to "end" writes n bytes of it.
ReservedFor(end, n) ==
    /\ phase \in Between \cup {"tables"}
    /\ Reserve(end) /\ pos + n =< end /\ Writes(n)

LEMMA ReservedWrite ==
    ASSUME WindowInv, NEW end \in Nat, NEW n \in Nat, ReservedFor(end, n)
    PROVE  /\ WindowTypeOK' /\ WindowAt' /\ mapped' /\ WritesInside' /\ wr' \in [lo : Nat, hi : Nat]
           /\ pos' = pos + n /\ end =< offset' + msz' /\ offset' =< pos
<1>1. /\ offset' \in Nat /\ msz' \in Nat /\ fsz' \in Nat /\ osz' \in Nat /\ mapped' = TRUE
      /\ fsz' = osz' /\ offset' + msz' =< osz' /\ offset' =< pos
      /\ end =< offset' + msz'
  <2>1. WindowTypeOK /\ WindowAt /\ mapped
    BY WindowTypes DEF Between, ReservedFor
  <2> QED BY <2>1, Reserved DEF ReservedFor
<1>2. wr' = [lo |-> pos, hi |-> pos + n] /\ pos' = pos + n
  BY DEF Writes, ReservedFor
<1>3. pos \in Nat /\ pos + n =< end
  BY WindowTypes DEF ReservedFor
<1>4. pos' \in Nat /\ offset' =< pos'
  BY <1>1, <1>2, <1>3
<1>5. wr' \in [lo : Nat, hi : Nat] /\ wr'.lo = pos /\ wr'.hi = pos + n
  BY <1>2, <1>3
<1>6. pos + n =< offset' + msz' /\ pos + n =< osz'
  <2>1. PICK o \in Nat, m \in Nat, z \in Nat : o = offset' /\ m = msz' /\ z = osz'
    BY <1>1
  <2>2. end =< o + m /\ o + m =< z
    BY <1>1, <2>1
  <2>3. pos + n =< o + m /\ pos + n =< z
    BY <1>3, <2>2
  <2> QED BY <2>1, <2>3
<1>7. WritesInside'
  BY <1>1, <1>5, <1>6 DEF WritesInside
<1>8. WindowTypeOK' /\ WindowAt'
  BY <1>1, <1>4 DEF WindowTypeOK, WindowAt
<1> QED BY <1>1, <1>2, <1>5, <1>7, <1>8

\* mcdb_make_addbegin reserves space for all of the record.
LEMMA AddBeginStep == ASSUME WindowInv, NEW r \in Records, AddBegin(r), CountsOK' PROVE WindowInv'
<1>1. PICK k \in Seq(Nat), d \in Nat : r.k = k /\ r.d = d
  BY MakeAssumption
<1>2. pos \in Nat /\ Len(k) \in Nat
  BY WindowTypes
<1> DEFINE end == pos + RecLen(k, d)
<1>3. /\ phase \in Between /\ Reserve(end) /\ Writes(8) /\ phase' = "begun"
      /\ hp' = [p |-> pos, h |-> HashInit, l |-> Len(k)]
      /\ cur' = [k |-> k, d |-> d, left |-> d]
  BY <1>1 DEF AddBegin
<1>4. end = pos + 8 + Len(k) + d /\ end \in Nat /\ pos + 8 =< end
  BY <1>2 DEF RecLen
<1> HIDE DEF end
<1>5. /\ WindowTypeOK' /\ WindowAt' /\ mapped' /\ WritesInside' /\ wr' \in [lo : Nat, hi : Nat]
      /\ pos' = pos + 8 /\ end =< offset' + msz' /\ offset' =< pos
  BY <1>3, <1>4, ReservedWrite DEF ReservedFor
<1>6. cur'.k = k /\ cur'.d = d /\ cur'.left = d /\ hp'.p = pos
  BY <1>3
<1>7. pos' + Len(k) + d =< offset' + msz'
  BY <1>2, <1>4, <1>5
<1>8. hp' = [p |-> hp'.p, h |-> hp'.h, l |-> hp'.l] /\ hp'.p \in Nat
  BY <1>2, <1>3
<1>9. cur' \in [k : Seq(Nat), d : Nat, left : Nat]
  BY <1>3
<1> QED BY <1>3, <1>5, <1>6, <1>7, <1>8, <1>9 DEF WindowInv, CountsOK, Phases, Between

LEMMA AddBeginFailsStep == ASSUME WindowInv, NEW r \in Records, AddBeginFails(r), CountsOK' PROVE WindowInv'
<1>1. /\ phase' = "error" /\ wr' = NoWrite /\ UNCHANGED <<pos, cur>>
      /\ \/ UNCHANGED <<hp, windowVars>>
         \/ hp' = [hp EXCEPT !.p = pos, !.h = HashInit] /\ UNCHANGED windowVars
         \/ /\ hp' = [p |-> pos, h |-> HashInit, l |-> Len(r.k)]
            /\ UpsizeFails(pos + RecLen(r.k, r.d))
  BY DEF AddBeginFails, ReserveFails
<1>2. pos + RecLen(r.k, r.d) \in Nat
  <2>1. PICK k \in Seq(Nat), d \in Nat : r.k = k /\ r.d = d
    BY MakeAssumption
  <2>2. pos \in Nat /\ Len(k) \in Nat
    BY WindowTypes
  <2>3. pos + RecLen(k, d) \in Nat
    BY <2>2 DEF RecLen
  <2> QED BY <2>1, <2>3
<1>3. offset' \in Nat /\ msz' \in Nat /\ fsz' \in Nat /\ osz' \in Nat /\ mapped' \in BOOLEAN
  BY <1>1, <1>2, NotReserved, WindowTypes DEF WindowTypeOK, windowVars
<1>4. hp' = [p |-> hp'.p, h |-> hp'.h, l |-> hp'.l] /\ hp'.p \in Nat
  <2>1. hp = [p |-> hp.p, h |-> hp.h, l |-> hp.l] /\ hp.p \in Nat /\ pos \in Nat
    BY WindowTypes
  <2>2. CASE hp' = hp
    BY <2>1, <2>2
  <2>3. CASE hp' = [hp EXCEPT !.p = pos, !.h = HashInit]
    <3>1. hp' = [[p |-> hp.p, h |-> hp.h, l |-> hp.l] EXCEPT !.p = pos, !.h = HashInit]
      BY <2>1, <2>3
    <3>2. hp' = [p |-> pos, h |-> HashInit, l |-> hp.l]
      BY <3>1
    <3> QED BY <2>1, <3>2
  <2>4. CASE hp' = [p |-> pos, h |-> HashInit, l |-> Len(r.k)]
    BY <2>1, <2>4
  <2> QED BY <1>1, <2>2, <2>3, <2>4
<1> QED BY <1>1, <1>3, <1>4, WindowEnds

\* The key and the data go where mcdb_make_addbegin made room for them.
LEMMA AddbufStep == ASSUME WindowInv, AddbufKey \/ AddbufData, CountsOK' PROVE WindowInv'
<1>1. PICK n \in Nat :
         /\ Writes(n) /\ UNCHANGED windowVars /\ phase \in {"begun", "keyed"} /\ phase' = "keyed"
         /\ pos + n + cur'.left =< offset + msz
         /\ cur' \in [k : Seq(Nat), d : Nat, left : Nat]
         /\ hp' = [p |-> hp'.p, h |-> hp'.h, l |-> hp'.l] /\ hp'.p = hp.p
  <2>1. CASE AddbufKey
    <3>1. /\ Writes(Len(cur.k)) /\ UNCHANGED windowVars /\ phase = "begun" /\ phase' = "keyed"
          /\ cur' = cur /\ hp' = [hp EXCEPT !.h = Hash(@, cur.k)]
      BY <2>1 DEF AddbufKey
    <3>2. pos + Len(cur.k) + cur.left =< offset + msz
      BY <3>1 DEF WindowInv
    <3> QED BY <3>1, <3>2, WindowTypes
  <2>2. CASE AddbufData
    <3> DEFINE n == IF cur.left < ChunkSz THEN cur.left ELSE ChunkSz
    <3>1. /\ Writes(n) /\ UNCHANGED windowVars /\ phase = "keyed" /\ phase' = phase
          /\ cur' = [cur EXCEPT !.left = @ - n] /\ hp' = hp
      BY <2>2 DEF AddbufData
    <3>2. n \in Nat /\ n =< cur.left /\ cur.left \in Nat
      BY MakeAssumption, WindowTypes
    <3>3. pos + cur.left =< offset + msz
      BY <3>1 DEF WindowInv
    <3> HIDE DEF n
    <3>4. cur' \in [k : Seq(Nat), d : Nat, left : Nat] /\ cur'.left = cur.left - n
      <4>1. cur \in [k : Seq(Nat), d : Nat, left : Nat]
        BY WindowTypes
      <4>2. cur.left - n \in Nat
        BY <3>2
      <4> QED BY <3>1, <4>1, <4>2
    <3> QED BY <3>1, <3>2, <3>3, <3>4, WindowTypes
  <2> QED BY <2>1, <2>2
<1>2. wr' = [lo |-> pos, hi |-> pos + n] /\ pos' = pos + n
  BY <1>1 DEF Writes
<1>3. WindowAt /\ mapped /\ offset =< hp.p
  BY <1>1 DEF WindowInv
<1>4. UNCHANGED <<offset, msz, mapped, fsz, osz>>
  BY <1>1 DEF windowVars
<1>5. cur'.left \in Nat
  BY <1>1
<1>6. WritesInside' /\ wr' \in [lo : Nat, hi : Nat] /\ WindowTypeOK' /\ WindowAt'
  <2>1. WindowTypeOK /\ pos \in Nat /\ offset \in Nat /\ msz \in Nat /\ osz \in Nat
    BY WindowTypes
  <2>2. wr'.lo = pos /\ wr'.hi = pos + n /\ wr' \in [lo : Nat, hi : Nat]
    BY <1>2, <2>1
  <2>3. pos + n =< offset + msz
    BY <1>1, <1>5, <2>1
  <2>4. WindowTypeOK' /\ WindowAt'
    BY <1>2, <1>3, <1>4, <2>1 DEF WindowTypeOK, WindowAt
  <2>5. WritesInside'
    BY <1>3, <1>4, <2>1, <2>2, <2>3 DEF WritesInside, WindowAt
  <2> QED BY <2>2, <2>4, <2>5
<1>7. pos' + cur'.left =< offset' + msz'
  BY <1>1, <1>2, <1>4
<1> QED BY <1>1, <1>3, <1>4, <1>6, <1>7, WindowTypes DEF WindowInv, CountsOK, Phases, Between

\* A record is complete, or given up: pos goes back to where it began, which
\* the window still covers.
LEMMA RecordEndsStep == ASSUME WindowInv, AddEnd \/ AddRevert, CountsOK' PROVE WindowInv'
<1>1. /\ UNCHANGED <<offset, msz, mapped, fsz, osz, wr>> /\ cur' = NoRec
      /\ phase \in {"begun", "keyed", "added"}
      /\ \/ phase = "keyed" /\ phase' = "added" /\ pos' = pos
            /\ (hp' = hp \/ hp' = [hp EXCEPT !.l = -1])
         \/ phase' = "idle" /\ pos' = hp.p /\ hp' = hp
  BY DEF AddEnd, AddRevert, windowVars
<1>2. WindowAt /\ mapped /\ offset =< hp.p /\ WritesInside
  BY <1>1 DEF WindowInv, Between
<1>3. hp' = [p |-> hp'.p, h |-> hp'.h, l |-> hp'.l] /\ hp'.p = hp.p /\ hp.p \in Nat
  <2>1. hp = [p |-> hp.p, h |-> hp.h, l |-> hp.l] /\ hp.p \in Nat
    BY WindowTypes
  <2> QED BY <1>1, <2>1
<1>4. cur' \in [k : Seq(Nat), d : Nat, left : Nat]
  BY <1>1 DEF NoRec
<1>5. WritesInside' /\ WindowTypeOK' /\ WindowAt'
  BY <1>1, <1>2, <1>3, WindowTypes DEF WritesInside, WindowTypeOK, WindowAt
<1> QED BY <1>1, <1>2, <1>3, <1>4, <1>5, WindowTypes DEF WindowInv, CountsOK, Phases, Between

\* The sizes of what mcdb_make_finish writes
LEMMA FinishSizes ==
    ASSUME WindowInv
    PROVE  /\ Padding \in Nat
           /\ slot < SLOTS => TableSz \in Nat
<1>1. 2 ^ W \in Nat \ {0}
  BY PowerAssumption, FormatAssumption DEF UINT_MAX
<1>2. pos \in Nat /\ slot \in 0 .. SLOTS /\ bits \in {3, 4} /\ count \in [Slots -> Nat]
  BY WindowTypes
<1>3. slot < SLOTS => count[slot] \in Nat
  BY <1>2, PowerAssumption DEF Slots
<1>4. slot < SLOTS => (2 * count[slot]) % 2 ^ W \in Nat
  BY <1>1, <1>3
<1>5. 2 ^ bits \in Nat
  <2>1. 2 ^ 3 \in Nat /\ 2 ^ 4 \in Nat
    OBVIOUS
  <2> QED BY <1>2, <2>1
<1>6. Padding \in Nat
  <2>1. pos % 16 \in Nat /\ pos % 16 < 16
    BY <1>2
  <2> QED BY <2>1 DEF Padding, PAD_ALIGN
<1>7. slot < SLOTS => TableSz \in Nat
  BY <1>4, <1>5 DEF TableSz, TableLen
<1> QED BY <1>6, <1>7

\* mcdb_make_finish reserves for the padding and for each table.
LEMMA FinishStep == ASSUME WindowInv, FinishPad \/ FinishSlot, CountsOK' PROVE WindowInv'
<1>1. PICK n \in Nat :
         /\ Reserve(pos + n) /\ Writes(n) /\ phase \in Between \cup {"tables"} /\ phase' = "tables"
         /\ UNCHANGED <<hp, cur>>
  <2>1. Padding \in Nat /\ (slot < SLOTS => TableSz \in Nat)
    BY FinishSizes
  <2> QED BY <2>1 DEF FinishPad, FinishSlot
<1>2. pos \in Nat
  BY WindowTypes
<1>3. /\ WindowTypeOK' /\ WindowAt' /\ mapped' /\ WritesInside' /\ wr' \in [lo : Nat, hi : Nat]
      /\ pos' = pos + n /\ pos + n =< offset' + msz' /\ offset' =< pos
  <2>1. pos + n \in Nat /\ pos + n =< pos + n
    BY <1>2
  <2> QED BY <1>1, <2>1, ReservedWrite DEF ReservedFor
<1> QED BY <1>1, <1>3, WindowTypes DEF WindowInv, CountsOK, Phases, Between

\* The end, with a file or without
LEMMA EndStep ==
    ASSUME WindowInv, FinishFails \/ FinishCommit \/ CommitFails \/ Destroy, CountsOK'
    PROVE  WindowInv'
<1>1. /\ phase' \in {"error", "done", "gone"} /\ wr' = NoWrite /\ UNCHANGED <<pos, cur, hp>>
      /\ \/ UNCHANGED windowVars
         \/ UpsizeFails(pos + Padding)
         \/ slot < SLOTS /\ UpsizeFails(pos + TableSz)
         \/ mapped' = FALSE /\ UNCHANGED <<offset, msz, fsz, osz>>
  BY DEF FinishFails, FinishCommit, CommitFails, Destroy, Released0, ReserveFails
<1>2. pos + Padding \in Nat /\ (slot < SLOTS => pos + TableSz \in Nat)
  <2>1. pos \in Nat
    BY WindowTypes
  <2> QED BY <2>1, FinishSizes
<1>3. WindowTypeOK
  BY WindowTypes
<1>4. offset' \in Nat /\ msz' \in Nat /\ fsz' \in Nat /\ osz' \in Nat /\ mapped' \in BOOLEAN
  BY <1>1, <1>2, <1>3, NotReserved DEF WindowTypeOK, windowVars
<1>5. hp' = [p |-> hp'.p, h |-> hp'.h, l |-> hp'.l] /\ hp'.p \in Nat
  <2>1. hp = [p |-> hp.p, h |-> hp.h, l |-> hp.l] /\ hp.p \in Nat
    BY WindowTypes
  <2> QED BY <1>1, <2>1
<1> QED BY <1>1, <1>4, <1>5, WindowEnds

LEMMA WindowNext == WindowInv /\ [MakeNext]_makeVars => WindowInv'
<1> SUFFICES ASSUME WindowInv, [MakeNext]_makeVars PROVE WindowInv'
  OBVIOUS
<1>1. CountsOK'
  BY CountsStep
<1>2. CASE UNCHANGED makeVars
  BY <1>2 DEF makeVars, windowVars, listVars, WindowInv, WindowTypeOK, WindowAt, WritesInside
<1>3. CASE MakeNext
  BY <1>1, <1>3, StartStep, AddBeginStep, AddBeginFailsStep, AddbufStep, RecordEndsStep, FinishStep,
     EndStep DEF MakeNext
<1> QED BY <1>2, <1>3

\* Every byte mcdb_make writes goes inside its window and inside the space
\* allocated in the file, with as many records of whatever lengths, whichever
\* calls fail and whichever records are given up.
THEOREM WritesStayInside == MakeSpec => []WritesInside
<1>1. WindowInv => WritesInside
  BY DEF WindowInv
<1> QED BY <1>1, WindowInit, WindowNext, PTL DEF MakeSpec

-----------------------------------------------------------------------------
(* The layout of the hash tables.                                          *)

LEMMA LayoutInit == MakeInit => LayoutInv
<1> SUFFICES ASSUME MakeInit PROVE LayoutInv
  OBVIOUS
<1>1. HEADER_SZ \in Nat
  BY PowerAssumption DEF HEADER_SZ
<1>2. /\ pos = HEADER_SZ /\ hp = [p |-> HEADER_SZ, h |-> 0, l |-> 0] /\ phase = "new" /\ slot = 0
      /\ hdr = [s \in Slots |-> [hpos |-> 0, hslots |-> 0]] /\ file = NoFile
  BY DEF MakeInit
<1>3. hdr \in [Slots -> [hpos : Nat, hslots : Nat]]
  BY <1>2
<1>4. HEADER_SZ =< pos /\ HEADER_SZ =< hp.p
  BY <1>1, <1>2
<1> QED BY <1>2, <1>3, <1>4 DEF LayoutInv

\* Padding takes pos to the next multiple of 16.
LEMMA PadAligns == ASSUME pos \in Nat PROVE Padding \in Nat /\ (pos + Padding) % PAD_ALIGN = 0
BY DEF Padding, PAD_ALIGN

\* A slot, counted from 0
LEMMA SlotsAre == /\ 0 \in Slots /\ SLOTS \in Nat \ {0}
                  /\ \A s \in Nat : s \in Slots <=> s < SLOTS
BY PowerAssumption DEF Slots

\* mcdb_make_finish writes one more table, right behind the others.
LEMMA TableFollows == ASSUME LayoutInv, WindowInv, FinishSlot PROVE LayoutInv'
<1>1. /\ phase = "tables" /\ phase' = "tables" /\ slot < SLOTS /\ slot' = slot + 1
      /\ pos' = pos + TableSz /\ hp' = hp /\ bits' = bits /\ file' = file
      /\ hdr' = [hdr EXCEPT ![slot] = [hpos |-> pos, hslots |-> TableLen(slot)]]
  BY DEF FinishSlot, Writes
<1>2. pos \in Nat /\ slot \in Nat /\ TableSz \in Nat /\ TableLen(slot) \in Nat /\ bits \in {3, 4}
  <2>1. slot \in 0 .. SLOTS /\ count \in [Slots -> Nat] /\ bits \in {3, 4} /\ pos \in Nat
    BY WindowTypes
  <2>2. slot \in Slots /\ slot \in Nat
    BY <1>1, <2>1, SlotsAre
  <2>3. count[slot] \in Nat
    BY <2>1, <2>2
  <2>4. 2 ^ W \in Nat \ {0}
    BY PowerAssumption, FormatAssumption DEF UINT_MAX
  <2>5. TableLen(slot) \in Nat
    BY <2>3, <2>4 DEF TableLen
  <2> QED BY <1>1, <2>1, <2>2, <2>5, FinishSizes
<1>3. slot \in Slots
  BY <1>1, <1>2, SlotsAre
<1>4. hdr \in [Slots -> [hpos : Nat, hslots : Nat]]
  BY DEF LayoutInv
<1>5. hdr' \in [Slots -> [hpos : Nat, hslots : Nat]]
  <2>1. [hpos |-> pos, hslots |-> TableLen(slot)] \in [hpos : Nat, hslots : Nat]
    BY <1>2
  <2> HIDE DEF TableLen
  <2> QED BY <1>1, <1>4, <2>1
<1>6. hdr'[slot].hpos = pos /\ hdr'[slot].hslots = TableLen(slot)
  BY <1>1, <1>3, <1>4
<1>7. \A s \in Slots : s # slot => hdr'[s] = hdr[s]
  BY <1>1, <1>4
<1>8. \A s \in Slots : hdr[s].hpos \in Nat /\ hdr[s].hslots \in Nat
  BY <1>4
<1>9. TablesTo(hdr', slot + 1, pos + TableSz)
  <2>1. pos + TableSz = hdr'[slot].hpos + hdr'[slot].hslots * 2 ^ bits
    BY <1>6 DEF TableSz
  <2>2. CASE slot = 0
    <3>1. pos % PAD_ALIGN = 0 /\ bits = Width(pos)
      BY <1>1, <2>2 DEF LayoutInv
    <3>2. hdr'[0].hpos = pos
      BY <1>6, <2>2
    <3>3. pos =< pos + TableSz
      BY <1>2
    <3> QED BY <1>5, <2>1, <2>2, <3>1, <3>2, <3>3 DEF TablesTo
  <2>3. CASE slot # 0
    <3>1. TablesTo(hdr, slot, pos)
      BY <1>1, <1>2, <2>3 DEF LayoutInv
    <3>2. hdr'[0] = hdr[0] /\ 0 \in Slots
      BY <1>7, <2>3, SlotsAre
    <3>3. \A s \in 1 .. slot : hdr'[s].hpos = hdr'[s - 1].hpos + hdr'[s - 1].hslots * 2 ^ bits
      <4>1. SUFFICES ASSUME NEW s \in 1 .. slot
                     PROVE  hdr'[s].hpos = hdr'[s - 1].hpos + hdr'[s - 1].hslots * 2 ^ bits
        OBVIOUS
      <4>2. s - 1 \in Slots /\ s - 1 # slot /\ s \in Slots
        BY <1>1, <1>2, SlotsAre
      <4>3. hdr'[s - 1] = hdr[s - 1]
        BY <1>7, <4>2
      <4>4. CASE s = slot
        BY <1>6, <3>1, <4>3, <4>4 DEF TablesTo
      <4>5. CASE s # slot
        <5>1. s \in 1 .. slot - 1
          BY <1>2, <4>5
        <5>2. hdr[s].hpos = hdr[s - 1].hpos + hdr[s - 1].hslots * 2 ^ bits
          BY <3>1, <5>1 DEF TablesTo
        <5> QED BY <1>7, <4>2, <4>3, <4>5, <5>2
      <4> QED BY <4>4, <4>5
    <3>4. hdr[0].hpos =< pos + TableSz
      BY <1>2, <1>8, <3>1, SlotsAre DEF TablesTo
    <3>5. hdr'[0].hpos % PAD_ALIGN = 0 /\ bits = Width(hdr'[0].hpos)
      BY <3>1, <3>2 DEF TablesTo
    <3>6. (slot + 1) - 1 = slot
      BY <1>2
    <3> QED BY <1>5, <2>1, <3>2, <3>3, <3>4, <3>5, <3>6 DEF TablesTo
  <2> QED BY <2>2, <2>3
<1>10. TablesTo(hdr, slot, pos)'
  BY <1>1, <1>9 DEF TablesTo, Width
<1>11. file' = NoFile
  BY <1>1 DEF LayoutInv
<1>12. HEADER_SZ =< pos' /\ HEADER_SZ =< hp'.p
  <2>1. HEADER_SZ =< pos /\ HEADER_SZ =< hp.p /\ HEADER_SZ \in Nat
    BY PowerAssumption DEF LayoutInv, HEADER_SZ
  <2> QED BY <1>1, <1>2, <2>1
<1>13. slot' # 0
  BY <1>1, <1>2
<1> QED BY <1>1, <1>5, <1>10, <1>11, <1>12, <1>13 DEF LayoutInv

\* The padding comes before the first table, and decides the width of entries.
LEMMA PadLayout == ASSUME LayoutInv, WindowInv, FinishPad PROVE LayoutInv'
<1>1. /\ phase \in Between /\ phase' = "tables" /\ slot' = slot /\ hdr' = hdr /\ file' = file
      /\ pos' = pos + Padding /\ hp' = hp
      /\ bits' = IF pos + Padding < UINT_MAX THEN 3 ELSE 4
  BY DEF FinishPad, Writes
<1>2. slot = 0 /\ file = NoFile /\ HEADER_SZ =< pos /\ HEADER_SZ =< hp.p
      /\ hdr \in [Slots -> [hpos : Nat, hslots : Nat]]
  BY <1>1 DEF LayoutInv, Between
<1>3. Padding \in Nat /\ (pos + Padding) % PAD_ALIGN = 0 /\ pos \in Nat
  BY PadAligns, WindowTypes
<1>4. pos' % PAD_ALIGN = 0 /\ bits' = Width(pos')
  BY <1>1, <1>3 DEF Width
<1>5. HEADER_SZ =< pos'
  BY <1>1, <1>2, <1>3, PowerAssumption DEF HEADER_SZ
<1>6. (bits = Width(pos))'
  BY <1>4 DEF Width
<1> QED BY <1>1, <1>2, <1>4, <1>5, <1>6 DEF LayoutInv

\* The steps of the caller leave what mcdb_make_finish writes alone, and end in
\* some phase other than "tables".
LEMMA FinishLeftAlone ==
    ASSUME WindowInv, MakeNext, ~FinishPad, ~FinishSlot, ~FinishCommit
    PROVE  /\ UNCHANGED <<hdr, slot, bits, file, tab>>
           /\ phase # "done" /\ phase' \notin {"tables", "done"}
           /\ phase' \notin {"error", "gone"} => phase \notin {"tables", "error", "gone"}
BY DEF MakeNext, Start, StartFails, AddBegin, AddBeginFails, AddbufKey, AddbufData, AddEnd, AddRevert,
   FinishFails, CommitFails, Destroy, finishVars, Between

LEMMA HeaderBefore ==
    ASSUME WindowInv, LayoutInv, MakeNext, ~FinishPad, ~FinishSlot
    PROVE  HEADER_SZ =< pos' /\ HEADER_SZ =< hp'.p
<1>1. HEADER_SZ =< pos /\ HEADER_SZ =< hp.p /\ pos \in Nat /\ HEADER_SZ \in Nat
  <2>1. HEADER_SZ =< pos /\ HEADER_SZ =< hp.p
    BY DEF LayoutInv
  <2>2. HEADER_SZ \in Nat
    BY PowerAssumption DEF HEADER_SZ
  <2> QED BY <2>1, <2>2, WindowTypes
<1>2. hp = [p |-> hp.p, h |-> hp.h, l |-> hp.l]
  BY WindowTypes
<1> DEFINE Moves ==
      /\ pos' = pos \/ pos' = hp.p \/ \E n \in Nat : pos' = pos + n
      /\ \/ hp' = hp \/ hp' = [hp EXCEPT !.l = -1] \/ hp' = [hp EXCEPT !.p = pos, !.h = HashInit]
         \/ hp' = [hp EXCEPT !.h = Hash(@, cur.k)]
         \/ \E l : hp' = [p |-> pos, h |-> HashInit, l |-> l]
<1>3. Moves
  <2>2. ASSUME NEW r \in Records, AddBegin(r) PROVE Moves
    BY <2>2 DEF AddBegin, Writes
  <2>3. ASSUME NEW r \in Records, AddBeginFails(r) PROVE Moves
    BY <2>3 DEF AddBeginFails
  <2>4. CASE AddbufKey
    BY <2>4, WindowTypes DEF AddbufKey, Writes
  <2>5. CASE AddbufData
    <3>1. cur.left \in Nat /\ ChunkSz \in Nat
      BY WindowTypes, MakeAssumption
    <3> QED BY <2>5, <3>1 DEF AddbufData, Writes
  <2>6. CASE AddEnd \/ AddRevert
    BY <2>6 DEF AddEnd, AddRevert
  <2>7. CASE Start \/ StartFails \/ FinishFails \/ FinishCommit \/ CommitFails \/ Destroy
    BY <2>7 DEF Start, StartFails, FinishFails, FinishCommit, CommitFails, Destroy
  <2> QED BY <2>2, <2>3, <2>4, <2>5, <2>6, <2>7 DEF MakeNext
<1>4. HEADER_SZ =< pos'
  BY <1>1, <1>3
<1>5. hp'.p = hp.p \/ hp'.p = pos
  <2>1. PICK p, h, l : hp = [p |-> p, h |-> h, l |-> l]
    BY <1>2
  <2>2. CASE hp' = [hp EXCEPT !.l = -1]
    BY <2>1, <2>2
  <2>3. CASE hp' = [hp EXCEPT !.p = pos, !.h = HashInit]
    BY <2>1, <2>3
  <2>4. CASE hp' = [hp EXCEPT !.h = Hash(@, cur.k)]
    BY <2>1, <2>4
  <2>5. CASE \E n : hp' = [p |-> pos, h |-> HashInit, l |-> n]
    BY <2>5
  <2> QED BY <1>3, <2>2, <2>3, <2>4, <2>5
<1> QED BY <1>1, <1>4, <1>5

LEMMA LayoutNext == WindowInv /\ LayoutInv /\ [MakeNext]_makeVars => LayoutInv'
<1> SUFFICES ASSUME WindowInv, LayoutInv, [MakeNext]_makeVars PROVE LayoutInv'
  OBVIOUS
<1>1. CASE UNCHANGED makeVars
  BY <1>1 DEF makeVars, LayoutInv, TablesTo, Width
<1>2. CASE FinishSlot
  BY <1>2, TableFollows
<1>3. CASE FinishPad
  BY <1>3, PadLayout
<1>4. CASE FinishCommit
  <2>1. /\ phase = "tables" /\ slot = SLOTS /\ phase' = "done" /\ hdr' = hdr /\ bits' = bits
        /\ pos' = pos /\ hp' = hp
        /\ file' = [size |-> pos, recs |-> disk, hdr |-> hdr, tab |-> tab]
    BY <1>4 DEF FinishCommit
  <2>2. TablesTo(hdr, SLOTS, pos) /\ HEADER_SZ =< pos /\ HEADER_SZ =< hp.p
        /\ hdr \in [Slots -> [hpos : Nat, hslots : Nat]]
    BY <2>1, PowerAssumption DEF LayoutInv
  <2>3. file'.size = pos /\ file'.hdr = hdr
    BY <2>1
  <2>4. TablesTo(file.hdr, SLOTS, file.size)'
    BY <2>1, <2>2, <2>3 DEF TablesTo, Width
  <2> QED BY <2>1, <2>2, <2>3, <2>4 DEF LayoutInv
<1>5. CASE MakeNext /\ ~FinishPad /\ ~FinishSlot /\ ~FinishCommit
  <2>1. HEADER_SZ =< pos' /\ HEADER_SZ =< hp'.p
    BY <1>5, HeaderBefore
  <2> QED BY <1>5, <2>1, FinishLeftAlone DEF LayoutInv
<1> QED BY <1>1, <1>2, <1>3, <1>4, <1>5

-----------------------------------------------------------------------------
(* The data records.                                                       *)

LEMMA RecordEnd == ASSUME NEW r \in Recs PROVE r.p \in Nat /\ EndOf(r) \in Nat /\ r.p + 8 =< EndOf(r)
<1>1. PICK p \in Nat, k \in Seq(Nat), d \in Nat : r.p = p /\ r.k = k /\ r.d = d
  BY DEF Recs
<1>2. Len(k) \in Nat
  OBVIOUS
<1> QED BY <1>1, <1>2 DEF EndOf, RecLen

\* The members of a sequence of records
LEMMA RecordAt == ASSUME NEW rs, Adjoining(rs), NEW i \in DOMAIN rs
                  PROVE  /\ rs[i] \in Recs /\ rs[i].p \in Nat /\ EndOf(rs[i]) \in Nat
                         /\ rs[i].p + 8 =< EndOf(rs[i]) /\ i \in Nat \ {0} /\ i =< Len(rs)
                         /\ Len(rs) \in Nat /\ Len(rs) \in DOMAIN rs
<1>1. rs \in Seq(Recs)
  BY DEF Adjoining
<1>2. rs[i] \in Recs /\ i \in Nat \ {0} /\ i =< Len(rs) /\ Len(rs) \in Nat /\ Len(rs) \in DOMAIN rs
  BY <1>1
<1> QED BY <1>2, RecordEnd

LEMMA AfterIs == ASSUME NEW rs, Adjoining(rs)
                 PROVE  After(rs) \in Nat /\ \A i \in DOMAIN rs : EndOf(rs[i]) =< After(rs)
<1>1. CASE rs = <<>>
  BY <1>1, PowerAssumption DEF After, HEADER_SZ
<1>2. CASE rs # <<>>
  <2>1. rs \in Seq(Recs) /\ Len(rs) \in DOMAIN rs
    BY <1>2 DEF Adjoining
  <2>2. EndOf(rs[Len(rs)]) \in Nat
    BY <2>1, RecordAt
  <2>3. ASSUME NEW i \in DOMAIN rs PROVE EndOf(rs[i]) =< EndOf(rs[Len(rs)])
    <3>1. CASE i = Len(rs)
      BY <2>2, <3>1
    <3>2. CASE i # Len(rs)
      <4>1. i < Len(rs)
        BY <2>1, <3>2
      <4>2. EndOf(rs[i]) =< rs[Len(rs)].p
        BY <2>1, <4>1 DEF Adjoining
      <4> QED BY <2>1, <4>2, RecordAt
    <3> QED BY <3>1, <3>2
  <2> QED BY <1>2, <2>2, <2>3 DEF After
<1> QED BY <1>1, <1>2

\* One more record, where the last one ends
LEMMA OneMore ==
    ASSUME NEW rs, Adjoining(rs), NEW r \in Recs, r.p = After(rs)
    PROVE  /\ Adjoining(Append(rs, r)) /\ After(Append(rs, r)) = EndOf(r)
           /\ Range(Append(rs, r)) = Range(rs) \cup {r}
<1> DEFINE new == Append(rs, r)
<1>1. rs \in Seq(Recs) /\ Len(rs) \in Nat
  BY DEF Adjoining
<1>2. /\ new \in Seq(Recs) /\ Len(new) = Len(rs) + 1 /\ new # <<>>
      /\ \A i \in DOMAIN rs : new[i] = rs[i]
      /\ new[Len(rs) + 1] = r
      /\ DOMAIN rs = 1 .. Len(rs) /\ DOMAIN new = 1 .. (Len(rs) + 1)
  BY <1>1
<1> HIDE DEF new
<1>3. new[1].p = HEADER_SZ
  <2>1. CASE rs = <<>>
    <3>1. Len(rs) = 0
      BY <2>1
    <3>2. new[1] = r
      BY <1>2, <3>1
    <3> QED BY <2>1, <3>2 DEF After
  <2>2. CASE rs # <<>>
    <3>1. 1 \in DOMAIN rs
      BY <1>1, <2>2
    <3> QED BY <1>2, <2>2, <3>1 DEF Adjoining
  <2> QED BY <2>1, <2>2
<1>4. ASSUME NEW i \in DOMAIN new, i + 1 \in DOMAIN new PROVE new[i + 1].p = EndOf(new[i])
  <2>1. i \in DOMAIN rs
    BY <1>1, <1>2, <1>4
  <2>2. CASE i = Len(rs)
    <3>1. rs # <<>>
      BY <2>1
    <3>2. After(rs) = EndOf(rs[i])
      BY <2>2, <3>1 DEF After
    <3> QED BY <1>2, <2>1, <2>2, <3>2
  <2>3. CASE i # Len(rs)
    <3>1. i + 1 \in DOMAIN rs
      BY <1>1, <1>2, <2>1, <2>3
    <3> QED BY <1>2, <2>1, <3>1 DEF Adjoining
  <2> QED BY <2>2, <2>3
<1>5. ASSUME NEW i \in DOMAIN new, NEW j \in DOMAIN new, i < j PROVE EndOf(new[i]) =< new[j].p
  <2>1. i \in DOMAIN rs
    BY <1>1, <1>2, <1>5
  <2>2. CASE j \in DOMAIN rs
    BY <1>2, <1>5, <2>1, <2>2 DEF Adjoining
  <2>3. CASE j \notin DOMAIN rs
    <3>1. j = Len(rs) + 1
      BY <1>1, <1>2, <2>3
    <3> QED BY <1>2, <2>1, <3>1, AfterIs
  <2> QED BY <2>2, <2>3
<1>6. Adjoining(new)
  BY <1>2, <1>3, <1>4, <1>5 DEF Adjoining
<1>7. After(new) = EndOf(r)
  BY <1>2 DEF After
<1>8. Range(new) = Range(rs) \cup {r}
  <2>1. DOMAIN new = DOMAIN rs \cup {Len(rs) + 1}
    BY <1>1, <1>2
  <2> QED BY <1>2, <2>1 DEF Range
<1> QED BY <1>6, <1>7, <1>8 DEF new

\* The last record is given up: the one before it, or the header, ends where it began.
LEMMA OneLess ==
    ASSUME NEW rs, Adjoining(rs), rs # <<>>
    PROVE  /\ Adjoining(Front(rs)) /\ After(Front(rs)) = rs[Len(rs)].p
           /\ Range(Front(rs)) = {x \in Range(rs) : x.p < rs[Len(rs)].p}
<1> DEFINE old == Front(rs)
<1>1. rs \in Seq(Recs) /\ Len(rs) \in Nat /\ Len(rs) # 0 /\ Len(rs) \in DOMAIN rs
  BY DEF Adjoining
<1>2. /\ old \in Seq(Recs) /\ Len(old) = Len(rs) - 1
      /\ DOMAIN old = 1 .. (Len(rs) - 1) /\ DOMAIN rs = 1 .. Len(rs)
      /\ \A i \in DOMAIN old : old[i] = rs[i]
  <2>1. old = [i \in 1 .. (Len(rs) - 1) |-> rs[i]]
    BY <1>1 DEF Front
  <2> QED BY <1>1, <2>1
<1> HIDE DEF old
<1>3. Adjoining(old)
  <2>1. \A i \in DOMAIN old : i \in DOMAIN rs /\ old[i] = rs[i]
    BY <1>1, <1>2
  <2>2. old # <<>> => 1 \in DOMAIN old
    BY <1>2
  <2> QED BY <1>2, <2>1, <2>2 DEF Adjoining
<1>4. After(old) = rs[Len(rs)].p
  <2>1. CASE old = <<>>
    <3>1. Len(rs) = 1
      BY <1>1, <1>2, <2>1
    <3> QED BY <2>1, <3>1 DEF After, Adjoining
  <2>2. CASE old # <<>>
    <3>1. Len(rs) - 1 \in DOMAIN old /\ Len(rs) - 1 \in DOMAIN rs /\ (Len(rs) - 1) + 1 = Len(rs)
      BY <1>1, <1>2, <2>2
    <3>2. rs[Len(rs)].p = EndOf(rs[Len(rs) - 1])
      BY <1>1, <3>1 DEF Adjoining
    <3> QED BY <1>2, <2>2, <3>1, <3>2 DEF After
  <2> QED BY <2>1, <2>2
<1>5. Range(old) = {x \in Range(rs) : x.p < rs[Len(rs)].p}
  <2>1. \A i \in DOMAIN rs : i \in DOMAIN old <=> rs[i].p < rs[Len(rs)].p
    <3>1. SUFFICES ASSUME NEW i \in DOMAIN rs
                   PROVE  i \in DOMAIN old <=> rs[i].p < rs[Len(rs)].p
      OBVIOUS
    <3>2. rs[i].p \in Nat /\ EndOf(rs[i]) \in Nat /\ rs[i].p + 8 =< EndOf(rs[i])
      BY RecordAt
    <3>3. rs[Len(rs)].p \in Nat
      BY <1>1, RecordAt
    <3>4. CASE i = Len(rs)
      BY <1>2, <3>3, <3>4
    <3>5. CASE i # Len(rs)
      <4>1. i < Len(rs) /\ i \in DOMAIN old
        BY <1>1, <1>2, <3>5
      <4>2. EndOf(rs[i]) =< rs[Len(rs)].p
        BY <1>1, <4>1 DEF Adjoining
      <4> QED BY <3>2, <3>3, <4>1, <4>2
    <3> QED BY <3>4, <3>5
  <2>2. DOMAIN old \subseteq DOMAIN rs
    BY <1>1, <1>2
  <2> QED BY <1>2, <2>1, <2>2 DEF Range
<1> QED BY <1>3, <1>4, <1>5 DEF old

LEMMA RecordsInit == MakeInit => RecordsInv
<1> SUFFICES ASSUME MakeInit PROVE RecordsInv
  OBVIOUS
<1>1. added = <<>> /\ disk = {} /\ phase = "new" /\ pos = HEADER_SZ /\ file = NoFile
  BY DEF MakeInit
<1>2. Adjoining(added)
  BY <1>1 DEF Adjoining
<1>3. {x \in disk : x.p < pos} = Range(added)
  BY <1>1 DEF Range
<1> QED BY <1>1, <1>2, <1>3 DEF RecordsInv, NextPos, After

\* A record in progress goes behind those there are, over what was reverted.
LEMMA RecordBegins ==
    ASSUME WindowInv, RecordsInv, NEW r \in Records, AddBegin(r) PROVE RecordsInv'
<1>1. PICK k \in Seq(Nat), d \in Nat : r.k = k /\ r.d = d
  BY MakeAssumption
<1>2. /\ phase \in Between /\ pos' = pos + 8 /\ phase' = "begun"
      /\ hp' = [p |-> pos, h |-> HashInit, l |-> Len(k)]
      /\ cur' = [k |-> k, d |-> d, left |-> d]
      /\ disk' = {x \in disk : x.p < pos} \cup {[p |-> pos, k |-> k, d |-> d]}
      /\ added' = added /\ file' = file
  BY <1>1 DEF AddBegin, Writes, finishVars
<1>3. /\ pos = NextPos /\ {x \in disk : x.p < pos} = Range(added) /\ disk \subseteq Recs
      /\ Adjoining(added) /\ file = NoFile
  BY <1>2 DEF RecordsInv, Between
<1>4. pos \in Nat
  BY WindowTypes
<1>5. [p |-> pos, k |-> k, d |-> d] \in Recs
  BY <1>4 DEF Recs
<1>6. hp'.p = pos /\ cur'.k = k /\ cur'.d = d
  BY <1>2
<1>7. disk' = Range(added') \cup {[p |-> hp'.p, k |-> cur'.k, d |-> cur'.d]}
  BY <1>2, <1>3, <1>6
<1>8. disk' \subseteq Recs
  BY <1>2, <1>3, <1>5
<1>9. Adjoining(added') /\ hp'.p = After(added')
  BY <1>2, <1>3, <1>6 DEF NextPos
<1> QED BY <1>2, <1>3, <1>6, <1>7, <1>8, <1>9 DEF RecordsInv, NextPos

\* What is left to write of it gets less.
LEMMA RecordFills ==
    ASSUME WindowInv, RecordsInv, AddbufKey \/ AddbufData PROVE RecordsInv'
<1>1. /\ phase \in {"begun", "keyed"} /\ phase' = "keyed" /\ UNCHANGED <<disk, added, file>>
  BY DEF AddbufKey, AddbufData, finishVars
<1>2. /\ hp.p = NextPos /\ disk = Range(added) \cup {[p |-> hp.p, k |-> cur.k, d |-> cur.d]}
      /\ disk \subseteq Recs /\ Adjoining(added) /\ file = NoFile
  BY <1>1 DEF RecordsInv
<1>3. PICK k \in Seq(Nat), d \in Nat, l \in Nat : cur = [k |-> k, d |-> d, left |-> l]
  BY WindowTypes
<1>4. pos \in Nat /\ hp.p \in Nat /\ hp = [p |-> hp.p, h |-> hp.h, l |-> hp.l] /\ Len(k) \in Nat
  BY WindowTypes
<1>5. hp'.p = hp.p /\ cur'.k = k /\ cur'.d = d /\ pos' + cur'.left = hp.p + RecLen(k, d)
  <2>1. CASE AddbufKey
    <3>1. /\ pos = hp.p + 8 /\ l = d
      BY <2>1, <1>3 DEF AddbufKey, RecordsInv, WindowInv
    <3>2. pos' = pos + Len(k) /\ cur' = cur /\ hp' = [hp EXCEPT !.h = Hash(@, cur.k)]
      BY <2>1, <1>3 DEF AddbufKey, Writes
    <3>3. hp'.p = hp.p
      BY <1>4, <3>2
    <3>4. cur'.left = l /\ cur'.k = k /\ cur'.d = d
      BY <1>3, <3>2
    <3>5. pos' + l = hp.p + RecLen(k, d)
      BY <1>4, <3>1, <3>2 DEF RecLen
    <3> QED BY <3>3, <3>4, <3>5
  <2>2. CASE AddbufData
    <3> DEFINE n == IF cur.left < ChunkSz THEN cur.left ELSE ChunkSz
    <3>1. pos' = pos + n /\ cur' = [cur EXCEPT !.left = @ - n] /\ hp' = hp
      BY <2>2 DEF AddbufData, Writes
    <3>2. pos + l = hp.p + RecLen(k, d)
      BY <2>2, <1>3 DEF AddbufData, RecordsInv
    <3>3. n \in Nat
      <4>1. cur.left \in Nat
        BY <1>3
      <4> QED BY <4>1, MakeAssumption
    <3> HIDE DEF n
    <3>4. cur' = [k |-> k, d |-> d, left |-> l - n]
      BY <1>3, <3>1
    <3>5. cur'.k = k /\ cur'.d = d /\ cur'.left = l - n
      BY <3>4
    <3>6. pos' + (l - n) = pos + l
      BY <1>4, <3>1, <3>3
    <3> QED BY <3>1, <3>2, <3>5, <3>6
  <2> QED BY <2>1, <2>2
<1>6. cur.k = k /\ cur.d = d
  BY <1>3
<1> QED BY <1>1, <1>2, <1>5, <1>6 DEF RecordsInv, NextPos

\* A record is complete: it is one of those added.
LEMMA RecordComplete == ASSUME WindowInv, RecordsInv, AddEnd PROVE RecordsInv'
<1> DEFINE r == [p |-> hp.p, k |-> cur.k, d |-> cur.d]
<1>1. /\ phase = "keyed" /\ cur.left = 0 /\ phase' = "added" /\ pos' = pos
      /\ (hp' = hp \/ hp' = [hp EXCEPT !.l = -1])
      /\ added' = Append(added, r) /\ disk' = disk /\ file' = file
  BY DEF AddEnd, finishVars
<1>2. /\ hp.p = After(added) /\ disk = Range(added) \cup {r}
      /\ disk \subseteq Recs /\ Adjoining(added) /\ file = NoFile
      /\ pos + cur.left = hp.p + RecLen(cur.k, cur.d)
  BY <1>1 DEF RecordsInv, NextPos
<1>3. r \in Recs /\ r.p = hp.p /\ r.k = cur.k /\ r.d = cur.d
  BY <1>2
<1>4. pos \in Nat /\ hp = [p |-> hp.p, h |-> hp.h, l |-> hp.l]
  BY WindowTypes
<1>5. pos = EndOf(r)
  <2>1. pos + 0 = pos
    BY <1>4
  <2> QED BY <1>1, <1>2, <1>3, <2>1 DEF EndOf
<1> HIDE DEF r
<1>6. /\ Adjoining(added') /\ After(added') = EndOf(r) /\ Range(added') = Range(added) \cup {r}
  BY <1>1, <1>2, <1>3, OneMore
<1>7. ASSUME NEW x \in disk PROVE x.p < pos
  <2>1. PICK i \in DOMAIN added' : x = added'[i]
    BY <1>2, <1>6, <1>7 DEF Range
  <2>2. x.p \in Nat /\ EndOf(x) \in Nat /\ x.p + 8 =< EndOf(x)
    BY <1>2, <1>7, RecordEnd
  <2>3. EndOf(x) =< EndOf(r)
    BY <1>6, <2>1, AfterIs
  <2> QED BY <1>4, <1>5, <2>2, <2>3
<1>8. {x \in disk' : x.p < pos'} = Range(added')
  BY <1>1, <1>2, <1>6, <1>7
<1>9. added' # <<>> /\ added'[Len(added')] = r
  <2>1. added \in Seq(Recs)
    BY <1>2 DEF Adjoining
  <2> QED BY <1>1, <1>3, <2>1
<1>10. hp'.p = hp.p
  BY <1>1, <1>4
<1> QED BY <1>1, <1>2, <1>3, <1>5, <1>6, <1>8, <1>9, <1>10 DEF RecordsInv, NextPos

\* It is given up, or the one completed last is: the next goes in its place.
LEMMA RecordReverts == ASSUME WindowInv, RecordsInv, AddRevert PROVE RecordsInv'
<1>1. /\ phase \in {"begun", "keyed", "added"} /\ phase' = "idle" /\ pos' = hp.p
      /\ added' = IF phase = "added" THEN Front(added) ELSE added
      /\ disk' = disk /\ file' = file
  BY DEF AddRevert, finishVars
<1>2. Adjoining(added) /\ disk \subseteq Recs /\ file = NoFile
  BY <1>1 DEF RecordsInv
<1>3. CASE phase \in {"begun", "keyed"}
  <2>1. hp.p = After(added) /\ disk = Range(added) \cup {[p |-> hp.p, k |-> cur.k, d |-> cur.d]}
    BY <1>3 DEF RecordsInv, NextPos
  <2>2. added' = added
    BY <1>1, <1>3
  <2>3. hp.p \in Nat /\ ~(hp.p < hp.p)
    BY WindowTypes
  <2>4. ASSUME NEW x \in Range(added) PROVE x.p < hp.p
    <3>1. PICK i \in DOMAIN added : x = added[i]
      BY <2>4 DEF Range
    <3>2. x.p \in Nat /\ EndOf(x) \in Nat /\ x.p + 8 =< EndOf(x) /\ EndOf(x) =< hp.p
      BY <1>2, <2>1, <3>1, RecordAt, AfterIs
    <3> QED BY <2>3, <3>2
  <2>5. {x \in disk' : x.p < pos'} = Range(added')
    <3>1. [p |-> hp.p, k |-> cur.k, d |-> cur.d].p = hp.p
      OBVIOUS
    <3> QED BY <1>1, <2>1, <2>2, <2>3, <2>4, <3>1
  <2> QED BY <1>1, <1>2, <2>1, <2>2, <2>5 DEF RecordsInv, NextPos
<1>4. CASE phase = "added"
  <2>1. /\ {x \in disk : x.p < pos} = Range(added) /\ pos = After(added)
        /\ added # <<>> /\ hp.p = added[Len(added)].p
    BY <1>4 DEF RecordsInv, NextPos
  <2>2. /\ added' = Front(added) /\ Adjoining(added') /\ After(added') = pos'
        /\ Range(added') = {x \in Range(added) : x.p < pos'}
    BY <1>1, <1>2, <1>4, <2>1, OneLess
  <2>3. pos' \in Nat /\ pos \in Nat /\ pos' =< pos
    <3>1. Len(added) \in DOMAIN added
      BY <1>2, <2>1 DEF Adjoining
    <3>2. pos' \in Nat /\ EndOf(added[Len(added)]) \in Nat /\ pos' + 8 =< EndOf(added[Len(added)])
      BY <1>1, <1>2, <2>1, <3>1, RecordAt
    <3>3. EndOf(added[Len(added)]) =< pos /\ pos \in Nat
      BY <1>2, <2>1, <3>1, AfterIs
    <3> QED BY <3>2, <3>3
  <2>4. \A x \in disk : x.p < pos' => x.p < pos
    <3>1. \A x \in disk : x.p \in Nat
      BY <1>2, RecordEnd
    <3> QED BY <2>3, <3>1
  <2>5. {x \in disk' : x.p < pos'} = Range(added')
    BY <1>1, <2>1, <2>2, <2>4
  <2> QED BY <1>1, <1>2, <2>2, <2>5 DEF RecordsInv, NextPos
<1> QED BY <1>1, <1>3, <1>4

\* mcdb_make_finish keeps the records, and puts its tables behind them.
LEMMA RecordsFinish ==
    ASSUME WindowInv, LayoutInv, RecordsInv, FinishPad \/ FinishSlot \/ FinishCommit
    PROVE  RecordsInv'
<1>1. Adjoining(added) /\ disk \subseteq Recs /\ pos \in Nat /\ After(added) \in Nat /\ added' = added
  BY AfterIs, WindowTypes DEF RecordsInv, FinishPad, FinishSlot, FinishCommit
<1>2. CASE FinishPad
  <2>1. /\ phase \in Between /\ phase' = "tables" /\ pos' = pos + Padding /\ slot' = slot
        /\ disk' = {x \in disk : x.p < pos} /\ file' = file
    BY <1>2 DEF FinishPad, Writes
  <2>2. pos = After(added) /\ {x \in disk : x.p < pos} = Range(added) /\ file = NoFile /\ slot = 0
    BY <2>1 DEF RecordsInv, NextPos, LayoutInv, Between
  <2>3. After(added) =< pos'
    BY <1>1, <2>1, <2>2, PadAligns
  <2> QED BY <1>1, <2>1, <2>2, <2>3 DEF RecordsInv, NextPos
<1>3. CASE FinishSlot
  <2>1. /\ phase = "tables" /\ phase' = "tables" /\ slot < SLOTS /\ slot' = slot + 1
        /\ pos' = pos + TableSz /\ file' = file /\ disk' = disk
        /\ hdr' = [hdr EXCEPT ![slot] = [hpos |-> pos, hslots |-> TableLen(slot)]]
    BY <1>3 DEF FinishSlot, Writes
  <2>2. /\ disk = Range(added) /\ After(added) =< pos /\ file = NoFile
        /\ slot > 0 => After(added) =< hdr[0].hpos
    BY <2>1 DEF RecordsInv, NextPos
  <2>3. TableSz \in Nat /\ slot \in Nat /\ hdr \in [Slots -> [hpos : Nat, hslots : Nat]] /\ 0 \in Slots
    BY <2>1, FinishSizes, WindowTypes, SlotsAre DEF LayoutInv
  <2>4. After(added) =< pos'
    BY <1>1, <2>1, <2>2, <2>3
  <2>5. After(added) =< hdr'[0].hpos
    <3>1. CASE slot = 0
      <4>1. hdr'[0].hpos = pos
        BY <2>1, <2>3, <3>1
      <4> QED BY <2>2, <4>1
    <3>2. CASE slot # 0
      <4>1. hdr'[0] = hdr[0] /\ slot > 0
        BY <2>1, <2>3, <3>2
      <4> QED BY <2>2, <4>1
    <3> QED BY <3>1, <3>2
  <2> QED BY <1>1, <2>1, <2>2, <2>4, <2>5 DEF RecordsInv, NextPos
<1>4. CASE FinishCommit
  <2>1. /\ phase = "tables" /\ slot = SLOTS /\ phase' = "done" /\ disk' = disk
        /\ file' = [size |-> pos, recs |-> disk, hdr |-> hdr, tab |-> tab]
    BY <1>4 DEF FinishCommit
  <2>2. disk = Range(added) /\ After(added) =< hdr[0].hpos
    BY <2>1, SlotsAre DEF RecordsInv, NextPos
  <2>3. file'.recs = disk /\ file'.hdr = hdr
    BY <2>1
  <2> QED BY <1>1, <2>1, <2>2, <2>3 DEF RecordsInv, NextPos
<1> QED BY <1>2, <1>3, <1>4

LEMMA RecordsNext == WindowInv /\ LayoutInv /\ RecordsInv /\ [MakeNext]_makeVars => RecordsInv'
<1> SUFFICES ASSUME WindowInv, LayoutInv, RecordsInv, [MakeNext]_makeVars PROVE RecordsInv'
  OBVIOUS
<1>1. CASE UNCHANGED makeVars
  BY <1>1 DEF makeVars, RecordsInv, NextPos
<1>2. CASE Start
  BY <1>2 DEF Start, RecordsInv, NextPos, finishVars
<1>3. CASE StartFails \/ FinishFails \/ CommitFails \/ Destroy
  BY <1>3 DEF StartFails, FinishFails, CommitFails, Destroy, RecordsInv, finishVars, Between
<1>4. ASSUME NEW r \in Records, AddBeginFails(r) PROVE RecordsInv'
  BY <1>4 DEF AddBeginFails, RecordsInv, finishVars, Between
<1> QED BY <1>1, <1>2, <1>3, <1>4, RecordBegins, RecordFills, RecordComplete, RecordReverts,
     RecordsFinish DEF MakeNext

-----------------------------------------------------------------------------
(* Hashes and sums: recursions over a key and over the slots.              *)

\* Every nonempty set of naturals has a least element.
LEMMA LeastNat == ASSUME NEW T \in SUBSET Nat, T # {} PROVE \E x \in T : \A y \in T : x =< y
<1>1. IsWellFoundedOn(OpToRel(<, Nat), Nat)
  BY NatLessThanWellFounded
<1>2. PICK x \in T : \A y \in T : ~ (<<y, x>> \in OpToRel(<, Nat))
  BY <1>1, WFMin, Zenon
<1>3. \A y \in T : ~ (y < x)
  BY <1>2 DEF OpToRel
<1> QED BY <1>3

\* The recursion of hash_fn has a solution, which stays in a uint32_t.
\* f[i] is the hash of the first i characters of k, from h on.
HashSteps(f, h, k) == f[0] = h /\ \A i \in 1 .. Len(k) : f[i] = Mix(f[i - 1], k[i])

LEMMA HashHas == ASSUME NEW h, NEW k \in Seq(Nat) PROVE \E f : HashSteps(f, h, k) /\ Hash(h, k) = f[Len(k)]
<1> DEFINE Rec(f, n) == f = [i \in 0 .. n |-> IF i = 0 THEN h ELSE Mix(f[i - 1], k[i])]
<1>1. Len(k) \in Nat /\ DOMAIN k = 1 .. Len(k)
  OBVIOUS
<1>2. ASSUME NEW n \in Nat PROVE \E f : Rec(f, n)
  <2>1. SUFFICES ASSUME {m \in Nat : ~ \E f : Rec(f, m)} # {} PROVE FALSE
    OBVIOUS
  <2>2. PICK m \in Nat : /\ ~ \E f : Rec(f, m)
                         /\ \A y \in Nat : (~ \E f : Rec(f, y)) => m =< y
    <3> DEFINE T == {y \in Nat : ~ \E f : Rec(f, y)}
    <3> HIDE DEF Rec
    <3>1. T \in SUBSET Nat /\ T # {}
      BY <2>1
    <3>2. PICK x \in T : \A y \in T : x =< y
      BY <3>1, LeastNat
    <3> QED BY <3>2
  <2>3. m # 0
    <3>1. ASSUME m = 0 PROVE FALSE
      <4> DEFINE f == [i \in 0 .. 0 |-> h]
      <4>1. Rec(f, 0)
        OBVIOUS
      <4> HIDE DEF f, Rec
      <4> QED BY <2>2, <3>1, <4>1
    <3> QED BY <3>1
  <2>4. PICK g : Rec(g, m - 1)
    <3>1. m - 1 \in Nat /\ ~ (m =< m - 1)
      BY <2>3
    <3> HIDE DEF Rec
    <3> QED BY <2>2, <3>1
  <2> DEFINE f == [i \in 0 .. m |-> IF i = m THEN Mix(g[m - 1], k[m]) ELSE g[i]]
  <2>5. \A i \in 0 .. m : f[i] = IF i = 0 THEN h ELSE Mix(f[i - 1], k[i])
    <3>1. SUFFICES ASSUME NEW i \in 0 .. m PROVE f[i] = IF i = 0 THEN h ELSE Mix(f[i - 1], k[i])
      OBVIOUS
    <3>2. CASE i = 0
      <4>1. f[0] = g[0] /\ 0 \in 0 .. m - 1
        BY <2>3
      <4>2. g[0] = h
        BY <2>4, <4>1
      <4> QED BY <3>2, <4>1, <4>2
    <3>3. CASE i # 0 /\ i # m
      <4>1. i \in 0 .. m - 1 /\ i - 1 \in 0 .. m - 1 /\ i - 1 \in 0 .. m /\ i - 1 # m
        BY <3>3
      <4>2. g[i] = Mix(g[i - 1], k[i])
        BY <2>4, <3>3, <4>1
      <4>3. f[i] = g[i] /\ f[i - 1] = g[i - 1]
        BY <3>3, <4>1
      <4> QED BY <3>3, <4>2, <4>3
    <3>4. CASE i = m
      <4>1. f[m] = Mix(g[m - 1], k[m])
        OBVIOUS
      <4>2. f[m - 1] = g[m - 1]
        BY <2>3
      <4> QED BY <2>3, <3>4, <4>1, <4>2
    <3> QED BY <3>2, <3>3, <3>4
  <2>6. f = [i \in 0 .. m |-> f[i]]
    OBVIOUS
  <2>7. Rec(f, m)
    <3> HIDE DEF f
    <3> QED BY <2>5, <2>6
  <2> HIDE DEF f, Rec
  <2> QED BY <2>2, <2>7
<1> DEFINE F == CHOOSE f : Rec(f, Len(k))
<1>3. Rec(F, Len(k))
  <2> HIDE DEF Rec
  <2> QED BY <1>1, <1>2
<1>4. Hash(h, k) = F[Len(k)]
  BY DEF Hash
<1> HIDE DEF F
<1>5. 0 \in 0 .. Len(k) /\ \A i \in 1 .. Len(k) : i \in 0 .. Len(k) /\ i # 0
  BY <1>1
<1> QED BY <1>3, <1>4, <1>5 DEF HashSteps

LEMMA HashFits ==
    ASSUME NEW h \in 0 .. UINT_MAX, NEW k \in Seq(Nat),
           \A i \in DOMAIN k : \A g \in 0 .. UINT_MAX : Mix(g, k[i]) \in 0 .. UINT_MAX
    PROVE  Hash(h, k) \in 0 .. UINT_MAX
<1>1. Len(k) \in Nat /\ DOMAIN k = 1 .. Len(k)
  OBVIOUS
<1>2. PICK F : HashSteps(F, h, k) /\ Hash(h, k) = F[Len(k)]
  BY HashHas
<1>3. F[0] = h /\ \A i \in 1 .. Len(k) : F[i] = Mix(F[i - 1], k[i])
  BY <1>2 DEF HashSteps
<1>4. Hash(h, k) = F[Len(k)]
  BY <1>2
<1>5. \A n \in 0 .. Len(k) : F[n] \in 0 .. UINT_MAX
  <2>1. SUFFICES ASSUME {n \in 0 .. Len(k) : F[n] \notin 0 .. UINT_MAX} # {} PROVE FALSE
    OBVIOUS
  <2>2. PICK n \in 0 .. Len(k) : /\ F[n] \notin 0 .. UINT_MAX
                                 /\ \A y \in 0 .. Len(k) : F[y] \notin 0 .. UINT_MAX => n =< y
    <3> DEFINE T == {y \in 0 .. Len(k) : F[y] \notin 0 .. UINT_MAX}
    <3>1. T \in SUBSET Nat /\ T # {}
      BY <1>1, <2>1
    <3>2. PICK x \in T : \A y \in T : x =< y
      BY <3>1, LeastNat
    <3> QED BY <3>2
  <2>3. F[n] = IF n = 0 THEN h ELSE Mix(F[n - 1], k[n])
    BY <1>1, <1>3
  <2>4. n # 0
    BY <2>2, <2>3
  <2>5. n - 1 \in 0 .. Len(k) /\ ~ (n =< n - 1) /\ n \in DOMAIN k
    BY <1>1, <2>4
  <2>6. F[n - 1] \in 0 .. UINT_MAX
    BY <2>2, <2>5
  <2>7. F[n] = Mix(F[n - 1], k[n])
    BY <2>3, <2>4
  <2>8. F[n] \in 0 .. UINT_MAX
    BY <2>5, <2>6, <2>7
  <2> QED BY <2>2, <2>8
<1>6. Len(k) \in 0 .. Len(k)
  BY <1>1
<1> QED BY <1>4, <1>5, <1>6

\* A sum over the slots kept in a uint32_t, when it fits: there is one, ...
LEMMA SomeSum ==
    ASSUME NEW c \in [Slots -> Nat], NEW n \in 0 .. UINT_MAX, AddUpTo(c, n)
    PROVE  \E F : F = [s \in -1 .. SLOTS - 1 |-> IF s = -1 THEN 0 ELSE (F[s - 1] + c[s]) % 2 ^ W]
<1>1. PICK p \in [-1 .. SLOTS - 1 -> 0 .. n] : p[-1] = 0 /\ \A s \in Slots : p[s] = p[s - 1] + c[s]
  BY DEF AddUpTo
<1>2. n \in Nat /\ 2 ^ W \in Nat /\ n < 2 ^ W
  BY PowerAssumption, FormatAssumption DEF UINT_MAX
<1>0. \A x \in 0 .. n : x % 2 ^ W = x
  BY <1>2
<1>3. ASSUME NEW s \in -1 .. SLOTS - 1, s # -1 PROVE p[s] = (p[s - 1] + c[s]) % 2 ^ W
  <2>1. s \in Slots /\ p[s] \in 0 .. n
    BY <1>3, PowerAssumption DEF Slots
  <2>2. p[s] = p[s - 1] + c[s]
    BY <1>1, <2>1
  <2>3. p[s] % 2 ^ W = p[s]
    BY <1>0, <2>1
  <2> QED BY <2>2, <2>3
<1>4. p = [s \in -1 .. SLOTS - 1 |-> p[s]]
  OBVIOUS
<1>5. \A s \in -1 .. SLOTS - 1 : p[s] = IF s = -1 THEN 0 ELSE (p[s - 1] + c[s]) % 2 ^ W
  BY <1>1, <1>3
<1>6. p = [s \in -1 .. SLOTS - 1 |-> IF s = -1 THEN 0 ELSE (p[s - 1] + c[s]) % 2 ^ W]
  BY <1>4, <1>5
<1> QED BY <1>6

\* ... and it gives the sum.
LEMMA OnlySum ==
    ASSUME NEW c \in [Slots -> Nat], NEW n \in 0 .. UINT_MAX, AddUpTo(c, n), NEW F,
           \A s \in -1 .. SLOTS - 1 : F[s] = IF s = -1 THEN 0 ELSE (F[s - 1] + c[s]) % 2 ^ W
    PROVE  F[SLOTS - 1] = n
<1>1. PICK p \in [-1 .. SLOTS - 1 -> 0 .. n] :
         p[-1] = 0 /\ p[SLOTS - 1] = n /\ \A s \in Slots : p[s] = p[s - 1] + c[s]
  BY DEF AddUpTo
<1>2. n \in Nat /\ 2 ^ W \in Nat /\ n < 2 ^ W
  BY PowerAssumption, FormatAssumption DEF UINT_MAX
<1>0. \A x \in 0 .. n : x % 2 ^ W = x
  BY <1>2
<1>3. \A s \in -1 .. SLOTS - 1 : F[s] = p[s]
  <2> DEFINE T == {k \in Nat : k - 1 \in -1 .. SLOTS - 1 /\ F[k - 1] # p[k - 1]}
  <2>1. SUFFICES ASSUME T # {} PROVE FALSE
    <3>1. ASSUME NEW s \in -1 .. SLOTS - 1, F[s] # p[s] PROVE s + 1 \in T
      <4>1. s + 1 \in Nat /\ (s + 1) - 1 = s
        BY PowerAssumption
      <4> QED BY <3>1, <4>1
    <3> QED BY <3>1
  <2>2. PICK k \in T : \A y \in T : k =< y
    <3>1. T \in SUBSET Nat
      OBVIOUS
    <3> QED BY <2>1, <3>1, LeastNat
  <2>3. k - 1 # -1
    BY <1>1, <2>2, PowerAssumption
  <2>4. k - 1 \in Slots /\ k - 1 \in -1 .. SLOTS - 1 /\ (k - 1) - 1 \in -1 .. SLOTS - 1
    BY <2>3, PowerAssumption DEF Slots
  <2>5. F[(k - 1) - 1] = p[(k - 1) - 1]
    <3>1. k - 1 \in Nat /\ ~ (k =< k - 1)
      BY <2>3
    <3> QED BY <2>2, <2>4, <3>1
  <2>6. F[k - 1] = (F[(k - 1) - 1] + c[k - 1]) % 2 ^ W
    BY <2>3, <2>4
  <2>7. p[k - 1] = p[(k - 1) - 1] + c[k - 1] /\ p[k - 1] \in 0 .. n
    BY <1>1, <2>4
  <2>8. p[k - 1] % 2 ^ W = p[k - 1]
    BY <1>0, <2>7
  <2> QED BY <2>2, <2>5, <2>6, <2>7, <2>8
<1>4. SLOTS - 1 \in -1 .. SLOTS - 1
  BY PowerAssumption
<1> QED BY <1>1, <1>3, <1>4

LEMMA TotalIs == ASSUME count \in [Slots -> Nat], NEW n \in 0 .. UINT_MAX, AddUpTo(count, n)
                 PROVE  Total = n
<1> DEFINE F == CHOOSE f : f = [s \in -1 .. SLOTS - 1 |->
                                  IF s = -1 THEN 0 ELSE (f[s - 1] + count[s]) % 2 ^ W]
<1>1. F = [s \in -1 .. SLOTS - 1 |-> IF s = -1 THEN 0 ELSE (F[s - 1] + count[s]) % 2 ^ W]
  BY SomeSum
<1>2. Total = F[SLOTS - 1]
  BY DEF Total
<1> HIDE DEF F
<1>3. \A s \in -1 .. SLOTS - 1 : F[s] = IF s = -1 THEN 0 ELSE (F[s - 1] + count[s]) % 2 ^ W
  BY <1>1
<1> QED BY <1>2, <1>3, OnlySum

\* One record more, in slot s0
LEMMA OneMoreCounted ==
    ASSUME NEW c \in [Slots -> Nat], NEW n \in Nat, AddUpTo(c, n), NEW s0 \in Slots
    PROVE  AddUpTo([c EXCEPT ![s0] = @ + 1], n + 1)
<1> DEFINE d == [c EXCEPT ![s0] = @ + 1]
<1>1. PICK p \in [-1 .. SLOTS - 1 -> 0 .. n] :
         p[-1] = 0 /\ p[SLOTS - 1] = n /\ \A s \in Slots : p[s] = p[s - 1] + c[s]
  BY DEF AddUpTo
<1> DEFINE q == [s \in -1 .. SLOTS - 1 |-> IF s < s0 THEN p[s] ELSE p[s] + 1]
<1>2. s0 \in 0 .. SLOTS - 1 /\ SLOTS \in Nat
  BY PowerAssumption DEF Slots
<1>3. q \in [-1 .. SLOTS - 1 -> 0 .. n + 1]
  <2>1. \A s \in -1 .. SLOTS - 1 : p[s] \in 0 .. n
    OBVIOUS
  <2>2. \A x \in 0 .. n : x \in 0 .. n + 1 /\ x + 1 \in 0 .. n + 1
    OBVIOUS
  <2> QED BY <2>1, <2>2
<1>4. q[-1] = 0 /\ q[SLOTS - 1] = n + 1
  BY <1>1, <1>2
<1>5. ASSUME NEW s \in Slots PROVE q[s] = q[s - 1] + d[s]
  <2>1. s \in -1 .. SLOTS - 1 /\ s - 1 \in -1 .. SLOTS - 1 /\ p[s] = p[s - 1] + c[s]
    BY <1>1, <1>2 DEF Slots
  <2>2. p[s - 1] \in Nat /\ c[s] \in Nat
    BY <2>1
  <2>3. q[s] = (IF s < s0 THEN p[s] ELSE p[s] + 1) /\ q[s - 1] = (IF s - 1 < s0 THEN p[s - 1] ELSE p[s - 1] + 1)
    BY <2>1
  <2>4. d[s] = IF s = s0 THEN c[s] + 1 ELSE c[s]
    OBVIOUS
  <2> HIDE DEF q, d
  <2> QED BY <1>2, <2>1, <2>2, <2>3, <2>4
<1> HIDE DEF q, d
<1>6. AddUpTo(d, n + 1)
  BY <1>3, <1>4, <1>5 DEF AddUpTo
<1> QED BY <1>6 DEF d

-----------------------------------------------------------------------------
(* The number of records.                                                  *)

LEMMA KeyInit == MakeInit => KeyInv
<1> SUFFICES ASSUME MakeInit PROVE KeyInv
  OBVIOUS
<1>1. hp.h = 0 /\ phase = "new"
  BY DEF MakeInit
<1>2. 0 \in 0 .. UINT_MAX
  BY PowerAssumption
<1> QED BY <1>1, <1>2 DEF KeyInv

\* hp.h is HashInit or the hash of a key the caller added.
LEMMA KeyNext == WindowInv /\ KeyInv /\ [MakeNext]_makeVars => KeyInv'
<1> SUFFICES ASSUME WindowInv, KeyInv, [MakeNext]_makeVars PROVE KeyInv'
  OBVIOUS
<1>1. HashInit \in 0 .. UINT_MAX /\ hp.h \in 0 .. UINT_MAX
  BY FormatAssumption DEF KeyInv
<1>2. PICK hp0, hh, hl : hp = [p |-> hp0, h |-> hh, l |-> hl]
  BY WindowTypes
<1>3. PICK k \in Seq(Nat), d \in Nat, l \in Nat : cur = [k |-> k, d |-> d, left |-> l]
  BY WindowTypes
<1>4. CASE UNCHANGED makeVars
  BY <1>4 DEF makeVars, KeyInv
<1>5. ASSUME NEW r \in Records, AddBegin(r) PROVE KeyInv'
  <2>1. /\ phase' = "begun" /\ hp' = [p |-> pos, h |-> HashInit, l |-> Len(r.k)]
        /\ cur' = [k |-> r.k, d |-> r.d, left |-> r.d]
    BY <1>5 DEF AddBegin
  <2>2. hp'.h = HashInit /\ cur'.k = r.k
    BY <2>1
  <2> QED BY <1>1, <2>1, <2>2 DEF KeyInv
<1>6. ASSUME NEW r \in Records, AddBeginFails(r) PROVE KeyInv'
  <2>1. /\ phase' = "error"
        /\ \/ hp' = hp \/ hp' = [hp EXCEPT !.p = pos, !.h = HashInit]
           \/ hp' = [p |-> pos, h |-> HashInit, l |-> Len(r.k)]
    BY <1>6 DEF AddBeginFails
  <2>2. CASE hp' = hp
    BY <1>1, <2>1, <2>2 DEF KeyInv
  <2>3. CASE hp' = [hp EXCEPT !.p = pos, !.h = HashInit]
    <3>1. hp'.h = HashInit
      BY <1>2, <2>3
    <3> QED BY <1>1, <2>1, <3>1 DEF KeyInv
  <2>4. CASE hp' = [p |-> pos, h |-> HashInit, l |-> Len(r.k)]
    <3>1. hp'.h = HashInit
      BY <2>4
    <3> QED BY <1>1, <2>1, <3>1 DEF KeyInv
  <2> QED BY <2>1, <2>2, <2>3, <2>4
<1>7. CASE AddbufKey
  <2>1. /\ phase = "begun" /\ phase' = "keyed" /\ hp' = [hp EXCEPT !.h = Hash(@, cur.k)] /\ cur' = cur
    BY <1>7 DEF AddbufKey
  <2>2. hp'.h = Hash(hp.h, cur.k)
    BY <1>2, <2>1
  <2>3. PICK rec \in Records : cur.k = rec.k
    BY <2>1 DEF KeyInv
  <2>4. \A i \in DOMAIN cur.k : \A g \in 0 .. UINT_MAX : Mix(g, cur.k[i]) \in 0 .. UINT_MAX
    BY <2>3, MakeHashAssumption
  <2>5. cur.k \in Seq(Nat)
    BY <1>3
  <2>6. Hash(hp.h, cur.k) \in 0 .. UINT_MAX
    BY <1>1, <2>4, <2>5, HashFits
  <2>7. \E x \in Records : cur'.k = x.k
    BY <2>1, <2>3
  <2> QED BY <2>1, <2>2, <2>6, <2>7 DEF KeyInv
<1>8. CASE AddbufData
  <2>1. /\ phase = "keyed" /\ phase' = phase /\ hp' = hp
        /\ \E n : cur' = [cur EXCEPT !.left = @ - n]
    BY <1>8 DEF AddbufData
  <2>2. cur'.k = cur.k
    BY <1>3, <2>1
  <2> QED BY <1>1, <2>1, <2>2 DEF KeyInv
<1>9. CASE AddEnd
  <2>1. phase' = "added" /\ (hp' = hp \/ hp' = [hp EXCEPT !.l = -1])
    BY <1>9 DEF AddEnd
  <2>2. hp'.h = hp.h
    BY <1>2, <2>1
  <2> QED BY <1>1, <2>1, <2>2 DEF KeyInv
<1>10. ASSUME AddRevert \/ Start \/ StartFails \/ FinishPad \/ FinishSlot \/ FinishFails
              \/ FinishCommit \/ CommitFails \/ Destroy
       PROVE  KeyInv'
  <2>1. hp' = hp /\ phase' \notin {"begun", "keyed"}
    BY <1>10 DEF AddRevert, Start, StartFails, FinishPad, FinishSlot, FinishFails, FinishCommit,
       CommitFails, Destroy
  <2> QED BY <1>1, <2>1 DEF KeyInv
<1> QED BY <1>4, <1>5, <1>6, <1>7, <1>8, <1>9, <1>10 DEF MakeNext

LEMMA CountInit == MakeInit => CountInv
<1> SUFFICES ASSUME MakeInit PROVE CountInv
  OBVIOUS
<1>1. count = [s \in Slots |-> 0] /\ added = <<>> /\ phase = "new" /\ file = NoFile
  BY DEF MakeInit, NoLists
<1>2. Len(added) = 0 /\ MaxRecs \in Nat
  BY <1>1, MakeAssumption
<1>3. AddUpTo(count, 0)
  <2> DEFINE p == [s \in -1 .. SLOTS - 1 |-> 0]
  <2>1. p \in [-1 .. SLOTS - 1 -> 0 .. 0] /\ p[-1] = 0 /\ p[SLOTS - 1] = 0
    BY PowerAssumption
  <2>2. \A s \in Slots : p[s] = p[s - 1] + count[s]
    BY <1>1, PowerAssumption DEF Slots
  <2> HIDE DEF p
  <2> QED BY <2>1, <2>2 DEF AddUpTo
<1> QED BY <1>1, <1>2, <1>3 DEF CountInv

\* What steps leave alone
LEMMA CountKept ==
    ASSUME WindowInv, MakeNext, ~AddEnd, RevertPrior = FALSE PROVE count' = count /\ added' = added
BY DEF MakeNext, Start, StartFails, AddBegin, AddBeginFails, AddbufKey, AddbufData, AddRevert,
   FinishPad, FinishSlot, FinishFails, FinishCommit, CommitFails, Destroy, Released0, FreeLists,
   FirstLists, FreeUnset, HplistRoom, HplistNoRoom, HplistPend, HplistNew, listVars, finishVars

LEMMA CountNext ==
    ASSUME RevertPrior = FALSE, MaxRecs =< UINT_MAX,
           WindowInv, LayoutInv, RecordsInv, KeyInv, CountInv, [MakeNext]_makeVars
    PROVE  CountInv'
<1>1. Len(added) \in Nat /\ MaxRecs \in Nat /\ count \in [Slots -> Nat]
  BY WindowTypes, MakeAssumption DEF RecordsInv, Adjoining
<1>2. CASE UNCHANGED makeVars
  BY <1>2 DEF makeVars, listVars, CountInv, TableLen
<1>3. CASE AddEnd
  <2>1. /\ phase = "keyed" /\ phase' = "added" /\ file' = file
        /\ count' = [count EXCEPT ![SlotOf(hp.h)] = @ + 1]
        /\ added' = Append(added, [p |-> hp.p, k |-> cur.k, d |-> cur.d])
    BY <1>3 DEF AddEnd, HplistAdd, finishVars
  <2>2. file = NoFile /\ Len(added) < MaxRecs /\ AddUpTo(count, Len(added))
    BY <2>1 DEF RecordsInv, CountInv
  <2>3. SlotOf(hp.h) \in Slots
    <3>1. hp.h \in Nat /\ SLOTS \in Nat \ {0}
      BY PowerAssumption DEF KeyInv
    <3>2. hp.h % SLOTS \in 0 .. SLOTS - 1
      BY <3>1
    <3> QED BY <3>2 DEF SlotOf, Slots
  <2>4. AddUpTo(count', Len(added) + 1)
    BY <1>1, <2>1, <2>2, <2>3, OneMoreCounted
  <2>5. Len(added') = Len(added) + 1
    <3>1. added \in Seq(Recs)
      BY DEF RecordsInv, Adjoining
    <3> QED BY <2>1, <3>1
  <2>6. AddUpTo(count', Len(added'))
    BY <2>4, <2>5
  <2>7. AddUpTo(count, Len(added))'
    BY <2>6 DEF AddUpTo
  <2>8. Len(added') =< MaxRecs
    BY <1>1, <2>2, <2>5
  <2> QED BY <2>1, <2>2, <2>7, <2>8 DEF CountInv
<1>4. ASSUME MakeNext, ~AddEnd PROVE CountInv'
  <2>1. count' = count /\ added' = added
    BY <1>4, CountKept
  <2>2. AddUpTo(count, Len(added))' /\ Len(added') =< MaxRecs
    BY <2>1 DEF CountInv, AddUpTo
  <2>3. \A s : TableLen(s)' = TableLen(s)
    BY <2>1 DEF TableLen
  <2>4. CASE FinishPad
    <3>1. phase \in Between /\ phase' = "tables" /\ ~TooMany /\ slot' = slot /\ file' = file
      BY <2>4 DEF FinishPad
    <3>2. slot' = 0 /\ file' = NoFile
      BY <3>1 DEF LayoutInv, RecordsInv, Between
    <3>3. Len(added) =< INT_MAX
      <4>1. Len(added) \in 0 .. UINT_MAX
        BY <1>1, PowerAssumption DEF CountInv
      <4>2. Total = Len(added)
        BY <1>1, <4>1, TotalIs DEF CountInv
      <4>3. INT_MAX \in Nat /\ ~ (Total > INT_MAX)
        BY <3>1, PowerAssumption DEF TooMany
      <4> QED BY <1>1, <4>2, <4>3
    <3>4. \A s \in Slots : ~ (s < slot')
      BY <3>2 DEF Slots
    <3> QED BY <2>1, <2>2, <3>1, <3>2, <3>3, <3>4 DEF CountInv
  <2>5. CASE FinishSlot
    <3>1. /\ phase = "tables" /\ phase' = "tables" /\ slot < SLOTS /\ slot' = slot + 1 /\ file' = file
          /\ hdr' = [hdr EXCEPT ![slot] = [hpos |-> pos, hslots |-> TableLen(slot)]]
      BY <2>5 DEF FinishSlot
    <3>2. /\ file' = NoFile /\ Len(added) =< INT_MAX
          /\ \A s \in Slots : s < slot => hdr[s].hslots = TableLen(s)
      BY <3>1 DEF RecordsInv, CountInv
    <3>3. slot \in Nat /\ hdr \in [Slots -> [hpos : Nat, hslots : Nat]]
      BY WindowTypes DEF LayoutInv
    <3>4. ASSUME NEW s \in Slots, s < slot' PROVE hdr'[s].hslots = TableLen(s)
      <4>1. CASE s = slot
        <5>1. hdr'[s] = [hpos |-> pos, hslots |-> TableLen(slot)]
          BY <3>1, <3>3, <4>1
        <5> QED BY <4>1, <5>1
      <4>2. CASE s # slot
        <5>1. s < slot
          BY <3>1, <3>3, <3>4, <4>2 DEF Slots
        <5> QED BY <3>1, <3>2, <3>3, <4>2, <5>1
      <4> QED BY <4>1, <4>2
    <3> QED BY <2>1, <2>2, <2>3, <3>1, <3>2, <3>4 DEF CountInv
  <2>6. CASE FinishCommit
    <3>1. /\ phase = "tables" /\ slot = SLOTS /\ phase' = "done"
          /\ file' = [size |-> pos, recs |-> disk, hdr |-> hdr, tab |-> tab]
      BY <2>6 DEF FinishCommit
    <3>2. Len(added) =< INT_MAX /\ \A s \in Slots : hdr[s].hslots = TableLen(s)
      BY <3>1, PowerAssumption DEF CountInv, Slots
    <3>3. file'.hdr = hdr
      BY <3>1
    <3> QED BY <2>1, <2>2, <2>3, <3>1, <3>2, <3>3 DEF CountInv
  <2>7. CASE ~FinishPad /\ ~FinishSlot /\ ~FinishCommit
    <3>1. /\ file' = file /\ phase # "done" /\ phase' # "tables"
      BY <1>4, <2>7, FinishLeftAlone
    <3>2. file' = NoFile
      BY <3>1 DEF RecordsInv
    <3>3. phase' \in {"begun", "keyed"} => Len(added) < MaxRecs
      BY <1>4, <2>7 DEF MakeNext, Start, StartFails, AddBegin, AddBeginFails, AddbufKey, AddbufData,
         AddRevert, FinishFails, CommitFails, Destroy, CountInv
    <3> QED BY <2>1, <2>2, <3>1, <3>2, <3>3 DEF CountInv
  <2> QED BY <2>4, <2>5, <2>6, <2>7
<1> QED BY <1>2, <1>3, <1>4

\* One count is no more than their sum.
LEMMA CountAtMost == ASSUME NEW c \in [Slots -> Nat], NEW n \in Nat, AddUpTo(c, n), NEW s \in Slots
                     PROVE  c[s] =< n
<1>1. PICK p \in [-1 .. SLOTS - 1 -> 0 .. n] : p[s] = p[s - 1] + c[s]
  BY DEF AddUpTo
<1>2. s \in -1 .. SLOTS - 1 /\ s - 1 \in -1 .. SLOTS - 1
  BY PowerAssumption DEF Slots
<1>3. p[s] \in 0 .. n /\ p[s - 1] \in 0 .. n /\ c[s] \in Nat
  BY <1>2
<1> QED BY <1>1, <1>3

\* A table of the number accepted has two entries for each record.
LEMMA TableFits == ASSUME CountInv, count \in [Slots -> Nat], Len(added) \in Nat, Len(added) =< INT_MAX,
                          NEW s \in Slots
                   PROVE  TableLen(s) = 2 * count[s] /\ count[s] \in Nat
<1>1. count[s] \in Nat /\ count[s] =< Len(added)
  BY CountAtMost DEF CountInv
<1>2. 2 * count[s] < 2 ^ W /\ 2 ^ W \in Nat /\ 2 * count[s] \in Nat
  <2>1. INT_MAX \in Nat /\ UINT_MAX = 2 * INT_MAX + 1 /\ UINT_MAX = 2 ^ W - 1 /\ 2 ^ W \in Int
    BY PowerAssumption, FormatAssumption DEF UINT_MAX
  <2> QED BY <1>1, <2>1
<1>3. (2 * count[s]) % 2 ^ W = 2 * count[s]
  BY <1>2
<1> QED BY <1>1, <1>3 DEF TableLen

\* Once mcdb_make_finish has accepted the number of records, count << 1 does
\* not overflow, if fewer than 2^32 records were added and no completed one
\* was reverted: the check of the sum of the counts, which wraps, suffices then.
THEOREM TablesFit ==
    ASSUME RevertPrior = FALSE, MaxRecs =< UINT_MAX PROVE MakeSpec => []TablesHalfEmpty
<1>1. MakeInit => WindowInv /\ LayoutInv /\ RecordsInv /\ KeyInv /\ CountInv
  BY WindowInit, LayoutInit, RecordsInit, KeyInit, CountInit
<1>2. WindowInv /\ LayoutInv /\ RecordsInv /\ KeyInv /\ CountInv /\ [MakeNext]_makeVars
        => (WindowInv /\ LayoutInv /\ RecordsInv /\ KeyInv /\ CountInv)'
  BY WindowNext, LayoutNext, RecordsNext, KeyNext, CountNext
<1>3. WindowInv /\ RecordsInv /\ CountInv => TablesHalfEmpty
  <2> SUFFICES ASSUME WindowInv, RecordsInv, CountInv, phase = "tables", NEW s \in Slots
               PROVE  TableLen(s) = 2 * count[s]
    BY DEF TablesHalfEmpty
  <2>1. Len(added) \in Nat /\ Len(added) =< INT_MAX /\ count \in [Slots -> Nat]
    BY WindowTypes DEF RecordsInv, Adjoining, CountInv
  <2> QED BY <2>1, TableFits
<1> QED BY <1>1, <1>2, <1>3, PTL DEF MakeSpec
-----------------------------------------------------------------------------
(* The nodes of one slot.                                                  *)

\* The first array
LEMMA FirstNode ==
    ASSUME NEW nxt \in [Blocks -> Ptr], NEW pd \in [Blocks -> Ptr], NEW en,
           \A n \in Blocks : nxt[n] = WILD /\ pd[n] = WILD /\ en[n] = <<>>
    PROVE  NodesInOrder(1, 1, [nxt EXCEPT ![1] = NIL], [pd EXCEPT ![1] = NIL], en)
<1> DEFINE q == [i \in 1 .. 1 |-> 1]
           x == [nxt EXCEPT ![1] = NIL]
           y == [pd EXCEPT ![1] = NIL]
<1>1. 1 \in Blocks
  BY HplistAssumption DEF Blocks
<1>2. q \in [1 .. 1 -> 1 .. 1] /\ q[1] = 1
  OBVIOUS
<1>3. x[1] = NIL /\ y[1] = NIL /\ \A n \in Blocks : n > 1 => x[n] = WILD /\ y[n] = WILD
  BY <1>1
<1> HIDE DEF q, x, y
<1>4. NodesInOrder(1, 1, x, y, en)
  <2>1. \A i, j \in 1 .. 1 : q[i] = q[j] => i = j
    OBVIOUS
  <2>2. \A n \in 1 .. 1 : \E i \in 1 .. 1 : q[i] = n
    BY <1>2
  <2>3. \A i \in 1 .. 1 :
          /\ x[q[i]] = IF i > 1 THEN WILD ELSE IF i = 1 THEN NIL ELSE q[i - 1]
          /\ y[q[i]] = NIL \/ (i < 1 /\ y[q[i]] = q[i + 1])
          /\ 1 =< i /\ i < 1 => y[q[i]] = q[i + 1]
          /\ i > 1 => en[q[i]] = <<>>
    BY <1>2, <1>3
  <2>4. 1 \in 1 .. 1
    OBVIOUS
  <2>5. InOrder(q, 1, 1, 1, x, y, en)
    BY <1>2, <1>3, <2>1, <2>2, <2>3 DEF InOrder
  <2> QED BY <1>2, <2>4, <2>5 DEF NodesInOrder
<1> QED BY <1>4 DEF x, y

\* The head is allocated, and its pend is the next node in order.
LEMMA HeadIs ==
    ASSUME NEW nb \in 1 .. MaxBlocks, NEW hd, NEW nxt, NEW pd, NEW en, NodesInOrder(nb, hd, nxt, pd, en)
    PROVE  /\ hd \in 1 .. nb /\ hd \in Blocks /\ hd # NIL
           /\ pd[hd] # NIL => pd[hd] \in 1 .. nb /\ pd[hd] # hd /\ en[pd[hd]] = <<>>
<1>0. PICK q \in [1 .. nb -> 1 .. nb], k \in 1 .. nb : InOrder(q, k, nb, hd, nxt, pd, en)
  BY DEF NodesInOrder
<1>1. /\ \A i, j \in 1 .. nb : q[i] = q[j] => i = j
      /\ hd = q[k]
      /\ \A i \in 1 .. nb :
            /\ pd[q[i]] = NIL \/ (i < nb /\ pd[q[i]] = q[i + 1])
            /\ i > k => en[q[i]] = <<>>
  BY <1>0 DEF InOrder
<1>2. nb \in Nat /\ MaxBlocks \in Nat /\ nb =< MaxBlocks
  BY HplistAssumption
<1>3. hd \in 1 .. nb
  BY <1>1
<1>4. hd \in Blocks /\ hd # NIL
  BY <1>2, <1>3, HplistAssumption DEF Blocks
<1>5. ASSUME pd[hd] # NIL PROVE pd[hd] \in 1 .. nb /\ pd[hd] # hd /\ en[pd[hd]] = <<>>
  <2>1. k < nb /\ pd[hd] = q[k + 1]
    BY <1>1, <1>5
  <2>2. k + 1 \in 1 .. nb /\ k + 1 # k /\ k + 1 > k
    BY <1>2, <2>1
  <2> QED BY <1>1, <2>1, <2>2
<1> QED BY <1>3, <1>4, <1>5

\* A waiting node becomes the head.
LEMMA PendJoins ==
    ASSUME NEW nb \in 1 .. MaxBlocks, NEW hd, NEW nxt \in [Blocks -> Ptr], NEW pd, NEW en,
           NodesInOrder(nb, hd, nxt, pd, en), pd[hd] # NIL
    PROVE  NodesInOrder(nb, pd[hd], [nxt EXCEPT ![pd[hd]] = hd], pd, en)
<1> DEFINE x == [nxt EXCEPT ![pd[hd]] = hd]
<1>0. PICK q \in [1 .. nb -> 1 .. nb], k \in 1 .. nb : InOrder(q, k, nb, hd, nxt, pd, en)
  BY DEF NodesInOrder
<1>1. /\ \A i, j \in 1 .. nb : q[i] = q[j] => i = j
      /\ \A n \in 1 .. nb : \E i \in 1 .. nb : q[i] = n
      /\ hd = q[k]
      /\ \A i \in 1 .. nb :
            /\ nxt[q[i]] = IF i > k THEN WILD ELSE IF i = 1 THEN NIL ELSE q[i - 1]
            /\ pd[q[i]] = NIL \/ (i < nb /\ pd[q[i]] = q[i + 1])
            /\ k =< i /\ i < nb => pd[q[i]] = q[i + 1]
            /\ i > k => en[q[i]] = <<>>
      /\ \A n \in Blocks : n > nb => nxt[n] = WILD /\ pd[n] = WILD /\ en[n] = <<>>
  BY <1>0 DEF InOrder
<1>2. nb \in Nat /\ MaxBlocks \in Nat /\ nb =< MaxBlocks /\ 1 .. nb \subseteq Blocks
  BY HplistAssumption DEF Blocks
<1>3. k + 1 \in 1 .. nb /\ pd[hd] = q[k + 1]
  <2>1. k < nb /\ pd[q[k]] = q[k + 1]
    BY <1>1
  <2> QED BY <1>1, <1>2, <2>1
<1>4. x[q[k + 1]] = q[k] /\ \A n \in Blocks : n # q[k + 1] => x[n] = nxt[n]
  BY <1>1, <1>2, <1>3
<1> HIDE DEF x
<1>5. ASSUME NEW i \in 1 .. nb
      PROVE  x[q[i]] = IF i > k + 1 THEN WILD ELSE IF i = 1 THEN NIL ELSE q[i - 1]
  <2>1. CASE i = k + 1
    <3>1. i # 1 /\ ~ (i > k + 1) /\ i - 1 = k
      BY <2>1
    <3> QED BY <1>4, <2>1, <3>1
  <2>2. CASE i # k + 1
    <3>1. q[i] # q[k + 1] /\ q[i] \in Blocks
      BY <1>1, <1>2, <1>3, <2>2
    <3>2. x[q[i]] = nxt[q[i]]
      BY <1>4, <3>1
    <3>3. i > k <=> i > k + 1
      BY <2>2
    <3> QED BY <1>1, <3>2, <3>3
  <2> QED BY <2>1, <2>2
<1>6. \A i \in 1 .. nb : i > k + 1 => en[q[i]] = <<>>
  BY <1>1
<1>7. \A i \in 1 .. nb : k + 1 =< i /\ i < nb => pd[q[i]] = q[i + 1]
  BY <1>1
<1>8. \A n \in Blocks : n > nb => x[n] = WILD
  <2>1. \A n \in Blocks : n > nb => n # q[k + 1]
    BY <1>2, <1>3 DEF Blocks
  <2> QED BY <1>1, <1>4, <2>1
<1>9. NodesInOrder(nb, q[k + 1], x, pd, en)
  <2>1. \A i \in 1 .. nb :
          /\ x[q[i]] = IF i > k + 1 THEN WILD ELSE IF i = 1 THEN NIL ELSE q[i - 1]
          /\ pd[q[i]] = NIL \/ (i < nb /\ pd[q[i]] = q[i + 1])
          /\ k + 1 =< i /\ i < nb => pd[q[i]] = q[i + 1]
          /\ i > k + 1 => en[q[i]] = <<>>
    BY <1>1, <1>5, <1>6, <1>7
  <2>2. \A n \in Blocks : n > nb => x[n] = WILD /\ pd[n] = WILD /\ en[n] = <<>>
    BY <1>1, <1>8
  <2>3. InOrder(q, k + 1, nb, q[k + 1], x, pd, en)
    BY <1>1, <1>3, <2>1, <2>2 DEF InOrder
  <2> QED BY <1>3, <2>3 DEF NodesInOrder
<1> QED BY <1>3, <1>9 DEF x

\* A new node becomes the head of a list for which none waits.
LEMMA NewHead ==
    ASSUME NEW nb \in 1 .. MaxBlocks, nb + 1 \in Blocks, NEW hd,
           NEW nxt \in [Blocks -> Ptr], NEW pd \in [Blocks -> Ptr], NEW en,
           NodesInOrder(nb, hd, nxt, pd, en), pd[hd] = NIL
    PROVE  NodesInOrder(nb + 1, nb + 1, [nxt EXCEPT ![nb + 1] = hd], [pd EXCEPT ![nb + 1] = NIL], en)
<1> DEFINE m == nb + 1
           x == [nxt EXCEPT ![m] = hd]
           y == [pd EXCEPT ![m] = NIL]
<1>0. PICK q \in [1 .. nb -> 1 .. nb], k \in 1 .. nb : InOrder(q, k, nb, hd, nxt, pd, en)
  BY DEF NodesInOrder
<1>1. /\ \A i, j \in 1 .. nb : q[i] = q[j] => i = j
      /\ \A n \in 1 .. nb : \E i \in 1 .. nb : q[i] = n
      /\ hd = q[k]
      /\ \A i \in 1 .. nb :
            /\ nxt[q[i]] = IF i > k THEN WILD ELSE IF i = 1 THEN NIL ELSE q[i - 1]
            /\ pd[q[i]] = NIL \/ (i < nb /\ pd[q[i]] = q[i + 1])
            /\ k =< i /\ i < nb => pd[q[i]] = q[i + 1]
            /\ i > k => en[q[i]] = <<>>
      /\ \A n \in Blocks : n > nb => nxt[n] = WILD /\ pd[n] = WILD /\ en[n] = <<>>
  BY <1>0 DEF InOrder
<1>2. nb \in Nat /\ nb >= 1 /\ 1 .. nb \subseteq Blocks /\ NIL \notin Blocks
  BY HplistAssumption DEF Blocks
<1>3. k = nb
  <2>1. CASE k < nb
    <3>1. k + 1 \in 1 .. nb /\ pd[q[k]] = q[k + 1]
      BY <1>1, <1>2, <2>1
    <3> QED BY <1>1, <1>2, <3>1
  <2> QED BY <1>2, <2>1
<1> DEFINE r == [i \in 1 .. m |-> IF i = m THEN m ELSE q[i]]
<1>4. m \in Nat /\ m = nb + 1 /\ m > nb /\ m \in Blocks
  BY <1>2
<1>5. x[m] = q[nb] /\ y[m] = NIL /\ \A n \in Blocks : n # m => x[n] = nxt[n] /\ y[n] = pd[n]
  BY <1>1, <1>3, <1>4
<1>6. r[m] = m /\ \A i \in 1 .. nb : r[i] = q[i] /\ q[i] # m /\ q[i] \in 1 .. nb
  BY <1>4
<1>7. \A i \in 1 .. m : i = m \/ i \in 1 .. nb
  BY <1>4
<1>8. r \in [1 .. m -> 1 .. m]
  <2>1. \A n \in 1 .. nb : n \in 1 .. m
    BY <1>4
  <2>2. \A i \in 1 .. m : r[i] \in 1 .. m
    BY <1>4, <1>6, <1>7, <2>1
  <2> QED BY <2>2
<1> HIDE DEF m, x, y, r
<1>9. ASSUME NEW i \in 1 .. m, NEW j \in 1 .. m, r[i] = r[j] PROVE i = j
  <2>1. CASE i = m
    BY <1>6, <1>7, <1>9, <2>1
  <2>2. CASE j = m
    BY <1>6, <1>7, <1>9, <2>2
  <2>3. CASE i # m /\ j # m
    <3>1. i \in 1 .. nb /\ j \in 1 .. nb
      BY <1>7, <2>3
    <3>2. q[i] = q[j]
      BY <1>6, <1>9, <3>1
    <3> QED BY <1>1, <3>1, <3>2
  <2> QED BY <2>1, <2>2, <2>3
<1>10. \A n \in 1 .. m : \E i \in 1 .. m : r[i] = n
  <2>1. SUFFICES ASSUME NEW n \in 1 .. m PROVE \E i \in 1 .. m : r[i] = n
    OBVIOUS
  <2>2. CASE n = m
    BY <1>6, <2>2
  <2>3. CASE n # m
    <3>1. PICK i \in 1 .. nb : q[i] = n
      BY <1>1, <1>7, <2>3
    <3>2. i \in 1 .. m
      BY <1>4
    <3> QED BY <1>6, <3>1, <3>2
  <2> QED BY <2>2, <2>3
<1>11. ASSUME NEW i \in 1 .. m
       PROVE  /\ x[r[i]] = IF i > m THEN WILD ELSE IF i = 1 THEN NIL ELSE r[i - 1]
              /\ y[r[i]] = NIL \/ (i < m /\ y[r[i]] = r[i + 1])
              /\ m =< i /\ i < m => y[r[i]] = r[i + 1]
              /\ i > m => en[r[i]] = <<>>
  <2>1. ~ (i > m) /\ ~ (m =< i /\ i < m)
    BY <1>4
  <2>2. CASE i = m
    <3>1. i # 1 /\ i - 1 = nb /\ nb \in 1 .. nb
      BY <1>2, <1>4, <2>2
    <3> QED BY <1>5, <1>6, <2>1, <2>2, <3>1
  <2>3. CASE i # m
    <3>1. i \in 1 .. nb /\ r[i] = q[i] /\ q[i] \in Blocks /\ q[i] # m
      BY <1>2, <1>6, <1>7, <2>3
    <3>2. x[r[i]] = nxt[q[i]] /\ y[r[i]] = pd[q[i]]
      BY <1>5, <3>1
    <3>3. ~ (i > k) /\ (i # 1 => i - 1 \in 1 .. nb)
      BY <1>2, <1>3, <3>1
    <3>4. x[r[i]] = IF i = 1 THEN NIL ELSE r[i - 1]
      <4>1. nxt[q[i]] = IF i > k THEN WILD ELSE IF i = 1 THEN NIL ELSE q[i - 1]
        BY <1>1, <3>1
      <4>2. i # 1 => r[i - 1] = q[i - 1]
        BY <1>6, <3>3
      <4> QED BY <3>2, <3>3, <4>1, <4>2
    <3>5. i < nb => i < m /\ i + 1 \in 1 .. nb
      BY <1>4, <3>1
    <3>6. y[r[i]] = NIL \/ (i < m /\ y[r[i]] = r[i + 1])
      <4>1. pd[q[i]] = NIL \/ (i < nb /\ pd[q[i]] = q[i + 1])
        BY <1>1, <3>1
      <4>2. i < nb => r[i + 1] = q[i + 1]
        BY <1>6, <3>5
      <4> QED BY <3>2, <3>5, <4>1, <4>2
    <3> QED BY <2>1, <3>4, <3>6
  <2> QED BY <2>2, <2>3
<1>12. \A n \in Blocks : n > m => x[n] = WILD /\ y[n] = WILD /\ en[n] = <<>>
  <2>1. \A n \in Blocks : n > m => n > nb /\ n # m
    BY <1>4 DEF Blocks
  <2> QED BY <1>1, <1>5, <2>1
<1>13. NodesInOrder(m, m, x, y, en)
  <2>1. m \in 1 .. m
    BY <1>2, <1>4
  <2>2. InOrder(r, m, m, m, x, y, en)
    BY <1>6, <1>9, <1>10, <1>11, <1>12 DEF InOrder
  <2> QED BY <1>8, <2>1, <2>2 DEF NodesInOrder
<1> QED BY <1>13 DEF m, x, y
\* A new node waits behind the head, before those that wait already.
LEMMA NewWaits ==
    ASSUME NEW nb \in 1 .. MaxBlocks, nb + 1 \in Blocks, NEW hd,
           NEW nxt \in [Blocks -> Ptr], NEW pd \in [Blocks -> Ptr], NEW en,
           NodesInOrder(nb, hd, nxt, pd, en)
    PROVE  NodesInOrder(nb + 1, hd, nxt, [pd EXCEPT ![nb + 1] = pd[hd], ![hd] = nb + 1], en)
<1> DEFINE m == nb + 1
           y == [pd EXCEPT ![m] = pd[hd], ![hd] = m]
<1>0. PICK q \in [1 .. nb -> 1 .. nb], k \in 1 .. nb : InOrder(q, k, nb, hd, nxt, pd, en)
  BY DEF NodesInOrder
<1>1. /\ \A i, j \in 1 .. nb : q[i] = q[j] => i = j
      /\ \A n \in 1 .. nb : \E i \in 1 .. nb : q[i] = n
      /\ hd = q[k]
      /\ \A i \in 1 .. nb :
            /\ nxt[q[i]] = IF i > k THEN WILD ELSE IF i = 1 THEN NIL ELSE q[i - 1]
            /\ pd[q[i]] = NIL \/ (i < nb /\ pd[q[i]] = q[i + 1])
            /\ k =< i /\ i < nb => pd[q[i]] = q[i + 1]
            /\ i > k => en[q[i]] = <<>>
      /\ \A n \in Blocks : n > nb => nxt[n] = WILD /\ pd[n] = WILD /\ en[n] = <<>>
  BY <1>0 DEF InOrder
<1>a. \A i \in 1 .. nb : pd[q[i]] = NIL \/ (i < nb /\ pd[q[i]] = q[i + 1])
  BY <1>1
<1>c. \A i \in 1 .. nb : i > k => nxt[q[i]] = WILD /\ en[q[i]] = <<>>
  BY <1>1
<1>b. \A i \in 1 .. nb : k =< i /\ i < nb => pd[q[i]] = q[i + 1]
  BY <1>1
<1>2. nb \in Nat /\ nb >= 1 /\ 1 .. nb \subseteq Blocks /\ k \in Nat /\ 1 =< k /\ k =< nb
  BY HplistAssumption DEF Blocks
<1> DEFINE r == [i \in 1 .. m |-> IF i =< k THEN q[i] ELSE IF i = k + 1 THEN m ELSE q[i - 1]]
<1>3. m \in Nat /\ m = nb + 1 /\ m > nb /\ m \in Blocks /\ hd \in 1 .. nb /\ hd # m /\ hd \in Blocks
  BY <1>1, <1>2
<1>4. y[m] = pd[hd] /\ y[hd] = m /\ \A n \in Blocks : n # m /\ n # hd => y[n] = pd[n]
  BY <1>3
<1>5. \A i \in 1 .. m : \/ i =< k /\ i \in 1 .. nb /\ r[i] = q[i]
                        \/ i = k + 1 /\ r[i] = m
                        \/ i > k + 1 /\ i - 1 \in 1 .. nb /\ i - 1 > k /\ r[i] = q[i - 1]
  BY <1>2, <1>3
<1>6. \A i \in 1 .. nb : q[i] \in 1 .. nb /\ q[i] # m /\ q[i] \in Blocks
  BY <1>2, <1>3
<1>7. r \in [1 .. m -> 1 .. m]
  <2>1. \A n \in 1 .. nb : n \in 1 .. m
    BY <1>3
  <2>2. m \in 1 .. m
    BY <1>2, <1>3
  <2>3. \A i \in 1 .. m : r[i] \in 1 .. m
    <3> HIDE DEF r
    <3> QED BY <1>5, <1>6, <2>1, <2>2
  <2> QED BY <2>3
<1> HIDE DEF m, y, r
<1>8. ASSUME NEW i \in 1 .. m, NEW j \in 1 .. m, r[i] = r[j] PROVE i = j
  <2>1. ASSUME NEW a \in 1 .. nb, NEW b \in 1 .. nb, q[a] = q[b] PROVE a = b
    BY <1>1, <2>1
  <2>2. CASE r[i] = m
    <3>1. i = k + 1 /\ j = k + 1
      BY <1>5, <1>6, <1>8, <2>2
    <3> QED BY <3>1
  <2>3. CASE r[i] # m
    <3>1. PICK a \in 1 .. nb : r[i] = q[a] /\ i = IF a =< k THEN a ELSE a + 1
      <4>1. (i =< k /\ i \in 1 .. nb /\ r[i] = q[i]) \/ (i - 1 \in 1 .. nb /\ i - 1 > k /\ r[i] = q[i - 1])
        BY <1>5, <2>3
      <4>2. CASE i =< k /\ i \in 1 .. nb /\ r[i] = q[i]
        BY <4>2
      <4>3. CASE i - 1 \in 1 .. nb /\ i - 1 > k /\ r[i] = q[i - 1]
        <5>1. i = (i - 1) + 1 /\ ~ (i - 1 =< k)
          BY <1>2, <1>3, <4>3
        <5> QED BY <4>3, <5>1
      <4> QED BY <4>1, <4>2, <4>3
    <3>2. PICK b \in 1 .. nb : r[j] = q[b] /\ j = IF b =< k THEN b ELSE b + 1
      <4>1. (j =< k /\ j \in 1 .. nb /\ r[j] = q[j]) \/ (j - 1 \in 1 .. nb /\ j - 1 > k /\ r[j] = q[j - 1])
        BY <1>5, <1>8, <2>3
      <4>2. CASE j =< k /\ j \in 1 .. nb /\ r[j] = q[j]
        BY <4>2
      <4>3. CASE j - 1 \in 1 .. nb /\ j - 1 > k /\ r[j] = q[j - 1]
        <5>1. j = (j - 1) + 1 /\ ~ (j - 1 =< k)
          BY <1>2, <1>3, <4>3
        <5> QED BY <4>3, <5>1
      <4> QED BY <4>1, <4>2, <4>3
    <3>3. a = b
      BY <1>8, <2>1, <3>1, <3>2
    <3> QED BY <3>1, <3>2, <3>3
  <2> QED BY <2>2, <2>3
<1>9. ASSUME NEW n \in 1 .. m PROVE \E i \in 1 .. m : r[i] = n
  <2>1. CASE n = m
    <3>1. k + 1 \in 1 .. m /\ ~ (k + 1 =< k) /\ ~ (k + 1 > k + 1)
      BY <1>2, <1>3
    <3> QED BY <1>5, <2>1, <3>1
  <2>2. CASE n # m
    <3>1. n \in 1 .. nb
      BY <1>2, <1>3, <2>2
    <3>2. PICK i \in 1 .. nb : q[i] = n
      BY <1>1, <3>1
    <3>3. CASE i =< k
      <4>1. i \in 1 .. m /\ i # k + 1 /\ ~ (i > k + 1)
        BY <1>2, <1>3, <3>3
      <4> QED BY <1>5, <3>2, <4>1
    <3>4. CASE i > k
      <4>1. i + 1 \in 1 .. m /\ i + 1 # k + 1 /\ ~ (i + 1 =< k) /\ (i + 1) - 1 = i
        BY <1>2, <1>3, <3>4
      <4> QED BY <1>5, <3>2, <4>1
    <3> QED BY <1>2, <3>3, <3>4
  <2> QED BY <2>1, <2>2
<1>10. ASSUME NEW i \in 1 .. m
       PROVE  /\ nxt[r[i]] = IF i > k THEN WILD ELSE IF i = 1 THEN NIL ELSE r[i - 1]
              /\ y[r[i]] = NIL \/ (i < m /\ y[r[i]] = r[i + 1])
              /\ k =< i /\ i < m => y[r[i]] = r[i + 1]
              /\ i > k => en[r[i]] = <<>>
  <2>1. CASE i =< k
    <3>1. i \in 1 .. nb /\ r[i] = q[i] /\ ~ (i > k) /\ i < m
      BY <1>2, <1>3, <1>5, <2>1
    <3>2. nxt[r[i]] = IF i = 1 THEN NIL ELSE q[i - 1]
      BY <1>1, <3>1
    <3>3. i # 1 => r[i - 1] = q[i - 1]
      <4>1. i # 1 => i - 1 \in 1 .. m /\ i - 1 =< k /\ i - 1 # k + 1 /\ ~ (i - 1 > k + 1)
        BY <1>2, <1>3, <2>1
      <4> QED BY <1>5, <4>1
    <3>4. i # k => /\ r[i + 1] = q[i + 1] /\ y[r[i]] = pd[q[i]] /\ ~ (k =< i)
                   /\ (pd[q[i]] = NIL \/ pd[q[i]] = q[i + 1])
      <4>1. ASSUME i # k
            PROVE  /\ i + 1 \in 1 .. m /\ i + 1 =< k /\ i + 1 # k + 1 /\ ~ (i + 1 > k + 1) /\ ~ (k =< i)
                   /\ q[i] # hd
        <5>1. q[i] # hd
          BY <1>1, <3>1, <4>1
        <5> QED BY <1>2, <1>3, <2>1, <4>1, <5>1
      <4>2. i # k => r[i + 1] = q[i + 1] /\ ~ (k =< i)
        BY <1>5, <4>1
      <4>3. i # k => y[r[i]] = pd[q[i]]
        BY <1>4, <1>6, <3>1, <4>1
      <4> QED BY <1>1, <3>1, <4>2, <4>3
    <3>5. i = k => y[r[i]] = m /\ r[i + 1] = m
      <4>1. k + 1 \in 1 .. m /\ ~ (k + 1 =< k) /\ ~ (k + 1 > k + 1)
        BY <1>2, <1>3
      <4>2. r[k + 1] = m
        BY <1>5, <4>1
      <4> QED BY <1>1, <1>4, <3>1, <4>2
    <3> QED BY <3>1, <3>2, <3>3, <3>4, <3>5
  <2>2. CASE i = k + 1
    <3>1. r[i] = m /\ i > k /\ k =< i /\ ~ (i =< k) /\ ~ (i > k + 1)
      BY <1>2, <1>5, <2>2
    <3>2. nxt[m] = WILD /\ en[m] = <<>>
      BY <1>1, <1>3
    <3>3. y[m] = pd[q[k]]
      BY <1>1, <1>4
    <3>4. k < nb => pd[q[k]] = q[k + 1]
      BY <1>b, <1>2
    <3>5. k < nb => r[i + 1] = q[k + 1]
      <4>1. k < nb => /\ i + 1 \in 1 .. m /\ ~ (i + 1 =< k) /\ i + 1 # k + 1 /\ (i + 1) - 1 = k + 1
        BY <1>2, <1>3, <2>2
      <4> QED BY <1>5, <4>1
    <3>6. i < m <=> k < nb
      BY <1>2, <1>3, <2>2
    <3>7. ~ (k < nb) => pd[q[k]] = NIL
      BY <1>a
    <3> QED BY <3>1, <3>2, <3>3, <3>4, <3>5, <3>6, <3>7
  <2>3. CASE i > k + 1
    <3>1. /\ i - 1 \in 1 .. nb /\ i - 1 > k /\ r[i] = q[i - 1] /\ i > k /\ k =< i - 1
          /\ (i < m <=> i - 1 < nb) /\ (i - 1) + 1 = i
      BY <1>2, <1>3, <1>5, <2>3
    <3>2. nxt[r[i]] = WILD /\ en[r[i]] = <<>>
      BY <1>c, <3>1
    <3>3. y[r[i]] = pd[q[i - 1]]
      <4>1. q[i - 1] # hd
        BY <1>1, <1>2, <3>1
      <4> QED BY <1>4, <1>6, <3>1, <4>1
    <3>4. pd[q[i - 1]] = NIL \/ (i - 1 < nb /\ pd[q[i - 1]] = q[i])
      <4>1. pd[q[i - 1]] = NIL \/ (i - 1 < nb /\ pd[q[i - 1]] = q[(i - 1) + 1])
        BY <1>a, <3>1
      <4> QED BY <3>1, <4>1
    <3>5. i - 1 < nb => pd[q[i - 1]] = q[i]
      <4>1. i - 1 < nb => pd[q[i - 1]] = q[(i - 1) + 1]
        BY <1>b, <3>1
      <4> QED BY <3>1, <4>1
    <3>6. i - 1 < nb => r[i + 1] = q[i]
      <4>1. i - 1 < nb => i + 1 \in 1 .. m /\ ~ (i + 1 =< k) /\ i + 1 # k + 1 /\ (i + 1) - 1 = i
        BY <1>2, <1>3, <2>3
      <4> QED BY <1>5, <4>1
    <3> QED BY <3>1, <3>2, <3>3, <3>4, <3>5, <3>6
  <2> QED BY <1>2, <2>1, <2>2, <2>3
<1>11. \A n \in Blocks : n > m => nxt[n] = WILD /\ y[n] = WILD /\ en[n] = <<>>
  <2>1. \A n \in Blocks : n > m => n > nb /\ n # m /\ n # hd
    BY <1>2, <1>3 DEF Blocks
  <2>2. \A n \in Blocks : n > nb => nxt[n] = WILD /\ pd[n] = WILD /\ en[n] = <<>>
    BY <1>1
  <2>3. \A n \in Blocks : n # m /\ n # hd => y[n] = pd[n]
    BY <1>4
  <2> QED BY <2>1, <2>2, <2>3
<1>12. r[k] = hd /\ k \in 1 .. m
  <2>1. k \in 1 .. m /\ k =< k /\ k # k + 1 /\ ~ (k > k + 1)
    BY <1>2, <1>3
  <2> QED BY <1>1, <1>5, <2>1
<1>13. NodesInOrder(m, hd, nxt, y, en)
  <2>1. InOrder(r, k, m, hd, nxt, y, en)
    BY <1>8, <1>9, <1>10, <1>11, <1>12 DEF InOrder
  <2> QED BY <1>7, <1>12, <2>1 DEF NodesInOrder
<1> QED BY <1>13 DEF m, y

\* A record goes into the head.
LEMMA Recorded ==
    ASSUME NEW nb \in 1 .. MaxBlocks, NEW hd, NEW nxt, NEW pd, NEW en, NEW en2,
           NodesInOrder(nb, hd, nxt, pd, en), \A n \in Blocks : n # hd => en2[n] = en[n]
    PROVE  NodesInOrder(nb, hd, nxt, pd, en2)
<1>0. PICK q \in [1 .. nb -> 1 .. nb], k \in 1 .. nb : InOrder(q, k, nb, hd, nxt, pd, en)
  BY DEF NodesInOrder
<1>1. nb \in Nat /\ 1 .. nb \subseteq Blocks
  BY HplistAssumption DEF Blocks
<1>2. /\ \A i, j \in 1 .. nb : q[i] = q[j] => i = j
      /\ hd = q[k]
      /\ \A i \in 1 .. nb : i > k => en[q[i]] = <<>>
      /\ \A n \in Blocks : n > nb => nxt[n] = WILD /\ pd[n] = WILD /\ en[n] = <<>>
  BY <1>0 DEF InOrder
<1>3. ASSUME NEW i \in 1 .. nb, i > k PROVE en2[q[i]] = <<>>
  <2>1. q[i] # q[k]
    BY <1>1, <1>2, <1>3
  <2>2. q[i] \in Blocks
    BY <1>1
  <2> QED BY <1>2, <1>3, <2>1, <2>2
<1>4. ASSUME NEW n \in Blocks, n > nb PROVE nxt[n] = WILD /\ pd[n] = WILD /\ en2[n] = <<>>
  <2>1. hd =< nb /\ hd \in Nat /\ n \in Nat
    BY <1>1, <1>2 DEF Blocks
  <2> QED BY <1>1, <1>2, <1>4, <2>1
<1>5. \A i \in 1 .. nb :
          /\ nxt[q[i]] = IF i > k THEN WILD ELSE IF i = 1 THEN NIL ELSE q[i - 1]
          /\ pd[q[i]] = NIL \/ (i < nb /\ pd[q[i]] = q[i + 1])
          /\ k =< i /\ i < nb => pd[q[i]] = q[i + 1]
          /\ i > k => en2[q[i]] = <<>>
  BY <1>0, <1>3 DEF InOrder
<1>6. \A n \in 1 .. nb : \E i \in 1 .. nb : q[i] = n
  BY <1>0 DEF InOrder
<1>7. InOrder(q, k, nb, hd, nxt, pd, en2)
  BY <1>2, <1>4, <1>5, <1>6 DEF InOrder
<1> QED BY <1>7 DEF NodesInOrder
-----------------------------------------------------------------------------
(* Walking along the lists.                                                *)

\* The recursion of Walk has a solution if no path comes back.
LEMMA WalkExists ==
    ASSUME NEW nxt \in [Blocks -> Ptr], NEW M \in Nat, NEW rank \in [Blocks -> 0 .. M],
           \A n \in Blocks : nxt[n] \in Blocks => rank[nxt[n]] < rank[n]
    PROVE  \E w : w = [x \in Ptr |-> IF x = NIL THEN <<>>
                                     ELSE IF x = WILD THEN <<WILD>>
                                     ELSE <<x>> \o w[nxt[x]]]
<1> DEFINE Val(f, x) == IF x = NIL THEN <<>> ELSE IF x = WILD THEN <<WILD>> ELSE <<x>> \o f[nxt[x]]
           Rk(x) == IF x \in Blocks THEN rank[x] + 1 ELSE 0
           Upto(f, m) == \A x \in Ptr : Rk(x) =< m => f[x] = Val(f, x)
<1>1. \A x \in Ptr : x # NIL /\ x # WILD => x \in Blocks /\ nxt[x] \in Ptr
  BY DEF Ptr
<1>2. \A x \in Ptr : Rk(x) \in 0 .. M + 1
  OBVIOUS
<1>3. \A x \in Blocks : Rk(nxt[x]) < Rk(x)
  OBVIOUS
<1>4. \A x \in Blocks : Rk(x) # 0
  OBVIOUS
<1> HIDE DEF Rk
<1>5. ASSUME NEW m \in Nat PROVE \E f : f = [x \in Ptr |-> f[x]] /\ Upto(f, m)
  <2> DEFINE Good(n) == \E f : f = [x \in Ptr |-> f[x]] /\ Upto(f, n)
             T == {n \in Nat : ~Good(n)}
  <2>1. SUFFICES ASSUME T # {} PROVE FALSE
    BY DEF T
  <2>2. PICK n \in T : \A y \in T : n =< y
    <3> HIDE DEF Good
    <3>1. T \in SUBSET Nat
      OBVIOUS
    <3> HIDE DEF T
    <3> QED BY <2>1, <3>1, LeastNat
  <2>3. n \in Nat /\ ~Good(n)
    OBVIOUS
  <2>4. n # 0
    <3> DEFINE f == [x \in Ptr |-> Val(<<>>, x)]
    <3>1. \A x \in Ptr : Rk(x) =< 0 => f[x] = Val(f, x)
      <4>1. SUFFICES ASSUME NEW x \in Ptr, Rk(x) =< 0 PROVE f[x] = Val(f, x)
        OBVIOUS
      <4>2. x = NIL \/ x = WILD
        <5>1. Rk(x) = 0
          BY <1>2, <4>1
        <5> QED BY <1>1, <1>4, <5>1
      <4> QED BY <4>2
    <3>2. f = [x \in Ptr |-> f[x]]
      OBVIOUS
    <3> HIDE DEF f
    <3>3. Good(0)
      BY <3>1, <3>2
    <3> HIDE DEF Good
    <3> QED BY <2>3, <3>3
  <2>5. Good(n - 1)
    <3>1. n - 1 \in Nat /\ ~ (n =< n - 1)
      BY <2>3, <2>4
    <3> HIDE DEF Good
    <3> QED BY <2>2, <3>1
  <2>6. PICK g : g = [x \in Ptr |-> g[x]] /\ Upto(g, n - 1)
    BY <2>5
  <2> DEFINE f == [x \in Ptr |-> Val(g, x)]
  <2>7. ASSUME NEW x \in Ptr, Rk(x) =< n PROVE f[x] = Val(f, x)
    <3>1. CASE x = NIL \/ x = WILD
      BY <3>1
    <3>2. CASE x # NIL /\ x # WILD
      <4>1. x \in Blocks /\ nxt[x] \in Ptr
        BY <1>1, <3>2
      <4>2. Rk(nxt[x]) =< n - 1
        BY <1>2, <1>3, <2>3, <2>7, <4>1
      <4>3. g[nxt[x]] = Val(g, nxt[x])
        BY <2>6, <4>1, <4>2
      <4>4. f[nxt[x]] = Val(g, nxt[x])
        BY <4>1
      <4>5. f[x] = <<x>> \o g[nxt[x]]
        BY <3>2
      <4> HIDE DEF f
      <4> QED BY <3>2, <4>3, <4>4, <4>5
    <3> QED BY <3>1, <3>2
  <2>8. f = [x \in Ptr |-> f[x]]
    OBVIOUS
  <2> HIDE DEF f
  <2>9. Good(n)
    BY <2>7, <2>8
  <2> HIDE DEF Good
  <2> QED BY <2>3, <2>9
<1>6. PICK w : w = [x \in Ptr |-> w[x]] /\ Upto(w, M + 1)
  <2>1. M + 1 \in Nat
    OBVIOUS
  <2> HIDE DEF Upto
  <2> QED BY <1>5, <2>1
<1>7. \A x \in Ptr : w[x] = Val(w, x)
  <2>1. \A x \in Ptr : Rk(x) =< M + 1
    BY <1>2
  <2> HIDE DEF Val
  <2> QED BY <1>6, <2>1
<1>8. w = [x \in Ptr |-> Val(w, x)]
  <2> HIDE DEF Val
  <2> QED BY <1>6, <1>7
<1> QED BY <1>8

\* Walk, one node at a time
LEMMA WalkIs ==
    ASSUME NEW nxt \in [Blocks -> Ptr], NEW M \in Nat, NEW rank \in [Blocks -> 0 .. M],
           \A n \in Blocks : nxt[n] \in Blocks => rank[nxt[n]] < rank[n]
    PROVE  \A x \in Ptr : Walk(nxt, x) = IF x = NIL THEN <<>>
                                         ELSE IF x = WILD THEN <<WILD>>
                                         ELSE <<x>> \o Walk(nxt, nxt[x])
<1> DEFINE F == CHOOSE w : w = [x \in Ptr |-> IF x = NIL THEN <<>>
                                     ELSE IF x = WILD THEN <<WILD>>
                                     ELSE <<x>> \o w[nxt[x]]]
<1>1. F = [x \in Ptr |-> IF x = NIL THEN <<>>
                         ELSE IF x = WILD THEN <<WILD>>
                         ELSE <<x>> \o F[nxt[x]]]
  BY WalkExists
<1>2. \A x : Walk(nxt, x) = F[x]
  BY DEF Walk
<1> HIDE DEF F
<1>3. \A x \in Ptr : F[x] = IF x = NIL THEN <<>>
                            ELSE IF x = WILD THEN <<WILD>>
                            ELSE <<x>> \o F[nxt[x]]
  BY <1>1
<1> QED BY <1>2, <1>3
LEMMA ConsIs ==
    ASSUME NEW S, NEW a \in S, NEW s \in Seq(S)
    PROVE  /\ <<a>> \o s \in Seq(S) /\ Len(<<a>> \o s) = Len(s) + 1 /\ (<<a>> \o s)[1] = a
           /\ \A j \in 1 .. Len(s) : (<<a>> \o s)[j + 1] = s[j]
<1>1. <<a>> \in Seq(S) /\ Len(<<a>>) = 1 /\ <<a>>[1] = a
  OBVIOUS
<1>2. Len(s) \in Nat
  OBVIOUS
<1> DEFINE b == <<a>>
<1>3. b \in Seq(S) /\ Len(b) = 1 /\ b[1] = a
  BY <1>1
<1> HIDE DEF b
<1>4. /\ b \o s \in Seq(S) /\ Len(b \o s) = Len(s) + 1
      /\ \A j \in 1 .. Len(s) + 1 : (b \o s)[j] = IF j =< 1 THEN b[j] ELSE s[j - 1]
  <2>1. /\ b \o s \in Seq(S) /\ Len(b \o s) = Len(b) + Len(s)
        /\ \A j \in 1 .. Len(b) + Len(s) : (b \o s)[j] = IF j =< Len(b) THEN b[j] ELSE s[j - Len(b)]
    BY <1>3, ConcatProperties
  <2>2. 1 + Len(s) = Len(s) + 1
    BY <1>2
  <2> QED BY <1>3, <2>1, <2>2
<1>5. (b \o s)[1] = a
  BY <1>2, <1>3, <1>4
<1>6. \A j \in 1 .. Len(s) : (b \o s)[j + 1] = s[j]
  BY <1>2, <1>4
<1> QED BY <1>4, <1>5, <1>6 DEF b

\* Where a block is in the order of a slot
LEMMA IndexOf ==
    ASSUME NEW nb \in 1 .. MaxBlocks, NEW q \in [1 .. nb -> 1 .. nb], NEW k, NEW hd, NEW nxt, NEW pd, NEW en,
           InOrder(q, k, nb, hd, nxt, pd, en)
    PROVE  \E ix \in [Blocks -> 0 .. nb] : \A i \in 1 .. nb : ix[q[i]] = i
<1> DEFINE ix == [n \in Blocks |-> IF n \in 1 .. nb THEN CHOOSE i \in 1 .. nb : q[i] = n ELSE 0]
<1>1. /\ \A i, j \in 1 .. nb : q[i] = q[j] => i = j
      /\ \A n \in 1 .. nb : \E i \in 1 .. nb : q[i] = n
  BY DEF InOrder
<1>2. nb \in Nat /\ 1 .. nb \subseteq Blocks
  BY HplistAssumption DEF Blocks
<1>3. ASSUME NEW n \in 1 .. nb PROVE ix[n] \in 1 .. nb /\ q[ix[n]] = n
  <2>1. ix[n] = CHOOSE i \in 1 .. nb : q[i] = n
    BY <1>2
  <2> QED BY <1>1, <2>1
<1>4. \A n \in Blocks : n \notin 1 .. nb => ix[n] = 0
  OBVIOUS
<1>5. ix = [n \in Blocks |-> ix[n]]
  OBVIOUS
<1> HIDE DEF ix
<1>6. \A n \in Blocks : ix[n] \in 0 .. nb
  <2>1. \A z \in 1 .. nb : z \in 0 .. nb
    OBVIOUS
  <2>2. 0 \in 0 .. nb
    BY <1>2
  <2> QED BY <1>3, <1>4, <2>1, <2>2
<1>7. ASSUME NEW i \in 1 .. nb PROVE ix[q[i]] = i
  <2>1. ix[q[i]] \in 1 .. nb /\ q[ix[q[i]]] = q[i]
    BY <1>3
  <2>2. \A z \in 1 .. nb : q[z] = q[i] => z = i
    BY <1>1
  <2> QED BY <2>1, <2>2
<1> QED BY <1>5, <1>6, <1>7

\* Neither the list nor what waits leads back.
LEMMA WalksEnd ==
    ASSUME NEW nb \in 1 .. MaxBlocks, NEW q \in [1 .. nb -> 1 .. nb], NEW k, NEW hd,
           NEW nxt \in [Blocks -> Ptr], NEW pd \in [Blocks -> Ptr], NEW en,
           InOrder(q, k, nb, hd, nxt, pd, en)
    PROVE  /\ \A x \in Ptr : Walk(nxt, x) = IF x = NIL THEN <<>> ELSE IF x = WILD THEN <<WILD>>
                                            ELSE <<x>> \o Walk(nxt, nxt[x])
           /\ \A x \in Ptr : Walk(pd, x) = IF x = NIL THEN <<>> ELSE IF x = WILD THEN <<WILD>>
                                           ELSE <<x>> \o Walk(pd, pd[x])
<1>1. /\ \A n \in 1 .. nb : \E i \in 1 .. nb : q[i] = n
      /\ \A i \in 1 .. nb : nxt[q[i]] = IF i > k THEN WILD ELSE IF i = 1 THEN NIL ELSE q[i - 1]
      /\ \A i \in 1 .. nb : pd[q[i]] = NIL \/ (i < nb /\ pd[q[i]] = q[i + 1])
      /\ \A n \in Blocks : n > nb => nxt[n] = WILD /\ pd[n] = WILD
  BY DEF InOrder
<1>2. nb \in Nat /\ 1 .. nb \subseteq Blocks /\ NIL \notin Blocks /\ WILD \notin Blocks
  BY HplistAssumption DEF Blocks
<1>3. PICK ix \in [Blocks -> 0 .. nb] : \A i \in 1 .. nb : ix[q[i]] = i
  BY IndexOf
<1>4. \A n \in Blocks : n > nb \/ n \in 1 .. nb
  BY <1>2 DEF Blocks
<1>5. ASSUME NEW n \in Blocks, nxt[n] \in Blocks PROVE ix[nxt[n]] < ix[n]
  <2>1. PICK i \in 1 .. nb : q[i] = n
    BY <1>1, <1>2, <1>4, <1>5
  <2>2. i # 1 /\ nxt[n] = q[i - 1]
    BY <1>1, <1>2, <1>5, <2>1
  <2>3. i - 1 \in 1 .. nb /\ i - 1 < i
    BY <2>2
  <2>4. ix[n] = i /\ ix[nxt[n]] = i - 1
    BY <1>3, <2>1, <2>2, <2>3
  <2> QED BY <2>3, <2>4
<1>6. \A x \in Ptr : Walk(nxt, x) = IF x = NIL THEN <<>> ELSE IF x = WILD THEN <<WILD>>
                                    ELSE <<x>> \o Walk(nxt, nxt[x])
  BY <1>2, <1>5, WalkIs
<1> DEFINE up == [n \in Blocks |-> nb - ix[n]]
<1>7. up \in [Blocks -> 0 .. nb]
  <2>1. \A n \in Blocks : nb - ix[n] \in 0 .. nb
    <3>1. \A z \in 0 .. nb : nb - z \in 0 .. nb
      BY <1>2
    <3> QED BY <3>1
  <2> QED BY <2>1
<1>8. ASSUME NEW n \in Blocks, pd[n] \in Blocks PROVE up[pd[n]] < up[n]
  <2>1. PICK i \in 1 .. nb : q[i] = n
    BY <1>1, <1>2, <1>4, <1>8
  <2>2. i < nb /\ pd[n] = q[i + 1]
    BY <1>1, <1>2, <1>8, <2>1
  <2>3. i + 1 \in 1 .. nb /\ nb - (i + 1) < nb - i
    BY <1>2, <2>2
  <2>4. ix[n] = i /\ ix[pd[n]] = i + 1
    BY <1>3, <2>1, <2>2, <2>3
  <2>5. up[n] = nb - i /\ up[pd[n]] = nb - (i + 1)
    BY <1>8, <2>4
  <2> QED BY <2>3, <2>5
<1> HIDE DEF up
<1>9. \A x \in Ptr : Walk(pd, x) = IF x = NIL THEN <<>> ELSE IF x = WILD THEN <<WILD>>
                                   ELSE <<x>> \o Walk(pd, pd[x])
  BY <1>2, <1>7, <1>8, WalkIs
<1> QED BY <1>6, <1>9

\* The list, from the head or from any node on it
LEMMA ListIs ==
    ASSUME NEW nb \in 1 .. MaxBlocks, NEW q \in [1 .. nb -> 1 .. nb], NEW k \in 1 .. nb, NEW hd,
           NEW nxt \in [Blocks -> Ptr], NEW pd \in [Blocks -> Ptr], NEW en,
           InOrder(q, k, nb, hd, nxt, pd, en), NEW i \in 1 .. k
    PROVE  /\ Walk(nxt, q[i]) \in Seq(Blocks) /\ Len(Walk(nxt, q[i])) = i
           /\ \A j \in 1 .. i : Walk(nxt, q[i])[j] = q[i + 1 - j]
<1> DEFINE P(n) == /\ Walk(nxt, q[n]) \in Seq(Blocks) /\ Len(Walk(nxt, q[n])) = n
                   /\ \A j \in 1 .. n : Walk(nxt, q[n])[j] = q[n + 1 - j]
           T == {n \in 1 .. k : ~P(n)}
<1>1. \A n \in 1 .. nb : nxt[q[n]] = IF n > k THEN WILD ELSE IF n = 1 THEN NIL ELSE q[n - 1]
  BY DEF InOrder
<1>2. nb \in Nat /\ 1 .. nb \subseteq Blocks /\ NIL \notin Blocks /\ WILD \notin Blocks
  BY HplistAssumption DEF Blocks
<1>3. \A x \in Ptr : Walk(nxt, x) = IF x = NIL THEN <<>> ELSE IF x = WILD THEN <<WILD>>
                                    ELSE <<x>> \o Walk(nxt, nxt[x])
  BY WalksEnd
<1>4. SUFFICES ASSUME T # {} PROVE FALSE
  <2>1. P(i)
    BY <1>4
  <2> QED BY <2>1
<1>5. PICK n \in T : \A y \in T : n =< y
  <2> HIDE DEF P
  <2>1. T \in SUBSET Nat
    OBVIOUS
  <2> HIDE DEF T
  <2> QED BY <1>4, <2>1, LeastNat
<1>6. n \in 1 .. k /\ ~P(n)
  OBVIOUS
<1>7. n \in 1 .. nb /\ q[n] \in Blocks /\ q[n] \in Ptr /\ q[n] # NIL /\ q[n] # WILD /\ ~ (n > k)
  <2>1. n \in 1 .. nb /\ ~ (n > k)
    BY <1>2, <1>6
  <2>2. q[n] \in Blocks
    BY <1>2, <2>1
  <2> QED BY <1>2, <2>1, <2>2 DEF Ptr
<1>8. Walk(nxt, q[n]) = <<q[n]>> \o Walk(nxt, nxt[q[n]])
  BY <1>3, <1>7
<1>9. n # 1
  <2>1. ASSUME n = 1 PROVE FALSE
    <3>1. nxt[q[n]] = NIL /\ NIL \in Ptr
      BY <1>1, <1>7, <2>1 DEF Ptr
    <3>2. Walk(nxt, NIL) = <<>>
      BY <1>3, <3>1
    <3>3. PICK e \in Seq(Blocks) : e = <<>> /\ Len(e) = 0
      <4>1. <<>> \in Seq(Blocks)
        OBVIOUS
      <4>2. Len(<<>>) = 0
        OBVIOUS
      <4> QED BY <4>1, <4>2
    <3>4. Walk(nxt, q[n]) = <<q[n]>> \o e
      BY <1>8, <3>1, <3>2, <3>3
    <3>5. <<q[n]>> \o e \in Seq(Blocks) /\ Len(<<q[n]>> \o e) = Len(e) + 1 /\ (<<q[n]>> \o e)[1] = q[n]
      <4> DEFINE a == q[n]
      <4>1. a \in Blocks
        BY <1>7
      <4> HIDE DEF a
      <4>2. <<a>> \o e \in Seq(Blocks) /\ Len(<<a>> \o e) = Len(e) + 1 /\ (<<a>> \o e)[1] = a
        BY <4>1, ConsIs
      <4> QED BY <4>2 DEF a
    <3>6. P(1)
      <4>1. /\ Walk(nxt, q[1]) \in Seq(Blocks) /\ Len(Walk(nxt, q[1])) = 1 /\ Walk(nxt, q[1])[1] = q[1]
        BY <2>1, <3>3, <3>4, <3>5
      <4>2. \A j \in 1 .. 1 : j = 1 /\ 1 + 1 - j = 1
        OBVIOUS
      <4> QED BY <4>1, <4>2
    <3> HIDE DEF P
    <3> QED BY <1>6, <2>1, <3>6
  <2> QED BY <2>1
<1>10. P(n - 1)
  <2>1. n - 1 \in 1 .. k /\ ~ (n =< n - 1)
    BY <1>6, <1>9
  <2> HIDE DEF P
  <2> QED BY <1>5, <2>1
<1> DEFINE u == Walk(nxt, q[n - 1])
<1>11. u \in Seq(Blocks) /\ Len(u) = n - 1 /\ \A j \in 1 .. n - 1 : u[j] = q[n - 1 + 1 - j]
  BY <1>10
<1>12. Walk(nxt, q[n]) = <<q[n]>> \o u
  BY <1>1, <1>7, <1>8, <1>9
<1> HIDE DEF u
<1>13. /\ Walk(nxt, q[n]) \in Seq(Blocks) /\ Len(Walk(nxt, q[n])) = n - 1 + 1
       /\ Walk(nxt, q[n])[1] = q[n] /\ \A j \in 1 .. n - 1 : Walk(nxt, q[n])[j + 1] = u[j]
  <2> DEFINE a == q[n]
  <2>1. a \in Blocks
    BY <1>7
  <2> HIDE DEF a
  <2>2. /\ <<a>> \o u \in Seq(Blocks) /\ Len(<<a>> \o u) = Len(u) + 1 /\ (<<a>> \o u)[1] = a
        /\ \A j \in 1 .. Len(u) : (<<a>> \o u)[j + 1] = u[j]
    BY <1>11, <2>1, ConsIs
  <2>3. Walk(nxt, q[n]) = <<a>> \o u
    BY <1>12 DEF a
  <2>4. Len(Walk(nxt, q[n])) = n - 1 + 1 /\ \A j \in 1 .. n - 1 : Walk(nxt, q[n])[j + 1] = u[j]
    BY <1>11, <2>2, <2>3
  <2> QED BY <2>2, <2>3, <2>4 DEF a
<1>14. ASSUME NEW j \in 1 .. n PROVE Walk(nxt, q[n])[j] = q[n + 1 - j]
  <2>1. CASE j = 1
    <3>1. n + 1 - j = n
      BY <1>6, <2>1
    <3> QED BY <1>13, <2>1, <3>1
  <2>2. CASE j # 1
    <3>1. j - 1 \in 1 .. n - 1 /\ (j - 1) + 1 = j /\ n - 1 + 1 - (j - 1) = n + 1 - j
      BY <1>6, <2>2
    <3> QED BY <1>11, <1>13, <3>1
  <2> QED BY <2>1, <2>2
<1>15. n - 1 + 1 = n
  BY <1>6
<1>16. P(n)
  BY <1>13, <1>14, <1>15
<1> HIDE DEF P
<1> QED BY <1>6, <1>16
\* The nodes that wait, from one of them on
LEMMA WaitIs ==
    ASSUME NEW nb \in 1 .. MaxBlocks, NEW q \in [1 .. nb -> 1 .. nb], NEW k \in 1 .. nb, NEW hd,
           NEW nxt \in [Blocks -> Ptr], NEW pd \in [Blocks -> Ptr], NEW en,
           InOrder(q, k, nb, hd, nxt, pd, en), NEW i \in k .. nb
    PROVE  /\ Walk(pd, q[i]) \in Seq(Blocks) /\ Len(Walk(pd, q[i])) = nb + 1 - i
           /\ \A j \in 1 .. nb + 1 - i : Walk(pd, q[i])[j] = q[i + j - 1]
<1> DEFINE P(n) == /\ Walk(pd, q[n]) \in Seq(Blocks) /\ Len(Walk(pd, q[n])) = nb + 1 - n
                   /\ \A j \in 1 .. nb + 1 - n : Walk(pd, q[n])[j] = q[n + j - 1]
           T == {d \in Nat : nb - d \in k .. nb /\ ~P(nb - d)}
<1>1. \A n \in 1 .. nb : /\ pd[q[n]] = NIL \/ (n < nb /\ pd[q[n]] = q[n + 1])
                         /\ k =< n /\ n < nb => pd[q[n]] = q[n + 1]
  BY DEF InOrder
<1>2. nb \in Nat /\ k \in Nat /\ 1 =< k /\ 1 .. nb \subseteq Blocks /\ NIL \notin Blocks /\ WILD \notin Blocks
  BY HplistAssumption DEF Blocks
<1>3. \A x \in Ptr : Walk(pd, x) = IF x = NIL THEN <<>> ELSE IF x = WILD THEN <<WILD>>
                                   ELSE <<x>> \o Walk(pd, pd[x])
  BY WalksEnd
<1>4. SUFFICES ASSUME T # {} PROVE FALSE
  <2>1. nb - i \in Nat /\ nb - (nb - i) = i
    BY <1>2
  <2>2. P(i)
    <3>1. nb - i \notin T
      BY <1>4
    <3> HIDE DEF P
    <3> QED BY <2>1, <3>1
  <2> QED BY <2>2
<1>5. PICK d \in T : \A y \in T : d =< y
  <2> HIDE DEF P
  <2>1. T \in SUBSET Nat
    OBVIOUS
  <2> HIDE DEF T
  <2> QED BY <1>4, <2>1, LeastNat
<1> DEFINE n == nb - d
<1>6. d \in Nat /\ n \in k .. nb /\ ~P(n)
  OBVIOUS
<1>7. n + 1 \in k .. nb => P(n + 1)
  <2>1. n + 1 \in k .. nb => d - 1 \in Nat /\ nb - (d - 1) = n + 1 /\ ~ (d =< d - 1)
    BY <1>2, <1>6
  <2> HIDE DEF P, n
  <2> QED BY <1>5, <2>1
<1> HIDE DEF n
<1>8. n \in 1 .. nb /\ k =< n /\ n \in Nat
  BY <1>2, <1>6
<1>9. q[n] \in Blocks /\ q[n] \in Ptr /\ q[n] # NIL /\ q[n] # WILD
  <2>1. q[n] \in Blocks
    BY <1>2, <1>8
  <2> QED BY <1>2, <2>1 DEF Ptr
<1>10. Walk(pd, q[n]) = <<q[n]>> \o Walk(pd, pd[q[n]])
  BY <1>3, <1>9
<1>11. PICK u \in Seq(Blocks) : /\ Walk(pd, pd[q[n]]) = u /\ Len(u) = nb - n
                                /\ \A j \in 1 .. nb - n : u[j] = q[n + j]
  <2>1. CASE n = nb
    <3>1. pd[q[n]] = NIL /\ NIL \in Ptr
      <4>1. pd[q[n]] = NIL \/ (n < nb /\ pd[q[n]] = q[n + 1])
        BY <1>1, <1>8
      <4> QED BY <1>2, <2>1, <4>1 DEF Ptr
    <3>2. Walk(pd, pd[q[n]]) = <<>>
      BY <1>3, <3>1
    <3>3. <<>> \in Seq(Blocks) /\ Len(<<>>) = 0
      <4>1. <<>> \in Seq(Blocks)
        OBVIOUS
      <4>2. Len(<<>>) = 0
        OBVIOUS
      <4> QED BY <4>1, <4>2
    <3>4. nb - n = 0 /\ \A j : j \notin 1 .. nb - n
      BY <1>2, <2>1
    <3> QED BY <3>2, <3>3, <3>4
  <2>2. CASE n # nb
    <3>1. n < nb /\ n + 1 \in k .. nb /\ n + 1 \in 1 .. nb /\ nb + 1 - (n + 1) = nb - n
      BY <1>2, <1>8, <2>2
    <3>2. pd[q[n]] = q[n + 1]
      BY <1>1, <1>8, <3>1
    <3>3. P(n + 1)
      BY <1>7, <3>1
    <3>4. \A j \in 1 .. nb - n : n + 1 + j - 1 = n + j
      BY <1>8
    <3>5. /\ Walk(pd, q[n + 1]) \in Seq(Blocks) /\ Len(Walk(pd, q[n + 1])) = nb - n
          /\ \A j \in 1 .. nb - n : Walk(pd, q[n + 1])[j] = q[n + j]
      BY <3>1, <3>3, <3>4
    <3> QED BY <3>2, <3>5
  <2> QED BY <2>1, <2>2
<1>12. /\ Walk(pd, q[n]) \in Seq(Blocks) /\ Len(Walk(pd, q[n])) = nb - n + 1
       /\ Walk(pd, q[n])[1] = q[n] /\ \A j \in 1 .. nb - n : Walk(pd, q[n])[j + 1] = u[j]
  <2> DEFINE a == q[n]
  <2>1. a \in Blocks
    BY <1>9
  <2> HIDE DEF a
  <2>2. /\ <<a>> \o u \in Seq(Blocks) /\ Len(<<a>> \o u) = Len(u) + 1 /\ (<<a>> \o u)[1] = a
        /\ \A j \in 1 .. Len(u) : (<<a>> \o u)[j + 1] = u[j]
    BY <2>1, ConsIs
  <2>3. Walk(pd, q[n]) = <<a>> \o u
    BY <1>10, <1>11 DEF a
  <2>4. Len(Walk(pd, q[n])) = nb - n + 1 /\ \A j \in 1 .. nb - n : Walk(pd, q[n])[j + 1] = u[j]
    BY <1>11, <2>2, <2>3
  <2> QED BY <2>2, <2>3, <2>4 DEF a
<1>13. ASSUME NEW j \in 1 .. nb + 1 - n PROVE Walk(pd, q[n])[j] = q[n + j - 1]
  <2>1. CASE j = 1
    <3>1. n + j - 1 = n
      BY <1>8, <2>1
    <3> QED BY <1>12, <2>1, <3>1
  <2>2. CASE j # 1
    <3>1. j - 1 \in 1 .. nb - n /\ (j - 1) + 1 = j /\ n + (j - 1) = n + j - 1
      BY <1>2, <1>8, <2>2
    <3> QED BY <1>11, <1>12, <3>1
  <2> QED BY <2>1, <2>2
<1>14. nb - n + 1 = nb + 1 - n
  BY <1>2, <1>8
<1>15. P(n)
  BY <1>12, <1>13, <1>14
<1> HIDE DEF P
<1> QED BY <1>6, <1>15

\* R has each of the first nb arrays once.
EachOnce(R, nb) ==
    /\ DOMAIN R = 1 .. nb
    /\ \A n \in 1 .. nb : \E j0 \in 1 .. nb : R[j0] = n /\ \A j \in 1 .. nb : R[j] = n => j = j0
    /\ \A j \in 1 .. nb : R[j] \in 1 .. nb

\* mcdb_make_destroy frees each array once: those of the nodes that wait
\* behind the head, then those of the list.
LEMMA ReleasedIs ==
    ASSUME NEW nb \in 1 .. MaxBlocks, NEW hd, NEW nxt \in [Blocks -> Ptr], NEW pd \in [Blocks -> Ptr], NEW en,
           NodesInOrder(nb, hd, nxt, pd, en)
    PROVE  \E R \in Seq(Blocks) : Released(hd, nxt, pd) = R /\ EachOnce(R, nb)
<1>0. PICK q \in [1 .. nb -> 1 .. nb], k \in 1 .. nb : InOrder(q, k, nb, hd, nxt, pd, en)
  BY DEF NodesInOrder
<1>1. /\ \A i, j \in 1 .. nb : q[i] = q[j] => i = j
      /\ \A n \in 1 .. nb : \E i \in 1 .. nb : q[i] = n
      /\ hd = q[k]
  BY <1>0 DEF InOrder
<1>2. nb \in Nat /\ k \in Nat /\ 1 =< k /\ k =< nb /\ 1 .. nb \subseteq Blocks /\ NIL \notin Blocks /\ WILD \notin Blocks
  BY HplistAssumption DEF Blocks
<1>3. hd # NIL /\ hd # WILD /\ hd \in Blocks /\ hd \in Ptr
  <2>1. hd \in Blocks
    BY <1>1, <1>2
  <2> QED BY <1>2, <2>1 DEF Ptr
<1>4. PICK b \in Seq(Blocks) : /\ Walk(nxt, hd) = b /\ Len(b) = k
                               /\ \A j \in 1 .. k : b[j] = q[k + 1 - j]
  <2>1. k \in 1 .. k
    BY <1>2
  <2>2. /\ Walk(nxt, q[k]) \in Seq(Blocks) /\ Len(Walk(nxt, q[k])) = k
        /\ \A j \in 1 .. k : Walk(nxt, q[k])[j] = q[k + 1 - j]
    BY <1>0, <2>1, ListIs
  <2> QED BY <1>1, <2>2
<1>5. PICK a \in Seq(Blocks) : /\ Walk(pd, pd[hd]) = a /\ Len(a) = nb - k
                               /\ \A j \in 1 .. nb - k : a[j] = q[k + j]
  <2>0. /\ pd[q[k]] = NIL \/ (k < nb /\ pd[q[k]] = q[k + 1])
        /\ k < nb => pd[q[k]] = q[k + 1]
    <3>1. \A i \in 1 .. nb : /\ pd[q[i]] = NIL \/ (i < nb /\ pd[q[i]] = q[i + 1])
                             /\ k =< i /\ i < nb => pd[q[i]] = q[i + 1]
      BY <1>0 DEF InOrder
    <3>2. k \in 1 .. nb /\ k =< k
      BY <1>2
    <3> QED BY <3>1, <3>2
  <2>1. CASE k = nb
    <3>1. pd[hd] = NIL /\ NIL \in Ptr
      BY <1>1, <1>2, <2>0, <2>1 DEF Ptr
    <3>2. Walk(pd, NIL) = <<>>
      BY <1>0, <3>1, WalksEnd
    <3>3. <<>> \in Seq(Blocks)
      OBVIOUS
    <3>4. Len(<<>>) = 0
      OBVIOUS
    <3>5. nb - k = 0 /\ \A j : j \notin 1 .. nb - k
      BY <1>2, <2>1
    <3> QED BY <3>1, <3>2, <3>3, <3>4, <3>5
  <2>2. CASE k # nb
    <3>1. k + 1 \in k .. nb /\ nb + 1 - (k + 1) = nb - k /\ k < nb
      BY <1>2, <2>2
    <3>2. pd[hd] = q[k + 1]
      BY <1>1, <2>0, <3>1
    <3>3. /\ Walk(pd, q[k + 1]) \in Seq(Blocks) /\ Len(Walk(pd, q[k + 1])) = nb + 1 - (k + 1)
          /\ \A j \in 1 .. nb + 1 - (k + 1) : Walk(pd, q[k + 1])[j] = q[k + 1 + j - 1]
      <4> DEFINE i == k + 1
      <4>1. i \in k .. nb
        BY <3>1
      <4> HIDE DEF i
      <4>2. /\ Walk(pd, q[i]) \in Seq(Blocks) /\ Len(Walk(pd, q[i])) = nb + 1 - i
            /\ \A j \in 1 .. nb + 1 - i : Walk(pd, q[i])[j] = q[i + j - 1]
        BY <1>0, <4>1, WaitIs
      <4> QED BY <4>2 DEF i
    <3>4. \A j \in 1 .. nb - k : k + 1 + j - 1 = k + j
      BY <1>2
    <3>5. /\ Walk(pd, q[k + 1]) \in Seq(Blocks) /\ Len(Walk(pd, q[k + 1])) = nb - k
          /\ \A j \in 1 .. nb - k : Walk(pd, q[k + 1])[j] = q[k + j]
      BY <3>1, <3>3, <3>4
    <3> QED BY <3>2, <3>5
  <2> QED BY <2>1, <2>2
<1> DEFINE R == Released(hd, nxt, pd)
<1>6. R = a \o b
  BY <1>3, <1>4, <1>5 DEF Released
<1> HIDE DEF R
<1>7. /\ R \in Seq(Blocks) /\ Len(R) = Len(a) + Len(b)
      /\ \A j \in 1 .. Len(a) + Len(b) : R[j] = IF j =< Len(a) THEN a[j] ELSE b[j - Len(a)]
  BY <1>6, ConcatProperties
<1>8. Len(a) + Len(b) = nb /\ DOMAIN R = 1 .. nb
  BY <1>2, <1>4, <1>5, <1>7
<1>9. ASSUME NEW j \in 1 .. nb PROVE \/ j =< nb - k /\ k + j \in 1 .. nb /\ R[j] = q[k + j]
                                     \/ j > nb - k /\ nb + 1 - j \in 1 .. k /\ R[j] = q[nb + 1 - j]
  <2>1. CASE j =< nb - k
    <3>1. j \in 1 .. nb - k /\ k + j \in 1 .. nb
      BY <1>2, <2>1
    <3> QED BY <1>5, <1>7, <1>8, <2>1, <3>1
  <2>2. CASE ~ (j =< nb - k)
    <3>1. /\ j - (nb - k) \in 1 .. k /\ k + 1 - (j - (nb - k)) = nb + 1 - j
          /\ nb + 1 - j \in 1 .. k /\ j > nb - k
      BY <1>2, <2>2
    <3>2. R[j] = b[j - (nb - k)]
      BY <1>5, <1>7, <1>8, <2>2
    <3> QED BY <1>4, <3>1, <3>2
  <2> QED BY <2>1, <2>2
<1>10. ASSUME NEW n \in 1 .. nb PROVE \E j0 \in 1 .. nb : R[j0] = n /\ \A j \in 1 .. nb : R[j] = n => j = j0
  <2>1. PICK i \in 1 .. nb : q[i] = n
    BY <1>1
  <2> DEFINE j0 == IF i > k THEN i - k ELSE nb + 1 - i
  <2>2. /\ j0 \in 1 .. nb /\ (i > k => j0 =< nb - k /\ k + j0 = i)
        /\ (~ (i > k) => j0 > nb - k /\ nb + 1 - j0 = i)
    BY <1>2
  <2>3. R[j0] = n
    <3> HIDE DEF j0
    <3>1. CASE i > k
      <4>1. j0 =< nb - k /\ ~ (j0 > nb - k) /\ k + j0 = i
        BY <1>2, <2>2, <3>1
      <4>2. R[j0] = q[k + j0]
        BY <1>9, <2>2, <4>1
      <4> QED BY <2>1, <4>1, <4>2
    <3>2. CASE ~ (i > k)
      <4>1. j0 > nb - k /\ ~ (j0 =< nb - k) /\ nb + 1 - j0 = i
        BY <1>2, <2>2, <3>2
      <4>2. R[j0] = q[nb + 1 - j0]
        BY <1>9, <2>2, <4>1
      <4> QED BY <2>1, <4>1, <4>2
    <3> QED BY <3>1, <3>2
  <2>4. ASSUME NEW j \in 1 .. nb, R[j] = n PROVE j = j0
    <3>1. CASE j =< nb - k /\ k + j \in 1 .. nb /\ R[j] = q[k + j]
      <4>1. k + j = i
        BY <1>1, <2>1, <2>4, <3>1
      <4> QED BY <1>2, <4>1
    <3>2. CASE j > nb - k /\ nb + 1 - j \in 1 .. k /\ R[j] = q[nb + 1 - j]
      <4>1. nb + 1 - j \in 1 .. nb
        BY <1>2, <3>2
      <4>2. nb + 1 - j = i
        BY <1>1, <2>1, <2>4, <3>2, <4>1
      <4> QED BY <1>2, <3>2, <4>2
    <3> QED BY <1>9, <3>1, <3>2
  <2> HIDE DEF j0
  <2> QED BY <2>2, <2>3, <2>4
<1>11. \A j \in 1 .. nb : R[j] \in 1 .. nb
  <2>1. \A i \in 1 .. k : i \in 1 .. nb
    BY <1>2
  <2> QED BY <1>9, <2>1
<1>12. Released(hd, nxt, pd) = R
  BY DEF R
<1> QED BY <1>7, <1>8, <1>10, <1>11, <1>12 DEF EachOnce

-----------------------------------------------------------------------------
(* The lists of all slots.                                                 *)

LEMMA ListInit == MakeInit => ListInv
<1> SUFFICES ASSUME MakeInit PROVE ListInv
  OBVIOUS
<1>1. NoLists /\ phase = "new"
  BY DEF MakeInit
<1>2. NIL \in Ptr /\ WILD \in Ptr /\ MaxBlocks \in Nat
  BY HplistAssumption DEF Ptr
<1>3. <<>> \in Seq(Entry)
  OBVIOUS
<1>4. ListTypes
  BY <1>1, <1>2, <1>3 DEF ListTypes, NoLists
<1> QED BY <1>1, <1>4 DEF ListInv, OneFull, Between

LEMMA KeySlot == KeyInv => SlotOf(hp.h) \in Slots
<1> SUFFICES ASSUME KeyInv PROVE SlotOf(hp.h) \in Slots
  OBVIOUS
<1>1. hp.h \in Nat /\ SLOTS \in Nat \ {0}
  BY PowerAssumption DEF KeyInv
<1>2. hp.h % SLOTS \in 0 .. SLOTS - 1
  BY <1>1
<1> QED BY <1>2 DEF SlotOf, Slots

\* mcdb_make_start
LEMMA FirstListsStep == ASSUME ListTypes, NoLists, FirstLists
                        PROVE  ListTypes' /\ NodesInv' /\ \A s \in Slots : ~IsFull(s)'
<1>1. /\ nblk' = 1 /\ head' = [s \in Slots |-> 1] /\ ent' = ent /\ freed' = freed
      /\ lnext' = [s \in Slots |-> [lnext[s] EXCEPT ![1] = NIL]]
      /\ pend' = [s \in Slots |-> [pend[s] EXCEPT ![1] = NIL]]
  BY DEF FirstLists
<1>2. /\ freed = [n \in Blocks \cup {WILD} |-> 0]
      /\ \A s \in Slots : /\ lnext[s] \in [Blocks -> Ptr] /\ pend[s] \in [Blocks -> Ptr]
                          /\ \A n \in Blocks : lnext[s][n] = WILD /\ pend[s][n] = WILD /\ ent[s][n] = <<>>
  BY DEF NoLists, ListTypes
<1>3. 1 \in Blocks /\ 1 \in Ptr /\ NIL \in Ptr /\ 1 \in 0 .. MaxBlocks
  BY HplistAssumption DEF Blocks, Ptr
<1>4. ListTypes'
  <2>1. lnext' \in [Slots -> [Blocks -> Ptr]] /\ pend' \in [Slots -> [Blocks -> Ptr]]
    BY <1>1, <1>2, <1>3
  <2>2. head' \in [Slots -> Ptr] /\ nblk' \in 0 .. MaxBlocks
    BY <1>1, <1>3
  <2> QED BY <1>1, <2>1, <2>2 DEF ListTypes
<1>5. ASSUME NEW s \in Slots PROVE NodesInOrder(nblk', head'[s], lnext'[s], pend'[s], ent'[s])
  <2>1. NodesInOrder(1, 1, [lnext[s] EXCEPT ![1] = NIL], [pend[s] EXCEPT ![1] = NIL], ent[s])
    BY <1>2, FirstNode
  <2> QED BY <1>1, <2>1
<1>6. NodesInv'
  BY <1>1, <1>2, <1>5 DEF NodesInv, NodesInOrder, InOrder
<1>7. ASSUME NEW s \in Slots PROVE ~IsFull(s)'
  <2>1. ent'[s][head'[s]] = <<>>
    BY <1>1, <1>2, <1>3
  <2>2. Len(ent'[s][head'[s]]) # HPLIST
    BY <2>1, HplistAssumption
  <2> QED BY <2>2 DEF IsFull
<1> QED BY <1>4, <1>6, <1>7

\* mcdb_hplist_alloc, when a node waits
LEMMA PendStep ==
    ASSUME ListTypes, NodesInv, NEW s0 \in Slots, HplistPend(s0),
           \A s \in Slots : IsFull(s) => s = s0
    PROVE  ListTypes' /\ NodesInv' /\ \A s \in Slots : ~IsFull(s)'
<1> DEFINE n == pend[s0][head[s0]]
<1>1. /\ n # NIL /\ lnext' = [lnext EXCEPT ![s0][n] = head[s0]] /\ head' = [head EXCEPT ![s0] = n]
      /\ pend' = pend /\ ent' = ent /\ count' = count /\ nblk' = nblk /\ freed' = freed
  BY DEF HplistPend
<1>2. nblk \in 1 .. MaxBlocks
  BY HplistAssumption DEF ListTypes, NodesInv
<1>3. \A s \in Slots : lnext[s] \in [Blocks -> Ptr] /\ pend[s] \in [Blocks -> Ptr] /\ head[s] \in Ptr
  BY DEF ListTypes
<1>4. NodesInOrder(nblk, head[s0], lnext[s0], pend[s0], ent[s0])
  BY DEF NodesInv
<1>5. n \in 1 .. nblk /\ ent[s0][n] = <<>>
  BY <1>1, <1>2, <1>4, HeadIs
<1>6. n \in Blocks /\ n \in Ptr
  BY <1>2, <1>5, HplistAssumption DEF Blocks, Ptr
<1>7. NodesInOrder(nblk, n, [lnext[s0] EXCEPT ![n] = head[s0]], pend[s0], ent[s0])
  BY <1>1, <1>2, <1>3, <1>4, PendJoins
<1> HIDE DEF n
<1>8. /\ head'[s0] = n /\ lnext'[s0] = [lnext[s0] EXCEPT ![n] = head[s0]]
      /\ \A s \in Slots : s # s0 => head'[s] = head[s] /\ lnext'[s] = lnext[s]
  BY <1>1 DEF ListTypes
<1>9. ListTypes'
  <2>1. head' \in [Slots -> Ptr] /\ lnext' \in [Slots -> [Blocks -> Ptr]]
    BY <1>1, <1>3, <1>6 DEF ListTypes
  <2> QED BY <1>1, <2>1 DEF ListTypes
<1>10. ASSUME NEW s \in Slots PROVE NodesInOrder(nblk', head'[s], lnext'[s], pend'[s], ent'[s])
  <2>1. CASE s = s0
    BY <1>1, <1>7, <1>8, <2>1
  <2>2. CASE s # s0
    <3>1. NodesInOrder(nblk, head[s], lnext[s], pend[s], ent[s])
      BY DEF NodesInv
    <3> QED BY <1>1, <1>8, <2>2, <3>1
  <2> QED BY <2>1, <2>2
<1>11. NodesInv'
  BY <1>1, <1>10 DEF NodesInv, NodesInOrder, InOrder
<1>12. ASSUME NEW s \in Slots PROVE ~IsFull(s)'
  <2>1. CASE s = s0
    <3>1. Len(ent'[s][head'[s]]) # HPLIST
      BY <1>1, <1>5, <1>8, <2>1, HplistAssumption
    <3> QED BY <3>1 DEF IsFull
  <2>2. CASE s # s0
    <3>1. ent'[s][head'[s]] = ent[s][head[s]] /\ ~IsFull(s)
      BY <1>1, <1>8, <2>2
    <3> QED BY <3>1 DEF IsFull
  <2> QED BY <2>1, <2>2
<1> QED BY <1>9, <1>11, <1>12

\* mcdb_hplist_alloc, when none does
LEMMA NewStep ==
    ASSUME ListTypes, NodesInv, NEW s0 \in Slots, HplistNew(s0),
           \A s \in Slots : IsFull(s) => s = s0
    PROVE  ListTypes' /\ NodesInv' /\ \A s \in Slots : ~IsFull(s)'
<1> DEFINE n == nblk + 1
<1>1. /\ pend[s0][head[s0]] = NIL /\ nblk < MaxBlocks /\ nblk' = n
      /\ head' = [i \in Slots |-> IF IsFull(i) THEN n ELSE head[i]]
      /\ lnext' = [i \in Slots |-> IF IsFull(i) THEN [lnext[i] EXCEPT ![n] = head[i]] ELSE lnext[i]]
      /\ pend' = [i \in Slots |-> IF IsFull(i) THEN [pend[i] EXCEPT ![n] = NIL]
                                  ELSE [pend[i] EXCEPT ![n] = pend[i][head[i]], ![head[i]] = n]]
      /\ ent' = ent /\ freed' = freed
  BY DEF HplistNew
<1>2. nblk \in 1 .. MaxBlocks /\ nblk \in Nat /\ MaxBlocks \in Nat
  BY HplistAssumption DEF ListTypes, NodesInv
<1>3. /\ n \in Blocks /\ n \in Ptr /\ NIL \in Ptr /\ n \in 0 .. MaxBlocks /\ n # 0
      /\ nblk + 1 \in Blocks
  BY <1>1, <1>2 DEF Blocks, Ptr
<1>4. \A s \in Slots : lnext[s] \in [Blocks -> Ptr] /\ pend[s] \in [Blocks -> Ptr] /\ head[s] \in Ptr
  BY DEF ListTypes
<1>5. \A s \in Slots : NodesInOrder(nblk, head[s], lnext[s], pend[s], ent[s])
  BY DEF NodesInv
<1>6. \A s \in Slots : head[s] \in Blocks
  BY <1>2, <1>5, HeadIs
<1>7. \A s \in Slots : ent[s][n] = <<>>
  <2>1. SUFFICES ASSUME NEW s \in Slots PROVE ent[s][n] = <<>>
    OBVIOUS
  <2>2. PICK q, k : InOrder(q, k, nblk, head[s], lnext[s], pend[s], ent[s])
    BY <1>5 DEF NodesInOrder
  <2>3. \A m \in Blocks : m > nblk => ent[s][m] = <<>>
    BY <2>2 DEF InOrder
  <2> QED BY <1>2, <1>3, <2>3
<1>8. ASSUME NEW s \in Slots PROVE NodesInOrder(nblk', head'[s], lnext'[s], pend'[s], ent'[s])
  <2>1. CASE IsFull(s)
    <3>1. pend[s][head[s]] = NIL
      BY <1>1, <2>1
    <3>2. NodesInOrder(nblk + 1, nblk + 1, [lnext[s] EXCEPT ![nblk + 1] = head[s]],
                       [pend[s] EXCEPT ![nblk + 1] = NIL], ent[s])
      BY <1>2, <1>3, <1>4, <1>5, <3>1, NewHead
    <3> QED BY <1>1, <2>1, <3>2
  <2>2. CASE ~IsFull(s)
    <3>1. NodesInOrder(nblk + 1, head[s], lnext[s],
                       [pend[s] EXCEPT ![nblk + 1] = pend[s][head[s]], ![head[s]] = nblk + 1], ent[s])
      BY <1>2, <1>3, <1>4, <1>5, NewWaits
    <3> QED BY <1>1, <2>2, <3>1
  <2> QED BY <2>1, <2>2
<1> HIDE DEF n
<1>9. ListTypes'
  <2>1. head' \in [Slots -> Ptr]
    BY <1>1, <1>3, <1>4
  <2>2. lnext' \in [Slots -> [Blocks -> Ptr]]
    <3>1. ASSUME NEW s \in Slots PROVE [lnext[s] EXCEPT ![n] = head[s]] \in [Blocks -> Ptr]
      BY <1>3, <1>4
    <3> QED BY <1>1, <1>4, <3>1
  <2>3. pend' \in [Slots -> [Blocks -> Ptr]]
    <3>1. ASSUME NEW s \in Slots
          PROVE  /\ [pend[s] EXCEPT ![n] = NIL] \in [Blocks -> Ptr]
                 /\ [pend[s] EXCEPT ![n] = pend[s][head[s]], ![head[s]] = n] \in [Blocks -> Ptr]
      <4>1. pend[s][head[s]] \in Ptr /\ pend[s] \in [Blocks -> Ptr]
        BY <1>4, <1>6
      <4> QED BY <1>3, <4>1
    <3> QED BY <1>1, <3>1
  <2> QED BY <1>1, <1>3, <2>1, <2>2, <2>3 DEF ListTypes
<1>10. NodesInv'
  BY <1>1, <1>3, <1>8 DEF NodesInv, NodesInOrder, InOrder
<1>11. ASSUME NEW s \in Slots PROVE ~IsFull(s)'
  <2>1. CASE IsFull(s)
    <3>1. Len(ent'[s][head'[s]]) # HPLIST
      <4>1. ent'[s][head'[s]] = <<>>
        BY <1>1, <1>7, <2>1
      <4> QED BY <4>1, HplistAssumption
    <3> QED BY <3>1 DEF IsFull
  <2>2. CASE ~IsFull(s)
    <3>1. ent'[s][head'[s]] = ent[s][head[s]]
      BY <1>1, <2>2
    <3> QED BY <2>2, <3>1 DEF IsFull
  <2> QED BY <2>1, <2>2
<1> QED BY <1>9, <1>10, <1>11

\* mcdb_make_addend
LEMMA AddEndLists ==
    ASSUME WindowInv, KeyInv, CallerInv, ListTypes, NodesInv, OneFull, AddEnd
    PROVE  ListTypes' /\ NodesInv' /\ OneFull'
<1> DEFINE s0 == SlotOf(hp.h)
           n  == head[s0]
<1>1. /\ phase = "keyed" /\ phase' = "added" /\ nblk' = nblk /\ freed' = freed
      /\ head' = head /\ lnext' = lnext /\ pend' = pend
      /\ ent' = [ent EXCEPT ![s0][n] = Append(@, hp)]
      /\ hp' = IF Len(ent[s0][n]) = HPLIST - 1 THEN [hp EXCEPT !.l = -1] ELSE hp
  BY DEF AddEnd, HplistAdd
<1>2. nblk \in 1 .. MaxBlocks
  BY HplistAssumption DEF ListTypes, NodesInv
<1>3. s0 \in Slots
  BY KeySlot
<1>4. hp = [p |-> hp.p, h |-> hp.h, l |-> hp.l] /\ hp \in Entry
  <2>1. hp = [p |-> hp.p, h |-> hp.h, l |-> hp.l] /\ hp.p \in Nat
    BY WindowTypes
  <2>2. hp.h \in Nat /\ hp.l \in Int
    BY PowerAssumption DEF KeyInv, CallerInv
  <2> QED BY <2>1, <2>2 DEF Entry
<1>5. hp'.h = hp.h /\ (Len(ent[s0][n]) = HPLIST - 1 => hp'.l = -1)
  <2>1. PICK a, b, c : hp = [p |-> a, h |-> b, l |-> c]
    BY <1>4
  <2> QED BY <1>1, <2>1
<1> HIDE DEF s0, n
<1>6. \A s \in Slots : ent[s] \in [Blocks -> Seq(Entry)]
  BY DEF ListTypes
<1>7. n \in Blocks
  BY <1>2, <1>3, HeadIs DEF NodesInv, n
<1>8. Append(ent[s0][n], hp) \in Seq(Entry) /\ Len(Append(ent[s0][n], hp)) = Len(ent[s0][n]) + 1
      /\ Len(ent[s0][n]) \in Nat
  <2>1. ent[s0][n] \in Seq(Entry)
    BY <1>3, <1>6, <1>7
  <2> QED BY <1>4, <2>1
<1>9. /\ \A s \in Slots : s # s0 => ent'[s] = ent[s]
      /\ ent'[s0] = [ent[s0] EXCEPT ![n] = Append(ent[s0][n], hp)]
  BY <1>1, <1>3 DEF ListTypes
<1>10. /\ ent'[s0][n] = Append(ent[s0][n], hp)
       /\ \A m \in Blocks : m # n => ent'[s0][m] = ent[s0][m]
  BY <1>3, <1>6, <1>7, <1>9
<1>11. ListTypes'
  <2>1. ent' \in [Slots -> [Blocks -> Seq(Entry)]]
    <3>1. [ent[s0] EXCEPT ![n] = Append(ent[s0][n], hp)] \in [Blocks -> Seq(Entry)]
      BY <1>3, <1>6, <1>8
    <3>2. ent' = [ent EXCEPT ![s0] = [ent[s0] EXCEPT ![n] = Append(ent[s0][n], hp)]]
      BY <1>1
    <3> QED BY <3>1, <3>2 DEF ListTypes
  <2> QED BY <1>1, <2>1 DEF ListTypes
<1>12. ASSUME NEW s \in Slots PROVE NodesInOrder(nblk', head'[s], lnext'[s], pend'[s], ent'[s])
  <2>1. NodesInOrder(nblk, head[s], lnext[s], pend[s], ent[s])
    BY DEF NodesInv
  <2>2. CASE s = s0
    <3>1. \A m \in Blocks : m # head[s] => ent'[s][m] = ent[s][m]
      BY <1>10, <2>2 DEF n
    <3>2. NodesInOrder(nblk, head[s], lnext[s], pend[s], ent'[s])
      BY <1>2, <2>1, <3>1, Recorded
    <3> QED BY <1>1, <3>2
  <2>3. CASE s # s0
    BY <1>1, <1>9, <2>1, <2>3
  <2> QED BY <2>2, <2>3
<1>13. NodesInv'
  BY <1>1, <1>12 DEF NodesInv, NodesInOrder, InOrder
<1>14. ASSUME NEW s \in Slots, IsFull(s)' PROVE hp'.l = -1 /\ s = SlotOf(hp'.h)
  <2>1. Len(ent'[s][head'[s]]) = HPLIST
    BY <1>14 DEF IsFull
  <2>2. s = s0
    <3>1. Len(ent[s][head[s]]) # HPLIST
      BY <1>1 DEF OneFull, IsFull
    <3> QED BY <1>1, <1>9, <2>1, <3>1
  <2>3. Len(ent[s0][n]) + 1 = HPLIST
    BY <1>1, <1>8, <1>10, <2>1, <2>2 DEF n
  <2>4. Len(ent[s0][n]) = HPLIST - 1
    BY <1>8, <2>3
  <2> QED BY <1>5, <2>2, <2>4 DEF s0
<1>15. OneFull'
  <2>1. \A s \in Slots : IsFull(s)' => hp'.l = -1 /\ s = SlotOf(hp'.h)
    BY <1>14
  <2>2. \A s : SlotOf(hp'.h) = SlotOf(hp.h)'
    BY DEF SlotOf
  <2> QED BY <1>1, <2>1, <2>2 DEF OneFull
<1> QED BY <1>11, <1>13, <1>15

\* How often something occurs in a sequence
LEMMA OccursNat == ASSUME NEW S, NEW R \in Seq(S), NEW n PROVE Cardinality({i \in DOMAIN R : R[i] = n}) \in Nat
<1>1. Len(R) \in Nat /\ DOMAIN R = 1 .. Len(R)
  OBVIOUS
<1>2. IsFiniteSet(1 .. Len(R))
  BY <1>1, FS_Interval
<1>3. IsFiniteSet({i \in DOMAIN R : R[i] = n})
  BY <1>1, <1>2, FS_Subset
<1> QED BY <1>3, FS_CardinalityType

\* mcdb_make_destroy gives back each array once.
LEMMA FreeStep ==
    ASSUME ListTypes, NodesInv, FreeLists
    PROVE  ListTypes' /\ \A n \in Blocks \cup {WILD} : freed'[n] = IF n \in 1 .. nblk' THEN 1 ELSE 0
<1> DEFINE R == Released(head[0], lnext[0], pend[0])
<1>1. /\ freed' = [n \in DOMAIN freed |-> freed[n] + Cardinality({i \in DOMAIN R : R[i] = n})]
      /\ head' = [head EXCEPT ![0] = NIL] /\ lnext' = lnext /\ pend' = pend /\ ent' = ent /\ nblk' = nblk
  BY DEF FreeLists, Free
<1>2. nblk \in 1 .. MaxBlocks /\ 0 \in Slots
  BY HplistAssumption, SlotsAre DEF ListTypes, NodesInv
<1>3. /\ R \in Seq(Blocks) /\ DOMAIN R = 1 .. nblk
      /\ \A n \in 1 .. nblk : \E j0 \in 1 .. nblk : R[j0] = n /\ \A j \in 1 .. nblk : R[j] = n => j = j0
      /\ \A j \in 1 .. nblk : R[j] \in 1 .. nblk
  <2>1. lnext[0] \in [Blocks -> Ptr] /\ pend[0] \in [Blocks -> Ptr]
    BY <1>2 DEF ListTypes
  <2> DEFINE hd == head[0]
             nx == lnext[0]
             pd == pend[0]
             en == ent[0]
  <2>2. NodesInOrder(nblk, hd, nx, pd, en)
    BY <1>2 DEF NodesInv
  <2>3. nx \in [Blocks -> Ptr] /\ pd \in [Blocks -> Ptr] /\ R = Released(hd, nx, pd)
    BY <2>1
  <2> HIDE DEF hd, nx, pd, en, R
  <2>4. PICK Q \in Seq(Blocks) : Released(hd, nx, pd) = Q /\ EachOnce(Q, nblk)
    BY <1>2, <2>2, <2>3, ReleasedIs
  <2>5. R = Q
    BY <2>3, <2>4
  <2> QED BY <2>4, <2>5 DEF EachOnce
<1> HIDE DEF R
<1> DEFINE occurs(n) == Cardinality({i \in DOMAIN R : R[i] = n})
<1>4. ASSUME NEW n PROVE occurs(n) = IF n \in 1 .. nblk THEN 1 ELSE 0
  <2> DEFINE at == {j \in DOMAIN R : R[j] = n}
  <2>1. occurs(n) = Cardinality(at)
    OBVIOUS
  <2>2. (n \in 1 .. nblk => \E j0 : at = {j0}) /\ (n \notin 1 .. nblk => at = {})
    <3>1. CASE n \in 1 .. nblk
      <4>1. PICK j0 \in 1 .. nblk : R[j0] = n /\ \A j \in 1 .. nblk : R[j] = n => j = j0
        BY <1>3, <3>1
      <4>2. at = {j0}
        BY <1>3, <4>1
      <4> QED BY <3>1, <4>2
    <3>2. CASE n \notin 1 .. nblk
      <4>1. at = {}
        BY <1>3, <3>2
      <4> QED BY <3>2, <4>1
    <3> QED BY <3>1, <3>2
  <2> HIDE DEF at, occurs
  <2>3. CASE n \in 1 .. nblk
    <3>1. PICK j0 : at = {j0}
      BY <2>2, <2>3
    <3>2. Cardinality({j0}) = 1
      BY FS_Singleton
    <3> QED BY <2>1, <2>3, <3>1, <3>2
  <2>4. CASE n \notin 1 .. nblk
    <3>1. at = {} /\ Cardinality({}) = 0
      BY <2>2, <2>4, FS_EmptySet
    <3> QED BY <2>1, <2>4, <3>1
  <2> QED BY <2>3, <2>4
<1>5. ASSUME NEW n \in Blocks \cup {WILD} PROVE freed'[n] = IF n \in 1 .. nblk THEN 1 ELSE 0
  <2>1. freed[n] = 0 /\ n \in DOMAIN freed
    BY DEF NodesInv
  <2>2. freed'[n] = 0 + occurs(n)
    BY <1>1, <2>1
  <2> HIDE DEF occurs
  <2> QED BY <1>4, <2>2
<1>6. freed' \in [Blocks \cup {WILD} -> Nat]
  <2>1. freed' = [n \in Blocks \cup {WILD} |-> freed'[n]]
    BY <1>1 DEF ListTypes
  <2>2. \A n \in Blocks \cup {WILD} : freed'[n] \in Nat
    BY <1>5
  <2> HIDE <1>1
  <2> QED BY <2>1, <2>2
<1>7. head' \in [Slots -> Ptr]
  BY <1>1 DEF ListTypes, Ptr
<1> QED BY <1>1, <1>5, <1>6, <1>7 DEF ListTypes

\* ... and in mcdb_make_start, whatever it frees besides.
LEMMA FreeUnsetStep == ASSUME ListTypes, NEW w \in {NIL, WILD}, FreeUnset(w) PROVE ListTypes'
<1> DEFINE unset == [n \in Blocks |-> w]
           R == Released(1, unset, unset)
<1>1. /\ freed' = [n \in DOMAIN freed |-> freed[n] + Cardinality({i \in DOMAIN R : R[i] = n})]
      /\ head' = head /\ lnext' = lnext /\ pend' = pend /\ ent' = ent /\ nblk' = 1
  BY DEF FreeUnset, Free
<1>2. /\ 1 \in Blocks /\ 1 \in Ptr /\ w \in Ptr /\ NIL \notin Blocks /\ WILD \notin Blocks
      /\ 1 # NIL /\ 1 # WILD /\ 1 \in 0 .. MaxBlocks
  BY HplistAssumption DEF Blocks, Ptr
<1>3. unset \in [Blocks -> Ptr] /\ \A n \in Blocks : unset[n] = w /\ w \notin Blocks
  BY <1>2
<1> HIDE DEF unset
<1>4. \A x \in Ptr : Walk(unset, x) = IF x = NIL THEN <<>> ELSE IF x = WILD THEN <<WILD>>
                                      ELSE <<x>> \o Walk(unset, unset[x])
  <2> DEFINE rank == [n \in Blocks |-> 0]
  <2>1. rank \in [Blocks -> 0 .. 0] /\ 0 \in Nat
    OBVIOUS
  <2> HIDE DEF rank
  <2> QED BY <1>3, <2>1, WalkIs
<1>5. Walk(unset, w) \in Seq(Ptr)
  <2>1. <<>> \in Seq(Ptr) /\ <<WILD>> \in Seq(Ptr)
    BY DEF Ptr
  <2> QED BY <1>2, <1>4, <2>1
<1>6. Walk(unset, 1) \in Seq(Ptr)
  <2>1. PICK u \in Seq(Ptr) : u = Walk(unset, w)
    BY <1>5
  <2>2. Walk(unset, 1) = <<1>> \o u
    BY <1>2, <1>3, <1>4, <2>1
  <2>3. <<1>> \o u \in Seq(Ptr)
    BY <1>2, ConsIs
  <2> QED BY <2>2, <2>3
<1>7. R \in Seq(Ptr)
  <2>1. R = Walk(unset, w) \o Walk(unset, 1)
    BY <1>2, <1>3 DEF Released
  <2> HIDE DEF R
  <2> QED BY <1>5, <1>6, <2>1, ConcatProperties
<1> HIDE DEF R
<1>8. freed' \in [Blocks \cup {WILD} -> Nat]
  <2>1. \A n : Cardinality({i \in DOMAIN R : R[i] = n}) \in Nat
    BY <1>7, OccursNat
  <2>2. freed \in [Blocks \cup {WILD} -> Nat]
    BY DEF ListTypes
  <2> DEFINE card(n) == Cardinality({i \in DOMAIN R : R[i] = n})
  <2>3. freed' = [n \in Blocks \cup {WILD} |-> freed[n] + card(n)] /\ \A n : card(n) \in Nat
    BY <1>1, <2>1, <2>2
  <2> HIDE DEF card
  <2>4. \A n \in Blocks \cup {WILD} : freed[n] + card(n) \in Nat
    BY <2>2, <2>3
  <2> QED BY <2>3, <2>4
<1> QED BY <1>1, <1>2, <1>8 DEF ListTypes

\* Steps that leave the lists alone
LEMMA ListsAlone ==
    ASSUME UNCHANGED listVars
    PROVE  /\ ListTypes => ListTypes'
           /\ NodesInv => NodesInv'
           /\ NoLists => NoLists'
           /\ \A s : IsFull(s)' <=> IsFull(s)
<1>1. /\ head' = head /\ lnext' = lnext /\ pend' = pend /\ ent' = ent /\ count' = count
      /\ nblk' = nblk /\ freed' = freed
  BY DEF listVars
<1>2. ListTypes => ListTypes'
  BY <1>1 DEF ListTypes
<1>3. NoLists => NoLists'
  BY <1>1 DEF NoLists
<1>4. \A s : IsFull(s)' <=> IsFull(s)
  BY <1>1 DEF IsFull
<1>5. ASSUME NodesInv PROVE NodesInv'
  <2>1. \A s \in Slots : NodesInOrder(nblk', head'[s], lnext'[s], pend'[s], ent'[s])
    <3>1. \A s \in Slots : NodesInOrder(nblk, head[s], lnext[s], pend[s], ent[s])
      BY <1>5 DEF NodesInv
    <3> QED BY <1>1, <3>1
  <2>2. nblk' # 0 /\ freed' = [n \in Blocks \cup {WILD} |-> 0]
    BY <1>1, <1>5 DEF NodesInv
  <2> QED BY <2>1, <2>2 DEF NodesInv, NodesInOrder, InOrder
<1> QED BY <1>2, <1>3, <1>4, <1>5

LEMMA ListNext == WindowInv /\ KeyInv /\ CallerInv /\ ListInv /\ [MakeNext]_makeVars => ListInv'
<1> SUFFICES ASSUME WindowInv, KeyInv, CallerInv, ListInv, [MakeNext]_makeVars PROVE ListInv'
  OBVIOUS
<1>1. CASE UNCHANGED makeVars
  <2>1. UNCHANGED listVars /\ phase' = phase /\ hp' = hp
    BY <1>1 DEF makeVars
  <2>2. OneFull'
    <3>1. /\ phase \in Between => \A s \in Slots : IsFull(s) => hp.l = -1 /\ s = SlotOf(hp.h)
          /\ phase \in {"begun", "keyed"} => \A s \in Slots : ~IsFull(s)
      BY DEF ListInv, OneFull
    <3>2. \A s : IsFull(s)' <=> IsFull(s)
      BY <2>1, ListsAlone
    <3> QED BY <2>1, <3>1, <3>2 DEF OneFull, SlotOf
  <2> QED BY <2>1, <2>2, ListsAlone DEF ListInv
<1>2. SlotOf(hp.h) \in Slots /\ ListTypes /\ OneFull
  BY KeySlot DEF ListInv
<1>3. ASSUME UNCHANGED listVars PROVE ListTypes' /\ (NodesInv => NodesInv') /\ \A s : IsFull(s)' <=> IsFull(s)
  BY <1>2, <1>3, ListsAlone
<1>4. CASE Start
  <2>1. phase = "new" /\ FirstLists /\ phase' = "idle"
    BY <1>4 DEF Start
  <2>2. ListTypes' /\ NodesInv' /\ \A s \in Slots : ~IsFull(s)'
    BY <1>2, <2>1, FirstListsStep DEF ListInv
  <2> QED BY <2>1, <2>2 DEF ListInv, OneFull
<1>5. CASE StartFails
  <2>1. phase' = "gone" /\ (UNCHANGED listVars \/ \E w \in {NIL, WILD} : FreeUnset(w))
    BY <1>5 DEF StartFails
  <2>2. ListTypes'
    BY <1>2, <1>3, <2>1, FreeUnsetStep
  <2> QED BY <2>1, <2>2 DEF ListInv, OneFull, Between
<1>6. ASSUME phase \in Between, HplistRoom
      PROVE  ListTypes' /\ NodesInv' /\ \A s \in Slots : ~IsFull(s)'
  <2>1. NodesInv /\ \A s \in Slots : IsFull(s) => hp.l = -1 /\ s = SlotOf(hp.h)
    BY <1>6 DEF ListInv, OneFull, Between
  <2>2. CASE hp.l # -1 /\ UNCHANGED listVars
    BY <1>3, <2>1, <2>2
  <2>3. CASE HplistPend(SlotOf(hp.h))
    BY <1>2, <2>1, <2>3, PendStep
  <2>4. CASE HplistNew(SlotOf(hp.h))
    BY <1>2, <2>1, <2>4, NewStep
  <2> QED BY <1>6, <2>2, <2>3, <2>4 DEF HplistRoom
<1>7. ASSUME NEW r \in Records, AddBegin(r) PROVE ListInv'
  <2>1. phase \in Between /\ HplistRoom /\ phase' = "begun"
    BY <1>7 DEF AddBegin
  <2> QED BY <1>6, <2>1 DEF ListInv, OneFull, Between
<1>8. ASSUME NEW r \in Records, AddBeginFails(r) PROVE ListInv'
  <2>1. phase \in Between /\ (HplistRoom \/ HplistNoRoom) /\ phase' = "error"
    BY <1>8 DEF AddBeginFails
  <2>2. NodesInv /\ \A s \in Slots : IsFull(s) => hp.l = -1 /\ s = SlotOf(hp.h)
    BY <2>1 DEF ListInv, OneFull, Between
  <2>3. ListTypes' /\ NodesInv'
    <3>1. CASE HplistRoom
      BY <1>6, <2>1, <3>1
    <3>2. CASE UNCHANGED listVars
      BY <1>3, <2>2, <3>2
    <3>3. CASE HplistNew(SlotOf(hp.h))
      BY <1>2, <2>2, <3>3, NewStep
    <3> QED BY <2>1, <3>1, <3>2, <3>3 DEF HplistNoRoom
  <2> QED BY <2>1, <2>3 DEF ListInv, OneFull, Between
<1>9. CASE AddbufKey \/ AddbufData
  <2>1. phase \in {"begun", "keyed"} /\ phase' = "keyed" /\ UNCHANGED listVars
    BY <1>9 DEF AddbufKey, AddbufData
  <2>2. NodesInv /\ \A s \in Slots : ~IsFull(s)
    BY <2>1 DEF ListInv, OneFull
  <2> QED BY <1>3, <2>1, <2>2 DEF ListInv, OneFull, Between
<1>10. CASE AddEnd
  <2>1. phase = "keyed" /\ phase' = "added"
    BY <1>10 DEF AddEnd
  <2>2. NodesInv
    BY <2>1 DEF ListInv
  <2> QED BY <1>2, <1>10, <2>1, <2>2, AddEndLists DEF ListInv
<1>11. CASE AddRevert
  <2>1. phase \in {"begun", "keyed", "added"} /\ phase' = "idle" /\ UNCHANGED listVars /\ hp' = hp
    BY <1>11 DEF AddRevert
  <2>2. NodesInv /\ \A s \in Slots : IsFull(s) => hp.l = -1 /\ s = SlotOf(hp.h)
    BY <2>1 DEF ListInv, OneFull, Between
  <2> QED BY <1>3, <2>1, <2>2 DEF ListInv, OneFull, Between, SlotOf
<1>12. CASE FinishPad \/ FinishSlot \/ FinishFails
  <2>1. phase \in Between \cup {"tables"} /\ phase' \in {"tables", "error"} /\ UNCHANGED listVars
    BY <1>12 DEF FinishPad, FinishSlot, FinishFails
  <2>2. NodesInv
    BY <2>1 DEF ListInv, Between
  <2> QED BY <1>3, <2>1, <2>2 DEF ListInv, OneFull, Between
<1>13. CASE FinishCommit \/ CommitFails \/ Destroy
  <2>1. phase \notin {"new", "done", "gone"} /\ phase' \in {"done", "gone"} /\ FreeLists
    BY <1>13 DEF FinishCommit, CommitFails, Destroy, Released0, Between
  <2>2. ListTypes'
    BY <1>2, <2>1, FreeStep DEF ListInv
  <2> QED BY <2>1, <2>2 DEF ListInv, OneFull, Between
<1> QED BY <1>1, <1>4, <1>5, <1>7, <1>8, <1>9, <1>10, <1>11, <1>12, <1>13 DEF MakeNext

-----------------------------------------------------------------------------
(* The types, and what mcdb_make_destroy leaves behind.                    *)

LEMMA CallerInit == MakeInit => CallerInv
<1> SUFFICES ASSUME MakeInit PROVE CallerInv
  OBVIOUS
<1>1. hp = [p |-> HEADER_SZ, h |-> 0, l |-> 0] /\ cur = NoRec /\ nfail = 0
  BY DEF MakeInit
<1>2. hp.l = 0 /\ cur.left = 0 /\ cur.d = 0
  BY <1>1 DEF NoRec
<1> QED BY <1>1, <1>2, MakeAssumption DEF CallerInv

\* mcdb_make_addbuf_data is never handed more than mcdb_make_addbegin was told.
LEMMA CallerNext == WindowInv /\ CallerInv /\ [MakeNext]_makeVars => CallerInv'
<1> SUFFICES ASSUME WindowInv, CallerInv, [MakeNext]_makeVars PROVE CallerInv'
  OBVIOUS
<1> DEFINE HpOK   == hp.l \in Nat \cup {-1}
           CurOK  == cur.left \in 0 .. cur.d
           FailOK == nfail \in 0 .. MaxFail
<1>1. HpOK /\ CurOK /\ FailOK
  BY DEF CallerInv
<1>2. PICK hp0, hh, hl : hp = [p |-> hp0, h |-> hh, l |-> hl]
  BY WindowTypes
<1>3. PICK k \in Seq(Nat), d \in Nat, l \in Nat : cur = [k |-> k, d |-> d, left |-> l]
  BY WindowTypes
<1>4. hp' = hp => HpOK'
  BY <1>1
<1>5. cur' = cur => CurOK'
  BY <1>1
<1>6. nfail' = nfail \/ Fails => FailOK'
  BY <1>1, MakeAssumption DEF Fails
<1>7. cur' = NoRec => CurOK'
  <2>1. NoRec.left = 0 /\ NoRec.d = 0
    BY DEF NoRec
  <2> QED BY <2>1
<1>8. \A r \in Records : Len(r.k) \in Nat /\ r.d \in Nat
  BY MakeAssumption
<1>9. CASE UNCHANGED makeVars
  BY <1>4, <1>5, <1>6, <1>9 DEF makeVars, CallerInv
<1>10. ASSUME NEW r \in Records, AddBegin(r) PROVE CallerInv'
  <2>1. /\ hp' = [p |-> pos, h |-> HashInit, l |-> Len(r.k)]
        /\ cur' = [k |-> r.k, d |-> r.d, left |-> r.d] /\ nfail' = nfail
    BY <1>10 DEF AddBegin
  <2>2. hp'.l = Len(r.k) /\ cur'.left = r.d /\ cur'.d = r.d
    BY <2>1
  <2>3. HpOK'
    BY <1>8, <2>2
  <2>4. CurOK'
    BY <1>8, <2>2
  <2> QED BY <1>6, <2>1, <2>3, <2>4 DEF CallerInv
<1>11. ASSUME NEW r \in Records, AddBeginFails(r) PROVE CallerInv'
  <2>1. /\ \/ hp' = hp \/ hp' = [hp EXCEPT !.p = pos, !.h = HashInit]
           \/ hp' = [p |-> pos, h |-> HashInit, l |-> Len(r.k)]
        /\ cur' = cur /\ (nfail' = nfail \/ Fails)
    BY <1>11 DEF AddBeginFails, HplistNoRoom
  <2>2. hp'.l = hp.l \/ hp'.l = Len(r.k)
    <3>1. CASE hp' = hp
      BY <3>1
    <3>2. CASE hp' = [hp EXCEPT !.p = pos, !.h = HashInit]
      BY <1>2, <3>2
    <3>3. CASE hp' = [p |-> pos, h |-> HashInit, l |-> Len(r.k)]
      BY <3>3
    <3> QED BY <2>1, <3>1, <3>2, <3>3
  <2>3. HpOK'
    BY <1>1, <1>8, <2>2
  <2> QED BY <1>5, <1>6, <2>1, <2>3 DEF CallerInv
<1>12. CASE AddbufKey
  <2>1. hp' = [hp EXCEPT !.h = Hash(@, cur.k)] /\ cur' = cur /\ nfail' = nfail
    BY <1>12 DEF AddbufKey
  <2>2. hp'.l = hp.l
    BY <1>2, <2>1
  <2>3. HpOK'
    BY <1>1, <2>2
  <2> QED BY <1>5, <1>6, <2>1, <2>3 DEF CallerInv
<1>13. CASE AddbufData
  <2>1. PICK n : /\ n = IF cur.left < ChunkSz THEN cur.left ELSE ChunkSz
                 /\ cur' = [cur EXCEPT !.left = @ - n] /\ hp' = hp /\ nfail' = nfail
    BY <1>13 DEF AddbufData
  <2>2. n \in Nat /\ n =< cur.left /\ cur.left \in 0 .. cur.d /\ cur.d \in Nat
    BY <1>1, <1>3, <2>1, MakeAssumption
  <2>3. cur'.left = cur.left - n /\ cur'.d = cur.d
    BY <1>3, <2>1
  <2>4. cur.left - n \in 0 .. cur.d
    BY <2>2
  <2>5. CurOK'
    BY <2>3, <2>4
  <2> QED BY <1>4, <1>6, <2>1, <2>5 DEF CallerInv
<1>14. CASE AddEnd
  <2>1. (hp' = hp \/ hp' = [hp EXCEPT !.l = -1]) /\ cur' = NoRec /\ nfail' = nfail
    BY <1>14 DEF AddEnd
  <2>2. hp'.l = hp.l \/ hp'.l = -1
    BY <1>2, <2>1
  <2>3. HpOK'
    BY <1>1, <2>2
  <2> QED BY <1>6, <1>7, <2>1, <2>3 DEF CallerInv
<1>15. ASSUME AddRevert \/ Start \/ StartFails \/ FinishPad \/ FinishSlot \/ FinishFails
              \/ FinishCommit \/ CommitFails \/ Destroy
       PROVE  CallerInv'
  <2>1. hp' = hp /\ (cur' = cur \/ cur' = NoRec) /\ (nfail' = nfail \/ Fails)
    BY <1>15 DEF AddRevert, Start, StartFails, FinishPad, FinishSlot, FinishFails, FinishCommit,
       CommitFails, Destroy
  <2> QED BY <1>4, <1>5, <1>6, <1>7, <2>1 DEF CallerInv
<1> QED BY <1>9, <1>10, <1>11, <1>12, <1>13, <1>14, <1>15 DEF MakeNext

\* What the types of struct mcdb_make rest on
TypesInv == WindowInv /\ LayoutInv /\ RecordsInv /\ KeyInv /\ CallerInv /\ ListInv

LEMMA TypesInit == MakeInit => TypesInv
BY WindowInit, LayoutInit, RecordsInit, KeyInit, CallerInit, ListInit DEF TypesInv

LEMMA TypesNext == TypesInv /\ [MakeNext]_makeVars => TypesInv'
BY WindowNext, LayoutNext, RecordsNext, KeyNext, CallerNext, ListNext DEF TypesInv

LEMMA TypesAre == TypesInv => MakeTypeOK
<1> SUFFICES ASSUME TypesInv PROVE MakeTypeOK
  OBVIOUS
<1>1. /\ WindowTypeOK /\ phase \in Phases /\ hp.p \in Nat /\ count \in [Slots -> Nat]
      /\ slot \in 0 .. SLOTS /\ bits \in {3, 4}
  BY WindowTypes DEF TypesInv
<1>2. HplistTypeOK
  BY <1>1 DEF TypesInv, ListInv, ListTypes, HplistTypeOK
<1>3. hp.h \in 0 .. UINT_MAX /\ hp.l \in Nat \cup {-1} /\ cur.left \in 0 .. cur.d /\ nfail \in 0 .. MaxFail
  BY DEF TypesInv, KeyInv, CallerInv
<1>4. \A r \in disk : r.p \in Nat /\ r.d \in Nat
  <2>1. disk \subseteq Recs
    BY DEF TypesInv, RecordsInv
  <2> QED BY <2>1 DEF Recs
<1> QED BY <1>1, <1>2, <1>3, <1>4 DEF MakeTypeOK

\* struct mcdb_make stays what its declaration and the comments of mcdb_make.c
\* say: the members of every list node are null, unset or a node of an array
\* that was allocated, the hash in progress fits a uint32_t, and no more data
\* is taken for a record than was announced.
THEOREM MakeTypes == MakeSpec => []MakeTypeOK
BY TypesInit, TypesNext, TypesAre, PTL DEF MakeSpec

\* mcdb_make_destroy is called once, and only with the lists as they were built.
LEMMA FreedNext ==
    ASSUME StartFailing = FALSE
    PROVE  TypesInv /\ FreedOnce /\ [MakeNext]_makeVars => FreedOnce'
<1> SUFFICES ASSUME TypesInv, FreedOnce, [MakeNext]_makeVars PROVE FreedOnce'
  OBVIOUS
<1>1. ListTypes /\ (phase = "new" => NoLists) /\ (phase \notin {"new", "done", "gone"} => NodesInv)
  BY DEF TypesInv, ListInv
<1>2. CASE UNCHANGED makeVars
  <2>1. phase' = phase /\ nblk' = nblk /\ freed' = freed
    BY <1>2 DEF makeVars, listVars
  <2> QED BY <2>1 DEF FreedOnce
<1>3. CASE StartFails
  <2>1. phase = "new" /\ nblk' = nblk /\ freed' = freed
    BY <1>3 DEF StartFails, listVars
  <2>2. nblk = 0 /\ freed = [n \in Blocks \cup {WILD} |-> 0]
    BY <1>1, <2>1 DEF NoLists
  <2>3. \A n : n \notin 1 .. 0
    OBVIOUS
  <2> QED BY <2>1, <2>2, <2>3 DEF FreedOnce
<1>4. CASE FinishCommit \/ CommitFails \/ Destroy
  <2>1. phase \notin {"new", "done", "gone"} /\ FreeLists
    BY <1>4 DEF FinishCommit, CommitFails, Destroy, Released0, Between
  <2>2. \A n \in Blocks \cup {WILD} : freed'[n] = IF n \in 1 .. nblk' THEN 1 ELSE 0
    BY <1>1, <2>1, FreeStep
  <2> QED BY <2>2 DEF FreedOnce
<1>5. ASSUME \/ Start \/ AddbufKey \/ AddbufData \/ AddEnd \/ AddRevert
             \/ FinishPad \/ FinishSlot \/ FinishFails
             \/ \E r \in Records : AddBegin(r) \/ AddBeginFails(r)
      PROVE  FreedOnce'
  <2>1. phase' \notin {"done", "gone"}
    BY <1>5 DEF Start, AddBegin, AddBeginFails, AddbufKey, AddbufData, AddEnd, AddRevert, FinishPad,
       FinishSlot, FinishFails
  <2> QED BY <2>1 DEF FreedOnce
<1> QED BY <1>2, <1>3, <1>4, <1>5 DEF MakeNext

\* When it is all over, every array of list nodes has been given back to the
\* heap exactly once, and nothing else has, however the arrays came to be
\* shared out between the lists of the slots and the nodes that wait: provided
\* that the first mcdb_mmap_upsize of mcdb_make_start does not fail, after
\* which mcdb_make_destroy follows pointers nobody has set.
THEOREM FreesOnce == ASSUME StartFailing = FALSE PROVE MakeSpec => []FreedOnce
<1>1. MakeInit => TypesInv /\ FreedOnce
  <2>1. MakeInit => FreedOnce
    BY DEF MakeInit, FreedOnce
  <2> QED BY <2>1, TypesInit
<1>2. TypesInv /\ FreedOnce /\ [MakeNext]_makeVars => (TypesInv /\ FreedOnce)'
  BY TypesNext, FreedNext
<1> QED BY <1>1, <1>2, PTL DEF MakeSpec

-----------------------------------------------------------------------------
(* The entries of a slot.                                                  *)

\* One sequence after the other: the recursion of FlattenSeq has a solution.
LEMMA FlattenExists ==
    ASSUME NEW n \in Nat \ {0}, NEW ss
    PROVE  \E F : F = [i \in 1 .. n |-> IF i = 1 THEN ss[i] ELSE F[i - 1] \o ss[i]]
<1> DEFINE Val(g, i)  == IF i = 1 THEN ss[i] ELSE g[i - 1] \o ss[i]
           Upto(g, m) == \A i \in 1 .. n : i =< m => g[i] = Val(g, i)
           Good(m)    == \E g : g = [i \in 1 .. n |-> g[i]] /\ Upto(g, m)
           T          == {m \in Nat : ~Good(m)}
<1>1. \A m \in Nat : Good(m)
  <2>1. SUFFICES ASSUME T # {} PROVE FALSE
    <3> HIDE DEF Good
    <3> QED OBVIOUS
  <2>2. PICK m \in T : \A y \in T : m =< y
    <3>1. T \in SUBSET Nat
      <4> HIDE DEF Good
      <4> QED OBVIOUS
    <3> HIDE DEF T
    <3> QED BY <2>1, <3>1, LeastNat
  <2>3. m \in Nat /\ ~Good(m) /\ \A y \in Nat : ~Good(y) => m =< y
    <3> HIDE DEF Good
    <3> QED BY <2>2
  <2>4. m # 0
    <3> DEFINE g == [i \in 1 .. n |-> <<>>]
    <3>1. g = [i \in 1 .. n |-> g[i]] /\ \A i \in 1 .. n : ~ (i =< 0)
      OBVIOUS
    <3> HIDE DEF g, Val
    <3>2. Good(0)
      BY <3>1
    <3> HIDE DEF Good
    <3> QED BY <2>3, <3>2
  <2>5. Good(m - 1)
    <3>1. m - 1 \in Nat /\ ~ (m =< m - 1)
      BY <2>3, <2>4
    <3> HIDE DEF Good
    <3> QED BY <2>3, <3>1
  <2>6. PICK g : g = [i \in 1 .. n |-> g[i]] /\ Upto(g, m - 1)
    BY <2>5
  <2> DEFINE f == [i \in 1 .. n |-> IF i = m THEN Val(g, i) ELSE g[i]]
  <2>7. f = [i \in 1 .. n |-> f[i]]
    OBVIOUS
  <2>8. /\ \A i \in 1 .. n : i # m => f[i] = g[i]
        /\ m \in 1 .. n => f[m] = Val(g, m)
    OBVIOUS
  <2> HIDE DEF f
  <2>9. ASSUME NEW i \in 1 .. n, i =< m PROVE f[i] = Val(f, i)
    <3>1. Val(f, i) = Val(g, i)
      <4>1. i # 1 => i - 1 \in 1 .. n /\ i - 1 # m
        BY <2>3, <2>9
      <4> QED BY <2>8, <4>1
    <3>2. CASE i = m
      <4> HIDE DEF Val
      <4> QED BY <2>8, <3>1, <3>2
    <3>3. CASE i # m
      <4>1. i =< m - 1
        BY <2>3, <2>9, <3>3
      <4> HIDE DEF Val
      <4> QED BY <2>6, <2>8, <3>1, <3>3, <4>1
    <3> QED BY <3>2, <3>3
  <2>10. Good(m)
    <3> HIDE DEF Val
    <3> QED BY <2>7, <2>9
  <2> HIDE DEF Good
  <2> QED BY <2>3, <2>10
<1>2. PICK g : g = [i \in 1 .. n |-> g[i]] /\ Upto(g, n)
  <2> HIDE DEF Upto
  <2> QED BY <1>1
<1>3. \A i \in 1 .. n : g[i] = Val(g, i)
  <2>1. \A i \in 1 .. n : i =< n
    OBVIOUS
  <2> HIDE DEF Val
  <2> QED BY <1>2, <2>1
<1>4. g = [i \in 1 .. n |-> Val(g, i)]
  <2> HIDE DEF Val
  <2> QED BY <1>2, <1>3
<1> QED BY <1>4

\* The members of E are those of the first n sequences of ss, each once.
Together(E, ss, n) ==
    /\ \A j \in DOMAIN E : \E i \in 1 .. n : \E x \in DOMAIN ss[i] : E[j] = ss[i][x]
    /\ \A i \in 1 .. n : \A x \in DOMAIN ss[i] : \E j \in DOMAIN E : E[j] = ss[i][x]
    /\ \A j, k \in DOMAIN E : E[j].p = E[k].p => j = k

\* What the sequences of a sequence are put together to: all their members,
\* each once, if no two of them have the same position.
LEMMA FlattenIs ==
    ASSUME NEW n \in Nat \ {0}, NEW ss, Len(ss) = n,
           \A i \in 1 .. n : ss[i] \in Seq(Entry),
           \A i, m \in 1 .. n : \A x \in DOMAIN ss[i], y \in DOMAIN ss[m] :
              ss[i][x].p = ss[m][y].p => i = m /\ x = y
    PROVE  \E E \in Seq(Entry) : FlattenSeq(ss) = E /\ Together(E, ss, n)
<1> DEFINE F == CHOOSE f : f = [i \in 1 .. n |-> IF i = 1 THEN ss[i] ELSE f[i - 1] \o ss[i]]
<1>1. F = [i \in 1 .. n |-> IF i = 1 THEN ss[i] ELSE F[i - 1] \o ss[i]]
  BY FlattenExists
<1>2. FlattenSeq(ss) = F[n]
  BY DEF FlattenSeq
<1> HIDE DEF F
<1>3. \A i \in 1 .. n : F[i] = IF i = 1 THEN ss[i] ELSE F[i - 1] \o ss[i]
  BY <1>1
<1> DEFINE P(m) == F[m] \in Seq(Entry) /\ Together(F[m], ss, m)
           T == {m \in 1 .. n : ~P(m)}
<1>4. \A m \in 1 .. n : P(m)
  <2>1. SUFFICES ASSUME T # {} PROVE FALSE
    <3> HIDE DEF P
    <3> QED OBVIOUS
  <2>2. PICK m \in T : \A y \in T : m =< y
    <3>1. T \in SUBSET Nat
      <4> HIDE DEF P
      <4> QED OBVIOUS
    <3> HIDE DEF T
    <3> QED BY <2>1, <3>1, LeastNat
  <2>3. m \in 1 .. n /\ ~P(m) /\ \A y \in 1 .. n : ~P(y) => m =< y
    <3> HIDE DEF P
    <3> QED BY <2>2
  <2>4. CASE m = 1
    <3>1. F[1] = ss[1] /\ 1 \in 1 .. n
      BY <1>3
    <3>2. \A i \in 1 .. 1 : i = 1
      OBVIOUS
    <3>3. P(1)
      BY <3>1, <3>2 DEF Together
    <3> HIDE DEF P
    <3> QED BY <2>3, <2>4, <3>3
  <2>5. CASE m # 1
    <3>1. m - 1 \in 1 .. n /\ ~ (m =< m - 1)
      BY <2>3, <2>5
    <3>2. P(m - 1)
      <4> HIDE DEF P
      <4> QED BY <2>3, <3>1
    <3>3. PICK a \in Seq(Entry) : a = F[m - 1]
      BY <3>2
    <3>4. PICK b \in Seq(Entry) : b = ss[m]
      BY <2>3
    <3>5. PICK c : c = F[m]
      OBVIOUS
    <3>6. c = a \o b
      BY <1>3, <2>3, <2>5, <3>3, <3>4, <3>5
    <3>7. /\ c \in Seq(Entry) /\ Len(c) = Len(a) + Len(b)
          /\ \A j \in 1 .. Len(a) + Len(b) : c[j] = IF j =< Len(a) THEN a[j] ELSE b[j - Len(a)]
      BY <3>6, ConcatProperties
    <3>8. /\ Len(a) \in Nat /\ Len(b) \in Nat /\ DOMAIN a = 1 .. Len(a) /\ DOMAIN b = 1 .. Len(b)
          /\ DOMAIN c = 1 .. Len(a) + Len(b)
      BY <3>7
    <3>9. /\ \A j \in DOMAIN a : \E i \in 1 .. m - 1 : \E x \in DOMAIN ss[i] : a[j] = ss[i][x]
          /\ \A i \in 1 .. m - 1 : \A x \in DOMAIN ss[i] : \E j \in DOMAIN a : a[j] = ss[i][x]
          /\ \A j, k \in DOMAIN a : a[j].p = a[k].p => j = k
      BY <3>2, <3>3 DEF Together
    <3>10. /\ \A i \in 1 .. m - 1 : i \in 1 .. m /\ i \in 1 .. n /\ i # m
           /\ \A i \in 1 .. m : i # m => i \in 1 .. m - 1
      BY <2>3
    <3>11. \A j \in DOMAIN c : \/ j \in DOMAIN a /\ c[j] = a[j]
                               \/ j - Len(a) \in DOMAIN b /\ c[j] = b[j - Len(a)]
      BY <3>7, <3>8
    <3>12. /\ \A j \in DOMAIN a : j \in DOMAIN c /\ c[j] = a[j]
           /\ \A x \in DOMAIN b : x + Len(a) \in DOMAIN c /\ c[x + Len(a)] = b[x]
      <4>1. \A j \in DOMAIN a : j \in DOMAIN c /\ c[j] = a[j]
        BY <3>7, <3>8
      <4>2. ASSUME NEW x \in DOMAIN b PROVE x + Len(a) \in DOMAIN c /\ c[x + Len(a)] = b[x]
        <5>1. x + Len(a) \in 1 .. Len(a) + Len(b) /\ ~ (x + Len(a) =< Len(a)) /\ (x + Len(a)) - Len(a) = x
          BY <3>8
        <5> QED BY <3>7, <3>8, <5>1
      <4> QED BY <4>1, <4>2
    <3>13. \A j \in DOMAIN c : \E i \in 1 .. m : \E x \in DOMAIN ss[i] : c[j] = ss[i][x]
      <4>1. SUFFICES ASSUME NEW j \in DOMAIN c
                     PROVE  \E i \in 1 .. m : \E x \in DOMAIN ss[i] : c[j] = ss[i][x]
        OBVIOUS
      <4>2. CASE j \in DOMAIN a /\ c[j] = a[j]
        BY <3>9, <3>10, <4>2
      <4>3. CASE j - Len(a) \in DOMAIN b /\ c[j] = b[j - Len(a)]
        <5>1. m \in 1 .. m
          BY <2>3
        <5> QED BY <3>4, <4>3, <5>1
      <4> QED BY <3>11, <4>2, <4>3
    <3>14. \A i \in 1 .. m : \A x \in DOMAIN ss[i] : \E j \in DOMAIN c : c[j] = ss[i][x]
      <4>1. SUFFICES ASSUME NEW i \in 1 .. m, NEW x \in DOMAIN ss[i]
                     PROVE  \E j \in DOMAIN c : c[j] = ss[i][x]
        OBVIOUS
      <4>2. CASE i # m
        <5>1. PICK j \in DOMAIN a : a[j] = ss[i][x]
          BY <3>9, <3>10, <4>2
        <5> QED BY <3>12, <5>1
      <4>3. CASE i = m
        BY <3>4, <3>12, <4>3
      <4> QED BY <4>2, <4>3
    <3>15. \A j \in DOMAIN a, x \in DOMAIN b : a[j].p # b[x].p
      <4>1. SUFFICES ASSUME NEW j \in DOMAIN a, NEW x \in DOMAIN b, a[j].p = b[x].p PROVE FALSE
        OBVIOUS
      <4>2. PICK i \in 1 .. m - 1 : \E y \in DOMAIN ss[i] : a[j] = ss[i][y]
        BY <3>9
      <4>3. PICK y \in DOMAIN ss[i] : a[j] = ss[i][y]
        BY <4>2
      <4>4. i \in 1 .. n /\ i # m
        BY <3>10
      <4> QED BY <2>3, <3>4, <4>1, <4>3, <4>4
    <3>16. \A x, y \in DOMAIN b : b[x].p = b[y].p => x = y
      BY <2>3, <3>4
    <3>17. \A j, k \in DOMAIN c : c[j].p = c[k].p => j = k
      <4>1. SUFFICES ASSUME NEW j \in DOMAIN c, NEW k \in DOMAIN c, c[j].p = c[k].p PROVE j = k
        OBVIOUS
      <4>2. j \in Nat /\ k \in Nat
        BY <3>8
      <4>3. CASE j \in DOMAIN a /\ c[j] = a[j]
        <5>1. ~ (k - Len(a) \in DOMAIN b /\ c[k] = b[k - Len(a)])
          BY <3>15, <4>1, <4>3
        <5> QED BY <3>9, <3>11, <4>1, <4>3, <5>1
      <4>4. CASE j - Len(a) \in DOMAIN b /\ c[j] = b[j - Len(a)]
        <5>1. ~ (k \in DOMAIN a /\ c[k] = a[k])
          BY <3>15, <4>1, <4>4
        <5>2. k - Len(a) \in DOMAIN b /\ c[k] = b[k - Len(a)]
          BY <3>11, <5>1
        <5>3. j - Len(a) = k - Len(a)
          BY <3>16, <4>1, <4>4, <5>2
        <5> QED BY <3>8, <4>2, <5>3
      <4> QED BY <3>11, <4>3, <4>4
    <3>18. P(m)
      BY <3>5, <3>7, <3>13, <3>14, <3>17 DEF Together
    <3> HIDE DEF P
    <3> QED BY <2>3, <3>18
  <2> QED BY <2>4, <2>5
<1>5. P(n)
  <2>1. n \in 1 .. n
    OBVIOUS
  <2> HIDE DEF P
  <2> QED BY <1>4, <2>1
<1> QED BY <1>2, <1>5

\* As many positions as entries
LEMMA CountedByPosition ==
    ASSUME NEW E \in Seq(Entry), \A j, k \in DOMAIN E : E[j].p = E[k].p => j = k
    PROVE  Cardinality({e.p : e \in Range(E)}) = Len(E)
<1> DEFINE P == {e.p : e \in Range(E)}
           f == [j \in 1 .. Len(E) |-> E[j].p]
<1>1. Len(E) \in Nat /\ DOMAIN E = 1 .. Len(E)
  OBVIOUS
<1>2. f \in Bijection(1 .. Len(E), P)
  <2>1. f \in [1 .. Len(E) -> P]
    BY <1>1 DEF Range
  <2>2. \A j, k \in 1 .. Len(E) : f[j] = f[k] => j = k
    BY <1>1
  <2>3. \A p \in P : \E j \in 1 .. Len(E) : f[j] = p
    BY <1>1 DEF Range
  <2> HIDE DEF f, P
  <2> QED BY <2>1, <2>2, <2>3 DEF Bijection, Injection, Surjection, IsInjective
<1> HIDE DEF f, P
<1>3. ExistsBijection(1 .. Len(E), P)
  BY <1>2 DEF ExistsBijection
<1>4. Cardinality(P) = Len(E)
  BY <1>1, <1>3, FS_CountingElements
<1> QED BY <1>4 DEF P

\* One more entry, at the end of some node of the slot, with a position of its own
LEMMA KeepsOneMore ==
    ASSUME NEW en \in [Blocks -> Seq(Entry)], NEW c \in Nat, NEW P, Keeps(en, c, P),
           NEW n0 \in Blocks, NEW e \in Entry, e.p \notin P
    PROVE  Keeps([en EXCEPT ![n0] = Append(en[n0], e)], c + 1, P \cup {e.p})
<1> DEFINE new == [en EXCEPT ![n0] = Append(en[n0], e)]
           last == Len(en[n0]) + 1
<1>1. /\ IsFiniteSet(P) /\ c = Cardinality(P)
      /\ \A n \in Blocks : \A i \in DOMAIN en[n] : en[n][i].p \in P
      /\ \A p \in P : \E n \in Blocks : \E i \in DOMAIN en[n] : en[n][i].p = p
      /\ \A n, m \in Blocks : \A i \in DOMAIN en[n], j \in DOMAIN en[m] :
            en[n][i].p = en[m][j].p => n = m /\ i = j
  BY DEF Keeps
<1>2. /\ en[n0] \in Seq(Entry) /\ Len(en[n0]) \in Nat /\ DOMAIN en[n0] = 1 .. Len(en[n0])
      /\ new[n0] = Append(en[n0], e) /\ \A n \in Blocks : n # n0 => new[n] = en[n]
  OBVIOUS
<1>3. /\ DOMAIN new[n0] = DOMAIN en[n0] \cup {last} /\ last \notin DOMAIN en[n0]
      /\ new[n0][last] = e /\ \A i \in DOMAIN en[n0] : new[n0][i] = en[n0][i]
  <2>1. /\ Append(en[n0], e) \in Seq(Entry) /\ Len(Append(en[n0], e)) = last
        /\ Append(en[n0], e)[last] = e
        /\ \A i \in 1 .. Len(en[n0]) : Append(en[n0], e)[i] = en[n0][i]
    BY <1>2
  <2>2. DOMAIN Append(en[n0], e) = 1 .. last
    BY <1>2, <2>1
  <2>3. 1 .. last = 1 .. Len(en[n0]) \cup {last} /\ last \notin 1 .. Len(en[n0])
    BY <1>2
  <2> HIDE DEF new, last
  <2> QED BY <1>2, <2>1, <2>2, <2>3
<1> HIDE DEF new, last
<1>4. \A n \in Blocks : \A i \in DOMAIN new[n] :
         \/ i \in DOMAIN en[n] /\ new[n][i] = en[n][i]
         \/ n = n0 /\ i = last /\ new[n][i] = e
  BY <1>2, <1>3
<1>5. \A n \in Blocks : \A i \in DOMAIN en[n] : i \in DOMAIN new[n] /\ new[n][i] = en[n][i]
  BY <1>2, <1>3
<1>6. \A n \in Blocks : \A i \in DOMAIN new[n] : new[n][i].p \in P \cup {e.p}
  BY <1>1, <1>4
<1>7. \A p \in P \cup {e.p} : \E n \in Blocks : \E i \in DOMAIN new[n] : new[n][i].p = p
  <2>1. SUFFICES ASSUME NEW p \in P \cup {e.p}
                 PROVE  \E n \in Blocks : \E i \in DOMAIN new[n] : new[n][i].p = p
    OBVIOUS
  <2>2. CASE p \in P
    BY <1>1, <1>5, <2>2
  <2>3. CASE p = e.p
    BY <1>3, <2>3
  <2> QED BY <2>2, <2>3
<1>8. ASSUME NEW n \in Blocks, NEW m \in Blocks, NEW i \in DOMAIN new[n], NEW j \in DOMAIN new[m],
             new[n][i].p = new[m][j].p
      PROVE  n = m /\ i = j
  <2>1. CASE i \in DOMAIN en[n] /\ new[n][i] = en[n][i]
    <3>1. new[m][j].p \in P
      BY <1>1, <1>8, <2>1
    <3>2. j \in DOMAIN en[m] /\ new[m][j] = en[m][j]
      BY <1>4, <3>1
    <3> QED BY <1>1, <1>8, <2>1, <3>2
  <2>2. CASE n = n0 /\ i = last /\ new[n][i] = e
    <3>1. new[m][j].p \notin P
      BY <1>8, <2>2
    <3>2. m = n0 /\ j = last
      BY <1>1, <1>4, <3>1
    <3> QED BY <2>2, <3>2
  <2> QED BY <1>4, <2>1, <2>2
<1>9. IsFiniteSet(P \cup {e.p}) /\ c + 1 = Cardinality(P \cup {e.p})
  <2>1. PICK x : x = e.p
    OBVIOUS
  <2>2. IsFiniteSet(P \cup {x}) /\ Cardinality(P \cup {x}) = Cardinality(P) + 1
    BY <1>1, <2>1, FS_AddElement
  <2> QED BY <1>1, <2>1, <2>2
<1>10. Keeps(new, c + 1, P \cup {e.p})
  BY <1>6, <1>7, <1>8, <1>9 DEF Keeps
<1> QED BY <1>10 DEF new

LEMMA EntriesInit == MakeInit => EntriesInv
<1> SUFFICES ASSUME MakeInit PROVE EntriesInv
  OBVIOUS
<1>1. NoLists /\ phase = "new" /\ added = <<>>
  BY DEF MakeInit
<1>2. ASSUME NEW s \in Slots PROVE Keeps(ent[s], count[s], PosOf(s))
  <2>1. ent[s] = [n \in Blocks |-> <<>>] /\ count[s] = 0
    BY <1>1 DEF NoLists
  <2>2. PosOf(s) = {}
    BY <1>1 DEF PosOf, Range
  <2>3. \A n \in Blocks : DOMAIN ent[s][n] = {}
    BY <2>1
  <2>4. IsFiniteSet({}) /\ Cardinality({}) = 0
    BY FS_EmptySet
  <2> QED BY <2>1, <2>2, <2>3, <2>4 DEF Keeps
<1> QED BY <1>1, <1>2 DEF EntriesInv

\* A record that is complete is entered in the list of its slot.
LEMMA EntryRecorded ==
    ASSUME WindowInv, RecordsInv, KeyInv, CallerInv, ListInv, EntriesInv, AddEnd
    PROVE  EntriesInv'
<1> DEFINE s0  == SlotOf(hp.h)
           n   == head[s0]
           rec == [p |-> hp.p, k |-> cur.k, d |-> cur.d]
<1>1. /\ phase = "keyed" /\ phase' = "added"
      /\ ent' = [ent EXCEPT ![s0][n] = Append(@, hp)]
      /\ count' = [count EXCEPT ![s0] = @ + 1]
      /\ added' = Append(added, rec)
  BY DEF AddEnd, HplistAdd
<1>2. s0 \in Slots /\ ListTypes /\ NodesInv /\ count \in [Slots -> Nat]
  BY <1>1, KeySlot, WindowTypes DEF ListInv
<1>3. n \in Blocks
  <2>1. nblk \in 1 .. MaxBlocks
    BY <1>2, HplistAssumption DEF ListTypes, NodesInv
  <2> QED BY <1>2, <2>1, HeadIs DEF NodesInv
<1>4. hp \in Entry
  <2>1. hp = [p |-> hp.p, h |-> hp.h, l |-> hp.l] /\ hp.p \in Nat
    BY WindowTypes
  <2>2. hp.h \in Nat /\ hp.l \in Int
    BY PowerAssumption DEF KeyInv, CallerInv
  <2> QED BY <2>1, <2>2 DEF Entry
<1>5. Range(added') = Range(added) \cup {rec} /\ rec.p = hp.p /\ rec.k = cur.k
  <2>1. Adjoining(added) /\ rec \in Recs /\ rec.p = After(added)
    <3>1. /\ disk \subseteq Recs /\ disk = Range(added) \cup {rec} /\ Adjoining(added)
          /\ hp.p = After(added)
      BY <1>1 DEF RecordsInv, NextPos
    <3> QED BY <3>1
  <2> HIDE DEF rec
  <2>2. Range(Append(added, rec)) = Range(added) \cup {rec}
    BY <2>1, OneMore
  <2> QED BY <1>1, <2>2 DEF rec
<1>6. s0 = SlotOf(Hash(HashInit, cur.k))
  BY <1>1 DEF EntriesInv
<1>7. hp.p \notin PosOf(s0)
  <2>1. SUFFICES ASSUME NEW x \in Range(added), hp.p = x.p PROVE FALSE
    BY DEF PosOf
  <2>2. Adjoining(added) /\ hp.p = After(added)
    BY <1>1 DEF RecordsInv, NextPos
  <2>3. PICK i \in DOMAIN added : x = added[i]
    BY DEF Range
  <2>4. x.p \in Nat /\ EndOf(x) \in Nat /\ x.p + 8 =< EndOf(x)
    BY <2>2, <2>3, RecordAt
  <2>5. EndOf(x) =< hp.p /\ hp.p \in Nat
    BY <2>2, <2>3, AfterIs
  <2> QED BY <2>1, <2>4, <2>5
<1> HIDE DEF rec
<1>8. \A s \in Slots : PosOf(s)' = PosOf(s) \cup (IF s = s0 THEN {hp.p} ELSE {})
  <2>1. ASSUME NEW s \in Slots
        PROVE  {r.p : r \in {x \in Range(added') : SlotOf(Hash(HashInit, x.k)) = s}}
                  = PosOf(s) \cup (IF s = s0 THEN {hp.p} ELSE {})
    BY <1>5, <1>6 DEF PosOf
  <2> HIDE DEF s0
  <2> QED BY <2>1 DEF PosOf
<1> HIDE DEF s0, n
<1>9. /\ ent'[s0] = [ent[s0] EXCEPT ![n] = Append(ent[s0][n], hp)]
      /\ \A s \in Slots : s # s0 => ent'[s] = ent[s]
      /\ count'[s0] = count[s0] + 1 /\ \A s \in Slots : s # s0 => count'[s] = count[s]
  BY <1>1, <1>2 DEF ListTypes
<1>10. \A s \in Slots : Keeps(ent[s], count[s], PosOf(s))
  BY DEF EntriesInv
<1>11. Keeps([ent[s0] EXCEPT ![n] = Append(ent[s0][n], hp)], count[s0] + 1, PosOf(s0) \cup {hp.p})
  <2>1. ent[s0] \in [Blocks -> Seq(Entry)] /\ count[s0] \in Nat
    BY <1>2 DEF ListTypes
  <2> QED BY <1>2, <1>3, <1>4, <1>7, <1>10, <2>1, KeepsOneMore
<1>12. ASSUME NEW s \in Slots PROVE Keeps(ent'[s], count'[s], PosOf(s)')
  <2>1. CASE s = s0
    <3>1. PosOf(s)' = PosOf(s) \cup {hp.p}
      BY <1>8, <2>1
    <3> QED BY <1>9, <1>11, <2>1, <3>1
  <2>2. CASE s # s0
    <3>1. PosOf(s)' = PosOf(s)
      BY <1>8, <2>2
    <3> QED BY <1>9, <1>10, <2>2, <3>1
  <2> QED BY <2>1, <2>2
<1> QED BY <1>1, <1>12 DEF EntriesInv, Keeps

\* Nothing else changes what the lists hold, unless the caller reverts an add
\* that was complete.
LEMMA EntriesNext ==
    ASSUME RevertPrior = FALSE
    PROVE  TypesInv /\ EntriesInv /\ [MakeNext]_makeVars => EntriesInv'
<1> SUFFICES ASSUME TypesInv, EntriesInv, [MakeNext]_makeVars PROVE EntriesInv'
  OBVIOUS
<1>1. WindowInv /\ RecordsInv /\ KeyInv /\ CallerInv /\ ListInv
  BY DEF TypesInv
<1>2. CASE AddEnd
  BY <1>1, <1>2, EntryRecorded
<1>3. ASSUME ent' = ent, count' = count, added' = added, phase' = "keyed" => hp'.h = Hash(HashInit, cur'.k)
      PROVE  EntriesInv'
  <2>1. ASSUME NEW s \in Slots PROVE Keeps(ent'[s], count'[s], PosOf(s)')
    <3>1. Keeps(ent[s], count[s], PosOf(s))
      BY DEF EntriesInv
    <3>2. PosOf(s)' = PosOf(s)
      BY <1>3 DEF PosOf
    <3> QED BY <1>3, <3>1, <3>2
  <2> QED BY <1>3, <2>1 DEF EntriesInv, Keeps
<1>4. CASE UNCHANGED makeVars
  BY <1>3, <1>4 DEF makeVars, listVars, EntriesInv
<1>5. \A s : HplistPend(s) \/ HplistNew(s) => ent' = ent /\ count' = count
  BY DEF HplistPend, HplistNew
<1>6. HplistRoom \/ HplistNoRoom => ent' = ent /\ count' = count
  BY <1>5 DEF HplistRoom, HplistNoRoom, listVars
<1>7. ASSUME NEW r \in Records, AddBegin(r) \/ AddBeginFails(r) PROVE EntriesInv'
  <2>1. (HplistRoom \/ HplistNoRoom) /\ added' = added /\ phase' # "keyed"
    BY <1>7 DEF AddBegin, AddBeginFails
  <2> QED BY <1>3, <1>6, <2>1
<1>8. CASE AddbufKey
  <2>1. /\ phase = "begun" /\ UNCHANGED listVars /\ added' = added /\ cur' = cur
        /\ hp' = [hp EXCEPT !.h = Hash(@, cur.k)]
    BY <1>8 DEF AddbufKey
  <2>2. PICK hp0, hh, hl : hp = [p |-> hp0, h |-> hh, l |-> hl]
    BY <1>1, WindowTypes
  <2>3. hp'.h = Hash(hp.h, cur.k) /\ hp.h = HashInit
    BY <1>1, <2>1, <2>2 DEF KeyInv
  <2> QED BY <1>3, <2>1, <2>3 DEF listVars
<1>9. CASE AddbufData
  <2>1. /\ phase = "keyed" /\ UNCHANGED listVars /\ added' = added /\ hp' = hp
        /\ \E n : cur' = [cur EXCEPT !.left = @ - n]
    BY <1>9 DEF AddbufData
  <2>2. PICK k \in Seq(Nat), d \in Nat, l \in Nat : cur = [k |-> k, d |-> d, left |-> l]
    BY <1>1, WindowTypes
  <2>3. cur'.k = cur.k
    BY <2>1, <2>2
  <2>4. hp.h = Hash(HashInit, cur.k)
    BY <2>1 DEF EntriesInv
  <2> QED BY <1>3, <2>1, <2>3, <2>4 DEF listVars
<1>10. CASE AddRevert
  <2>1. phase # "added" /\ UNCHANGED listVars /\ added' = added /\ phase' = "idle"
    BY <1>10 DEF AddRevert
  <2> QED BY <1>3, <2>1 DEF listVars
<1>11. ASSUME Start \/ StartFails \/ FinishPad \/ FinishSlot \/ FinishFails
              \/ FinishCommit \/ CommitFails \/ Destroy
       PROVE  EntriesInv'
  <2>1. ent' = ent /\ count' = count
    BY <1>11 DEF Start, StartFails, FinishPad, FinishSlot, FinishFails, FinishCommit, CommitFails, Destroy,
       Released0, FirstLists, FreeLists, FreeUnset, listVars
  <2>2. added' = added /\ phase' # "keyed"
    BY <1>11 DEF Start, StartFails, FinishPad, FinishSlot, FinishFails, FinishCommit, CommitFails, Destroy
  <2> QED BY <1>3, <2>1, <2>2
<1> QED BY <1>2, <1>4, <1>7, <1>8, <1>9, <1>10, <1>11 DEF MakeNext

\* What mcdb_make_finish meets on the list of a slot
LEMMA ListHolds ==
    ASSUME TypesInv, EntriesInv, NodesInv, NEW s \in Slots
    PROVE  \E E \in Seq(Entry) :
             /\ Entries(s) = E /\ Len(E) = count[s] /\ {e.p : e \in Range(E)} = PosOf(s)
             /\ count[s] = Cardinality(PosOf(s))
             /\ \A j \in DOMAIN E : \E n \in Blocks : E[j] \in Range(ent[s][n])
             /\ \A j, k \in DOMAIN E : E[j].p = E[k].p => j = k
<1> DEFINE hd == head[s]
           nx == lnext[s]
           pd == pend[s]
           en == ent[s]
           W0 == Walk(nx, hd)
           ss == [i \in 1 .. Len(W0) |-> en[W0[i]]]
<1>1. ListTypes /\ nblk \in 1 .. MaxBlocks
  BY HplistAssumption DEF TypesInv, ListInv, ListTypes, NodesInv
<1>2. nx \in [Blocks -> Ptr] /\ pd \in [Blocks -> Ptr] /\ en \in [Blocks -> Seq(Entry)]
  BY <1>1 DEF ListTypes
<1>3. NodesInOrder(nblk, hd, nx, pd, en)
  BY DEF NodesInv
<1>4. Keeps(en, count[s], PosOf(s))
  BY DEF EntriesInv
<1>5. Entries(s) = FlattenSeq(ss)
  BY DEF Entries
<1> HIDE DEF hd, nx, pd, en
<1>6. PICK nb \in 1 .. MaxBlocks : nb = nblk
  BY <1>1
<1>7. PICK q \in [1 .. nb -> 1 .. nb], k \in 1 .. nb : InOrder(q, k, nb, hd, nx, pd, en)
  BY <1>3, <1>6 DEF NodesInOrder
<1>8. PICK b \in Seq(Blocks) : W0 = b /\ Len(b) = k /\ \A j \in 1 .. k : b[j] = q[k + 1 - j]
  <2>1. k \in 1 .. k /\ hd = q[k]
    BY <1>7 DEF InOrder
  <2>2. /\ Walk(nx, q[k]) \in Seq(Blocks) /\ Len(Walk(nx, q[k])) = k
        /\ \A j \in 1 .. k : Walk(nx, q[k])[j] = q[k + 1 - j]
    BY <1>2, <1>7, <2>1, ListIs
  <2> QED BY <2>1, <2>2
<1> HIDE DEF W0
<1>9. /\ \A i, j \in 1 .. nb : q[i] = q[j] => i = j
      /\ \A m \in 1 .. nb : \E i \in 1 .. nb : q[i] = m
      /\ \A i \in 1 .. nb : i > k => en[q[i]] = <<>>
      /\ \A m \in Blocks : m > nb => en[m] = <<>>
  BY <1>7 DEF InOrder
<1>10. k \in Nat \ {0} /\ nb \in Nat /\ k =< nb /\ \A j \in 1 .. k : b[j] \in Blocks
  BY <1>8
<1>11. \A i, j \in 1 .. k : b[i] = b[j] => i = j
  <2>1. SUFFICES ASSUME NEW i \in 1 .. k, NEW j \in 1 .. k, b[i] = b[j] PROVE i = j
    OBVIOUS
  <2> DEFINE u == k + 1 - i
             v == k + 1 - j
  <2>2. u \in 1 .. nb /\ v \in 1 .. nb
    BY <1>10
  <2>3. b[i] = q[u] /\ b[j] = q[v]
    BY <1>8
  <2> HIDE DEF u, v
  <2>4. \A z \in 1 .. nb : q[z] = q[u] => z = u
    BY <1>9, <2>2
  <2>5. u = v
    BY <2>1, <2>2, <2>3, <2>4
  <2> QED BY <1>10, <2>5 DEF u, v
<1>12. ASSUME NEW m \in Blocks, NEW x \in DOMAIN en[m] PROVE \E j \in 1 .. k : b[j] = m
  <2>1. en[m] # <<>>
    BY <1>12
  <2>2. m \in 1 .. nb
    <3>1. ~ (m > nb)
      BY <1>9, <2>1
    <3>2. m \in Nat /\ 1 =< m
      BY HplistAssumption DEF Blocks
    <3> QED BY <1>10, <3>1, <3>2
  <2>3. PICK i \in 1 .. nb : q[i] = m
    BY <1>9, <2>2
  <2>4. i \in 1 .. k
    <3>1. ~ (i > k)
      BY <1>9, <2>1, <2>3
    <3> QED BY <1>10, <3>1
  <2>5. k \in Nat
    BY <1>10
  <2>6. k + 1 - i \in 1 .. k /\ k + 1 - (k + 1 - i) = i
    BY <2>4, <2>5
  <2> QED BY <1>8, <2>3, <2>6
<1>13. Len(ss) = k /\ \A i \in 1 .. k : ss[i] = en[b[i]]
  BY <1>8, <1>10
<1> HIDE DEF ss
<1>14. \A i \in 1 .. k : ss[i] \in Seq(Entry)
  BY <1>2, <1>10, <1>13
<1>15. \A i, m \in 1 .. k : \A x \in DOMAIN ss[i], y \in DOMAIN ss[m] :
          ss[i][x].p = ss[m][y].p => i = m /\ x = y
  <2>1. \A v, w \in Blocks : \A x \in DOMAIN en[v], y \in DOMAIN en[w] :
          en[v][x].p = en[w][y].p => v = w /\ x = y
    BY <1>4 DEF Keeps
  <2>2. SUFFICES ASSUME NEW i \in 1 .. k, NEW m \in 1 .. k, NEW x \in DOMAIN ss[i], NEW y \in DOMAIN ss[m],
                        ss[i][x].p = ss[m][y].p
                 PROVE  i = m /\ x = y
    OBVIOUS
  <2>3. PICK v \in Blocks : v = b[i] /\ ss[i] = en[v]
    BY <1>10, <1>13
  <2>4. PICK w \in Blocks : w = b[m] /\ ss[m] = en[w]
    BY <1>10, <1>13
  <2>5. x \in DOMAIN en[v] /\ y \in DOMAIN en[w] /\ en[v][x].p = en[w][y].p
    BY <2>2, <2>3, <2>4
  <2>6. v = w /\ x = y
    BY <2>1, <2>5
  <2>7. b[i] = b[m] /\ x = y
    BY <2>3, <2>4, <2>6
  <2> QED BY <1>11, <2>7
<1>16. PICK E \in Seq(Entry) : FlattenSeq(ss) = E /\ Together(E, ss, k)
  BY <1>10, <1>13, <1>14, <1>15, FlattenIs
<1>17. {e.p : e \in Range(E)} = PosOf(s)
  <2>1. ASSUME NEW j \in DOMAIN E PROVE E[j].p \in PosOf(s)
    <3>1. PICK i \in 1 .. k : \E x \in DOMAIN ss[i] : E[j] = ss[i][x]
      BY <1>16 DEF Together
    <3>2. PICK x \in DOMAIN en[b[i]] : E[j] = en[b[i]][x]
      BY <1>13, <3>1
    <3> QED BY <1>4, <1>10, <3>2 DEF Keeps
  <2>2. ASSUME NEW p \in PosOf(s) PROVE \E j \in DOMAIN E : E[j].p = p
    <3>1. PICK m \in Blocks : \E x \in DOMAIN en[m] : en[m][x].p = p
      BY <1>4 DEF Keeps
    <3>2. PICK x \in DOMAIN en[m] : en[m][x].p = p
      BY <3>1
    <3>3. PICK i \in 1 .. k : b[i] = m
      BY <1>12
    <3>4. x \in DOMAIN ss[i] /\ ss[i][x].p = p
      BY <1>13, <3>2, <3>3
    <3> QED BY <1>16, <3>4 DEF Together
  <2> QED BY <2>1, <2>2 DEF Range
<1>18. Cardinality({e.p : e \in Range(E)}) = Len(E)
  BY <1>16, CountedByPosition DEF Together
<1>19. count[s] = Cardinality(PosOf(s))
  BY <1>4 DEF Keeps
<1>20. ASSUME NEW j \in DOMAIN E PROVE \E n \in Blocks : E[j] \in Range(ent[s][n])
  <2>1. PICK i \in 1 .. k : \E x \in DOMAIN ss[i] : E[j] = ss[i][x]
    BY <1>16 DEF Together
  <2>2. PICK x \in DOMAIN en[b[i]] : E[j] = en[b[i]][x]
    BY <1>13, <2>1
  <2> QED BY <1>10, <2>2 DEF Range, en
<1>21. \A j, m \in DOMAIN E : E[j].p = E[m].p => j = m
  BY <1>16 DEF Together
<1> QED BY <1>5, <1>16, <1>17, <1>18, <1>19, <1>20, <1>21

\* The list of each slot has one entry for every record that was added and
\* whose hash has that slot, and none besides, as long as the caller reverts no
\* add that was complete: whichever nodes are filled, waiting or new.
THEOREM ListsAreExact == ASSUME RevertPrior = FALSE PROVE MakeSpec => []ListsExact
<1>1. MakeInit => TypesInv /\ EntriesInv
  BY TypesInit, EntriesInit
<1>2. TypesInv /\ EntriesInv /\ [MakeNext]_makeVars => (TypesInv /\ EntriesInv)'
  BY TypesNext, EntriesNext
<1>3. TypesInv /\ EntriesInv => ListsExact
  <2> SUFFICES ASSUME TypesInv, EntriesInv, phase \in Between \cup {"begun", "keyed", "tables"}, NEW s \in Slots
               PROVE  /\ Len(Entries(s)) = count[s]
                      /\ {e.p : e \in Range(Entries(s))} = PosOf(s)
                      /\ count[s] = Cardinality({e.p : e \in Range(Entries(s))})
    BY DEF ListsExact
  <2>1. NodesInv
    BY DEF TypesInv, ListInv, Between
  <2> QED BY <2>1, ListHolds
<1> QED BY <1>1, <1>2, <1>3, PTL DEF MakeSpec

-----------------------------------------------------------------------------
(* The hash tables: the fold that makes one enters the entries of a list   *)
(* one by one, each at the first empty place from its home on, and what is *)
(* made stays in the file.                                                 *)

\* The greatest member of a set of the first numbers
LEMMA MaxIs == ASSUME NEW n \in Nat, NEW S \in SUBSET (1 .. n), S # {}
               PROVE  Max(S) \in S /\ \A y \in S : y =< Max(S)
<1> DEFINE T == {n - x : x \in S}
<1>1. \A x \in S : x \in Nat /\ x =< n /\ n - x \in Nat
  OBVIOUS
<1>2. T \in SUBSET Nat /\ T # {}
  BY <1>1
<1>3. PICK d \in T : \A y \in T : d =< y
  BY <1>2, LeastNat
<1>4. PICK x \in S : d = n - x
  BY <1>3
<1>5. ASSUME NEW y \in S PROVE x >= y
  <2>1. n - y \in T
    OBVIOUS
  <2>2. n - x =< n - y
    BY <1>3, <1>4, <2>1
  <2> QED BY <1>1, <2>2
<1>6. Max(S) \in S /\ \A y \in S : Max(S) >= y
  <2> DEFINE Q(z) == z \in S /\ \A y \in S : z >= y
  <2>1. Q(x)
    BY <1>5
  <2>2. Max(S) = CHOOSE z \in S : \A y \in S : z >= y
    BY DEF Max
  <2> QED BY <2>1, <2>2
<1> QED BY <1>1, <1>6

\* G[m] is the table with the first m entries of E.
Steps(G, E, len) ==
    /\ G[0] = [i \in 0 .. len - 1 |-> EMPTY]
    /\ \A m \in 1 .. Len(E) : G[m] = Insert(G[m - 1], E[m], len)

\* The fold that makes a table enters the entries of the list one by one.
LEMMA TableSteps ==
    ASSUME NEW s, NEW E \in Seq(Entry), Entries(s) = E, NEW len, len = TableLen(s)
    PROVE  \E G : Steps(G, E, len) /\ Table(s) = G[Len(E)]
<1> DEFINE t0 == [i \in 0 .. len - 1 |-> EMPTY]
           n  == Len(E)
           Val(f, S) == IF S = {} THEN t0 ELSE Insert(f[S \ {Max(S)}], E[Max(S)], len)
           Solves(f, m) == f = [S \in SUBSET (1 .. m) |-> Val(f, S)]
           T == {m \in Nat : ~ \E f : Solves(f, m)}
           iter == CHOOSE f : Solves(f, n)
<1>1. n \in Nat /\ DOMAIN E = 1 .. n
  OBVIOUS
<1>2. Table(s) = iter[1 .. n]
  BY <1>1 DEF Table, FoldLeft, MapThenFoldSet
<1> HIDE DEF t0, n
<1>3. \A m \in Nat : \E f : Solves(f, m)
  <2>1. SUFFICES ASSUME T # {} PROVE FALSE
    <3> HIDE DEF Solves
    <3> QED OBVIOUS
  <2>2. PICK m \in T : \A y \in T : m =< y
    <3>1. T \in SUBSET Nat
      <4> HIDE DEF Solves
      <4> QED OBVIOUS
    <3> HIDE DEF T
    <3> QED BY <2>1, <3>1, LeastNat
  <2>3. m \in Nat /\ ~(\E f : Solves(f, m)) /\ \A y \in Nat : (~ \E f : Solves(f, y)) => m =< y
    <3> HIDE DEF Solves
    <3> QED BY <2>2
  <2>4. m # 0
    <3> DEFINE f == [S \in SUBSET (1 .. 0) |-> t0]
    <3>1. f = [S \in SUBSET (1 .. 0) |-> Val(f, S)]
      OBVIOUS
    <3> HIDE DEF f, Val
    <3>2. \E g : Solves(g, 0)
      BY <3>1
    <3> HIDE DEF Solves
    <3> QED BY <2>3, <3>2
  <2>5. PICK g : Solves(g, m - 1)
    <3>1. m - 1 \in Nat /\ ~ (m =< m - 1)
      BY <2>3, <2>4
    <3> HIDE DEF Solves
    <3> QED BY <2>3, <3>1
  <2>6. \A S \in SUBSET (1 .. m - 1) : g[S] = Val(g, S)
    <3> HIDE DEF Val
    <3> QED BY <2>5
  <2> DEFINE f == [S \in SUBSET (1 .. m) |-> Val(g, S)]
  <2>7. \A S \in SUBSET (1 .. m - 1) : S \in SUBSET (1 .. m) /\ f[S] = g[S]
    <3>1. \A S \in SUBSET (1 .. m - 1) : S \in SUBSET (1 .. m)
      BY <2>3
    <3> HIDE DEF Val
    <3> QED BY <2>6, <3>1
  <2>8. ASSUME NEW S \in SUBSET (1 .. m) PROVE Val(g, S) = Val(f, S)
    <3>1. CASE S = {}
      BY <3>1
    <3>2. CASE S # {}
      <4>1. Max(S) \in S /\ \A y \in S : y =< Max(S)
        BY <2>3, <3>2, MaxIs
      <4>2. S \ {Max(S)} \in SUBSET (1 .. m - 1)
        <5>1. \A y \in S : y \in 1 .. m
          OBVIOUS
        <5>2. ASSUME NEW y \in S, y # Max(S) PROVE y \in 1 .. m - 1
          <6>1. y =< Max(S) /\ Max(S) \in 1 .. m /\ y \in 1 .. m
            BY <4>1, <5>1
          <6> QED BY <2>3, <5>2, <6>1
        <5> QED BY <5>2
      <4>3. f[S \ {Max(S)}] = g[S \ {Max(S)}]
        <5> HIDE DEF f
        <5> QED BY <2>7, <4>2
      <4> HIDE DEF f
      <4> QED BY <4>3
    <3> QED BY <3>1, <3>2
  <2>9. f = [S \in SUBSET (1 .. m) |-> Val(f, S)]
    <3>1. f = [S \in SUBSET (1 .. m) |-> Val(g, S)]
      OBVIOUS
    <3> HIDE DEF f, Val
    <3> QED BY <2>8, <3>1
  <2>10. \E h : Solves(h, m)
    <3> HIDE DEF f, Val
    <3> QED BY <2>9
  <2> HIDE DEF Solves
  <2> QED BY <2>3, <2>10
<1>4. Solves(iter, n)
  <2> HIDE DEF Solves
  <2> QED BY <1>1, <1>3
<1> HIDE DEF iter
<1> DEFINE G == [m \in 0 .. n |-> iter[1 .. m]]
<1>5. \A S \in SUBSET (1 .. n) : iter[S] = Val(iter, S)
  <2> HIDE DEF Val
  <2> QED BY <1>4
<1>6. G[0] = t0
  <2>1. 1 .. 0 = {} /\ {} \in SUBSET (1 .. n) /\ 0 \in 0 .. n
    BY <1>1
  <2>2. iter[{}] = t0
    BY <1>5, <2>1
  <2> QED BY <2>1, <2>2
<1>7. ASSUME NEW m \in 1 .. n PROVE G[m] = Insert(G[m - 1], E[m], len)
  <2>1. m \in 0 .. n /\ m - 1 \in 0 .. n /\ 1 .. m # {} /\ 1 .. m \in SUBSET (1 .. n)
    BY <1>1
  <2>2. Max(1 .. m) = m
    <3>1. m \in Nat /\ 1 .. m \in SUBSET (1 .. m) /\ m \in 1 .. m
      BY <1>1
    <3>2. Max(1 .. m) \in 1 .. m /\ m =< Max(1 .. m)
      BY <2>1, <3>1, MaxIs
    <3> QED BY <3>1, <3>2
  <2>3. (1 .. m) \ {m} = 1 .. m - 1
    BY <1>1
  <2>4. iter[1 .. m] = Insert(iter[1 .. m - 1], E[m], len)
    BY <1>5, <2>1, <2>2, <2>3
  <2> QED BY <2>1, <2>4
<1>8. Table(s) = G[n]
  BY <1>1, <1>2
<1>9. Steps(G, E, len)
  <2> HIDE DEF G
  <2> QED BY <1>6, <1>7 DEF Steps, t0, n
<1> HIDE DEF G
<1> QED BY <1>8, <1>9 DEF n

\* A remainder is known by its range.
LEMMA Remainder ==
    ASSUME NEW n \in Nat \ {0}, NEW x \in Int
    PROVE  /\ x \in 0 .. n - 1 => x % n = x
           /\ x \in n .. 2 * n - 1 => x % n = x - n
           /\ x < 0 /\ -n =< x => x % n = x + n
<1>1. x % n \in 0 .. n - 1
  OBVIOUS
<1>2. x \div n \in Int
  OBVIOUS
<1>3. x = n * (x \div n) + (x % n)
  OBVIOUS
<1>4. PICK q \in Int, r \in 0 .. n - 1, z \in Int : z = n * q /\ r = x % n /\ x = z + r
  BY <1>1, <1>2, <1>3
<1>5. q >= 2 => z >= 2 * n
  BY <1>4
<1>6. q >= 1 => z >= n
  BY <1>4
<1>7. q =< -1 => z =< -n
  BY <1>4
<1>8. q =< -2 => z =< -2 * n
  BY <1>4
<1>9. (q = 0 => z = 0) /\ (q = 1 => z = n) /\ (q = -1 => z = -n)
  BY <1>4
<1>10. x = z + r /\ r = (x % n)
  BY <1>4
<1>11. q =< -2 \/ q = -1 \/ q = 0 \/ q = 1 \/ q >= 2
  OBVIOUS
<1> QED BY <1>5, <1>6, <1>7, <1>8, <1>9, <1>10, <1>11

\* How far a place is from another, by cases
LEMMA DistIs ==
    ASSUME NEW len \in Nat \ {0}, NEW i \in 0 .. len - 1, NEW h \in 0 .. len - 1
    PROVE  /\ Dist(i, h, len) = IF i >= h THEN i - h ELSE i - h + len
           /\ Dist(i, h, len) \in 0 .. len - 1
<1>1. i - h \in Int
  OBVIOUS
<1>2. i >= h => i - h \in 0 .. len - 1
  OBVIOUS
<1>3. ~(i >= h) => i - h < 0 /\ -len =< i - h /\ i - h + len \in 0 .. len - 1
  OBVIOUS
<1> QED BY <1>1, <1>2, <1>3, Remainder DEF Dist

\* A home is a place of the table.
LEMMA HomeInside == ASSUME NEW h \in Nat, NEW len \in Nat \ {0} PROVE Home(h, len) \in 0 .. len - 1
<1>1. h \div SLOTS \in Nat
  BY PowerAssumption
<1> QED BY <1>1 DEF Home

\* The 32-bit shift with which mcdb_make_finish writes an entry reaches all places.
Reached(len) == 2 ^ (W - bits) \in Nat /\ len =< 2 ^ (W - bits)

\* The places of a table that are not empty
Taken(t, len) == {i \in 0 .. len - 1 : t[i].p # 0}

\* t holds the first m entries of E.
Filled(t, E, m, len) ==
    /\ t \in [0 .. len - 1 -> Entry]
    /\ IsFiniteSet(Taken(t, len)) /\ Cardinality(Taken(t, len)) = m
    /\ \A i \in 0 .. len - 1 : t[i].p # 0 => \E j \in 1 .. m : t[i] = E[j]
    /\ \A i \in 0 .. len - 1 : t[i].p = 0 => t[i] = EMPTY
    /\ \A j \in 1 .. m : \E i \in 0 .. len - 1 : t[i] = E[j]
    /\ \A i, j \in 0 .. len - 1 : t[i].p # 0 /\ t[i].p = t[j].p => i = j
    /\ Probed(t, len)

\* A table that is not full has a first empty place from any home on.
LEMMA FirstFree ==
    ASSUME NEW len \in Nat \ {0}, NEW t, NEW m \in Nat, m < len,
           IsFiniteSet(Taken(t, len)), Cardinality(Taken(t, len)) = m, NEW h \in 0 .. len - 1
    PROVE  \E u \in 0 .. len - 1 : /\ t[u].p = 0
                                   /\ \A j \in 0 .. len - 1 :
                                        t[j].p = 0 => Dist(u, h, len) =< Dist(j, h, len)
<1>1. PICK f \in 0 .. len - 1 : t[f].p = 0
  <2>1. SUFFICES ASSUME \A i \in 0 .. len - 1 : t[i].p # 0 PROVE FALSE
    OBVIOUS
  <2>2. Taken(t, len) = 0 .. len - 1
    BY <2>1 DEF Taken
  <2>3. Cardinality(0 .. len - 1) = len
    <3>1. 0 \in Int /\ len - 1 \in Int
      OBVIOUS
    <3> QED BY <3>1, FS_Interval
  <2> QED BY <2>2, <2>3
<1> DEFINE T == {Dist(i, h, len) : i \in {x \in 0 .. len - 1 : t[x].p = 0}}
<1>2. ASSUME NEW i \in 0 .. len - 1 PROVE Dist(i, h, len) \in Nat
  <2>1. Dist(i, h, len) \in 0 .. len - 1
    BY DistIs
  <2> QED BY <2>1
<1>3. T \in SUBSET Nat /\ T # {}
  BY <1>1, <1>2
<1>4. PICK d \in T : \A y \in T : d =< y
  BY <1>3, LeastNat
<1>5. PICK u \in 0 .. len - 1 : t[u].p = 0 /\ d = Dist(u, h, len)
  BY <1>4
<1> QED BY <1>4, <1>5

\* Insert puts an entry at the first empty place from its home on, if the table
\* is no longer than the 32-bit shift of the code reaches.
LEMMA InsertsFirst ==
    ASSUME NEW len \in Nat \ {0}, Reached(len),
           NEW t, NEW m \in Nat, m < len,
           IsFiniteSet(Taken(t, len)), Cardinality(Taken(t, len)) = m, NEW e \in Entry
    PROVE  \E u \in 0 .. len - 1 :
              /\ t[u].p = 0
              /\ \A j \in 0 .. len - 1 :
                    t[j].p = 0 => Dist(u, Home(e.h, len), len) =< Dist(j, Home(e.h, len), len)
              /\ Insert(t, e, len) = [t EXCEPT ![u] = e]
<1> DEFINE Q(i) == /\ t[i].p = 0
                   /\ \A j \in 0 .. len - 1 :
                        t[j].p = 0 => (i - Home(e.h, len)) % len =< (j - Home(e.h, len)) % len
           u == CHOOSE i \in 0 .. len - 1 : Q(i)
<1>1. Home(e.h, len) \in 0 .. len - 1
  BY HomeInside DEF Entry
<1>2. \E i \in 0 .. len - 1 : Q(i)
  BY <1>1, FirstFree DEF Dist
<1>3. u \in 0 .. len - 1 /\ Q(u)
  <2> HIDE DEF Q
  <2> QED BY <1>2
<1>4. Insert(t, e, len) = [t EXCEPT ![u % 2 ^ (W - bits)] = e]
  BY DEF Insert
<1> HIDE DEF u
<1>5. u % 2 ^ (W - bits) = u
  <2>1. PICK N \in Nat : N = 2 ^ (W - bits) /\ len =< N
    BY DEF Reached
  <2>2. u \in 0 .. N - 1 /\ N \in Nat \ {0} /\ u \in Int
    BY <1>3, <2>1
  <2>3. u % N = u
    BY <2>2, Remainder
  <2> QED BY <2>1, <2>3
<1>6. Insert(t, e, len) = [t EXCEPT ![u] = e]
  BY <1>4, <1>5
<1>7. \A j \in 0 .. len - 1 : t[j].p = 0 => Dist(u, Home(e.h, len), len) =< Dist(j, Home(e.h, len), len)
  BY <1>3 DEF Dist
<1>8. t[u].p = 0 /\ u \in 0 .. len - 1
  BY <1>3
<1> QED BY <1>6, <1>7, <1>8, Zenon

\* One more entry in a table that is not full
LEMMA FillsOneMore ==
    ASSUME NEW len \in Nat \ {0}, Reached(len),
           NEW E \in Seq(Entry), \A j \in DOMAIN E : E[j].p # 0,
           \A j, k \in DOMAIN E : E[j].p = E[k].p => j = k,
           NEW m \in Nat, m < len, m + 1 \in DOMAIN E, NEW t, Filled(t, E, m, len)
    PROVE  Filled(Insert(t, E[m + 1], len), E, m + 1, len)
<1> DEFINE e == E[m + 1]
           h == Home(e.h, len)
           P == 0 .. len - 1
<1>1. /\ t \in [P -> Entry]
      /\ IsFiniteSet(Taken(t, len)) /\ Cardinality(Taken(t, len)) = m
      /\ \A i \in P : t[i].p # 0 => \E j \in 1 .. m : t[i] = E[j]
      /\ \A i \in P : t[i].p = 0 => t[i] = EMPTY
      /\ \A j \in 1 .. m : \E i \in P : t[i] = E[j]
      /\ \A i, j \in P : t[i].p # 0 /\ t[i].p = t[j].p => i = j
      /\ Probed(t, len)
  BY DEF Filled
<1>2. e \in Entry /\ e.p # 0 /\ \A j \in 1 .. m : j \in DOMAIN E /\ E[j].p # e.p
  OBVIOUS
<1>3. PICK u \in P : /\ t[u].p = 0
                     /\ \A j \in P : t[j].p = 0 => Dist(u, h, len) =< Dist(j, h, len)
                     /\ Insert(t, e, len) = [t EXCEPT ![u] = e]
  <2>1. e \in Entry
    BY <1>2
  <2>2. IsFiniteSet(Taken(t, len)) /\ Cardinality(Taken(t, len)) = m
    BY <1>1
  <2> HIDE DEF e
  <2> QED BY <2>1, <2>2, InsertsFirst
<1> DEFINE t2 == [t EXCEPT ![u] = e]
<1>4. t2 \in [P -> Entry] /\ t2[u] = e /\ \A i \in P : i # u => t2[i] = t[i]
  BY <1>1, <1>2
<1> HIDE DEF t2, e, P
<1>5. Taken(t2, len) = Taken(t, len) \cup {u} /\ u \notin Taken(t, len)
  BY <1>2, <1>3, <1>4 DEF Taken, P
<1>6. IsFiniteSet(Taken(t2, len)) /\ Cardinality(Taken(t2, len)) = m + 1
  <2>1. IsFiniteSet(Taken(t, len)) /\ Cardinality(Taken(t, len)) = m
    BY <1>1
  <2>2. PICK S, S2 : /\ S = Taken(t, len) /\ S2 = Taken(t2, len) /\ IsFiniteSet(S)
                     /\ S2 = S \cup {u} /\ u \notin S
    BY <1>5, <2>1
  <2>3. IsFiniteSet(S2) /\ Cardinality(S2) = Cardinality(S) + 1
    BY <2>2, FS_AddElement
  <2> QED BY <2>1, <2>2, <2>3
<1>7. ASSUME NEW i \in P, t2[i].p # 0 PROVE \E j \in 1 .. m + 1 : t2[i] = E[j]
  <2>1. CASE i = u
    BY <1>4, <2>1 DEF e
  <2>2. CASE i # u
    <3>1. PICK j \in 1 .. m : t[i] = E[j]
      BY <1>1, <1>4, <1>7, <2>2
    <3> QED BY <1>4, <2>2, <3>1
  <2> QED BY <2>1, <2>2
<1>8. \A i \in P : t2[i].p = 0 => t2[i] = EMPTY
  BY <1>1, <1>2, <1>4
<1>9. ASSUME NEW j \in 1 .. m + 1 PROVE \E i \in P : t2[i] = E[j]
  <2>1. CASE j = m + 1
    BY <1>4, <2>1 DEF e
  <2>2. CASE j # m + 1
    <3>1. j \in 1 .. m
      BY <2>2
    <3>2. PICK i \in P : t[i] = E[j]
      BY <1>1, <3>1
    <3>3. E[j].p # 0
      BY <3>1, <1>2
    <3>4. i # u
      BY <1>3, <3>2, <3>3
    <3> QED BY <1>4, <3>2, <3>4
  <2> QED BY <2>1, <2>2
<1>10. ASSUME NEW i \in P, t[i].p # 0 PROVE t[i].p # e.p
  <2>1. PICK j \in 1 .. m : t[i] = E[j]
    BY <1>1, <1>10
  <2> QED BY <1>2, <2>1
<1>11. ASSUME NEW i \in P, NEW j \in P, t2[i].p # 0, t2[i].p = t2[j].p PROVE i = j
  <2>1. CASE i # u /\ j # u
    BY <1>1, <1>4, <1>11, <2>1
  <2>2. CASE i = u /\ j # u
    BY <1>2, <1>4, <1>10, <1>11, <2>2
  <2>3. CASE i # u /\ j = u
    BY <1>2, <1>4, <1>10, <1>11, <2>3
  <2> QED BY <2>1, <2>2, <2>3
<1>12. Probed(t2, len)
  <2>1. SUFFICES ASSUME NEW i \in P, NEW j \in P, t2[i].p # 0,
                        Dist(j, Home(t2[i].h, len), len) < Dist(i, Home(t2[i].h, len), len)
                 PROVE  t2[j].p # 0
    BY DEF Probed, P
  <2>2. CASE j = u
    BY <1>2, <1>4, <2>2
  <2>3. CASE j # u /\ i # u
    <3>1. t[i].p # 0 /\ Dist(j, Home(t[i].h, len), len) < Dist(i, Home(t[i].h, len), len)
      BY <1>4, <2>1, <2>3
    <3>2. t[j].p # 0
      BY <1>1, <3>1 DEF Probed, P
    <3> QED BY <1>4, <2>3, <3>2
  <2>4. CASE j # u /\ i = u
    <3>1. Dist(j, h, len) < Dist(u, h, len)
      BY <1>4, <2>1, <2>4
    <3>2. Dist(j, h, len) \in Int /\ Dist(u, h, len) \in Int
      <4>1. h \in 0 .. len - 1
        BY <1>2, HomeInside DEF Entry
      <4>2. u \in 0 .. len - 1 /\ j \in 0 .. len - 1
        BY DEF P
      <4> HIDE DEF h
      <4>3. Dist(j, h, len) \in 0 .. len - 1
        BY <4>1, <4>2, DistIs
      <4>4. Dist(u, h, len) \in 0 .. len - 1
        BY <4>1, <4>2, DistIs
      <4> QED BY <4>3, <4>4
    <3>3. t[j].p # 0
      BY <1>3, <3>1, <3>2
    <3> QED BY <1>4, <2>4, <3>3
  <2> QED BY <2>2, <2>3, <2>4
<1>13. Filled(t2, E, m + 1, len)
  BY <1>4, <1>6, <1>7, <1>8, <1>9, <1>11, <1>12 DEF Filled, P
<1> QED BY <1>3, <1>13 DEF t2, e

\* A table made by mcdb_make_finish holds the entries of its list.
LEMMA TableFills ==
    ASSUME NEW s, NEW E \in Seq(Entry), Entries(s) = E, NEW len \in Nat, len = TableLen(s),
           len = 2 * Len(E), Reached(len),
           \A j \in DOMAIN E : E[j].p # 0,
           \A j, k \in DOMAIN E : E[j].p = E[k].p => j = k
    PROVE  Filled(Table(s), E, Len(E), len)
<1>1. PICK G : /\ G[0] = [i \in 0 .. len - 1 |-> EMPTY]
               /\ \A m \in 1 .. Len(E) : G[m] = Insert(G[m - 1], E[m], len)
               /\ Table(s) = G[Len(E)]
  <2>1. PICK G : Steps(G, E, len) /\ Table(s) = G[Len(E)]
    BY TableSteps
  <2> QED BY <2>1 DEF Steps
<1> DEFINE T == {m \in 0 .. Len(E) : ~Filled(G[m], E, m, len)}
<1>2. Len(E) \in Nat /\ DOMAIN E = 1 .. Len(E)
  OBVIOUS
<1>3. T = {}
  <2>1. SUFFICES ASSUME T # {} PROVE FALSE
    OBVIOUS
  <2>2. T \in SUBSET Nat
    BY <1>2
  <2>3. PICK m \in T : \A y \in T : m =< y
    BY <2>1, <2>2, LeastNat
  <2>4. m \in 0 .. Len(E) /\ ~Filled(G[m], E, m, len)
    BY <2>3
  <2>5. CASE m = 0
    <3>1. \A i \in 0 .. len - 1 : G[0][i] = EMPTY /\ G[0][i].p = 0
      BY <1>1 DEF EMPTY
    <3>2. G[0] \in [0 .. len - 1 -> Entry]
      <4>1. EMPTY \in Entry
        BY DEF EMPTY, Entry
      <4> QED BY <1>1, <4>1
    <3>3. Taken(G[0], len) = {}
      BY <3>1 DEF Taken
    <3>4. IsFiniteSet({}) /\ Cardinality({}) = 0
      BY FS_EmptySet
    <3>5. 1 .. 0 = {} /\ Probed(G[0], len)
      BY <3>1 DEF Probed
    <3>6. Filled(G[0], E, 0, len)
      BY <3>1, <3>2, <3>3, <3>4, <3>5 DEF Filled
    <3> QED BY <2>4, <2>5, <3>6
  <2>6. CASE m # 0
    <3>1. m - 1 \in 0 .. Len(E) /\ ~(m =< m - 1) /\ m \in 1 .. Len(E) /\ m - 1 \in Nat /\ (m - 1) + 1 = m
      BY <1>2, <2>4, <2>6
    <3>2. Filled(G[m - 1], E, m - 1, len)
      BY <2>3, <3>1
    <3>3. m - 1 < len /\ len \in Nat \ {0}
      BY <1>2, <3>1
    <3>4. Filled(Insert(G[m - 1], E[m], len), E, m, len)
      BY <1>2, <3>1, <3>2, <3>3, FillsOneMore
    <3> QED BY <1>1, <2>4, <3>1, <3>4
  <2> QED BY <2>5, <2>6
<1> QED BY <1>1, <1>2, <1>3

\* Each entry in a list is that of a record: it holds at first, ...
LEMMA ListedInit == MakeInit => ListedInv
<1> SUFFICES ASSUME MakeInit PROVE ListedInv
  OBVIOUS
<1>1. NoLists /\ phase = "new"
  BY DEF MakeInit
<1>2. ASSUME NEW s \in Slots, NEW n \in Blocks PROVE Range(ent[s][n]) \subseteq Listed
  BY <1>1 DEF NoLists, Range
<1> QED BY <1>1, <1>2 DEF ListedInv

\* The entry of a record that is complete is what mcdb_make_addend copies.
LEMMA ListedEnd ==
    ASSUME TypesInv, EntriesInv, ListedInv, AddEnd PROVE ListedInv'
<1> DEFINE s0  == SlotOf(hp.h)
           n0  == head[s0]
           rec == [p |-> hp.p, k |-> cur.k, d |-> cur.d]
<1>1. /\ phase = "keyed" /\ phase' = "added"
      /\ ent' = [ent EXCEPT ![s0][n0] = Append(@, hp)]
      /\ added' = Append(added, rec)
  BY DEF AddEnd, HplistAdd
<1>2. WindowInv /\ RecordsInv /\ KeyInv /\ CallerInv /\ ListTypes
  BY DEF TypesInv, ListInv
<1>3. Range(added') = Range(added) \cup {rec}
  <2>1. Adjoining(added) /\ rec \in Recs /\ rec.p = After(added)
    <3>1. /\ disk \subseteq Recs /\ disk = Range(added) \cup {rec} /\ Adjoining(added)
          /\ hp.p = After(added)
      BY <1>1, <1>2 DEF RecordsInv, NextPos
    <3> QED BY <3>1
  <2> HIDE DEF rec
  <2>2. Range(Append(added, rec)) = Range(added) \cup {rec}
    BY <2>1, OneMore
  <2> QED BY <1>1, <2>2
<1>4. hp = EntryOf(rec)
  <2>1. hp = [p |-> hp.p, h |-> hp.h, l |-> hp.l]
    BY <1>2, WindowTypes
  <2>2. hp.h = Hash(HashInit, cur.k) /\ hp.l = Len(cur.k)
    BY <1>1 DEF EntriesInv, ListedInv
  <2> QED BY <2>1, <2>2 DEF EntryOf
<1> HIDE DEF rec, s0, n0
<1>5. Listed' = Listed \cup {hp}
  <2>1. {EntryOf(r) : r \in Range(added')} = Listed \cup {hp}
    BY <1>3, <1>4 DEF Listed
  <2> QED BY <2>1 DEF Listed
<1>6. ASSUME NEW s \in Slots, NEW n \in Blocks PROVE Range(ent'[s][n]) \subseteq Listed'
  <2>1. Range(ent[s][n]) \subseteq Listed
    BY DEF ListedInv
  <2>2. PICK a \in Seq(Entry) : a = ent[s][n]
    BY <1>2 DEF ListTypes
  <2>3. ent'[s][n] = a \/ ent'[s][n] = Append(a, hp)
    BY <1>1, <1>2, <2>2 DEF ListTypes
  <2>4. Range(Append(a, hp)) \subseteq Range(a) \cup {hp}
    <3>1. DOMAIN a = 1 .. Len(a) /\ Len(a) \in Nat
      BY <2>2
    <3>2. /\ DOMAIN Append(a, hp) = 1 .. Len(a) + 1 /\ Append(a, hp)[Len(a) + 1] = hp
          /\ \A i \in 1 .. Len(a) : Append(a, hp)[i] = a[i]
      BY <2>2
    <3>3. \A i \in 1 .. Len(a) + 1 : i \in 1 .. Len(a) \/ i = Len(a) + 1
      BY <3>1
    <3> QED BY <3>1, <3>2, <3>3 DEF Range
  <2> QED BY <1>5, <2>1, <2>2, <2>3, <2>4
<1> QED BY <1>1, <1>6 DEF ListedInv

\* ... and every call keeps it.
LEMMA ListedNext ==
    ASSUME RevertPrior = FALSE
    PROVE  TypesInv /\ EntriesInv /\ ListedInv /\ [MakeNext]_makeVars => ListedInv'
<1> SUFFICES ASSUME TypesInv, EntriesInv, ListedInv, [MakeNext]_makeVars PROVE ListedInv'
  OBVIOUS
<1>1. WindowInv /\ RecordsInv /\ KeyInv /\ CallerInv /\ ListInv
  BY DEF TypesInv
<1>2. CASE AddEnd
  BY <1>2, ListedEnd
<1>3. ASSUME ent' = ent, added' = added, phase' \in {"begun", "keyed"} => hp'.l = Len(cur'.k)
      PROVE  ListedInv'
  <2>1. Listed' = Listed
    BY <1>3 DEF Listed
  <2>2. ASSUME NEW s \in Slots, NEW n \in Blocks PROVE Range(ent'[s][n]) \subseteq Listed'
    BY <1>3, <2>1 DEF ListedInv
  <2> QED BY <1>3, <2>2 DEF ListedInv
<1>4. CASE UNCHANGED makeVars
  BY <1>3, <1>4 DEF makeVars, listVars, ListedInv
<1>5. \A s : HplistPend(s) \/ HplistNew(s) => ent' = ent
  BY DEF HplistPend, HplistNew
<1>6. HplistRoom \/ HplistNoRoom => ent' = ent
  BY <1>5 DEF HplistRoom, HplistNoRoom, listVars
<1>7. ASSUME NEW r \in Records, AddBegin(r) PROVE ListedInv'
  <2>1. /\ HplistRoom /\ added' = added /\ phase' = "begun"
        /\ hp' = [p |-> pos, h |-> HashInit, l |-> Len(r.k)]
        /\ cur' = [k |-> r.k, d |-> r.d, left |-> r.d]
    BY <1>7 DEF AddBegin
  <2>2. hp'.l = Len(cur'.k)
    BY <2>1
  <2> QED BY <1>3, <1>6, <2>1, <2>2
<1>8. ASSUME NEW r \in Records, AddBeginFails(r) PROVE ListedInv'
  <2>1. (HplistRoom \/ HplistNoRoom) /\ added' = added /\ phase' = "error"
    BY <1>8 DEF AddBeginFails
  <2> QED BY <1>3, <1>6, <2>1
<1>9. CASE AddbufKey
  <2>1. /\ phase = "begun" /\ UNCHANGED listVars /\ added' = added /\ cur' = cur
        /\ hp' = [hp EXCEPT !.h = Hash(@, cur.k)]
    BY <1>9 DEF AddbufKey
  <2>2. PICK hp0, hh, hl : hp = [p |-> hp0, h |-> hh, l |-> hl]
    BY <1>1, WindowTypes
  <2>3. hp'.l = hp.l
    BY <2>1, <2>2
  <2>4. hp.l = Len(cur.k)
    BY <2>1 DEF ListedInv
  <2> QED BY <1>3, <2>1, <2>3, <2>4 DEF listVars
<1>10. CASE AddbufData
  <2>1. /\ phase = "keyed" /\ UNCHANGED listVars /\ added' = added /\ hp' = hp
        /\ \E n : cur' = [cur EXCEPT !.left = @ - n]
    BY <1>10 DEF AddbufData
  <2>2. PICK k \in Seq(Nat), d \in Nat, l \in Nat : cur = [k |-> k, d |-> d, left |-> l]
    BY <1>1, WindowTypes
  <2>3. cur'.k = cur.k
    BY <2>1, <2>2
  <2>4. hp.l = Len(cur.k)
    BY <2>1 DEF ListedInv
  <2> QED BY <1>3, <2>1, <2>3, <2>4 DEF listVars
<1>11. CASE AddRevert
  <2>1. phase # "added" /\ UNCHANGED listVars /\ added' = added /\ phase' = "idle"
    BY <1>11 DEF AddRevert
  <2> QED BY <1>3, <2>1 DEF listVars
<1>12. ASSUME Start \/ StartFails \/ FinishPad \/ FinishSlot \/ FinishFails
              \/ FinishCommit \/ CommitFails \/ Destroy
       PROVE  ListedInv'
  <2>1. ent' = ent
    BY <1>12 DEF Start, StartFails, FinishPad, FinishSlot, FinishFails, FinishCommit, CommitFails, Destroy,
       Released0, FirstLists, FreeLists, FreeUnset, listVars
  <2>2. added' = added /\ phase' \notin {"begun", "keyed"}
    BY <1>12 DEF Start, StartFails, FinishPad, FinishSlot, FinishFails, FinishCommit, CommitFails, Destroy
  <2> QED BY <1>3, <2>1, <2>2
<1> QED BY <1>2, <1>4, <1>7, <1>8, <1>9, <1>10, <1>11, <1>12 DEF MakeNext

\* A record listed for a slot, and its position
LEMMA ListedAt ==
    ASSUME RecordsInv, NEW e \in Listed
    PROVE  \E r \in Range(added) :
              /\ e = EntryOf(r) /\ e.p = r.p /\ r \in Recs /\ e.p \in Nat /\ e.p >= HEADER_SZ
              /\ e.p # 0 /\ EndOf(r) =< NextPos /\ e.p + 8 =< NextPos /\ NextPos \in Nat
<1>1. PICK r \in Range(added) : e = EntryOf(r)
  BY DEF Listed
<1>2. PICK i \in DOMAIN added : r = added[i]
  BY DEF Range
<1>3. Adjoining(added)
  BY DEF RecordsInv
<1>4. r \in Recs /\ r.p \in Nat /\ EndOf(r) \in Nat /\ r.p + 8 =< EndOf(r)
  BY <1>2, <1>3, RecordAt
<1>5. HEADER_SZ \in Nat /\ HEADER_SZ > 0
  BY PowerAssumption DEF HEADER_SZ
<1>6. r.p >= HEADER_SZ
  <2>1. added \in Seq(Recs) /\ DOMAIN added = 1 .. Len(added) /\ Len(added) \in Nat /\ added # <<>>
    BY <1>2, <1>3 DEF Adjoining
  <2>2. 1 \in DOMAIN added /\ added[1].p = HEADER_SZ /\ i \in Nat /\ 1 =< i
    BY <1>3, <2>1 DEF Adjoining
  <2>3. CASE i = 1
    BY <1>2, <1>5, <2>2, <2>3
  <2>4. CASE i # 1
    <3>1. EndOf(added[1]) =< r.p
      BY <1>2, <1>3, <2>2, <2>4 DEF Adjoining
    <3>2. added[1].p + 8 =< EndOf(added[1]) /\ EndOf(added[1]) \in Nat
      BY <1>3, <2>2, RecordAt
    <3> QED BY <1>4, <1>5, <2>2, <3>1, <3>2
  <2> QED BY <2>3, <2>4
<1>7. EndOf(r) =< NextPos /\ NextPos \in Nat
  BY <1>2, <1>3, AfterIs DEF NextPos
<1>8. e.p = r.p
  BY <1>1 DEF EntryOf
<1>9. e.p # 0 /\ e.p + 8 =< NextPos
  BY <1>4, <1>5, <1>6, <1>7, <1>8
<1> QED BY <1>1, <1>4, <1>6, <1>7, <1>8, <1>9

\* What the shift reaches, of entries of either width
LEMMA Reaches ==
    ASSUME bits \in {3, 4}, NEW len \in Nat, len =< 2 ^ (W - bits) PROVE Reached(len)
<1>1. PICK a \in Nat, b \in Nat : a = 2 ^ (W - 4) /\ b = 2 ^ (W - 3)
  BY PowerAssumption
<1>2. CASE bits = 3
  BY <1>1, <1>2 DEF Reached
<1>3. CASE bits = 4
  BY <1>1, <1>3 DEF Reached
<1> QED BY <1>2, <1>3

\* What mcdb_make_finish writes for a slot
LEMMA TableMade ==
    ASSUME TypesInv, EntriesInv, ListedInv, CountInv,
           phase = "tables", NEW s \in Slots, Reached(TableLen(s))
    PROVE  /\ Table(s) \in [0 .. TableLen(s) - 1 -> Listed \cup {EMPTY}]
           /\ TableFor(Table(s), s, TableLen(s))
<1>1. WindowInv /\ RecordsInv /\ KeyInv /\ ListInv
  BY DEF TypesInv
<1>2. NodesInv
  BY <1>1 DEF ListInv
<1>3. Len(added) \in Nat /\ count \in [Slots -> Nat] /\ bits \in {3, 4}
  BY <1>1, WindowTypes DEF RecordsInv, Adjoining
<1>4. PICK E \in Seq(Entry) :
        /\ Entries(s) = E /\ Len(E) = count[s] /\ {e.p : e \in Range(E)} = PosOf(s)
        /\ \A j \in DOMAIN E : \E n \in Blocks : E[j] \in Range(ent[s][n])
        /\ \A j, k \in DOMAIN E : E[j].p = E[k].p => j = k
  BY <1>2, ListHolds
<1>5. TableLen(s) = 2 * count[s] /\ count[s] \in Nat
  BY <1>3, TableFits DEF CountInv
<1> DEFINE len == TableLen(s)
           t   == Table(s)
<1>7. len \in Nat /\ len = 2 * Len(E) /\ len = TableLen(s)
  BY <1>4, <1>5
<1>8. Reached(len)
  OBVIOUS
<1> HIDE DEF len
<1>9. \A j \in DOMAIN E : E[j] \in Listed
  BY <1>4 DEF ListedInv
<1>10. \A j \in DOMAIN E : E[j].p # 0 /\ E[j].p \in PosOf(s)
  <2>1. ASSUME NEW j \in DOMAIN E PROVE E[j].p # 0
    BY <1>1, <1>9, ListedAt
  <2>2. ASSUME NEW j \in DOMAIN E PROVE E[j].p \in PosOf(s)
    BY <1>4 DEF Range
  <2> QED BY <2>1, <2>2
<1>11. Filled(t, E, Len(E), len)
  BY <1>4, <1>7, <1>8, <1>10, TableFills
<1> HIDE DEF t
<1>12. DOMAIN E = 1 .. Len(E)
  OBVIOUS
<1>13. ASSUME NEW i \in 0 .. len - 1, t[i].p # 0 PROVE t[i] \in Listed /\ t[i].p \in PosOf(s)
  <2>1. PICK j \in 1 .. Len(E) : t[i] = E[j]
    BY <1>11, <1>13 DEF Filled
  <2> QED BY <1>9, <1>10, <1>12, <2>1
<1>14. ASSUME NEW p \in PosOf(s) PROVE p # 0 /\ \E i \in 0 .. len - 1 : t[i].p = p
  <2>1. PICK j \in DOMAIN E : E[j].p = p
    BY <1>4 DEF Range
  <2>2. PICK i \in 0 .. len - 1 : t[i] = E[j]
    BY <1>11, <1>12 DEF Filled
  <2> QED BY <1>10, <2>1, <2>2
<1>15. t \in [0 .. len - 1 -> Listed \cup {EMPTY}]
  <2>1. t \in [0 .. len - 1 -> Entry] /\ \A i \in 0 .. len - 1 : t[i].p = 0 => t[i] = EMPTY
    BY <1>11 DEF Filled
  <2>2. \A i \in 0 .. len - 1 : t[i] \in Listed \cup {EMPTY}
    BY <1>13, <2>1
  <2> QED BY <2>1, <2>2
<1>16. \A i, j \in 0 .. len - 1 : t[i].p # 0 /\ t[i].p = t[j].p => i = j
  BY <1>11 DEF Filled
<1>17. Probed(t, len)
  BY <1>11 DEF Filled
<1>18. TableFor(t, s, len)
  BY <1>13, <1>14, <1>16, <1>17 DEF TableFor
<1> QED BY <1>7, <1>15, <1>18 DEF t

\* Tables in the file stay, as long as the records and the width do.
LEMMA OpenKept ==
    ASSUME added' = added, bits' = bits, NEW h, NEW tb, NEW n, NEW end, OpenTables(h, tb, n, end)
    PROVE  OpenTables(h, tb, n, end)'
<1>1. Listed' = Listed /\ \A s : PosOf(s)' = PosOf(s)
  BY DEF Listed, PosOf
<1>2. \A t, s, len : TableFor(t, s, len)' <=> TableFor(t, s, len)
  BY <1>1 DEF TableFor
<1>3. \A t, base, len : Stored(tb, t, base, len)' <=> Stored(tb, t, base, len)
  BY DEF Stored
<1> QED BY <1>1, <1>2, <1>3 DEF OpenTables

\* The position in an entry is that of the record: 32 bits are enough where
\* 8-byte entries are used.
LEMMA DposIs ==
    ASSUME WindowInv, LayoutInv, RecordsInv, phase = "tables", slot < SLOTS, NEW e \in Listed
    PROVE  Dpos(e) = e.p
<1>1. e.p \in Nat /\ e.p + 8 =< NextPos /\ NextPos \in Nat
  BY ListedAt
<1>2. CASE bits = 3
  <2>1. UINT_MAX \in Nat /\ 2 ^ W = UINT_MAX + 1
    BY PowerAssumption, FormatAssumption DEF UINT_MAX
  <2>2. NextPos =< UINT_MAX
    <3>1. CASE slot = 0
      <4>1. NextPos =< pos /\ bits = Width(pos) /\ pos \in Nat
        BY <3>1, WindowTypes DEF RecordsInv, LayoutInv
      <4>2. pos < UINT_MAX
        BY <1>2, <4>1 DEF Width
      <4> QED BY <1>1, <2>1, <4>1, <4>2
    <3>2. CASE slot # 0
      <4>1. slot > 0
        BY <3>2, WindowTypes
      <4>2. NextPos =< hdr[0].hpos /\ TablesTo(hdr, slot, pos)
        BY <4>1 DEF RecordsInv, LayoutInv
      <4>3. bits = Width(hdr[0].hpos) /\ hdr[0].hpos \in Nat
        BY <4>2, SlotsAre DEF TablesTo
      <4>4. hdr[0].hpos < UINT_MAX
        BY <1>2, <4>3 DEF Width
      <4> QED BY <1>1, <2>1, <4>2, <4>3, <4>4
    <3> QED BY <3>1, <3>2
  <2>3. PICK N \in Nat : N = 2 ^ W /\ e.p < N
    BY <1>1, <2>1, <2>2
  <2>4. N \in Nat \ {0} /\ e.p \in 0 .. N - 1
    BY <1>1, <2>3
  <2>5. e.p % N = e.p
    BY <2>4, Remainder
  <2> QED BY <1>2, <2>3, <2>5 DEF Dpos
<1>3. CASE bits # 3
  BY <1>3 DEF Dpos
<1> QED BY <1>2, <1>3

\* Before the first table none is in the file.
LEMMA TablesPad ==
    ASSUME WindowInv, LayoutInv, TablesInv, FinishPad PROVE TablesInv'
<1>1. /\ phase \in Between /\ phase' = "tables" /\ UNCHANGED <<tab, slot, file>>
  BY DEF FinishPad
<1>2. slot = 0 /\ tab = {} /\ file = NoFile
  BY <1>1 DEF LayoutInv, TablesInv, Between
<1>3. slot' = 0 /\ tab' = {} /\ file' = NoFile /\ 0 .. 0 - 1 = {}
  BY <1>1, <1>2
<1>4. OpenTables(hdr, tab, slot, pos)'
  BY <1>3 DEF OpenTables
<1> QED BY <1>1, <1>3, <1>4 DEF TablesInv

\* mcdb_make_finish writes one more table.
LEMMA TablesSlot ==
    ASSUME TypesInv, EntriesInv, ListedInv, CountInv, TablesInv, FinishSlot
    PROVE  TablesInv'
<1> DEFINE len == TableLen(slot)
           t   == Table(slot)
           z   == 2 ^ bits
           Ent(i) == [at |-> pos + i * z, h |-> t[i].h, l |-> t[i].l, v |-> Dpos(t[i])]
           Set == {i \in 0 .. len - 1 : t[i].p # 0}
<1>1. /\ phase = "tables" /\ phase' = "tables" /\ slot < SLOTS /\ slot' = slot + 1 /\ file' = file
      /\ pos' = pos + len * z /\ bits' = bits /\ added' = added
      /\ hdr' = [hdr EXCEPT ![slot] = [hpos |-> pos, hslots |-> len]]
      /\ tab' = tab \cup {Ent(i) : i \in Set}
  BY DEF FinishSlot, Writes, TableSz
<1>2. WindowInv /\ LayoutInv /\ RecordsInv
  BY DEF TypesInv
<1>3. bits \in {3, 4} /\ pos \in Nat /\ slot \in Nat /\ slot \in Slots
  <2>1. slot \in 0 .. SLOTS /\ bits \in {3, 4} /\ pos \in Nat
    BY <1>2, WindowTypes
  <2> QED BY <1>1, <2>1, SlotsAre
<1>4. z \in {8, 16}
  <2>1. 2 ^ 3 = 8 /\ 2 ^ 4 = 16
    OBVIOUS
  <2> QED BY <1>3, <2>1
<1>5. len \in Nat
  <2>1. count \in [Slots -> Nat] /\ Len(added) \in Nat /\ Len(added) =< INT_MAX
    BY <1>1, <1>2, WindowTypes DEF RecordsInv, Adjoining, CountInv
  <2>2. TableLen(slot) = 2 * count[slot] /\ count[slot] \in Nat
    BY <1>3, <2>1, TableFits
  <2> QED BY <2>2
<1>6. ASSUME len =< 2 ^ (W - bits)
      PROVE  /\ t \in [0 .. len - 1 -> Listed \cup {EMPTY}] /\ TableFor(t, slot, len)
             /\ \A i \in 0 .. len - 1 : t[i].p # 0 => Dpos(t[i]) = t[i].p
  <2>1. t \in [0 .. len - 1 -> Listed \cup {EMPTY}] /\ TableFor(t, slot, len)
    <3>1. Reached(len)
      <4> HIDE DEF len
      <4> QED BY <1>3, <1>5, <1>6, Reaches
    <3> QED BY <1>1, <1>3, <3>1, TableMade
  <2>2. ASSUME NEW i \in 0 .. len - 1, t[i].p # 0 PROVE Dpos(t[i]) = t[i].p
    <3>1. t[i] \in Listed
      BY <2>1, <2>2 DEF TableFor
    <3> HIDE DEF t
    <3> QED BY <1>1, <1>2, <3>1, DposIs
  <2> QED BY <2>1, <2>2
<1> HIDE DEF len, t, z
<1>7. OpenTables(hdr, tab, slot, pos)
  BY <1>1 DEF TablesInv
<1>8. hdr \in [Slots -> [hpos : Nat, hslots : Nat]]
  BY <1>2 DEF LayoutInv
<1>9. /\ hdr'[slot].hpos = pos /\ hdr'[slot].hslots = len
      /\ \A s \in 0 .. slot - 1 : /\ hdr'[s] = hdr[s] /\ s \in Slots
                                   /\ hdr[s].hpos \in Nat /\ hdr[s].hslots \in Nat
  <2>1. \A s \in 0 .. slot - 1 : s \in Slots /\ s # slot
    BY <1>1, <1>3, SlotsAre
  <2> QED BY <1>1, <1>3, <1>8, <2>1
<1>10. \A i \in Set : i \in 0 .. len - 1 /\ Ent(i).at = pos + i * z /\ pos + i * z >= pos
                      /\ pos + i * z < pos + len * z
  <2>1. ASSUME NEW i \in 0 .. len - 1 PROVE pos + i * z >= pos /\ pos + i * z < pos + len * z
    BY <1>3, <1>4, <1>5
  <2> QED BY <2>1
<1>11. pos + len * z \in Nat /\ pos =< pos + len * z
  BY <1>3, <1>4, <1>5
<1>12. \A e \in tab' : e.at \in Nat /\ e.at < pos'
  <2>1. SUFFICES ASSUME NEW e \in tab' PROVE e.at \in Nat /\ e.at < pos'
    OBVIOUS
  <2>2. CASE e \in tab
    <3>1. e.at \in Nat /\ e.at < pos
      BY <1>7, <2>2 DEF OpenTables
    <3> QED BY <1>1, <1>3, <1>11, <3>1
  <2>3. CASE e \notin tab
    <3>1. PICK i \in Set : e = Ent(i)
      BY <1>1, <2>1, <2>3
    <3>2. e.at = pos + i * z /\ i \in Nat
      BY <1>10, <3>1
    <3> QED BY <1>1, <1>3, <1>4, <1>10, <3>1, <3>2
  <2> QED BY <2>2, <2>3
\* the tables before it
<1>13. ASSUME NEW s \in 0 .. slot - 1, NEW u,
              Stored(tab, u, hdr[s].hpos, hdr[s].hslots), hdr[s].hpos + hdr[s].hslots * z =< pos
       PROVE  Stored(tab, u, hdr[s].hpos, hdr[s].hslots)'
  <2>1. PICK b \in Nat, n \in Nat : b = hdr[s].hpos /\ n = hdr[s].hslots /\ hdr'[s] = hdr[s]
    BY <1>9
  <2>2. ASSUME NEW i \in 0 .. n - 1 PROVE {e \in tab' : e.at = b + i * z} = {e \in tab : e.at = b + i * z}
    <3>1. b + i * z < pos
      BY <1>3, <1>4, <1>13, <2>1
    <3>2. b + i * z \in Nat
      BY <1>4
    <3>3. \A e \in {Ent(k) : k \in Set} : e.at # b + i * z
      BY <1>3, <1>4, <1>10, <3>1, <3>2
    <3> QED BY <1>1, <3>3
  <2>3. \A i \in 0 .. n - 1 : {e \in tab : e.at = b + i * z} =
            IF u[i].p = 0 THEN {} ELSE {[at |-> b + i * z, h |-> u[i].h, l |-> u[i].l, v |-> u[i].p]}
    BY <1>13, <2>1 DEF Stored, z
  <2>4. \A i \in 0 .. n - 1 : {e \in tab' : e.at = b + i * z} =
            IF u[i].p = 0 THEN {} ELSE {[at |-> b + i * z, h |-> u[i].h, l |-> u[i].l, v |-> u[i].p]}
    BY <2>2, <2>3
  <2> QED BY <1>1, <2>1, <2>4 DEF Stored, z
\* the new one
<1>14. ASSUME len =< 2 ^ (W - bits) PROVE Stored(tab', t, pos, len)
  <2>1. ASSUME NEW i \in 0 .. len - 1
        PROVE  {e \in tab' : e.at = pos + i * z} =
                   IF t[i].p = 0 THEN {}
                   ELSE {[at |-> pos + i * z, h |-> t[i].h, l |-> t[i].l, v |-> t[i].p]}
    <3>1. \A e \in tab : e.at # pos + i * z
      BY <1>3, <1>4, <1>7 DEF OpenTables
    <3>2. \A k \in Set : Ent(k).at = pos + i * z <=> k = i
      BY <1>3, <1>4, <1>10
    <3> HIDE DEF Ent
    <3>3. {e \in tab' : e.at = pos + i * z} = {Ent(k) : k \in {i} \cap Set}
      BY <1>1, <3>1, <3>2
    <3>4. t[i].p # 0 => Ent(i) = [at |-> pos + i * z, h |-> t[i].h, l |-> t[i].l, v |-> t[i].p]
      BY <1>6, <1>14 DEF Ent
    <3> QED BY <3>3, <3>4
  <2> QED BY <2>1 DEF Stored, z
<1>15. Listed' = Listed /\ \A u, s, n : TableFor(u, s, n)' <=> TableFor(u, s, n)
  <2>1. Listed' = Listed /\ \A s : PosOf(s)' = PosOf(s)
    BY <1>1 DEF Listed, PosOf
  <2> QED BY <2>1 DEF TableFor
<1>16. ASSUME NEW s \in 0 .. slot' - 1
       PROVE  /\ hdr'[s].hpos + hdr'[s].hslots * z =< pos'
              /\ hdr'[s].hslots =< 2 ^ (W - bits) =>
                     \E u \in [0 .. hdr'[s].hslots - 1 -> Listed \cup {EMPTY}] :
                        TableFor(u, s, hdr'[s].hslots) /\ Stored(tab, u, hdr[s].hpos, hdr[s].hslots)'
  <2>1. CASE s = slot
    <3>1. hdr'[s].hpos = pos /\ hdr'[s].hslots = len
      BY <1>9, <2>1
    <3>2. ASSUME len =< 2 ^ (W - bits)
          PROVE  \E u \in [0 .. len - 1 -> Listed \cup {EMPTY}] :
                    TableFor(u, slot, len) /\ Stored(tab, u, hdr[s].hpos, hdr[s].hslots)'
      <4>1. PICK u \in [0 .. len - 1 -> Listed \cup {EMPTY}] :
                TableFor(u, slot, len) /\ Stored(tab', u, pos, len)
        BY <1>6, <1>14, <3>2
      <4>2. Stored(tab, u, hdr[s].hpos, hdr[s].hslots)'
        BY <1>1, <2>1, <3>1, <4>1 DEF Stored
      <4> QED BY <4>1, <4>2
    <3>4. hdr'[s].hpos + hdr'[s].hslots * z =< pos'
      BY <1>1, <1>11, <3>1
    <3> QED BY <2>1, <3>1, <3>2, <3>4
  <2>2. CASE s # slot
    <3>1. s \in 0 .. slot - 1
      BY <1>1, <1>3, <2>2
    <3>2. hdr'[s] = hdr[s] /\ hdr[s].hpos + hdr[s].hslots * z =< pos
      BY <1>7, <1>9, <3>1 DEF OpenTables, z
    <3>3. ASSUME hdr[s].hslots =< 2 ^ (W - bits)
          PROVE  \E u \in [0 .. hdr[s].hslots - 1 -> Listed \cup {EMPTY}] :
                    TableFor(u, s, hdr[s].hslots) /\ Stored(tab, u, hdr[s].hpos, hdr[s].hslots)'
      <4>1. PICK u \in [0 .. hdr[s].hslots - 1 -> Listed \cup {EMPTY}] :
                TableFor(u, s, hdr[s].hslots) /\ Stored(tab, u, hdr[s].hpos, hdr[s].hslots)
        BY <1>7, <3>1, <3>3 DEF OpenTables
      <4>2. Stored(tab, u, hdr[s].hpos, hdr[s].hslots)'
        BY <1>13, <3>1, <3>2, <4>1
      <4> QED BY <4>1, <4>2
    <3>5. hdr[s].hpos + hdr[s].hslots * z \in Nat
      BY <1>4, <1>9, <3>1
    <3>6. hdr'[s].hpos + hdr'[s].hslots * z =< pos'
      <4>1. PICK x \in Nat : x = hdr'[s].hpos + hdr'[s].hslots * z /\ x =< pos
        BY <3>2, <3>5
      <4>2. PICK y \in Nat : y = pos' /\ pos =< y
        BY <1>1, <1>11
      <4> QED BY <1>3, <4>1, <4>2
    <3> QED BY <3>2, <3>3, <3>6
  <2> QED BY <2>1, <2>2
<1>17. OpenTables(hdr, tab, slot, pos)'
  <2>1. z' = z
    BY <1>1 DEF z
  <2> QED BY <1>1, <1>12, <1>15, <1>16, <2>1 DEF OpenTables, z
<1>18. file' # NoFile => FALSE
  BY <1>1, <1>2 DEF RecordsInv
<1>19. slot' # 0
  BY <1>1, <1>3
<1> QED BY <1>1, <1>17, <1>18, <1>19 DEF TablesInv

\* No table is there at first.
LEMMA TablesInit == MakeInit => TablesInv
BY DEF MakeInit, TablesInv

\* The invariants that TablesInv rests on
TableParts == TypesInv /\ EntriesInv /\ ListedInv /\ CountInv /\ TablesInv

\* The other calls leave the tables alone, and mcdb_mmap_commit puts them in
\* the file.
LEMMA TablesNext == TableParts /\ [MakeNext]_makeVars => TablesInv'
<1> SUFFICES ASSUME TableParts, [MakeNext]_makeVars PROVE TablesInv'
  OBVIOUS
<1>1. TypesInv /\ EntriesInv /\ ListedInv /\ CountInv /\ TablesInv
  BY DEF TableParts
<1>2. WindowInv /\ LayoutInv /\ RecordsInv
  BY <1>1 DEF TypesInv
<1>3. ASSUME file # NoFile PROVE phase = "done"
  BY <1>2, <1>3 DEF RecordsInv
<1>4. CASE FinishPad
  BY <1>1, <1>2, <1>4, TablesPad
<1>5. CASE FinishSlot
  BY <1>1, <1>5, TablesSlot
<1>6. CASE FinishCommit
  <2>1. /\ phase = "tables" /\ slot = SLOTS /\ phase' = "done"
        /\ file'.hdr = hdr /\ file'.tab = tab /\ file'.size = pos
        /\ bits' = bits /\ added' = added
    BY <1>6 DEF FinishCommit
  <2>2. OpenTables(hdr, tab, SLOTS, pos)
    BY <1>1, <2>1 DEF TablesInv
  <2>3. PICK h, tb, end : h = hdr /\ tb = tab /\ end = pos
    OBVIOUS
  <2>4. OpenTables(h, tb, SLOTS, end)
    BY <2>2, <2>3
  <2>5. OpenTables(h, tb, SLOTS, end)'
    BY <2>1, <2>4, OpenKept
  <2>6. OpenTables(file.hdr, file.tab, SLOTS, file.size)'
    BY <2>1, <2>3, <2>5 DEF SLOTS
  <2> QED BY <2>1, <2>6 DEF TablesInv
<1>7. CASE UNCHANGED makeVars
  <2>1. /\ phase' = phase /\ slot' = slot /\ tab' = tab /\ hdr' = hdr /\ pos' = pos /\ bits' = bits
        /\ added' = added /\ file' = file
    BY <1>7 DEF makeVars
  <2>2. PICK h, tb, n, end, f : h = hdr /\ tb = tab /\ n = slot /\ end = pos /\ f = file
    OBVIOUS
  <2>3. OpenTables(h, tb, n, end) => OpenTables(h, tb, n, end)'
    BY <2>1, OpenKept
  <2>4. OpenTables(f.hdr, f.tab, SLOTS, f.size) => OpenTables(f.hdr, f.tab, SLOTS, f.size)'
    BY <2>1, OpenKept DEF SLOTS
  <2>5. OpenTables(h, tb, n, end)' => OpenTables(hdr, tab, slot, pos)'
    BY <2>1, <2>2
  <2>6. file' # NoFile => (OpenTables(f.hdr, f.tab, SLOTS, f.size)'
                               => OpenTables(file.hdr, file.tab, SLOTS, file.size)')
    BY <2>1, <2>2
  <2> HIDE DEF OpenTables
  <2> QED BY <1>1, <2>1, <2>2, <2>3, <2>4, <2>5, <2>6 DEF TablesInv
\* the calls that write no table
<1>8. CASE MakeNext /\ ~FinishPad /\ ~FinishSlot /\ ~FinishCommit
  <2>1. /\ tab' = tab /\ file' = file /\ phase # "done" /\ phase' \notin {"tables", "done"}
        /\ phase' \notin {"error", "gone"} => phase \notin {"tables", "error", "gone"}
    BY <1>2, <1>8, FinishLeftAlone
  <2>2. file' = NoFile
    BY <1>3, <2>1
  <2> QED BY <1>1, <2>1, <2>2 DEF TablesInv
<1> QED BY <1>4, <1>5, <1>6, <1>7, <1>8

\* Few records for the shift are few for a uint32_t.
LEMMA FewRecords == ASSUME 2 * MaxRecs =< 2 ^ (W - 4) PROVE MaxRecs =< UINT_MAX
<1>1. PICK a \in Nat, b \in Nat : a = 2 ^ (W - 4) /\ b = 2 ^ W /\ b = 16 * a
  BY PowerAssumption
<1>2. UINT_MAX = b - 1 /\ UINT_MAX \in Nat
  BY <1>1, PowerAssumption DEF UINT_MAX
<1>3. MaxRecs \in Nat
  BY MakeAssumption
<1> QED BY <1>1, <1>2, <1>3

\* All that is needed to say what the hash tables hold
LEMMA TablePartsInit == MakeInit => TableParts
BY TypesInit, EntriesInit, ListedInit, CountInit, TablesInit DEF TableParts

\* ... and what every call keeps
LEMMA TablePartsNext ==
    ASSUME RevertPrior = FALSE, MaxRecs =< UINT_MAX
    PROVE  TableParts /\ [MakeNext]_makeVars => TableParts'
<1> SUFFICES ASSUME TableParts, [MakeNext]_makeVars PROVE TableParts'
  OBVIOUS
<1>1. TypesInv /\ EntriesInv /\ ListedInv /\ CountInv /\ TablesInv
  BY DEF TableParts
<1>2. TypesInv'
  BY <1>1, TypesNext
<1>3. WindowInv /\ LayoutInv /\ RecordsInv /\ KeyInv
  BY <1>1 DEF TypesInv
<1>4. EntriesInv' /\ ListedInv'
  BY <1>1, EntriesNext, ListedNext
<1>5. CountInv'
  BY <1>1, <1>3, CountNext
<1> QED BY <1>2, <1>4, <1>5, TablesNext DEF TableParts
=============================================================================
