------------------------------ MODULE McdbMake ------------------------------
(***************************************************************************)
(* Building an mcdb (mcdb_make.c): mcdb_make_start, the calls that add a   *)
(* record (mcdb_make_add is the sequence addbegin, addbuf_key,             *)
(* addbuf_data, addend), mcdb_make_addrevert, mcdb_make_finish and         *)
(* mcdb_make_destroy.  The caller keeps to the contract in the comments:   *)
(* it passes the lengths it announced, and after an error it calls nothing *)
(* but mcdb_make_destroy.                                                  *)
(***************************************************************************)
EXTENDS McdbWindow, McdbHplist, SequencesExt

CONSTANTS Records,      \* [k, d]: what the caller may add
          ChunkSz,      \* bytes of data the caller has at hand at a time
          MaxRecs,      \* bound: records added
          MaxFail,      \* bound: system calls that fail
          RevertPrior,  \* may the caller revert the add it just completed?
          StartFailing  \* may the first mcdb_mmap_upsize fail?

ASSUME MakeAssumption ==
    /\ \A r \in Records : r.k \in Seq(Nat) /\ r.d \in Nat
    /\ ChunkSz \in Nat \ {0} /\ MaxRecs \in Nat /\ MaxFail \in Nat
    /\ RevertPrior \in BOOLEAN /\ StartFailing \in BOOLEAN
ASSUME MakeHashAssumption ==
    \A r \in Records : \A i \in DOMAIN r.k : \A h \in 0 .. UINT_MAX : Mix(h, r.k[i]) \in 0 .. UINT_MAX

VARIABLES
    phase,  \* where the caller is in the protocol
    hp,     \* m->hp = [p, h, l]; l = -1 stands for ~0
    cur,    \* the record being added: [k, d], and left: data still to come
    disk,   \* the data records in the file, as file.recs
    hdr,    \* header[] of mcdb_make_finish, as file.hdr
    tab,    \* hash table entries in the file, as file.tab
    slot,   \* i of mcdb_make_finish
    bits,   \* b of mcdb_make_finish
    wr,     \* [lo, hi): the bytes written last through the window
    added,  \* ghost: the records added and not reverted, in order
    nfail

makeVars == <<pos, windowVars, listVars, phase, hp, cur, disk, hdr, tab, slot,
              bits, wr, added, nfail, file>>

NoWrite == [lo |-> 0, hi |-> 0]
NoRec   == [k |-> <<>>, d |-> 0, left |-> 0]

\* Phases:
\*   new      before mcdb_make_start
\*   idle     between two records
\*   added    the same, and the last call was addend
\*   begun    after addbegin             keyed    after addbuf_key
\*   tables   in mcdb_make_finish, hash tables from "slot" on still to write
\*   error    a call returned an error; mcdb_make_destroy comes next
\*   done     finished                   gone     destroyed without a file
Between == {"idle", "added"}
Phases  == Between \cup {"new", "begun", "keyed", "tables", "error", "done", "gone"}

\* Type invariant of struct mcdb_make and of the record in progress: the
\* caller never hands mcdb_make_addbuf_data more than mcdb_make_addbegin
\* was told (cur.left), and hashes fit a uint32_t.
MakeTypeOK ==
    /\ WindowTypeOK /\ HplistTypeOK
    /\ phase \in Phases
    /\ hp.p \in Nat /\ hp.h \in 0 .. UINT_MAX /\ hp.l \in Nat \cup {-1}
    /\ cur.left \in 0 .. cur.d
    /\ \A r \in disk : r.p \in Nat /\ r.d \in Nat
    /\ slot \in 0 .. SLOTS /\ bits \in {3, 4}
    /\ nfail \in 0 .. MaxFail

MakeInit ==
    /\ pos = HEADER_SZ /\ offset = 0 /\ msz = 0 /\ mapped = FALSE
    /\ fsz = 0 /\ osz = 0
    /\ NoLists
    /\ phase = "new"
    /\ hp = [p |-> HEADER_SZ, h |-> 0, l |-> 0]
    /\ cur = NoRec
    /\ disk = {} /\ tab = {} /\ hdr = [s \in Slots |-> [hpos |-> 0, hslots |-> 0]]
    /\ slot = 0 /\ bits = 3
    /\ wr = NoWrite
    /\ added = <<>>
    /\ nfail = 0
    /\ file = NoFile

\* The call writes n bytes at pos and moves pos past them.
Writes(n) ==
    /\ wr' = [lo |-> pos, hi |-> pos + n]
    /\ pos' = pos + n

Fails == nfail < MaxFail /\ nfail' = nfail + 1

finishVars == <<hdr, tab, slot, bits, file>>

-----------------------------------------------------------------------------
(* mcdb_make_start.                                                        *)

Start ==
    /\ phase = "new"
    /\ FirstLists
    /\ Upsize(MMAP_SZ)
    /\ phase' = "idle"
    /\ UNCHANGED <<pos, hp, cur, disk, wr, added, nfail, finishVars>>

\* malloc fails, or mcdb_mmap_upsize does and the array is freed again
StartFails ==
    /\ phase = "new"
    /\ Fails
    /\ \/ UNCHANGED <<windowVars, listVars>>
       \/ StartFailing /\ UpsizeFails(MMAP_SZ) /\ \E w \in {NIL, WILD} : FreeUnset(w)
    /\ phase' = "gone"
    /\ UNCHANGED <<pos, hp, cur, disk, wr, added, finishVars>>

-----------------------------------------------------------------------------
(* mcdb_make_addbegin.  The flag hp.l = ~0 says that a list is full.       *)

\* mcdb_hplist_alloc, if called, returns true
HplistRoom ==
    \/ hp.l # -1 /\ UNCHANGED listVars
    \/ hp.l = -1 /\ HplistPend(SlotOf(hp.h))
    \/ hp.l = -1 /\ HplistNew(SlotOf(hp.h)) /\ Total < INT_MAX

\* It returns false: malloc fails, or too many records.
HplistNoRoom ==
    /\ hp.l = -1
    /\ \/ Fails /\ pend[SlotOf(hp.h)][head[SlotOf(hp.h)]] = NIL /\ UNCHANGED listVars
       \/ HplistNew(SlotOf(hp.h)) /\ Total >= INT_MAX /\ UNCHANGED nfail

TooLong(r) == Len(r.k) > INT_MAX - 8 \/ r.d > INT_MAX - 8

AddBegin(r) ==
    LET end == pos + RecLen(r.k, r.d) IN
    /\ phase \in Between
    /\ mapped
    /\ Len(added) < MaxRecs
    /\ HplistRoom
    /\ ~TooLong(r)
    /\ Reserve(end)
    /\ Writes(8)
    /\ hp' = [p |-> pos, h |-> HashInit, l |-> Len(r.k)]
    /\ cur' = [k |-> r.k, d |-> r.d, left |-> r.d]
    /\ disk' = {x \in disk : x.p < pos} \cup {[p |-> pos, k |-> r.k, d |-> r.d]}
    /\ phase' = "begun"
    /\ UNCHANGED <<added, nfail, finishVars>>

AddBeginFails(r) ==
    /\ phase \in Between
    /\ mapped
    /\ Len(added) < MaxRecs
    /\ \/ HplistNoRoom /\ UNCHANGED <<hp, windowVars>>
       \/ /\ HplistRoom /\ TooLong(r)
          /\ hp' = [hp EXCEPT !.p = pos, !.h = HashInit]
          /\ UNCHANGED <<windowVars, nfail>>
       \/ /\ HplistRoom /\ ~TooLong(r)
          /\ hp' = [p |-> pos, h |-> HashInit, l |-> Len(r.k)]
          /\ ReserveFails(pos + RecLen(r.k, r.d)) /\ Fails
    /\ phase' = "error"
    /\ wr' = NoWrite
    /\ UNCHANGED <<pos, cur, disk, added, finishVars>>

AddbufKey ==
    /\ phase = "begun"
    /\ hp' = [hp EXCEPT !.h = Hash(@, cur.k)]
    /\ Writes(Len(cur.k))
    /\ phase' = "keyed"
    /\ UNCHANGED <<windowVars, listVars, cur, disk, added, nfail, finishVars>>

\* Mutant: a whole chunk is written, whatever is left of the record.
AddbufChunk ==
    /\ phase = "keyed"
    /\ cur.left > 0
    /\ Writes(ChunkSz)
    /\ cur' = [cur EXCEPT !.left = @ - ChunkSz]
    /\ UNCHANGED <<windowVars, listVars, phase, hp, disk, added, nfail, finishVars>>

\* mcdb_make_addbuf_data, called with what the caller has at hand
AddbufData ==
    LET n == IF cur.left < ChunkSz THEN cur.left ELSE ChunkSz IN
    /\ phase = "keyed"
    /\ n > 0
    /\ Writes(n)
    /\ cur' = [cur EXCEPT !.left = @ - n]
    /\ UNCHANGED <<windowVars, listVars, phase, hp, disk, added, nfail, finishVars>>

AddEnd ==
    LET s == SlotOf(hp.h) IN
    /\ phase = "keyed"
    /\ cur.left = 0
    /\ HplistAdd(s, hp)
    /\ hp' = IF Len(ent[s][head[s]]) = HPLIST - 1 THEN [hp EXCEPT !.l = -1] ELSE hp
    /\ added' = Append(added, [p |-> hp.p, k |-> cur.k, d |-> cur.d])
    /\ cur' = NoRec
    /\ phase' = "added"
    /\ UNCHANGED <<pos, windowVars, disk, wr, nfail, finishVars>>

\* mcdb_make_addrevert: of a record in progress, or of the one just added
AddRevert ==
    /\ phase \in {"begun", "keyed"} \cup IF RevertPrior THEN {"added"} ELSE {}
    /\ pos' = hp.p
    /\ added' = IF phase = "added" THEN Front(added) ELSE added
    /\ cur' = NoRec
    /\ phase' = "idle"
    /\ UNCHANGED <<windowVars, listVars, hp, disk, wr, nfail, finishVars>>

-----------------------------------------------------------------------------
(* mcdb_make_finish: check the number of records, pad, write the table of  *)
(* each slot, commit.  Whatever happens, mcdb_make_destroy is its last     *)
(* step: "error" leads to Destroy and nowhere else.                        *)

\* Mutant: the limit is the whole range of uint32_t.
TooManyUint == Total > UINT_MAX

TooMany == Total > INT_MAX

Padding == (PAD_ALIGN - (pos % PAD_ALIGN)) % PAD_ALIGN

FinishPad ==
    /\ phase \in Between
    /\ mapped
    /\ ~TooMany
    /\ Reserve(pos + Padding)
    /\ Writes(Padding)
    /\ bits' = IF pos + Padding < UINT_MAX THEN 3 ELSE 4
    /\ disk' = {x \in disk : x.p < pos}
    /\ phase' = "tables"
    /\ UNCHANGED <<listVars, hp, cur, added, nfail, hdr, tab, slot, file>>

\* len = count[i] << 1, and (uintptr_t)len << b
TableLen(s) == (2 * count[s]) % 2 ^ W
TableSz     == TableLen(slot) * 2 ^ bits

\* One more entry e in the open hash table t of len entries, the first free
\* one (dpos == 0) from its home on.  The probe reads with a full-width
\* index; the entry is written at q + (u<<b), shifted in 32 bits.
EMPTY == [p |-> 0, h |-> 0, l |-> 0]

Insert(t, e, len) ==
    LET u == CHOOSE i \in 0 .. len - 1 :
                /\ t[i].p = 0
                /\ \A j \in 0 .. len - 1 :
                     t[j].p = 0 => (i - Home(e.h, len)) % len =< (j - Home(e.h, len)) % len
    IN  [t EXCEPT ![u % 2 ^ (W - bits)] = e]

\* The entries of a slot in the order of the list: node by node from the
\* head, each node from its first entry.
Entries(s) == FlattenSeq([i \in 1 .. Len(Walk(lnext[s], head[s])) |->
                             ent[s][Walk(lnext[s], head[s])[i]]])

Table(s) ==
    LET len == TableLen(s) IN
    FoldLeft(LAMBDA t, e : Insert(t, e, len), [i \in 0 .. len - 1 |-> EMPTY], Entries(s))

\* (uint32_t)hp->p when entries are 8 bytes long
Dpos(e) == IF bits = 3 THEN e.p % 2 ^ W ELSE e.p

FinishSlot ==
    LET len == TableLen(slot)
        t   == Table(slot) IN
    /\ phase = "tables"
    /\ slot < SLOTS
    /\ Reserve(pos + TableSz)
    /\ Writes(TableSz)
    /\ hdr' = [hdr EXCEPT ![slot] = [hpos |-> pos, hslots |-> len]]
    /\ tab' = tab \cup {[at |-> pos + i * 2 ^ bits, h |-> t[i].h, l |-> t[i].l,
                         v |-> Dpos(t[i])] : i \in {j \in 0 .. len - 1 : t[j].p # 0}}
    /\ slot' = slot + 1
    /\ UNCHANGED <<listVars, phase, hp, cur, disk, added, nfail, bits, file>>

\* Too many records, or mcdb_mmap_upsize fails for the padding or a table.
FinishFails ==
    /\ \/ /\ phase \in Between
          /\ TooMany
          /\ UNCHANGED <<windowVars, nfail>>
       \/ /\ phase \in Between
          /\ ~TooMany
          /\ ReserveFails(pos + Padding) /\ Fails
       \/ /\ phase = "tables" /\ slot < SLOTS
          /\ ReserveFails(pos + TableSz) /\ Fails
    /\ phase' = "error"
    /\ wr' = NoWrite
    /\ UNCHANGED <<pos, listVars, hp, cur, disk, added, finishVars>>

\* munmap, and the lists go back to the heap
Released0 ==
    /\ mapped' = FALSE
    /\ wr' = NoWrite
    /\ FreeLists
    /\ UNCHANGED <<offset, msz, fsz, osz>>

\* mcdb_mmap_commit (the file is cut to pos and the header is written), then
\* mcdb_make_destroy
FinishCommit ==
    /\ phase = "tables"
    /\ slot = SLOTS
    /\ file' = [size |-> pos, recs |-> disk, hdr |-> hdr, tab |-> tab]
    /\ phase' = "done"
    /\ Released0
    /\ UNCHANGED <<pos, hp, cur, disk, added, nfail, hdr, tab, slot, bits>>

\* ftruncate, msync, lseek or write fails
CommitFails ==
    /\ phase = "tables"
    /\ slot = SLOTS
    /\ Fails
    /\ phase' = "gone"
    /\ Released0
    /\ UNCHANGED <<pos, hp, cur, disk, added, finishVars>>

\* mcdb_make_destroy: after an error, or by a caller that gives up
Destroy ==
    /\ phase \in Between \cup {"begun", "keyed", "error"}
    /\ phase' = "gone"
    /\ Released0
    /\ UNCHANGED <<pos, hp, cur, disk, added, nfail, finishVars>>

MakeNext ==
    \/ Start \/ StartFails
    \/ \E r \in Records : AddBegin(r) \/ AddBeginFails(r)
    \/ AddbufKey \/ AddbufData \/ AddEnd \/ AddRevert
    \/ FinishPad \/ FinishSlot \/ FinishFails \/ FinishCommit \/ CommitFails
    \/ Destroy

MakeSpec == MakeInit /\ [][MakeNext]_makeVars

-----------------------------------------------------------------------------
(* Properties.                                                             *)

\* Every byte is written inside the window and inside the space allocated
\* in the file: mcdb_make_addbegin reserves for all of the record, and the
\* later addbuf calls rely on it.
WritesInside ==
    wr.lo < wr.hi => /\ mapped
                     /\ offset =< wr.lo
                     /\ wr.hi =< offset + msz
                     /\ wr.hi =< osz

\* Positions of the records added whose hash has slot s
PosOf(s) == {r.p : r \in {x \in Range(added) : SlotOf(Hash(HashInit, x.k)) = s}}

\* The lists hold exactly the records added: none is lost or repeated when
\* mcdb_hplist_alloc changes the heads, and every slot keeps its own.
ListsExact ==
    phase \in Between \cup {"begun", "keyed", "tables"} =>
        \A s \in Slots :
            /\ Len(Entries(s)) = count[s]
            /\ {e.p : e \in Range(Entries(s))} = PosOf(s)
            /\ count[s] = Cardinality({e.p : e \in Range(Entries(s))})

\* Once mcdb_make_finish has accepted the number of records, every table has
\* twice as many entries as it needs: count << 1 stays below 2^32.
TablesHalfEmpty ==
    phase = "tables" => \A s \in Slots : TableLen(s) = 2 * count[s]

\* When everything is over, each array of list nodes has been freed exactly
\* once and nothing else has (mcdb_make_destroy walks slot 0 only).
FreedOnce ==
    phase \in {"done", "gone"} =>
        \A n \in Blocks \cup {WILD} : freed[n] = IF n \in 1 .. nblk THEN 1 ELSE 0

-----------------------------------------------------------------------------
(* The inductive invariant behind WritesInside.                            *)

\* The window is inside the file and starts at or before pos.
WindowAt ==
    /\ fsz = osz
    /\ offset + msz =< osz
    /\ offset =< pos

\* What mcdb_make_addbegin has reserved is there for the key and the data, and
\* a record can be given up without leaving the window.
WindowInv ==
    /\ WindowTypeOK
    /\ phase \in Phases
    /\ hp = [p |-> hp.p, h |-> hp.h, l |-> hp.l] /\ hp.p \in Nat
    /\ cur \in [k : Seq(Nat), d : Nat, left : Nat]
    /\ wr \in [lo : Nat, hi : Nat]
    /\ count \in [Slots -> Nat] /\ slot \in 0 .. SLOTS /\ bits \in {3, 4}
    /\ WritesInside
    /\ phase = "new" => offset = 0 /\ msz = 0 /\ wr = NoWrite
    /\ phase \notin {"error", "done", "gone"} => WindowAt
    /\ phase \in {"error", "done", "gone"} => wr = NoWrite
    /\ phase \in Between \cup {"begun", "keyed", "tables"} => mapped
    /\ phase = "begun" => cur.left = cur.d /\ pos + Len(cur.k) + cur.d =< offset + msz
    /\ phase = "keyed" => pos + cur.left =< offset + msz
    /\ phase \in {"begun", "keyed", "added"} => offset =< hp.p

-----------------------------------------------------------------------------
(* Inductive invariants about what ends up in the file.                    *)

Recs     == [p : Nat, k : Seq(Nat), d : Nat]
EndOf(r) == r.p + RecLen(r.k, r.d)

\* Where the record after the last one begins
After(rs) == IF rs = <<>> THEN HEADER_SZ ELSE EndOf(rs[Len(rs)])
NextPos   == After(added)

\* The records of rs follow each other from the header on.
Adjoining(rs) ==
    /\ rs \in Seq(Recs)
    /\ rs # <<>> => rs[1].p = HEADER_SZ
    /\ \A i \in DOMAIN rs : i + 1 \in DOMAIN rs => rs[i + 1].p = EndOf(rs[i])
    /\ \A i, j \in DOMAIN rs : i < j => EndOf(rs[i]) =< rs[j].p

\* The data records in the file are those added, whatever was reverted.
RecordsInv ==
    /\ Adjoining(added)
    /\ disk \subseteq Recs
    /\ phase \in {"new", "idle", "added"} =>
           pos = NextPos /\ {x \in disk : x.p < pos} = Range(added)
    /\ phase = "added" => added # <<>> /\ hp.p = added[Len(added)].p
    /\ phase \in {"begun", "keyed"} =>
           hp.p = NextPos /\ disk = Range(added) \cup {[p |-> hp.p, k |-> cur.k, d |-> cur.d]}
    /\ phase = "begun" => pos = hp.p + 8
    /\ phase = "keyed" => pos + cur.left = hp.p + RecLen(cur.k, cur.d)
    /\ phase = "tables" => disk = Range(added) /\ NextPos =< pos
    /\ phase = "tables" /\ slot > 0 => NextPos =< hdr[0].hpos
    /\ file # NoFile => /\ phase = "done" /\ file.recs = Range(added)
                        /\ NextPos =< file.hdr[0].hpos

\* The width of hash table entries for tables that begin at p
Width(p) == IF p < UINT_MAX THEN 3 ELSE 4

\* The first n tables of h follow each other, and end where the file does now.
TablesTo(h, n, end) ==
    /\ h \in [Slots -> [hpos : Nat, hslots : Nat]]
    /\ h[0].hpos % PAD_ALIGN = 0 /\ bits = Width(h[0].hpos)
    /\ h[0].hpos =< end
    /\ \A s \in 1 .. n - 1 : h[s].hpos = h[s - 1].hpos + h[s - 1].hslots * 2 ^ bits
    /\ end = h[n - 1].hpos + h[n - 1].hslots * 2 ^ bits

\* The hash tables follow the padding without a gap.
LayoutInv ==
    /\ hdr \in [Slots -> [hpos : Nat, hslots : Nat]]
    /\ HEADER_SZ =< pos /\ HEADER_SZ =< hp.p
    /\ phase \notin {"tables", "error", "done", "gone"} => slot = 0
    /\ phase = "tables" /\ slot = 0 => pos % PAD_ALIGN = 0 /\ bits = Width(pos)
    /\ phase = "tables" /\ slot > 0 => TablesTo(hdr, slot, pos)
    /\ file # NoFile => /\ phase = "done" /\ HEADER_SZ =< file.size
                        /\ TablesTo(file.hdr, SLOTS, file.size)

\* The numbers c[s] of all slots add up to n; p[s] is the sum up to slot s.
AddUpTo(c, n) ==
    \E p \in [-1 .. SLOTS - 1 -> 0 .. n] :
        p[-1] = 0 /\ p[SLOTS - 1] = n /\ \A s \in Slots : p[s] = p[s - 1] + c[s]

\* The hash of the record in progress fits a uint32_t, so it has a slot.
KeyInv ==
    /\ hp.h \in 0 .. UINT_MAX
    /\ phase \in {"begun", "keyed"} => \E r \in Records : cur.k = r.k
    /\ phase = "begun" => hp.h = HashInit

\* Every record added is counted in one slot, the number accepted by
\* mcdb_make_finish is a small one, and the tables are as large as it says.
\* (Not so when the caller reverts an add that was complete.)
CountInv ==
    /\ AddUpTo(count, Len(added))
    /\ Len(added) =< MaxRecs
    /\ phase \in {"begun", "keyed"} => Len(added) < MaxRecs
    /\ phase = "tables" => /\ Len(added) =< INT_MAX
                           /\ \A s \in Slots : s < slot => hdr[s].hslots = TableLen(s)
    /\ file # NoFile => /\ Len(added) =< INT_MAX
                        /\ \A s \in Slots : file.hdr[s].hslots = TableLen(s)

-----------------------------------------------------------------------------
(* The inductive invariant about the lists.                                *)

Entry == [p : Nat, h : Nat, l : Int]

ListTypes ==
    /\ head \in [Slots -> Ptr] /\ nblk \in 0 .. MaxBlocks
    /\ lnext \in [Slots -> [Blocks -> Ptr]] /\ pend \in [Slots -> [Blocks -> Ptr]]
    /\ ent \in [Slots -> [Blocks -> Seq(Entry)]]
    /\ freed \in [Blocks \cup {WILD} -> Nat]

\* Whatever is allocated is on the list of its slot or waits.
NodesInv ==
    /\ nblk # 0 /\ freed = [n \in Blocks \cup {WILD} |-> 0]
    /\ \A s \in Slots : NodesInOrder(nblk, head[s], lnext[s], pend[s], ent[s])

\* A list is full only between the call that filled it and the next
\* mcdb_make_addbegin: no other list is full when an array is allocated, and
\* so the nodes that wait are never passed over.
OneFull ==
    /\ phase \in Between => \A s \in Slots : IsFull(s) => hp.l = -1 /\ s = SlotOf(hp.h)
    /\ phase \in {"begun", "keyed"} => \A s \in Slots : ~IsFull(s)

ListInv ==
    /\ ListTypes /\ OneFull
    /\ phase = "new" => NoLists
    /\ phase \notin {"new", "done", "gone"} => NodesInv

\* The entries en of one slot are c in number and have the positions P, each once.
Keeps(en, c, P) ==
    /\ IsFiniteSet(P) /\ c = Cardinality(P)
    /\ \A n \in Blocks : \A i \in DOMAIN en[n] : en[n][i].p \in P
    /\ \A p \in P : \E n \in Blocks : \E i \in DOMAIN en[n] : en[n][i].p = p
    /\ \A n, m \in Blocks : \A i \in DOMAIN en[n], j \in DOMAIN en[m] :
          en[n][i].p = en[m][j].p => n = m /\ i = j

\* Wherever its node is, the entry of a record is in the slot of its hash.
\* (Not so when the caller reverts an add that was complete.)
EntriesInv ==
    /\ phase = "keyed" => hp.h = Hash(HashInit, cur.k)
    /\ \A s \in Slots : Keeps(ent[s], count[s], PosOf(s))

\* What the caller passes next, and failures
CallerInv ==
    /\ hp.l \in Nat \cup {-1}
    /\ cur.left \in 0 .. cur.d
    /\ nfail \in 0 .. MaxFail

-----------------------------------------------------------------------------
(* The inductive invariant about the hash tables.                          *)

\* What the lists and the tables have of a record
EntryOf(r) == [p |-> r.p, h |-> Hash(HashInit, r.k), l |-> Len(r.k)]
Listed     == {EntryOf(r) : r \in Range(added)}

\* Every entry is that of a record.  (Not so when the caller reverts an add
\* that was complete.)
ListedInv ==
    /\ phase \in {"begun", "keyed"} => hp.l = Len(cur.k)
    /\ \A s \in Slots, n \in Blocks : Range(ent[s][n]) \subseteq Listed

\* How far place i is from place h, going on from the end of a table to its start
Dist(i, h, len) == (i - h) % len

\* From the home of an entry on there is no empty place before it.
Probed(t, len) ==
    \A i, j \in 0 .. len - 1 :
        t[i].p # 0 /\ Dist(j, Home(t[i].h, len), len) < Dist(i, Home(t[i].h, len), len)
            => t[j].p # 0

\* The table t has an entry for each record of slot s, once, and no other.
TableFor(t, s, len) ==
    /\ \A i \in 0 .. len - 1 : t[i].p # 0 => t[i] \in Listed /\ t[i].p \in PosOf(s)
    /\ \A p \in PosOf(s) : p # 0 /\ \E i \in 0 .. len - 1 : t[i].p = p
    /\ \A i, j \in 0 .. len - 1 : t[i].p # 0 /\ t[i].p = t[j].p => i = j
    /\ Probed(t, len)

\* tb, the entries in the file, has the table t at base.
Stored(tb, t, base, len) ==
    \A i \in 0 .. len - 1 :
        {e \in tb : e.at = base + i * 2 ^ bits} =
            IF t[i].p = 0 THEN {}
            ELSE {[at |-> base + i * 2 ^ bits, h |-> t[i].h, l |-> t[i].l, v |-> t[i].p]}

\* The first n tables of h are in tb, and nothing from end on.  (Where a table
\* is too long for the 32-bit shift of mcdb_make_finish, entries are lost.)
OpenTables(h, tb, n, end) ==
    /\ \A e \in tb : e.at \in Nat /\ e.at < end
    /\ \A s \in 0 .. n - 1 :
          /\ h[s].hpos + h[s].hslots * 2 ^ bits =< end
          /\ h[s].hslots =< 2 ^ (W - bits) =>
                \E t \in [0 .. h[s].hslots - 1 -> Listed \cup {EMPTY}] :
                   TableFor(t, s, h[s].hslots) /\ Stored(tb, t, h[s].hpos, h[s].hslots)

TablesInv ==
    /\ phase \notin {"tables", "error", "done", "gone"} => tab = {}
    /\ phase = "tables" /\ slot = 0 => tab = {}
    /\ phase = "tables" => OpenTables(hdr, tab, slot, pos)
    /\ file # NoFile => OpenTables(file.hdr, file.tab, SLOTS, file.size)
=============================================================================
