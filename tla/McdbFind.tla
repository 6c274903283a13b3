------------------------------ MODULE McdbFind ------------------------------
(***************************************************************************)
(* Reading an mcdb (mcdb.c): mcdb_findtagstart, mcdb_findtagnext,          *)
(* mcdb_iter_init, mcdb_iter, mcdb_numrecs, mcdb_validate_slots, on the    *)
(* map of one file.  A struct mcdb is used for one query after another, a  *)
(* struct mcdb_iter for one iteration.                                     *)
(***************************************************************************)
EXTENDS McdbFormat, FiniteSets

CONSTANTS Queries,      \* [tag, key]: what is looked up; tag 0 is no tag
          MaxQueries    \* bound: queries made

ASSUME FindAssumption ==
    /\ \A q \in Queries : q.tag \in Nat /\ q.key \in Seq(Nat)
    /\ MaxQueries \in Nat
ASSUME FindHashAssumption ==
    \A q \in Queries : \A h \in 0 .. UINT_MAX :
        /\ Mix(h, q.tag) \in 0 .. UINT_MAX
        /\ \A i \in DOMAIN q.key : Mix(h, q.key[i]) \in 0 .. UINT_MAX

VARIABLES
    st,     \* what was called last: none, start, next, end, iter, eof
    find,   \* struct mcdb: [q, khash, hpos, hslots, kpos, loop]
    ptr,    \* iter->ptr, as an offset from map->ptr
    got,    \* ghost: positions of the records returned so far, in order
    nquery

findVars == <<st, find, ptr, got, nquery>>

FindInit ==
    /\ st = "none"
    /\ find = [q |-> [tag |-> 0, key |-> <<>>], khash |-> 0, hpos |-> 0,
               hslots |-> 0, kpos |-> 0, loop |-> 0]
    /\ ptr = 0
    /\ got = <<>>
    /\ nquery = 0

-----------------------------------------------------------------------------
\* Mutant: the size of the file decides alone.
MapBitsBySize == IF file.size < UINT_MAX THEN 3 ELSE 4

\* mcdb_mmap_init: map->b, from the size of the file or, when it is large,
\* from the upper half of the first hpos
MapBits == IF file.size < UINT_MAX \/ file.hdr[0].hpos < 2 ^ W THEN 3 ELSE 4

Stride == 2 ^ MapBits

\* Type invariant of struct mcdb and struct mcdb_iter: between the calls of a
\* search kpos stays inside the hash table of the slot, and loop never
\* exceeds hslots (mcdb_findtagnext).
FindTypeOK ==
    /\ st \in {"none", "start", "next", "end", "iter", "eof"}
    /\ find.khash \in 0 .. UINT_MAX
    /\ find.loop \in 0 .. find.hslots
    /\ st \in {"start", "next"} =>
           find.kpos - find.hpos \in 0 .. find.hslots * Stride - 1
    /\ ptr \in Nat
    /\ nquery \in 0 .. MaxQueries

TagSeq(tag) == IF tag = 0 THEN <<>> ELSE <<tag>>

\* The hash of the tag, if any, goes before that of the key.
FindStart(q) ==
    LET khash == Hash(Hash(HashInit, TagSeq(q.tag)), q.key)
        e     == file.hdr[SlotOf(khash)] IN
    /\ file # NoFile
    /\ st \in {"none", "next", "end"}
    /\ nquery < MaxQueries
    /\ nquery' = nquery + 1
    /\ got' = <<>>
    /\ \/ /\ e.hslots = 0
          /\ find' = [find EXCEPT !.q = q, !.hpos = e.hpos, !.hslots = 0, !.loop = 0]
          /\ st' = "end"
       \/ /\ e.hslots # 0
          /\ find' = [q |-> q, khash |-> khash, hpos |-> e.hpos, hslots |-> e.hslots,
                      kpos |-> e.hpos + Home(khash, e.hslots) * Stride, loop |-> 0]
          /\ st' = "start"
    /\ UNCHANGED <<ptr, file>>

\* Mutant: kpos does not wrap.
KposUnwrapped(i) == find.kpos + i * Stride

\* The table entry at kpos, i steps on; kpos wraps at the end of the table.
Kpos(i) ==
    find.hpos + (((find.kpos - find.hpos) \div Stride + i) % find.hslots) * Stride
EntryAt(i) == {e \in file.tab : e.at = Kpos(i)}

\* Mutant: hash and length are compared, the key is not.
MatchesHash(e) ==
    /\ e.h = find.khash
    /\ \E r \in file.recs :
        r.p = e.v /\ Len(r.k) = Len(find.q.key) + Len(TagSeq(find.q.tag))

\* The entry's record has the hash and the key that are looked for.  (The
\* klen compared is the record's or, in 16-byte entries, the entry's.)
Matches(e) ==
    LET q == find.q
        n == Len(TagSeq(q.tag)) IN
    /\ e.h = find.khash
    /\ \E r \in file.recs :
        /\ r.p = e.v
        /\ Len(q.key) + n = IF MapBits = 3 THEN Len(r.k) ELSE e.l
        /\ Len(q.key) + n =< Len(r.k)
        /\ q.tag = 0 \/ r.k[1] = q.tag
        /\ SubSeq(r.k, n + 1, n + Len(q.key)) = q.key

\* The loop of mcdb_findtagnext: how many entries it passes over before one
\* that is empty or matches, or all that are left.
Stops(i) == \/ i = find.hslots - find.loop
            \/ EntryAt(i) = {}
            \/ \E e \in EntryAt(i) : Matches(e)
Passed   == CHOOSE i \in 0 .. find.hslots - find.loop :
                Stops(i) /\ \A j \in 0 .. i - 1 : ~Stops(j)
Exhausted == Passed = find.hslots - find.loop

FindNextFound ==
    /\ st \in {"start", "next"}
    /\ ~Exhausted
    /\ \E e \in EntryAt(Passed) : got' = Append(got, e.v)
    /\ find' = [find EXCEPT !.kpos = Kpos(Passed + 1), !.loop = @ + Passed + 1]
    /\ st' = "next"
    /\ UNCHANGED <<ptr, nquery, file>>

\* Mutant: loop is left as it is.
FindNextEndsLoop ==
    /\ st \in {"start", "next"}
    /\ Exhausted \/ EntryAt(Passed) = {}
    /\ find' = [find EXCEPT !.kpos = Kpos(IF Exhausted THEN Passed ELSE Passed + 1)]
    /\ st' = "end"
    /\ UNCHANGED <<ptr, got, nquery, file>>

\* return (m->loop = false)
FindNextEnds ==
    /\ st \in {"start", "next"}
    /\ Exhausted \/ EntryAt(Passed) = {}
    /\ find' = [find EXCEPT !.kpos = Kpos(IF Exhausted THEN Passed ELSE Passed + 1),
                            !.loop = 0]
    /\ st' = "end"
    /\ UNCHANGED <<ptr, got, nquery, file>>

-----------------------------------------------------------------------------
\* Mutant: all of the padding's reach is taken off.
EodAligned == file.hdr[0].hpos - 15

\* mcdb_iter_init: a record starts before eod, 8 bytes being the least
Eod == file.hdr[0].hpos - 7

IterInit ==
    /\ file # NoFile
    /\ st = "none"
    /\ ptr' = HEADER_SZ
    /\ st' = "iter"
    /\ UNCHANGED <<find, got, nquery, file>>

RecAt(p) == {r \in file.recs : r.p = p}

IterRecord ==
    /\ st = "iter"
    /\ ptr < Eod
    /\ \E r \in RecAt(ptr) : /\ got' = Append(got, r.p)
                             /\ ptr' = ptr + RecLen(r.k, r.d)
    /\ UNCHANGED <<st, find, nquery, file>>

\* klen == ~0: in the padding
IterPadding ==
    /\ st = "iter"
    /\ ptr < Eod
    /\ RecAt(ptr) = {}
    /\ ptr' = Eod
    /\ st' = "eof"
    /\ UNCHANGED <<find, got, nquery, file>>

IterEnd ==
    /\ st = "iter"
    /\ ptr >= Eod
    /\ st' = "eof"
    /\ UNCHANGED <<find, ptr, got, nquery, file>>

FindAny ==
    \/ \E q \in Queries : FindStart(q)
    \/ FindNextFound \/ FindNextEnds
    \/ IterInit \/ IterRecord \/ IterPadding \/ IterEnd

-----------------------------------------------------------------------------
\* mcdb_numrecs
NumRecs ==
    LET sum[s \in -1 .. SLOTS - 1] ==
          IF s = -1 THEN 0 ELSE (sum[s - 1] + file.hdr[s].hslots) % 2 ^ W
    IN  sum[SLOTS - 1] \div 2

\* Mutant: entries are taken to be 8 bytes long.
ValidateNarrow ==
    LET end(s) == file.hdr[s].hpos + file.hdr[s].hslots * 8 IN
    /\ HEADER_SZ =< file.size
    /\ \A s \in Slots \ {0} : file.hdr[s].hpos = end(s - 1)
    /\ end(SLOTS - 1) = file.size

\* mcdb_validate_slots: each table starts where the one before it ends, and
\* the last one ends with the file.
ValidateSlots ==
    LET end(s) == file.hdr[s].hpos + file.hdr[s].hslots * Stride IN
    /\ HEADER_SZ =< file.size
    /\ \A s \in Slots \ {0} : file.hdr[s].hpos = end(s - 1)
    /\ end(SLOTS - 1) = file.size
=============================================================================
