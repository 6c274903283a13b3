--------------------------- MODULE McdbRoundTrip ---------------------------
(***************************************************************************)
(* The writer (McdbMake) and the reader (McdbFind) of one file put         *)
(* together: a database is made, and once it is finished it is searched or *)
(* iterated over.  What is promised is a constant multimap: a key finds    *)
(* the records added under it, and an iteration gives all of them.         *)
(***************************************************************************)
EXTENDS McdbMake, McdbFind

vars == <<makeVars, findVars>>

Init == MakeInit /\ FindInit

Make == MakeNext /\ UNCHANGED findVars
Find == FindAny /\ UNCHANGED <<pos, windowVars, listVars, phase, hp, cur, disk,
                               hdr, tab, slot, bits, wr, added, nfail>>

Next == Make \/ Find

Spec == Init /\ [][Next]_vars

\* Type invariant of the writer and the reader together: struct mcdb_make as in
\* MakeTypeOK, struct mcdb and struct mcdb_iter as in FindTypeOK.
TypeOK == MakeTypeOK /\ FindTypeOK

-----------------------------------------------------------------------------
\* The key a query stands for: tag and key are stored as one.
WholeKey(q) == TagSeq(q.tag) \o q.key

\* Positions of the records added under q
Wanted(q) == {r.p : r \in {x \in Range(added) : x.k = WholeKey(q)}}

\* When a search is over (mcdb_findtagstart or mcdb_findtagnext returned
\* false) it has returned each record added under that key once, and no
\* other, whatever collisions there are and whatever width the entries have.
FindExact == st = "end" => Range(got) = Wanted(find.q) /\ IsInjective(got)

\* m->loop is non-zero exactly while the last search succeeded: callers test
\* it ("prior search must have succeeded", nss_mcdb.c) before they use the
\* record and before they call findnext again.
LoopMeansFound == (find.loop # 0) <=> (st = "next")

\* An iteration gives the records in the order they were added, and never
\* reads a record header across the end of the padding.
IterExact ==
    /\ st = "eof" => got = [i \in DOMAIN added |-> added[i].p]
    /\ (st = "iter" /\ ptr < Eod /\ RecAt(ptr) = {}) => ptr + 8 =< file.hdr[0].hpos

\* Reader and writer agree on the width of hash table entries, which the file
\* does not store: one looks at pos, the other at the file size and the
\* upper half of hpos.
StrideAgrees == file # NoFile => MapBits = bits

\* mcdb_numrecs counts the records added, and mcdb_validate_slots accepts
\* the file.
FileValid == file # NoFile => NumRecs = Len(added) /\ ValidateSlots

-----------------------------------------------------------------------------
(* Inductive invariants behind these properties.                           *)

\* A search: where it is in the table of its slot, and how much of it is left
SearchInv ==
    /\ FindTypeOK
    /\ find = [q |-> find.q, khash |-> find.khash, hpos |-> find.hpos,
               hslots |-> find.hslots, kpos |-> find.kpos, loop |-> find.loop]
    /\ find.hslots \in Nat /\ find.hpos \in Nat /\ find.kpos \in Nat
    /\ st # "none" => file # NoFile
    /\ LoopMeansFound

\* An iteration: the records it has given, and the one that comes next
IterInv ==
    /\ st = "none" => got = <<>>
    /\ st \in {"iter", "eof"} =>
           /\ got \in Seq(Nat) /\ Len(got) =< Len(added)
           /\ \A i \in DOMAIN got : got[i] = added[i].p
    /\ st = "iter" => ptr = IF Len(got) = Len(added) THEN NextPos ELSE added[Len(got) + 1].p
    /\ st = "eof" => Len(got) = Len(added)

\* The i-th entry from the home of the hash looked for
PlaceAt(i) ==
    find.hpos + ((Home(find.khash, find.hslots) + i) % find.hslots) * Stride
Here(i)    == {e \in file.tab : e.at = PlaceAt(i)}

\* A search has met no empty entry yet, and has returned those of the records
\* looked for whose entries it has met, each once.
SearchAt ==
    /\ find.q \in Queries
    /\ find.khash = Hash(HashInit, WholeKey(find.q))
    /\ find.hslots # 0
    /\ file.hdr[SlotOf(find.khash)] = [hpos |-> find.hpos, hslots |-> find.hslots]
    /\ find.kpos = PlaceAt(find.loop)
    /\ \A i \in 0 .. find.loop - 1 : Here(i) # {}
    /\ got \in Seq(Nat) /\ IsInjective(got)
    /\ Range(got) = {p \in Wanted(find.q) :
                        \E i \in 0 .. find.loop - 1 : \E e \in Here(i) : e.v = p}

\* The 32-bit shift with which mcdb_make_finish wrote the entries of the table
\* reaches all of it.
ShortTable == find.hslots =< 2 ^ (W - MapBits)

FindInv ==
    st \in {"start", "next", "end"} =>
        /\ find.hslots = 0 \/ \E s \in Slots : find.hslots = file.hdr[s].hslots
        /\ ShortTable => FindExact /\ (st # "end" => SearchAt)

\* All of them
RoundTripInv == WindowInv /\ LayoutInv /\ RecordsInv /\ SearchInv /\ IterInv
=============================================================================
