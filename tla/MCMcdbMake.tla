----------------------------- MODULE MCMcdbMake -----------------------------
(* Small instances of McdbMake.                                            *)
EXTENDS McdbMake

MCMix(h, c) == (h * 3 + c) % 2 ^ W

Rec(keys, lens) == {[k |-> k, d |-> d] : k \in keys, d \in lens}

\* With HashInit 5 the three keys go to slots 0, 1 and 2 of four.  Lengths
\* below and above the window's size, and one that is refused.
MCSizes == Rec({<<1>>}, {0, 23, 70, 120}) \cup Rec({<<2>>}, {0, 70})
           \cup Rec({<<3>>}, {0})

\* One key, no data: many records in one slot
MCOneKey == Rec({<<>>}, {0})

\* A key of slot 0 and one of slot 1, and the records of slot 0 come first.
MCTwoKeys == Rec({<<1>>, <<2>>}, {0})
MCSlotBySlot == \A i \in 1 .. Len(added) - 1 : added[i].k[1] =< added[i + 1].k[1]
=============================================================================
