----------------------------- MODULE MCNssMcdb -----------------------------
(* Small instances of NssMcdb and NssMcdbOverlap.                          *)
EXTENDS NssMcdbOverlap, TLC

CONSTANTS t1, t2, t3

MCTwo      == {t1, t2}
MCThree    == {t1, t2, t3}
MCSymTwo   == Permutations(MCTwo)
MCSymThree == Permutations(MCThree)

Pointers(threads) ==
    {Shared} \cup {Sess(t) : t \in threads} \cup {Local(t) : t \in threads}
MCTwoPtrs   == Pointers(MCTwo)
MCThreePtrs == Pointers(MCThree)
=============================================================================
