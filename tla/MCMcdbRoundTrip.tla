-------------------------- MODULE MCMcdbRoundTrip --------------------------
(* Small instances of McdbRoundTrip.  Hashes are chosen so that keys       *)
(* collide and tables wrap around.                                         *)
EXTENDS McdbRoundTrip

MCMix(h, c) == (h * 3 + c) % 2 ^ W

Rec(keys, lens) == {[k |-> k, d |-> d] : k \in keys, d \in lens}

\* With HashInit 4: <<1, 8>> and <<2, 5>> have hash 47 (slot 1, home in the
\* last place of a table of 2, 4 or 6 entries), <<1>> has hash 13 (slot 1, too),
\* <<2>> has hash 14 (slot 0).  Three records of data length 61 cross 2^8;
\* of data length 58 they do not, but their hash tables do.
MCRecords == Rec({<<1>>, <<1, 8>>}, {0, 61}) \cup Rec({<<2, 5>>}, {0, 58})
             \cup Rec({<<2>>}, {0})
MCQueries == {[tag |-> 0, key |-> k] : k \in {<<1>>, <<1, 8>>, <<2>>, <<3>>}}
             \cup {[tag |-> 2, key |-> <<5>>], [tag |-> 2, key |-> <<8>>]}

\* One key and no data: many records in one slot (<<28>> has hash 40: its home
\* is in the upper half of a table of 34 entries)
MCOneRecord == Rec({<<28>>}, {0})
MCOneQuery == {[tag |-> 0, key |-> <<28>>]}
=============================================================================
