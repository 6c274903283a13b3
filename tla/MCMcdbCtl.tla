----------------------------- MODULE MCMcdbCtl -----------------------------
(* Small instances of McdbCtl.  Keys and data are made of the bytes that   *)
(* the format itself uses.                                                 *)
EXTENDS McdbCtl

MCByte == {"0", "1", "2", "3", "4", "5", "6", "7", "8", "9", "+", ",", ":", "-", ">", "\n"}

R(k, d) == [k |-> k, d |-> d]
Nothing == <<>>
Ten == [i \in 1 .. 11 |-> IF i = 4 THEN ":" ELSE "\n"]

MCDbSet == {<<>>,
            <<R(<<"\n">>, <<"+">>)>>,
            <<R(Nothing, <<":", "1">>), R(<<":", "\n">>, Nothing)>>,
            <<R(<<"-", ">">>, Ten), R(<<"-", ">">>, <<"1">>)>>,
            <<R(<<"+">>, <<"1">>), R(<<",">>, <<"2">>), R(<<"+">>, <<"3">>)>>}

\* A text of one record, cut short or with one byte changed; a number with a
\* leading zero, one that is too large
Good == <<"+", "1", ",", "2", ":", ":", "-", ">", "\n", "+", "\n", "\n">>
MCTexts == {SubSeq(Good, 1, n) : n \in 0 .. Len(Good)}
           \cup {[Good EXCEPT ![i] = c] : i \in DOMAIN Good, c \in {"\n", "1", ":", ">"}}
           \cup {<<"+", "0", "1", ",", "0", ":", "-", "-", ">", "\n", "\n">>,
                 <<"+", "2", "0", ",", "0", ":", "-", "-", ">", "\n", "\n">>,
                 <<"+", "0", ",", "0", "0", ":", "-", ">", "\n", "\n", "+">>,
                 <<"+", "0", "0", "0", ",", "0", "0", ":", "-", ">", "\n", "\n">>}
=============================================================================
