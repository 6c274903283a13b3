---------------------------- MODULE MCNssEntries ----------------------------
EXTENDS NssFlatFile

MCFragments ==
  [hosts     |-> {<<"1", " ", "a">>, <<":", "1", " ", " ", "b">>, <<" ", "a">>, <<" ", "#">>, <<"#">>, <<NL>>},
   networks  |-> {<<"a", " ", "1">>, <<"b", " ", "2">>, <<" ", "b", " ">>, <<" ", "#">>, <<NL>>},
   protocols |-> {<<"a", " ", "1">>, <<"b", " ", " ">>, <<"2">>, <<" ", "b">>, <<" ", "#">>, <<NL>>},
   rpc       |-> {<<"a", " ", "1", " ">>, <<"b", " ", "0">>, <<" ", "a">>, <<"#">>, <<NL>>},
   services  |-> {<<"a", " ", "1", "/", "t">>, <<"b", " ", "1", "/", "u">>, <<"a", " ", "/">>, <<" ", "b">>,
                  <<" ", "#">>, <<NL>>},
   passwd    |-> {<<"a", ":", "x", ":", "1", ":", "1", ":", ":">>, <<"b", ":", "x", ":", "-", "2", ":", "1">>,
                  <<":", "g">>, <<":">>, <<"#">>, <<NL>>},
   group     |-> {<<"g", ":", "x", ":", "1", ":">>, <<"h", ":", "x", ":", "2", ":", "u">>,
                  <<"u">>, <<",", "v">>, <<",">>, <<"#">>, <<NL>>},
   shadow    |-> {<<"a", ":", "x", ":", "1", ":", ":", ":", ":">>, <<"b", ":", "y", ":", ":", ":", ":">>,
                  <<":", ":">>, <<"2">>, <<"#">>, <<NL>>},
   netgroup  |-> {<<"a", "b">>, <<"b", "a">>, <<"b">>, <<"c", "(h,u,)">>, <<"(h,u,)">>, <<"(H,,d)">>, <<NL>>}]

\* Five groups that list the same user
MCGroupLines == [group |-> {<<"g", ":", "x", ":", n, ":", "u", NL>> : n \in {"0", "1", "2", "3"}}
                           \cup {<<"g", ":", "x", ":", "1", "0", ":", "u", NL>>}]

MCTriples == [w \in {"(h,u,)", "(H,,d)"} |-> IF w = "(h,u,)" THEN [h |-> "h", u |-> "u", d |-> ""]
                                             ELSE [h |-> "H", u |-> "", d |-> "d"]]
MCTolower == [c \in {"", "h", "H", "d"} |-> IF c = "H" THEN "h" ELSE c]
MCBufMax == [hosts |-> 49, networks |-> 30, protocols |-> 40, rpc |-> 30, services |-> 30,
             passwd |-> 11, group |-> 40, shadow |-> 4]
MCBufs == {[sz |-> 2, al |-> 1], [sz |-> 24, al |-> 0], [sz |-> 24, al |-> 7], [sz |-> 64, al |-> 3]}
MCDbs == DOMAIN MCFragments
=============================================================================
