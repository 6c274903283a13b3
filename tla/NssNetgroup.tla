----------------------------- MODULE NssNetgroup -----------------------------
(***************************************************************************)
(* The netgroup database.  /etc/netgroup defines groups by triples and by  *)
(* other groups; nss_mcdbctl numbers both, resolves the subgroups of every *)
(* group and stores its triples in one record.  A text is a sequence of    *)
(* words (names of groups, triples) and newlines; blanks and continued     *)
(* lines are what separates the words.                                     *)
(***************************************************************************)
EXTENDS Integers, Sequences, FiniteSets, SequencesExt

CONSTANTS NgNames,      \* words that name a group
          NgTriples,    \* the triple that a word of the form (h,u,d) denotes
          tolower,      \* the lower case of a host or a domain
          NgRows, NgCols  \* the size of the table of ids: 64 and 64 in the code

EOL == "\n"
CatchAll == [h |-> "", u |-> "", d |-> ""]

-----------------------------------------------------------------------------
(* Parsing: g and r number the groups and the triples from 0 on (0 is not  *)
(* a group, and the triple (,,)); ap gives each group the ids of its       *)
(* rules, n for a triple, -n for a group.                                  *)

\* netgroup_node_insert_id: the table with x in it, and the id of x
Insert(table, x) == IF x \in ToSet(table) THEN table ELSE Append(table, x)
IdIn(table, x) == (CHOOSE i \in DOMAIN table : table[i] = x) - 1

netgroup_string_triple_id(t) == [h |-> tolower[t.h], u |-> t.u, d |-> tolower[t.d]]

\* netgroup_id: a new group has no rules
netgroup_id(s, name) ==
    IF name \in ToSet(s.g) THEN s
    ELSE [s EXCEPT !.g = Append(@, name), !.ap = Append(@, <<>>)]

NgInit == [ok |-> TRUE, at |-> "bol", name |-> "", g |-> <<"">>, r |-> <<CatchAll>>, ap |-> <<<<>>>>]

\* netgroup_parse_ngrule: one rule of the group that the line began with
netgroup_parse_ngrule(s, w) ==
    LET s1 == netgroup_id(s, s.name)
        s2 == IF w \in NgNames THEN netgroup_id(s1, w)
              ELSE [s1 EXCEPT !.r = Insert(@, netgroup_string_triple_id(NgTriples[w]))]
        id == IF w \in NgNames THEN -IdIn(s2.g, w)
              ELSE IdIn(s2.r, netgroup_string_triple_id(NgTriples[w]))
    IN [s2 EXCEPT !.at = "rules", !.ap[IdIn(s2.g, s.name) + 1] = Append(@, id)]

\* netgroup_parse_ng, a word at a time.  A name alone on its line is skipped.
netgroup_parse_ng(s, w) ==
    CASE ~s.ok                             -> s
      [] s.at = "comment"                  -> IF w = EOL THEN [s EXCEPT !.at = "bol"] ELSE s
      [] w = EOL                           -> [s EXCEPT !.at = "bol"]
      [] s.at = "bol" /\ w = "#"           -> [s EXCEPT !.at = "comment"]
      [] s.at = "bol" /\ w \in NgNames     -> [s EXCEPT !.at = "name", !.name = w]
      [] s.at = "bol" \/ w = "#"           -> [s EXCEPT !.ok = FALSE]
      [] OTHER                             -> netgroup_parse_ngrule(s, w)

-----------------------------------------------------------------------------
(* Resolving.  uniq is the table of the ids already met for the group: rows *)
(* 0 to N - 1, of NgCols columns each.                                     *)

\* netgroup_ngdata_uniq_resize: four times the rows, with the ids of the old
netgroup_ngdata_uniq_resize(uniq) ==
    LET nold == Cardinality(DOMAIN uniq)
        n == 4 * nold
        ids == FlattenSeq([i \in 1 .. nold |-> uniq[i - 1]])
    IN [i \in 0 .. n - 1 |-> SelectSeq(ids, LAMBDA id : id % n = i)]

RECURSIVE MakeRoom(_, _)
MakeRoom(uniq, id) ==
    IF Len(uniq[id % Cardinality(DOMAIN uniq)]) = NgCols
    THEN MakeRoom(netgroup_ngdata_uniq_resize(uniq), id) ELSE uniq

\* netgroup_datastr_uniq_id: {} if the id is already there
netgroup_datastr_uniq_id(uniq, id) ==
    IF id \in ToSet(uniq[id % Cardinality(DOMAIN uniq)]) THEN {}
    ELSE LET u == MakeRoom(uniq, id)
         IN {[u EXCEPT ![id % Cardinality(DOMAIN u)] = Append(@, id)]}

\* netgroup_datastr_recurse: a is [uniq, data]
RECURSIVE netgroup_datastr_recurse(_, _, _, _)
netgroup_datastr_recurse(ap, subg, id, a) ==
    LET Rule(b, x) ==
          LET met == IF subg THEN netgroup_datastr_uniq_id(b.uniq, x) ELSE {b.uniq}
              c == [b EXCEPT !.uniq = CHOOSE u \in met : TRUE]
          IN IF met = {} THEN b
             ELSE IF x >= 0 THEN [c EXCEPT !.data = Append(@, x)]
             ELSE netgroup_datastr_recurse(ap, subg, -x, c)
    IN FoldLeft(Rule, a, ap[id + 1])

\* netgroup_datastr: the table is used only for a group that has subgroups,
\* starts empty, and knows the group itself; its size is that of the last one.
netgroup_datastr(ap, id, nuniq) ==
    LET subg == \E i \in DOMAIN ap[id + 1] : ap[id + 1][i] < 0
        empty == [i \in 0 .. nuniq - 1 |-> <<>>]
        uniq == IF subg THEN CHOOSE u \in netgroup_datastr_uniq_id(empty, -id) : TRUE ELSE empty
    IN netgroup_datastr_recurse(ap, subg, id, [uniq |-> uniq, data |-> <<>>])

\* netgrent_encode: a record for every group that has rules, in order of id
netgrent_encode(s) ==
    LET All[id \in 0 .. Len(s.g) - 1] ==
          IF id = 0 THEN [nuniq |-> NgRows, recs |-> <<>>]
          ELSE LET d == netgroup_datastr(s.ap, id, All[id - 1].nuniq)
                   rules == [i \in DOMAIN d.data |-> s.r[d.data[i] + 1]]
               IN [nuniq |-> Cardinality(DOMAIN d.uniq),
                   recs |-> All[id - 1].recs \o
                     IF rules = <<>> THEN <<>>
                     ELSE <<[tag |-> "=", key |-> s.g[id + 1], data |-> [rules |-> rules]]>>]
    IN All[Len(s.g) - 1].recs

netgroup_parse(text) ==
    LET s == FoldLeft(netgroup_parse_ng, NgInit, text)
    IN IF s.ok THEN [st |-> "ok", recs |-> netgrent_encode(s)] ELSE [st |-> "fail"]

-----------------------------------------------------------------------------
(* Queries.  Every name is one character and its NUL.                      *)

RuleLen(t) == 2 * Cardinality({f \in {"h", "u", "d"} : t[f] # ""})

\* getnetgrent_decode: the rule at position i; nothing moves on ERANGE
getnetgrent_decode(rules, i, bufsz) ==
    CASE i > Len(rules)             -> [st |-> "NOTFOUND"]
      [] RuleLen(rules[i]) >= bufsz -> [st |-> "TRYAGAIN"]
      [] OTHER                      -> [st |-> "SUCCESS", ent |-> rules[i]]

\* innetgr_decode: an argument or a field that is not given matches all
innetgr_decode(rules, q) ==
    \E i \in DOMAIN rules : /\ q.h = "" \/ rules[i].h \in {"", tolower[q.h]}
                            /\ q.u = "" \/ rules[i].u \in {"", q.u}
                            /\ q.d = "" \/ rules[i].d \in {"", tolower[q.d]}
=============================================================================
