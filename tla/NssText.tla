------------------------------- MODULE NssText -------------------------------
(***************************************************************************)
(* The parsers of nss_mcdbctl: the text files of /etc, a line at a time,   *)
(* into the entries that are handed to w->encode (the *_parse functions of *)
(* nss_mcdb_netdb_make.c, nss_mcdb_acct_make.c, nss_mcdb_authn_make.c).    *)
(* A text is a sequence of characters, one-letter strings; the byte after  *)
(* the last one is NUL.  A parser gives [ok, ents]: what it returns and    *)
(* the entries it has found on the way.                                    *)
(***************************************************************************)
EXTENDS Integers, Sequences

CONSTANTS MaxList,   \* aliases or members that the parser's array holds
          IntMax, UshrtMax, UintMax,
          UlongMax   \* ULONG_MAX: UintMax, or that of a wider type

ASSUME WidthAssumption ==
    /\ IntMax \in Nat /\ UintMax = 2 * IntMax + 1
    /\ UlongMax \in Nat /\ (UlongMax + 1) % (UintMax + 1) = 0

NUL == ""
NL  == "\n"

At(t, p) == IF p \in DOMAIN t THEN t[p] ELSE NUL

\* The first position from p on whose character is in S, or the end
Upto(t, p, S) ==
    CHOOSE q \in p .. (Len(t) + 1) : /\ At(t, q) \in S \cup {NUL}
                                     /\ \A r \in p .. (q - 1) : t[r] \notin S
SkipBlank(t, p) ==
    CHOOSE q \in p .. (Len(t) + 1) : /\ At(t, q) # " "
                                     /\ \A r \in p .. (q - 1) : t[r] = " "
WordEnd(t, p) == Upto(t, p, {" ", "#", NL})
FieldEnd(t, p) == Upto(t, p, {":", NL})

\* The position of the first line's newline from the comment at p on
CommentEnd(t, p) == Upto(t, p + 1, {NL})

\* strtol(b, &e, 10): the number, and what e points at
Digit == [c \in {"0", "1", "2", "3"} |-> CASE c = "0" -> 0 [] c = "1" -> 1 [] c = "2" -> 2 [] OTHER -> 3]
DigitsEnd(s, d) ==
    CHOOSE q \in d .. (Len(s) + 1) : /\ At(s, q) \notin DOMAIN Digit
                                     /\ \A r \in d .. (q - 1) : s[r] \in DOMAIN Digit
StrtolDigits(s, sign, d, e) ==
    LET val[i \in (d - 1) .. (e - 1)] == IF i < d THEN 0 ELSE 10 * val[i - 1] + Digit[s[i]]
    IN IF e = d THEN [n |-> 0, e |-> 1] ELSE [n |-> sign * val[e - 1], e |-> e]
StrtolAt(s, b) == IF At(s, b) = "-" THEN StrtolDigits(s, -1, b + 1, DigitsEnd(s, b + 1))
                                    ELSE StrtolDigits(s, 1, b, DigitsEnd(s, b))
Strtol(s) == StrtolAt(s, SkipBlank(s, 1))

IsNumber(s) == Strtol(s).e > Len(s)

Bad == [ok |-> FALSE, ents |-> <<>>]

-----------------------------------------------------------------------------
(* Files of words: address or name, a second word, aliases, # comments.    *)

\* The loop over the aliases from p on, where c is the character that ended
\* the word before.  "cut" says that the character at p has been overwritten
\* by the NUL that ends the last word.
RECURSIVE Aliases(_, _, _, _)
Aliases(t, p, c, names) ==
    IF c \in {"#", NL} THEN [ok |-> TRUE, p |-> p, c |-> c, cut |-> TRUE, names |-> names]
    ELSE LET b == SkipBlank(t, p + 1)
             e == WordEnd(t, b)
         IN IF At(t, e) = NUL THEN [ok |-> FALSE]
            ELSE IF At(t, b) \in {"#", NL}
            THEN [ok |-> TRUE, p |-> e, c |-> At(t, e), cut |-> FALSE, names |-> names]
            ELSE IF Len(names) = MaxList THEN [ok |-> FALSE]
            ELSE Aliases(t, e, At(t, e), Append(names, SubSeq(t, b, e - 1)))

\* Mutant: a comment after an entry is not skipped.
LineEndHere(t, a) == a.p

\* "find newline (to prep for beginning of next line)"
LineEnd(t, a) == IF a.c = NL THEN a.p
                 ELSE IF a.cut THEN Len(t) + 1
                 ELSE CommentEnd(t, a.p)

\* inet_pton: one digit stands for an IPv4 address, a colon and a digit for IPv6
AF_INET  == 2
AF_INET6 == 10
Pton(type, s) == CASE type = AF_INET  -> Len(s) = 1 /\ s[1] \in DOMAIN Digit
                   [] type = AF_INET6 -> Len(s) = 2 /\ s[1] = ":" /\ s[2] \in DOMAIN Digit
                   [] OTHER -> FALSE

\* What a line's first two words make, without its aliases: a set, empty if
\* they are not valid.
HostEntry(f1, f2) ==
    {[strs |-> <<f2>>, list |-> <<>>, nums |-> <<type>>, addr |-> f1] :
        type \in {y \in {AF_INET, AF_INET6} : Pton(y, f1)}}
NetEntry(f1, f2) ==
    {[strs |-> <<f1>>, list |-> <<>>, nums |-> <<type, Strtol(f2).n>>] :
        type \in {y \in {AF_INET} : Pton(y, f2)}}
NumberEntry(f1, f2) ==
    {[strs |-> <<f1>>, list |-> <<>>, nums |-> <<n>>] :
        n \in {m \in {Strtol(f2).n} : IsNumber(f2) /\ 0 <= m /\ m < IntMax}}

\* port/proto; the protocol is the first string of the record
ServEntry(f1, f2) ==
    LET e == Strtol(f2).e
    IN {[strs |-> <<SubSeq(f2, e + 1, Len(f2)), f1>>, list |-> <<>>, nums |-> <<n>>] :
          n \in {m \in {Strtol(f2).n} : At(f2, e) = "/" /\ e < Len(f2)
                                        /\ 0 <= m /\ m <= UshrtMax}}

EntryOf(db, f1, f2) == CASE db = "hosts"    -> HostEntry(f1, f2)
                         [] db = "networks" -> NetEntry(f1, f2)
                         [] db = "services" -> ServEntry(f1, f2)
                         [] OTHER           -> NumberEntry(f1, f2)

RECURSIVE WordLines(_, _, _, _)
WordLines(db, t, p, ents) ==
    LET b1 == SkipBlank(t, p)
        e1 == WordEnd(t, b1)
        b2 == SkipBlank(t, e1 + 1)
        e2 == WordEnd(t, b2)
        es == EntryOf(db, SubSeq(t, b1, e1 - 1), SubSeq(t, b2, e2 - 1))
        a  == Aliases(t, e2, At(t, e2), <<>>)
    IN IF At(t, p) = NUL THEN [ok |-> TRUE, ents |-> ents]
       ELSE IF At(t, b1) = NL THEN WordLines(db, t, b1 + 1, ents)
       ELSE IF At(t, b1) = "#"
       THEN IF At(t, CommentEnd(t, b1)) = NL THEN WordLines(db, t, CommentEnd(t, b1) + 1, ents)
                                             ELSE Bad
       ELSE IF At(t, e1) \in {NL, NUL} \/ At(t, e2) = NUL \/ At(t, b2) \in {"#", NL} THEN Bad
       ELSE IF es = {} \/ ~a.ok THEN Bad
       ELSE IF At(t, LineEnd(t, a)) # NL THEN Bad
       ELSE WordLines(db, t, LineEnd(t, a) + 1,
                      Append(ents, [(CHOOSE e \in es : TRUE) EXCEPT !.list = a.names]))

hosts_parse(t)     == WordLines("hosts", t, 1, <<>>)
networks_parse(t)  == WordLines("networks", t, 1, <<>>)
protocols_parse(t) == WordLines("protocols", t, 1, <<>>)
rpc_parse(t)       == WordLines("rpc", t, 1, <<>>)
services_parse(t)  == WordLines("services", t, 1, <<>>)

-----------------------------------------------------------------------------
(* Files of fields separated by colons, one entry to a line.               *)

\* The ends of n fields from p on: the first n - 1 end in a colon
Ends(t, p, n) ==
    LET end[i \in 1 .. n] == IF i = 1 THEN FieldEnd(t, p)
                             ELSE IF At(t, end[i - 1]) = ":" THEN FieldEnd(t, end[i - 1] + 1)
                             ELSE end[i - 1]
    IN end
FieldsOf(t, p, end) ==
    [i \in DOMAIN end |-> SubSeq(t, IF i = 1 THEN p ELSE end[i - 1] + 1, end[i] - 1)]

\* pw_uid, pw_gid, gr_gid: -1 is no id, -2 is "nobody"
IdOf(n) == IF n \in 0 .. UintMax THEN n ELSE IF n = -2 THEN UintMax - 1 ELSE UintMax
IsId(s) == s # <<>> /\ IsNumber(s) /\ IdOf(Strtol(s).n) # UintMax

\* nss_mcdb_authn_make_parse_long_int_colon: -1 if the field is empty; for
\* sp_flag, which is unsigned long, that is ~0
OptNum(s)  == IF s = <<>> THEN -1 ELSE Strtol(s).n
OptFlag(s) == IF s = <<>> THEN UlongMax ELSE Strtol(s).n
SpNums(f)  == [i \in 1 .. 6 |-> OptNum(f[i + 2])] \o <<OptFlag(f[9])>>
IsOptInt(s) == s = <<>> \/ (IsNumber(s) /\ Strtol(s).n \in (-IntMax - 1) .. IntMax)
IsOptFlag(s) == s = <<>> \/ (IsNumber(s) /\ Strtol(s).n \in 0 .. UintMax)

\* What the line makes whose fields f end at end: the set of [ent, p], empty
\* if it is not valid.
PasswdLine(t, f, end) ==
    {[ent |-> [strs |-> <<f[1], f[2], f[5], f[6], f[7]>>,
               nums |-> <<IdOf(Strtol(f[3]).n), IdOf(Strtol(f[4]).n)>>],
      p |-> q] :
       q \in {x \in {end[7]} : /\ At(t, x) = NL
                               /\ \A i \in 1 .. 6 : At(t, end[i]) = ":"
                               /\ f[1] # <<>> /\ f[2] # <<>>
                               /\ IsId(f[3]) /\ IsId(f[4])}}

\* gr_mem: the members from p on, separated by commas
RECURSIVE Members(_, _, _)
Members(t, p, names) ==
    LET e == Upto(t, p, {",", NL})
        more == Append(names, SubSeq(t, p, e - 1))
    IN IF At(t, p) = NL THEN {[list |-> names, p |-> p]}
       ELSE IF At(t, e) = NUL \/ Len(names) = MaxList THEN {}
       ELSE IF At(t, e) = NL THEN {[list |-> more, p |-> e]}
       ELSE Members(t, e + 1, more)

GroupLine(t, f, end) ==
    IF (\A i \in 1 .. 3 : At(t, end[i]) = ":") /\ f[1] # <<>> /\ f[2] # <<>> /\ IsId(f[3])
    THEN {[ent |-> [strs |-> <<f[1], f[2]>>, list |-> x.list, nums |-> <<IdOf(Strtol(f[3]).n)>>],
           p |-> x.p] : x \in Members(t, end[3] + 1, <<>>)}
    ELSE {}

ShadowLine(t, f, end) ==
    {[ent |-> [strs |-> <<f[1], f[2]>>, nums |-> SpNums(f)], p |-> q] :
       q \in {x \in {end[9]} : /\ At(t, x) = NL
                               /\ \A i \in 1 .. 8 : At(t, end[i]) = ":"
                               /\ f[1] # <<>> /\ f[2] # <<>>
                               /\ \A i \in 3 .. 8 : IsOptInt(f[i])
                               /\ IsOptFlag(f[9])}}

Fields == [passwd |-> 7, group |-> 3, shadow |-> 9]
LineOf(db, t, f, end) == CASE db = "passwd" -> PasswdLine(t, f, end)
                           [] db = "group"  -> GroupLine(t, f, end)
                           [] db = "shadow" -> ShadowLine(t, f, end)
LineFrom(db, t, p, end) == LineOf(db, t, FieldsOf(t, p, end), end)

\* The lines from p on; then those that follow a comment or a line of the set ls.
RECURSIVE ColonLines(_, _, _, _), AfterComment(_, _, _, _), AfterLine(_, _, _, _)
ColonLines(db, t, p, ents) ==
    CASE At(t, p) = NUL -> [ok |-> TRUE, ents |-> ents]
      [] At(t, p) = "#" -> AfterComment(db, t, CommentEnd(t, p), ents)
      [] OTHER          -> AfterLine(db, t, LineFrom(db, t, p, Ends(t, p, Fields[db])), ents)
AfterComment(db, t, q, ents) ==
    IF At(t, q) = NUL THEN [ok |-> TRUE, ents |-> ents] ELSE ColonLines(db, t, q + 1, ents)
AfterLine(db, t, ls, ents) ==
    IF ls = {} THEN Bad
    ELSE LET l == CHOOSE x \in ls : TRUE IN ColonLines(db, t, l.p + 1, Append(ents, l.ent))

passwd_parse(t) == ColonLines("passwd", t, 1, <<>>)
group_parse(t)  == ColonLines("group", t, 1, <<>>)
shadow_parse(t) == ColonLines("shadow", t, 1, <<>>)
=============================================================================
