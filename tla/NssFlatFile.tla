----------------------------- MODULE NssFlatFile -----------------------------
(***************************************************************************)
(* What the files of /etc say, read as their formats are documented: lines *)
(* of words or of fields, comments, the first line that matches.  The name *)
(* service is correct if it answers as a scan of the file would.           *)
(***************************************************************************)
EXTENDS NssEntries

Split(s, c) ==
    FoldLeft(LAMBDA a, x : IF x = c THEN Append(a, <<>>) ELSE [a EXCEPT ![Len(a)] = Append(@, x)],
             <<<<>>>>, s)

\* The complete lines, and what follows the last newline
Lines(t) == Front(Split(t, NL))
Rest(t)  == Last(Split(t, NL))

WordFiles == {"hosts", "networks", "protocols", "rpc", "services"}

Words(l) == SelectSeq(Split(SubSeq(l, 1, Upto(l, 1, {"#"}) - 1), " "), LAMBDA w : w # <<>>)

\* The entry of a line of words w, or of fields f (and of members m), as a set
WordEntry(w) ==
    IF Len(w) < 2 \/ Len(w) - 2 > MaxList THEN {}
    ELSE {[e EXCEPT !.list = SubSeq(w, 3, Len(w))] : e \in EntryOf(db, w[1], w[2])}
PasswdEntry(f) ==
    IF Len(f) = 7 /\ <<>> \notin {f[1], f[2]} /\ IsId(f[3]) /\ IsId(f[4])
    THEN {[strs |-> <<f[1], f[2], f[5], f[6], f[7]>>,
           nums |-> <<IdOf(Strtol(f[3]).n), IdOf(Strtol(f[4]).n)>>]}
    ELSE {}
ShadowEntry(f) ==
    IF Len(f) = 9 /\ <<>> \notin {f[1], f[2]} /\ (\A i \in 3 .. 8 : IsOptInt(f[i])) /\ IsOptFlag(f[9])
    THEN {[strs |-> <<f[1], f[2]>>, nums |-> SpNums(f)]}
    ELSE {}
MemberList(m) == IF Last(m) = <<>> THEN Front(m) ELSE m
GroupEntry(f, m) ==
    IF <<>> \notin {f[1], f[2]} /\ IsId(f[3]) /\ Len(m) <= MaxList
    THEN {[strs |-> <<f[1], f[2]>>, list |-> m, nums |-> <<IdOf(Strtol(f[3]).n)>>]}
    ELSE {}
\* The members' field is the rest of the line, colons included.
FieldEntry(l, f) ==
    CASE db = "passwd" -> PasswdEntry(f)
      [] db = "shadow" -> ShadowEntry(f)
      [] db = "group"  ->
           IF Len(f) < 4 THEN {}
           ELSE GroupEntry(f, MemberList(Split(SubSeq(l, Len(f[1]) + Len(f[2]) + Len(f[3]) + 4, Len(l)), ",")))
LineEntry(l) == IF db \in WordFiles THEN WordEntry(Words(l)) ELSE FieldEntry(l, Split(l, ":"))

Blank(l) == IF db \in WordFiles THEN Words(l) = <<>> ELSE At(l, 1) = "#"
EntryLines == SelectSeq(Lines(text), LAMBDA l : ~Blank(l))

\* A comment needs its newline in the files of words only.
Ended == Rest(text) = <<>> \/ (db \notin WordFiles /\ Blank(Rest(text)))
LineEntries == [i \in DOMAIN EntryLines |-> LineEntry(EntryLines[i])]
ChooseEach(sets) == [i \in DOMAIN sets |-> CHOOSE e \in sets[i] : TRUE]
Entries == ChooseEach(LineEntries)

\* A "#" that ends a word and is not preceded by a blank
Glued == db \in WordFiles /\ \E i \in 2 .. Len(text) : text[i] = "#" /\ text[i - 1] \notin {" ", NL, "#"}

-----------------------------------------------------------------------------
(* Properties.                                                             *)

Fresh == made.st # "none" /\ seen = <<>>    \* once for each text

ParsedAs(p, sets) == /\ p.ok = (Ended /\ \A i \in DOMAIN sets : sets[i] # {})
                     /\ p.ok => p.ents = ChooseEach(sets)

\* The pointer walks of the *_parse functions over lines, comments, blanks and
\* missing newlines accept the files that the format allows, and find in them
\* the entries that their lines say.  Texts where a comment touches a word are
\* left out: the parsers refuse or misread them.
ParseExact ==
    Fresh /\ db # "netgroup" /\ ~Glued => ParsedAs(Parse(text), LineEntries)

\* What a caller gets of entry e: the address of a host in binary, and all else
\* as it was, but for a shadow entry without a flag.  Its ULONG_MAX was stored in
\* 32 bits and comes back as UINT_MAX.
Returned(e) ==
    CASE db = "hosts"  -> [e EXCEPT !.addr = InAddr(e.nums[1], @)]
      [] db = "shadow" -> [e EXCEPT !.nums[7] = IF @ = UlongMax THEN UintMax ELSE @]
      [] OTHER         -> e

\* A file that is neither misread (a glued comment) nor has a group with an
\* empty member, at which the decoder's scan of the list goes wrong
WellFormed(es) == /\ ~Glued
                  /\ db = "group" => \A i \in DOMAIN es : <<>> \notin ToSet(es[i].list)

DecodesTo(d, whole) == /\ \A al \in 0 .. 7 : Decode(d, [sz |-> BufMax[db], al |-> al]) = whole
                       /\ \A buf \in Bufs : Decode(d, buf) \in {TRYAGAIN, whole}
DecodesAll(es) ==
    WellFormed(es) => \A i \in DOMAIN es :
        DecodesTo(CHOOSE x \in Datastr(es[i]) : TRUE, [st |-> "SUCCESS", ent |-> Returned(es[i])])

\* A record that nss_mcdbctl has stored is read back whole into a buffer of the
\* documented size, wherever that lies, and into any other one whole or not at
\* all (ERANGE): the two size checks, on different machines, agree.
DecodeExact == Fresh /\ made.st = "ok" /\ db # "netgroup" => DecodesAll(Entries)

Successes == SelectSeq(seen, LAMBDA r : r.st = "SUCCESS")
Retried == \E i \in DOMAIN seen : seen[i].st = "TRYAGAIN"

Subsequences(all) ==
    {[i \in 1 .. Cardinality(S) |-> all[CHOOSE x \in S : Cardinality({y \in S : y < x}) = i - 1]] :
        S \in SUBSET DOMAIN all}
Enumerated(got, all) ==
    IF db # "netgroup" /\ Retried THEN got \in Subsequences(all)
    ELSE /\ IsPrefix(got, all)
         /\ (\E i \in DOMAIN seen : seen[i].st = "NOTFOUND") => got = all
EnumeratesAll(es) ==
    WellFormed(es) => Enumerated([i \in DOMAIN Successes |-> Successes[i].ent],
                                 [i \in DOMAIN es |-> Returned(es[i])])

\* get*ent() returns the lines of the file in order and none of them twice,
\* whatever buffers its caller brings; without an ERANGE on the way it returns
\* all of them before it says that there are no more.  getnetgrent() does so
\* even with one.
EnumExact ==
    made.st = "ok" =>
        IF db = "netgroup" THEN Enumerated([i \in DOMAIN Successes |-> Successes[i].ent], ng)
        ELSE EnumeratesAll(Entries)

-----------------------------------------------------------------------------

Big == [sz |-> BufMax[db], al |-> 0]

\* The answer that the entries es make: the first of them
Answer(es) == IF es = <<>> THEN NOTFOUND ELSE [st |-> "SUCCESS", ent |-> Returned(es[1])]

NamesOf(e) == {IF db = "services" THEN e.strs[2] ELSE e.strs[1]}
              \cup IF db \in WordFiles THEN ToSet(e.list) ELSE {}
AllNames(es) == UNION {NamesOf(es[i]) : i \in DOMAIN es}
Numbers(es) == UNION {ToSet(es[i].nums) : i \in DOMAIN es} \cup {0}
Protos(es) == {<<>>} \cup {es[i].strs[1] : i \in DOMAIN es}
Users(es) == UNION {ToSet(es[i].list) : i \in DOMAIN es}

Named(es, n)    == SelectSeq(es, LAMBDA e : n \in NamesOf(e))
Numbered(es, n) == SelectSeq(es, LAMBDA e : e.nums[1] = n)
OfProto(es, p)  == SelectSeq(es, LAMBDA e : p \in {<<>>, e.strs[1]})

\* The groups that list a user, in the file's order
Memberships(es, user) ==
    FlattenSeq([i \in DOMAIN es |->
        [k \in 1 .. Cardinality({j \in DOMAIN es[i].list : es[i].list[j] = user}) |-> es[i].nums[1]]])

\* The netgroups that a group reaches, and the triples of their lines
NgLines == {l \in ToSet(Split(text, EOL)) : Len(l) > 1 /\ l[1] \in NgNames}
SubOf(g) == UNION {ToSet(Tail(l)) \cap NgNames : l \in {x \in NgLines : x[1] = g}}
Reach(g) ==
    LET R[n \in 0 .. Cardinality(NgNames)] ==
          IF n = 0 THEN {g} ELSE R[n - 1] \cup UNION {SubOf(x) : x \in R[n - 1]}
    IN R[Cardinality(NgNames)]
TriplesOf(g) == {netgroup_string_triple_id(NgTriples[w]) :
                   w \in UNION {ToSet(Tail(l)) \cap DOMAIN NgTriples : l \in {x \in NgLines : x[1] \in Reach(g)}}}

HostsAgree(es) == \A type \in {AF_INET, AF_INET6} :
    /\ \A n \in AllNames(es) : ~Pton(type, n) =>
         gethostbyname2(n, type, Big) = Answer(Numbered(Named(es, n), type))
    /\ \A a \in {Returned(es[i]).addr : i \in DOMAIN es} :
         gethostbyaddr(a, type, Big)
           = Answer(SelectSeq(Numbered(es, type), LAMBDA e : Returned(e).addr = a))
NetworksAgree(es) ==
    /\ \A n \in AllNames(es) : getnetbyname(n, Big) = Answer(Named(es, n))
    /\ \A n \in Numbers(es) :
         getnetbyaddr(n, AF_INET, Big) = Answer(SelectSeq(es, LAMBDA e : e.nums[2] = n))
ProtocolsAgree(es) ==
    /\ \A n \in AllNames(es) : getprotobyname(n, Big) = Answer(Named(es, n))
    /\ \A n \in Numbers(es) : getprotobynumber(n, Big) = Answer(Numbered(es, n))
RpcAgree(es) ==
    /\ \A n \in AllNames(es) : getrpcbyname(n, Big) = Answer(Named(es, n))
    /\ \A n \in Numbers(es) : getrpcbynumber(n, Big) = Answer(Numbered(es, n))
ServicesAgree(es) == \A p \in Protos(es) :
    /\ \A n \in AllNames(es) : getservbyname(n, p, Big) = Answer(OfProto(Named(es, n), p))
    /\ \A n \in Numbers(es) : getservbyport(n, p, Big) = Answer(OfProto(Numbered(es, n), p))
PasswdAgrees(es) ==
    /\ \A n \in AllNames(es) : getpwnam(n, Big) = Answer(Named(es, n))
    /\ \A n \in Numbers(es) : getpwuid(n, Big) = Answer(Numbered(es, n))
ShadowAgrees(es) == \A n \in AllNames(es) : getspnam(n, Big) = Answer(Named(es, n))

\* gids: what getgrouplist() gives to a user of group g, ms: the groups that list the user
GidsAgree(gids, g, ms) ==
    /\ gids = <<g>> \o Without(ms, g)
    /\ ToSet(initgroups_dyn(gids, g, [groups |-> <<g>>, size |-> 1], 0).groups) = ToSet(ms) \cup {g}
GroupsAgree(es) ==
    /\ \A n \in AllNames(es) : getgrnam(n, Big) = Answer(Named(es, n))
    /\ \A n \in Numbers(es) : getgrgid(n, Big) = Answer(Numbered(es, n))
    /\ \A u \in Users(es), g \in Numbers(es) :
         Len(Memberships(es, u)) <= GidlistSz =>
             GidsAgree(getgrouplist(u, g, NgroupsMax + 1).gids, g, Memberships(es, u))

RulesOf(recs) == IF recs = <<>> THEN <<>> ELSE recs[1].data.rules
RulesAgree(g, rules, triples) ==
    /\ ToSet(rules) = triples
    /\ SubOf(g) # {} => Len(rules) = Cardinality(triples)
    /\ \A w \in DOMAIN NgTriples :
         innetgr(g, NgTriples[w]) = innetgr_decode(SetToSeq(triples), NgTriples[w])
NetgroupsAgree == \A g \in NgNames : RulesAgree(g, RulesOf(Find("=", g)), TriplesOf(g))

EntriesAgree(es) ==
    WellFormed(es) => CASE db = "hosts"     -> HostsAgree(es)
                        [] db = "networks"  -> NetworksAgree(es)
                        [] db = "protocols" -> ProtocolsAgree(es)
                        [] db = "rpc"       -> RpcAgree(es)
                        [] db = "services"  -> ServicesAgree(es)
                        [] db = "passwd"    -> PasswdAgrees(es)
                        [] db = "shadow"    -> ShadowAgrees(es)
                        [] db = "group"     -> GroupsAgree(es)

\* Each query answers as a scan of the file: the first line with the name or
\* alias, number, address or protocol, of the family that was asked for; a
\* netgroup has exactly the triples of the groups it reaches, loops included,
\* each once if it has subgroups.
LookupsAgree ==
    Fresh /\ made.st = "ok" => IF db = "netgroup" THEN NetgroupsAgree ELSE EntriesAgree(Entries)

\* nss_mcdb_acct_make.c:57: "initgroups() and getgrouplist() support (keep hash
\* map of group memberships per member)": getgrouplist() knows all the groups
\* that list a user.  grouplist_add forgets those after the first GidlistSz.
GroupListComplete ==
    db = "group" /\ made.st = "ok" =>
        \A u \in Users(Entries) : ToSet(Memberships(Entries, u)) \subseteq ToSet(Find("~", u)[1].data.gids)
=============================================================================
