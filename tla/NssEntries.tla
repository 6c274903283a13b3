----------------------------- MODULE NssEntries -----------------------------
(***************************************************************************)
(* From a file of /etc to the entries that the name service returns: the   *)
(* text is parsed, encoded and stored by nss_mcdbctl (nss_mcdb_make_dbfile *)
(* through w->parse, w->encode and w->flush), then enumerated by get*ent() *)
(* and searched by the get*by*() calls of the switch module.  Storing and  *)
(* finding records by key is McdbRoundTrip; maps and sessions are NssMcdb. *)
(***************************************************************************)
EXTENDS NssGroupmem, NssNetgroup

CONSTANTS Dbs,          \* databases
          Fragments,    \* what may be written next into the text of each
          MaxWrites,    \* how often that is done
          Bufs          \* buffers of the callers

VARIABLES db, text, writes,
          made,     \* what nss_mcdbctl made of it: [st, recs]
          pos,      \* m->hpos, or m->dpos in a netgroup: records or rules read
          ng,       \* the rules of the netgroup given to setnetgrent
          seen      \* the results of the get*ent() calls since set*ent()

entryVars == <<db, text, writes, made, pos, ng, seen>>

EntryInit == /\ db \in Dbs
             /\ text = <<>> /\ writes = 0
             /\ made = [st |-> "none"]
             /\ pos = 0 /\ ng = <<>> /\ seen = <<>>

\* Somebody writes the file.
Write == \E f \in Fragments[db] :
    /\ made.st = "none"
    /\ writes < MaxWrites
    /\ text' = text \o f
    /\ writes' = writes + 1
    /\ UNCHANGED <<db, made, pos, ng, seen>>

-----------------------------------------------------------------------------
(* nss_mcdb_make_dbfile                                                    *)

Parse(t) == CASE db = "hosts"     -> hosts_parse(t)
              [] db = "networks"  -> networks_parse(t)
              [] db = "protocols" -> protocols_parse(t)
              [] db = "rpc"       -> rpc_parse(t)
              [] db = "services"  -> services_parse(t)
              [] db = "passwd"    -> passwd_parse(t)
              [] db = "group"     -> group_parse(t)
              [] db = "shadow"    -> shadow_parse(t)

Datastr(e) == CASE db = "hosts"     -> hostent_datastr(e)
                [] db = "networks"  -> netent_datastr(e)
                [] db = "protocols" -> protoent_datastr(e)
                [] db = "rpc"       -> rpcent_datastr(e)
                [] db = "services"  -> servent_datastr(e)
                [] db = "passwd"    -> passwd_datastr(e)
                [] db = "group"     -> group_datastr(e)
                [] db = "shadow"    -> spwd_datastr(e)

Encode(e, d) == CASE db = "hosts"     -> hostent_encode(e, d)
                  [] db = "networks"  -> netent_encode(e, d)
                  [] db = "protocols" -> protoent_encode(e, d)
                  [] db = "rpc"       -> rpcent_encode(e, d)
                  [] db = "services"  -> servent_encode(e, d)
                  [] db = "passwd"    -> passwd_encode(e, d)
                  [] db = "group"     -> group_encode(e, d)
                  [] db = "shadow"    -> spwd_encode(e, d)

Decode(d, buf) == CASE db = "hosts"     -> hostent_decode(d, buf)
                    [] db = "networks"  -> netent_decode(d, buf)
                    [] db = "protocols" -> protoent_decode(d, buf)
                    [] db = "rpc"       -> rpcent_decode(d, buf)
                    [] db = "services"  -> servent_decode(d, buf)
                    [] db = "passwd"    -> passwd_decode(d, buf)
                    [] db = "group"     -> group_decode(d, buf)
                    [] db = "shadow"    -> spwd_decode(d, buf)

\* w->flush after the records of the entries
Flush(recs, fl) == IF fl.st = "ok" THEN [st |-> "ok", recs |-> recs \o fl.recs] ELSE fl
NoFlush == [st |-> "ok", recs |-> <<>>]

\* w->encode for each of the entries that w->parse finds
Built(p) ==
    LET recs == FlattenSeq([i \in DOMAIN p.ents |->
                  Encode(p.ents[i], CHOOSE d \in Datastr(p.ents[i]) : TRUE)])
    IN IF ~p.ok \/ \E i \in DOMAIN p.ents : Datastr(p.ents[i]) = {} THEN [st |-> "fail"]
       ELSE Flush(recs, IF db = "group" THEN group_flush(FoldLeft(AddMembers, NoHashmap, p.ents))
                                        ELSE NoFlush)
make_dbfile(t) == IF db = "netgroup" THEN netgroup_parse(t) ELSE Built(Parse(t))

Make == /\ made.st = "none"
        /\ made' = make_dbfile(text)
        /\ UNCHANGED <<db, text, writes, pos, ng, seen>>

-----------------------------------------------------------------------------
(* set*ent() and get*ent()                                                 *)

\* nss_mcdb_setent, at the first record
SetEnt == /\ made.st = "ok" /\ db # "netgroup"
          /\ pos' = 0 /\ seen' = <<>>
          /\ UNCHANGED <<db, text, writes, made, ng>>

\* gethostent_r and getservent_r want room for what the decoder is to match
Preset(buf) == CASE db = "hosts" -> buf.sz > 3 [] db = "services" -> buf.sz > 0 [] OTHER -> TRUE

\* nss_mcdb_getent: the next record with the tag '='; m->hpos is past it
\* before it is decoded.
GetEnt == \E buf \in Bufs :
    LET next == {i \in pos + 1 .. Len(made.recs) : made.recs[i].tag = "="}
        i == CHOOSE x \in next : \A y \in next : x <= y
    IN /\ made.st = "ok" /\ db # "netgroup"
       /\ Len(seen) <= Cardinality({x \in DOMAIN made.recs : made.recs[x].tag = "="})
       /\ IF ~Preset(buf) THEN pos' = pos /\ seen' = Append(seen, TRYAGAIN)
          ELSE IF next = {} THEN pos' = Len(made.recs) /\ seen' = Append(seen, NOTFOUND)
          ELSE pos' = i /\ seen' = Append(seen, Decode(made.recs[i].data, buf))
       /\ UNCHANGED <<db, text, writes, made, ng>>

\* The records of a key in the order they were stored: so few that a slot of
\* the mcdb has one list node (see McdbCtl)
Find(tag, key) == SelectSeq(made.recs, LAMBDA r : r.tag = tag /\ r.key = key)

\* _nss_mcdb_setnetgrent
SetNetgrent == \E name \in NgNames :
    /\ made.st = "ok" /\ db = "netgroup"
    /\ ng' = IF Find("=", name) = <<>> THEN <<>> ELSE Find("=", name)[1].data.rules
    /\ pos' = 0 /\ seen' = <<>>
    /\ UNCHANGED <<db, text, writes, made>>

\* Mutant: a rule that does not fit the buffer is passed over.
GetNetgrentSkips == \E buf \in Bufs :
    LET r == getnetgrent_decode(ng, pos + 1, buf.sz)
    IN /\ made.st = "ok" /\ db = "netgroup" /\ Len(seen) <= Len(ng) + 1
       /\ pos' = pos + 1
       /\ seen' = Append(seen, r)
       /\ UNCHANGED <<db, text, writes, made, ng>>

\* _nss_mcdb_getnetgrent_r
GetNetgrent == \E buf \in Bufs :
    LET r == getnetgrent_decode(ng, pos + 1, buf.sz)
    IN /\ made.st = "ok" /\ db = "netgroup" /\ Len(seen) <= Len(ng) + 1
       /\ pos' = IF r.st = "SUCCESS" THEN pos + 1 ELSE pos
       /\ seen' = Append(seen, r)
       /\ UNCHANGED <<db, text, writes, made, ng>>

EntryNext == Write \/ Make \/ SetEnt \/ GetEnt \/ SetNetgrent \/ GetNetgrent
EntrySpec == EntryInit /\ [][EntryNext]_entryVars

-----------------------------------------------------------------------------
(* Queries: nss_mcdb_get_generic finds the first record of a key; the      *)
(* decoder goes on to the first one that matches.                          *)

First(recs, buf) == IF recs = <<>> THEN NOTFOUND ELSE Decode(recs[1].data, buf)
ByName(name, buf)   == First(Find("~", name), buf)
ByNumber(key, buf)  == First(Find("x", key), buf)
ByLogin(name, buf)  == First(Find("=", name), buf)

\* gethost_query, with the address family in the buffer's first four bytes
gethost_query(tag, key, type, buf) ==
    IF buf.sz < 4 THEN TRYAGAIN
    ELSE First(SelectSeq(Find(tag, key), LAMBDA r : type \in {0, r.data.nums[1]}), buf)

\* gethost_filladdr: the name is an address
gethost_filladdr(name, type, buf) ==
    IF Align8(buf.al) - buf.al + 16 + h_length(type) + Len(name) + 1 >= buf.sz THEN TRYAGAIN
    ELSE [st |-> "SUCCESS", ent |-> [strs |-> <<name>>, list |-> <<>>, nums |-> <<type>>,
                                     addr |-> InAddr(type, name)]]

gethostbyname2(name, type, buf) == IF Pton(type, name) THEN gethost_filladdr(name, type, buf)
                                   ELSE gethost_query("~", name, type, buf)
gethostbyaddr(addr, type, buf) == gethost_query("b", addr, type, buf)
getnetbyname(name, buf)        == ByName(name, buf)
getnetbyaddr(net, type, buf)   == ByNumber(<<net, type>>, buf)
getprotobyname(name, buf)      == ByName(name, buf)
getprotobynumber(n, buf)       == ByNumber(<<n>>, buf)
getrpcbyname(name, buf)        == ByName(name, buf)
getrpcbynumber(n, buf)         == ByNumber(<<n>>, buf)
getpwnam(name, buf)            == ByLogin(name, buf)
getpwuid(n, buf)               == ByNumber(<<n>>, buf)
getgrnam(name, buf)            == ByLogin(name, buf)
getgrgid(n, buf)               == ByNumber(<<n>>, buf)
getspnam(name, buf)            == ByLogin(name, buf)

\* Mutant: the protocol is ignored.
ProtoAny(recs, proto) == recs

\* servent_decode matches the protocol, the first string, if one is given
Proto(recs, proto) == SelectSeq(recs, LAMBDA r : proto \in {<<>>, CStr(r.data.body, 0)})
getservbyname(name, proto, buf) ==
    IF buf.sz <= Len(proto) THEN TRYAGAIN ELSE First(Proto(Find("~", name), proto), buf)
getservbyport(port, proto, buf) ==
    IF buf.sz <= Len(proto) THEN TRYAGAIN ELSE First(Proto(Find("x", <<port>>), proto), buf)

getgrouplist(user, gid, ngroups) ==
    IF Find("~", user) = <<>> THEN NOTFOUND
    ELSE grouplist_decode(Find("~", user)[1].data.gids, gid, ngroups)

innetgr(group, q) == Find("=", group) # <<>> /\ innetgr_decode(Find("=", group)[1].data.rules, q)
=============================================================================
