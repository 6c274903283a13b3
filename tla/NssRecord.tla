------------------------------ MODULE NssRecord ------------------------------
(***************************************************************************)
(* The records of the name service databases: how nss_mcdbctl serialises   *)
(* an entry (the *_datastr functions), under which tags and keys it stores *)
(* it (the *_encode functions), and how the switch module turns a record   *)
(* back into an entry in the caller's buffer (the *_decode functions).     *)
(*                                                                         *)
(* A record is a header of numbers and offsets, hdrsz bytes, and a body of *)
(* bytes.  A buffer is [sz, al]: its size and its address modulo 8.        *)
(***************************************************************************)
EXTENDS NssText, SequencesExt

CONSTANTS BufMax    \* bytes that an entry of each database may need: 1024, or
                    \* sysconf(_SC_GETPW_R_SIZE_MAX), (_SC_GETGR_R_SIZE_MAX)

HdrSz == [hosts |-> 20, networks |-> 16, protocols |-> 12, rpc |-> 12, services |-> 12,
          passwd |-> 16, group |-> 12, shadow |-> 32]

\* w->datasz, from the table of nss_mcdbctl
datasz(db) == HdrSz[db] + BufMax[db]

NulTerminated(strs) == FlattenSeq([i \in DOMAIN strs |-> Append(strs[i], NUL)])

\* Where each of the strings begins in the body
Offsets(strs) == [i \in DOMAIN strs |-> Len(NulTerminated(SubSeq(strs, 1, i - 1)))]

-----------------------------------------------------------------------------
(* Serialising.  {} stands for a return of 0, errno ERANGE.                *)

\* Mutant: no bytes are kept for aligning the pointers.
ListDataTight(db, e, after, ptrs) ==
    LET body == NulTerminated(e.strs) \o NulTerminated(e.list) \o after
    IN IF HdrSz[db] + Len(body) + 8 * (Len(e.list) + ptrs) <= datasz(db)
       THEN {[nums |-> e.nums, off |-> Offsets(e.strs), mem |-> Len(body),
              mem_str |-> Len(NulTerminated(e.strs)), mem_num |-> Len(e.list),
              lst_str |-> Len(body) - Len(after), body |-> body]}
       ELSE {}

\* Strings and a list of strings; "after" is what follows the list, ptrs the
\* pointers that the decoder needs besides those to the list.
ListData(db, e, after, ptrs) ==
    LET body == NulTerminated(e.strs) \o NulTerminated(e.list) \o after
    IN IF HdrSz[db] + Len(body) + 8 * (Len(e.list) + ptrs) + 7 <= datasz(db)
       THEN {[nums |-> e.nums, off |-> Offsets(e.strs), mem |-> Len(body),
              mem_str |-> Len(NulTerminated(e.strs)), mem_num |-> Len(e.list),
              lst_str |-> Len(body) - Len(after), body |-> body]}
       ELSE {}

\* Strings only; the last NUL is not stored.
StringData(db, e) ==
    LET all == NulTerminated(e.strs)
    IN IF HdrSz[db] + Len(all) <= datasz(db)
       THEN {[nums |-> e.nums, off |-> Offsets(e.strs), body |-> Front(all)]}
       ELSE {}

\* A binary address: h_length bytes, of which the last tells them apart
h_length(type) == IF type = AF_INET THEN 4 ELSE 16
InAddr(type, s) == [i \in 1 .. h_length(type) |-> IF i = h_length(type) THEN Last(s) ELSE NUL]

hostent_datastr(e)  == ListData("hosts", e, InAddr(e.nums[1], e.addr), 3)
netent_datastr(e)   == ListData("networks", e, <<>>, 1)
protoent_datastr(e) == ListData("protocols", e, <<>>, 1)
rpcent_datastr(e)   == ListData("rpc", e, <<>>, 1)
servent_datastr(e)  == ListData("services", e, <<>>, 1)
group_datastr(e)    == ListData("group", e, <<>>, 1)
passwd_datastr(e)   == StringData("passwd", e)

\* (uint32_t) n, and (long)(int32_t) u
Uint32(n) == n % (UintMax + 1)
Int32(u)  == IF u > IntMax THEN u - (UintMax + 1) ELSE u

spwd_datastr(e) == StringData("shadow", [e EXCEPT !.nums = [i \in 1 .. 7 |-> Uint32(@[i])]])

-----------------------------------------------------------------------------
(* Storing: the sequence of [tag, key, data] that *_encode writes.         *)

Stored(tag, key, data) == <<[tag |-> tag, key |-> key, data |-> data]>>

\* The name under '=' and '~', each alias under '~'
NamesStored(name, list, d) ==
    Stored("=", name, d) \o Stored("~", name, d)
      \o FlattenSeq([i \in DOMAIN list |-> Stored("~", list[i], d)])

hostent_encode(e, d)  == NamesStored(e.strs[1], e.list, d)
                         \o Stored("b", InAddr(e.nums[1], e.addr), d)
netent_encode(e, d)   == NamesStored(e.strs[1], e.list, d)
                         \o Stored("x", <<e.nums[2], e.nums[1]>>, d)
protoent_encode(e, d) == NamesStored(e.strs[1], e.list, d) \o Stored("x", <<e.nums[1]>>, d)
rpcent_encode(e, d)   == NamesStored(e.strs[1], e.list, d) \o Stored("x", <<e.nums[1]>>, d)
servent_encode(e, d)  == NamesStored(e.strs[2], e.list, d) \o Stored("x", <<e.nums[1]>>, d)
passwd_encode(e, d)   == Stored("=", e.strs[1], d) \o Stored("x", <<e.nums[1]>>, d)
group_encode(e, d)    == Stored("=", e.strs[1], d) \o Stored("x", <<e.nums[1]>>, d)
spwd_encode(e, d)     == Stored("=", e.strs[1], d)

-----------------------------------------------------------------------------
(* Decoding: [st, ent].                                                    *)

TRYAGAIN == [st |-> "TRYAGAIN"]
NOTFOUND == [st |-> "NOTFOUND"]

\* The C string at an offset of the buffer; what lies after the body is
\* whatever the caller left there
CStr(body, off) ==
    IF off >= Len(body) THEN <<"?">>
    ELSE SubSeq(body, off + 1, Upto(body, off + 1, {NUL}) - 1)

\* "while (*++buf != '\0') ; mem[i] = ++buf": the strings from off on
ScanList(body, off, num) ==
    LET at[i \in 1 .. num] == IF i = 1 THEN off
                              ELSE IF at[i - 1] >= Len(body) THEN Len(body)
                              ELSE Upto(body, at[i - 1] + 2, {NUL})
    IN [i \in 1 .. num |-> CStr(body, at[i])]

Align8(n) == 8 * ((n + 7) \div 8)

DecodeList(d, buf, ptrs) ==
    LET memoff == Align8(buf.al + d.mem) - buf.al
    IN IF memoff + 8 * (d.mem_num + ptrs) <= buf.sz
       THEN [st |-> "SUCCESS",
             ent |-> [strs |-> [i \in DOMAIN d.off |-> CStr(d.body, d.off[i])],
                      list |-> ScanList(d.body, d.mem_str, d.mem_num), nums |-> d.nums]]
       ELSE TRYAGAIN

DecodeStrings(d, buf) ==
    IF Len(d.body) < buf.sz
    THEN [st |-> "SUCCESS",
          ent |-> [strs |-> [i \in DOMAIN d.off |-> CStr(Append(d.body, NUL), d.off[i])],
                   nums |-> d.nums]]
    ELSE TRYAGAIN

\* ... with the address behind the names: one pointer for each array's NULL
\* and one for the address
hostent_decode(d, buf) ==
    LET r == DecodeList(d, buf, 3)
    IN IF r.st = "SUCCESS"
       THEN [r EXCEPT !.ent = [strs |-> @.strs, list |-> @.list, nums |-> @.nums,
                               addr |-> SubSeq(d.body, d.lst_str + 1,
                                               d.lst_str + h_length(d.nums[1]))]]
       ELSE r
netent_decode(d, buf)   == DecodeList(d, buf, 1)
protoent_decode(d, buf) == DecodeList(d, buf, 1)
rpcent_decode(d, buf)   == DecodeList(d, buf, 1)
servent_decode(d, buf)  == DecodeList(d, buf, 1)
group_decode(d, buf)    == DecodeList(d, buf, 1)
passwd_decode(d, buf)   == DecodeStrings(d, buf)

\* "cast to (int32_t) before casting to (long) to preserve -1": not so sp_flag, the seventh
SpDecoded(ent) == [ent EXCEPT !.nums = [i \in 1 .. 7 |-> IF i < 7 THEN Int32(@[i]) ELSE @[i]]]
spwd_decode(d, buf) ==
    LET r == DecodeStrings(d, buf)
    IN IF r.st = "SUCCESS" THEN [r EXCEPT !.ent = SpDecoded(@)] ELSE r
=============================================================================
