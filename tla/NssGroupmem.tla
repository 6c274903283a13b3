----------------------------- MODULE NssGroupmem -----------------------------
(***************************************************************************)
(* initgroups() and getgrouplist(): while nss_mcdbctl encodes the group    *)
(* database it collects, for each member, the groups that list it, and     *)
(* stores them under '~' and the member's name after the last group.       *)
(***************************************************************************)
EXTENDS NssRecord

CONSTANTS GidlistSz,    \* gids a groupmem is first made for, 4 in the code
          NgroupsMax    \* the lower of sysconf(_SC_NGROUPS_MAX) and 256

\* nss_mcdb_acct_make_groupmem_hashmap: a sequence of [name, gids], the newest
\* groupmem first.  A bucket's order is that of the whole here.
NoHashmap == <<>>

\* The node that is full is copied into a larger one that takes the gid; the
\* chain still holds the full one.
grouplist_add(hashmap, name, gid) ==
    LET mine == {i \in DOMAIN hashmap : hashmap[i].name = name}
    IN IF mine = {} THEN <<[name |-> name, gids |-> <<gid>>]>> \o hashmap
       ELSE [i \in DOMAIN hashmap |->
               IF i \in mine /\ Len(hashmap[i].gids) < GidlistSz
               THEN [hashmap[i] EXCEPT !.gids = Append(@, gid)] ELSE hashmap[i]]

\* The part of group_encode that is about members
AddMembers(hashmap, e) == FoldLeft(LAMBDA h, name : grouplist_add(h, name, e.nums[1]), hashmap, e.list)

grouplist_datastr(gids) ==
    IF 4 + 4 * Len(gids) <= datasz("group") THEN {[gids |-> gids]} ELSE {}

\* [st, recs]; without a member in the whole file the table was never made,
\* and flush reads through a null pointer.
group_flush(hashmap) ==
    IF hashmap = NoHashmap THEN [st |-> "crash"]
    ELSE IF \E i \in DOMAIN hashmap : \/ Len(hashmap[i].gids) > NgroupsMax
                                      \/ grouplist_datastr(hashmap[i].gids) = {}
    THEN [st |-> "fail"]
    ELSE [st |-> "ok",
          recs |-> FlattenSeq([i \in DOMAIN hashmap |->
                     Stored("~", hashmap[i].name, [gids |-> hashmap[i].gids])])]

\* The gids but gid, behind it: [st, n, gids].  When the buffer has room for
\* them only because gid is one of them, the last x are read again.
Without(gids, gid) == SelectSeq(gids, LAMBDA g : g # gid)
grouplist_decode(gids, gid, bufsz) ==
    LET n == 1 + Len(gids)
        x == 1 + Len(Without(gids, gid))
        list == IF n <= bufsz THEN gids ELSE SubSeq(gids, n - x, Len(gids))
    IN IF n > bufsz /\ x > bufsz THEN [st |-> "TRYAGAIN", n |-> x]
       ELSE [st |-> "SUCCESS", n |-> 1 + Len(Without(list, gid)),
             gids |-> <<gid>> \o Without(list, gid)]

\* initgroups_dyn: gids are added to what the caller has, which is
\* [groups, size], up to limit (no limit if not positive)
Grow(size, limit) == IF 0 < limit /\ limit < 2 * size THEN limit ELSE 2 * size
AddGid(limit, m, a, gid) ==
    IF gid \in {a.groups[i] : i \in 1 .. m} \/ a.full THEN a
    ELSE IF Len(a.groups) = a.size /\ a.size = limit THEN [a EXCEPT !.full = TRUE]
    ELSE [groups |-> Append(a.groups, gid), full |-> FALSE,
          size |-> IF Len(a.groups) = a.size THEN Grow(a.size, limit) ELSE a.size]
initgroups_dyn(found, group, had, limit) ==
    LET gids == IF group # UintMax THEN found     \* -1 came first: drop it
                ELSE IF Len(found) = 1 THEN <<>> ELSE [Front(found) EXCEPT ![1] = Last(found)]
    IN IF had.size >= Len(gids) /\ had.groups \in {<<>>, <<group>>}
       THEN [groups |-> gids, size |-> had.size, full |-> FALSE]
       ELSE FoldLeft(LAMBDA a, gid : AddGid(limit, Len(had.groups), a, gid),
                     [groups |-> had.groups, size |-> had.size, full |-> FALSE], gids)
=============================================================================
