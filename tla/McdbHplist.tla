----------------------------- MODULE McdbHplist -----------------------------
(***************************************************************************)
(* The lists in which mcdb_make keeps, slot by slot, the hash and position *)
(* of every record until the hash tables are written (struct mcdb_hplist,  *)
(* mcdb_hplist_alloc and the end of mcdb_make_destroy in mcdb_make.c).     *)
(*                                                                         *)
(* One malloc gives an array of SLOTS list nodes, one per slot: block n is *)
(* the n-th such array, and its node for slot s is written <<s, n>> below. *)
(* Only slot 0's node has the address that goes back to free.              *)
(***************************************************************************)
EXTENDS McdbFormat, FiniteSets

CONSTANTS HPLIST,       \* MCDB_HPLIST: entries per node
          MaxBlocks,    \* bound: arrays allocated
          NIL,          \* the null pointer
          WILD          \* what malloc leaves in a field nobody has set

ASSUME HplistAssumption ==
    /\ HPLIST \in Nat \ {0} /\ MaxBlocks \in Nat \ {0}
    /\ NIL \notin 1 .. MaxBlocks /\ WILD \notin 1 .. MaxBlocks

Blocks == 1 .. MaxBlocks

VARIABLES head,     \* [Slots -> block of m->head[s]]
          lnext,    \* [Slots -> [Blocks -> node->next]]
          pend,     \* [Slots -> [Blocks -> node->pend]]
          ent,      \* [Slots -> [Blocks -> Seq]]  node->hp[0 .. num-1]
          count,    \* [Slots -> Nat]  m->count
          nblk,     \* arrays allocated so far
          freed     \* [Blocks or WILD -> Nat]  times it was passed to free

listVars == <<head, lnext, pend, ent, count, nblk, freed>>

Ptr == Blocks \cup {NIL, WILD}

\* The members of the list nodes are null, unset, or the node of a block.
HplistTypeOK ==
    /\ head \in [Slots -> Ptr]
    /\ lnext \in [Slots -> [Blocks -> Ptr]]
    /\ pend \in [Slots -> [Blocks -> Ptr]]
    /\ count \in [Slots -> Nat]
    /\ nblk \in 0 .. MaxBlocks
    /\ freed \in [Blocks \cup {WILD} -> Nat]

-----------------------------------------------------------------------------
\* The blocks met when following nxt from block n, in order.
Walk(nxt, n) ==
    LET w[x \in Ptr] ==
          IF x = NIL THEN <<>>
          ELSE IF x = WILD THEN <<WILD>>
          ELSE <<x>> \o w[nxt[x]]
    IN  w[n]

\* Number of entries in all lists, added up in a uint32_t.
Total == LET sum[s \in -1 .. SLOTS - 1] ==
               IF s = -1 THEN 0 ELSE (sum[s - 1] + count[s]) % 2 ^ W
         IN  sum[SLOTS - 1]

IsFull(s) == Len(ent[s][head[s]]) = HPLIST

NoLists ==
    /\ head = [s \in Slots |-> NIL]
    /\ lnext = [s \in Slots |-> [n \in Blocks |-> WILD]]
    /\ pend = [s \in Slots |-> [n \in Blocks |-> WILD]]
    /\ ent = [s \in Slots |-> [n \in Blocks |-> <<>>]]
    /\ count = [s \in Slots |-> 0]
    /\ nblk = 0
    /\ freed = [n \in Blocks \cup {WILD} |-> 0]

\* mcdb_make_start: the first array, and the loop that makes it the heads
FirstLists ==
    /\ nblk' = 1
    /\ head' = [s \in Slots |-> 1]
    /\ lnext' = [s \in Slots |-> [lnext[s] EXCEPT ![1] = NIL]]
    /\ pend' = [s \in Slots |-> [pend[s] EXCEPT ![1] = NIL]]
    /\ UNCHANGED <<ent, count, freed>>

\* Mutant: the full node is not linked behind the new head.
HplistPendUnlinked(s) ==
    LET n == pend[s][head[s]] IN
    /\ n # NIL
    /\ lnext' = [lnext EXCEPT ![s][n] = NIL]
    /\ head' = [head EXCEPT ![s] = n]
    /\ UNCHANGED <<pend, ent, count, nblk, freed>>

\* mcdb_hplist_alloc when slot s, which is full, has a node waiting
HplistPend(s) ==
    LET n == pend[s][head[s]] IN
    /\ n # NIL
    /\ lnext' = [lnext EXCEPT ![s][n] = head[s]]
    /\ head' = [head EXCEPT ![s] = n]
    /\ UNCHANGED <<pend, ent, count, nblk, freed>>

\* mcdb_hplist_alloc when it has none: a new array.  Its node for a full
\* slot becomes the head, every other node is put in front of those waiting.
HplistNew(s) ==
    LET n == nblk + 1 IN
    /\ pend[s][head[s]] = NIL
    /\ nblk < MaxBlocks
    /\ nblk' = n
    /\ head' = [i \in Slots |-> IF IsFull(i) THEN n ELSE head[i]]
    /\ lnext' = [i \in Slots |->
                    IF IsFull(i) THEN [lnext[i] EXCEPT ![n] = head[i]]
                    ELSE lnext[i]]
    /\ pend' = [i \in Slots |->
                    IF IsFull(i) THEN [pend[i] EXCEPT ![n] = NIL]
                    ELSE [pend[i] EXCEPT ![n] = pend[i][head[i]], ![head[i]] = n]]
    /\ UNCHANGED <<ent, count, freed>>

\* mcdb_make_addend: copy e into the list of slot s
HplistAdd(s, e) ==
    /\ ent' = [ent EXCEPT ![s][head[s]] = Append(@, e)]
    /\ count' = [count EXCEPT ![s] = @ + 1]
    /\ UNCHANGED <<head, lnext, pend, nblk, freed>>

\* Mutant: waiting nodes are not freed.
ReleasedListOnly(hd, nx, pd) == IF hd = NIL THEN <<>> ELSE Walk(nx, hd)

\* The free loops of mcdb_make_destroy: slot 0's waiting nodes, then its
\* list.  freed[n] counts how often an array is passed to free.
Released(hd, nx, pd) ==
    IF hd = NIL THEN <<>> ELSE Walk(pd, pd[hd]) \o Walk(nx, hd)

Free(gone) ==
    freed' = [n \in DOMAIN freed |->
                 freed[n] + Cardinality({i \in DOMAIN gone : gone[i] = n})]

FreeLists ==
    /\ Free(Released(head[0], lnext[0], pend[0]))
    /\ head' = [head EXCEPT ![0] = NIL]
    /\ UNCHANGED <<lnext, pend, ent, count, nblk>>

\* mcdb_make_destroy called by mcdb_make_start with the first array allocated
\* and none of its fields set: they hold w, whatever malloc left there.
FreeUnset(w) ==
    LET unset == [n \in Blocks |-> w] IN
    /\ nblk' = 1
    /\ Free(Released(1, unset, unset))
    /\ UNCHANGED <<head, lnext, pend, ent, count>>

-----------------------------------------------------------------------------
\* The nodes of one slot in nb arrays, from the values of its head and of its
\* nodes' next, pend and entries: q has them in the order in which they join
\* the list, q[k] is the head, the nodes before it are on the list, and those
\* after it wait and are empty.  A node that is no longer the head still has
\* the pend it had.
InOrder(q, k, nb, hd, nxt, pd, en) ==
    /\ \A i, j \in 1 .. nb : q[i] = q[j] => i = j
    /\ \A n \in 1 .. nb : \E i \in 1 .. nb : q[i] = n
    /\ hd = q[k]
    /\ \A i \in 1 .. nb :
          /\ nxt[q[i]] = IF i > k THEN WILD ELSE IF i = 1 THEN NIL ELSE q[i - 1]
          /\ pd[q[i]] = NIL \/ (i < nb /\ pd[q[i]] = q[i + 1])
          /\ k =< i /\ i < nb => pd[q[i]] = q[i + 1]
          /\ i > k => en[q[i]] = <<>>
    /\ \A n \in Blocks : n > nb => nxt[n] = WILD /\ pd[n] = WILD /\ en[n] = <<>>

NodesInOrder(nb, hd, nxt, pd, en) ==
    \E q \in [1 .. nb -> 1 .. nb], k \in 1 .. nb : InOrder(q, k, nb, hd, nxt, pd, en)
=============================================================================
