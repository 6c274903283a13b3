----------------------------- MODULE McdbFormat -----------------------------
(***************************************************************************)
(* The layout of an mcdb file, shared by its writer (McdbMake) and its     *)
(* reader (McdbFind): a header with one entry per slot, the data records,  *)
(* padding up to a multiple of 16, and one open hash table per slot.       *)
(*                                                                         *)
(* Positions and lengths are counted in bytes, as in the code; contents    *)
(* are not: a key is a sequence of characters, data is known by its length *)
(* only, and a record is identified by the position it starts at.  A file  *)
(* is a record                                                             *)
(*   size   its length                                                     *)
(*   recs   the set of data records [p, k, d]: position, key, data length  *)
(*   hdr    hdr[s] = [hpos, hslots] for every slot s                       *)
(*   tab    the set of non-zero hash table entries [at, h, l, v]: position *)
(*          of the entry, khash, klen, dpos                                *)
(***************************************************************************)
EXTENDS Integers, Sequences

CONSTANTS SLOT_BITS,    \* MCDB_SLOT_BITS (8)
          W,            \* width of uint32_t (32)
          HashInit,     \* hash_init
          Mix(_, _),    \* hash_fn for one more character
          NoFile

SLOTS     == 2 ^ SLOT_BITS
HEADER_SZ == SLOTS * 16
PAD_ALIGN == 16
UINT_MAX  == 2 ^ W - 1
INT_MAX   == 2 ^ (W - 1) - 1

\* UINT_MAX + 1 is a multiple of the padding, and hash_fn gives a uint32_t.
ASSUME FormatAssumption ==
    /\ SLOT_BITS \in Nat
    /\ W \in Nat /\ W >= 4 /\ W > SLOT_BITS
    /\ HashInit \in 0 .. UINT_MAX

\* What follows of powers of two, for proofs: the provers know none of it.
ASSUME PowerAssumption ==
    /\ SLOTS \in Nat \ {0} /\ INT_MAX \in Nat /\ UINT_MAX = 2 * INT_MAX + 1
    /\ 2 ^ W % PAD_ALIGN = 0
    /\ 2 ^ (W - 4) \in Nat /\ 2 ^ (W - 3) = 2 * 2 ^ (W - 4) /\ 2 ^ W = 16 * 2 ^ (W - 4)

Slots == 0 .. SLOTS - 1

\* hash_fn(h, buf, len), character by character
Hash(h, k) ==
    LET f[i \in 0 .. Len(k)] == IF i = 0 THEN h ELSE Mix(f[i - 1], k[i])
    IN  f[Len(k)]

\* khash & MCDB_SLOT_MASK, and (khash >> MCDB_SLOT_BITS) % hslots
SlotOf(h)    == h % SLOTS
Home(h, len) == (h \div SLOTS) % len

RecLen(k, d) == 8 + Len(k) + d

RoundDown(n, unit) == n - (n % unit)
RoundUp(n, unit)   == RoundDown(n + unit - 1, unit)

VARIABLE file       \* the finished file, or NoFile
=============================================================================
