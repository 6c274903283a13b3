---------------------------- MODULE McdbMakefmt ----------------------------
(***************************************************************************)
(* The reader of the textual format, "+klen,dlen:key->data\n" for a record *)
(* and an empty line at the end (mcdb_makefmt.c).  It works on a buffer    *)
(* that read() fills by as much as it likes, or on a file mapped as a      *)
(* whole.  The records go to mcdb_make (McdbMake), the file to mcdb_makefn *)
(* (McdbMakefn).  Bytes are one-letter strings.                            *)
(***************************************************************************)
EXTENDS Integers, Sequences, SequencesExt

CONSTANTS Byte,         \* bytes there are in texts
          BufSz,        \* size of the buffer, 65536 in mcdbctl
          MoveMin,      \* what is moved to the front when less is left, 128
          PreMax,       \* the longest "+nnnn,mmmm:", 23
          NumMax,       \* a number above is not extended, 214748363
          Faults        \* may reads and writes fail?

ASSUME ByteAssumption ==
    {"0", "1", "2", "3", "4", "5", "6", "7", "8", "9", "+", ",", ":", "-", ">", "\n"} \subseteq Byte
ASSUME FmtAssumption ==
    /\ BufSz \in Nat /\ MoveMin \in Nat /\ PreMax \in Nat \ {0} /\ NumMax \in Nat
    /\ PreMax <= BufSz /\ PreMax <= MoveMin /\ 2 <= MoveMin /\ 2 <= BufSz

VARIABLES input,    \* bytes of the file that have not been read
          mm,       \* is the input mapped (fd == -1)?
          buf, pos, \* struct mcdb_input; datasz is Len(buf)
          need,     \* r in mcdb_bufread_preamble_fill: bytes to search
          klen, dlen,
          rec,      \* the key and data of the record that is added in parts
          left,     \* len in mcdb_bufread_str
          recs,     \* the records added
          at,       \* where mcdb_makefmt_fdintofd is
          rv,       \* what it returns: ok, format, read, write
          hurt      \* ghost: a system call failed

fmtVars == <<input, mm, buf, pos, need, klen, dlen, rec, left, recs, at, rv, hurt>>

Nil == ""
Digits == <<"0", "1", "2", "3", "4", "5", "6", "7", "8", "9">>
IsDigit(c) == c \in Range(Digits)
Value(c) == (CHOOSE i \in DOMAIN Digits : Digits[i] = c) - 1
Avail == Len(buf) - pos
ByteAt(i) == IF i < Len(buf) THEN buf[i + 1] ELSE Nil

Return(e) == at' = "end" /\ rv' = e /\ UNCHANGED hurt
ReturnHurt(e) == Faults /\ at' = "end" /\ rv' = e /\ hurt' = TRUE
GoOn(l) == at' = l /\ UNCHANGED <<rv, hurt>>

\* mcdb_makefmt_fdintofd up to the loop: of a mapped file all is in the
\* buffer, and mcdb_make_start may fail
FmtStart(text, mapped) ==
    /\ at = "none"
    /\ mm' = mapped
    /\ buf' = IF mapped THEN text ELSE <<>>
    /\ input' = IF mapped THEN <<>> ELSE text
    /\ pos' = 0
    /\ recs' = <<>>
    /\ GoOn("preamble") \/ ReturnHurt("write")
    /\ UNCHANGED <<need, klen, dlen, rec, left>>

-----------------------------------------------------------------------------
(* mcdb_bufread_fd returns r: the number of bytes read, 0 at the end of the *)
(* file or when the buffer is full, or -1.                                 *)

Moved == Avail < MoveMin /\ pos # 0
bufread_fd(r) ==
    LET b == IF Moved THEN SubSeq(buf, pos + 1, Len(buf)) ELSE buf
        room == BufSz - Len(b)
    IN /\ \/ r > 0 /\ r <= room /\ r <= Len(input)
          \/ r = 0 /\ (room = 0 \/ input = <<>>)
          \/ r = -1 /\ Faults
       /\ pos' = IF Moved THEN 0 ELSE pos
       /\ buf' = b \o SubSeq(input, 1, r)
       /\ input' = IF r > 0 THEN SubSeq(input, r + 1, Len(input)) ELSE input

\* A read that the caller asks for; a mapped file has no more.
Reads(r) == IF mm THEN r = -1 /\ UNCHANGED <<input, buf, pos>> ELSE bufread_fd(r)
Results == -1 .. BufSz

-----------------------------------------------------------------------------
(* mcdb_bufread_preamble                                                   *)

Preamble ==
    /\ at = "preamble"
    /\ IF Avail < PreMax THEN GoOn("fill") /\ need' = Avail ELSE GoOn("parse") /\ UNCHANGED need
    /\ UNCHANGED <<input, mm, buf, pos, klen, dlen, rec, left, recs>>

\* mcdb_bufread_preamble_fill: stop at a colon, an empty line or PreMax bytes
Found == \/ \E i \in Len(buf) - need + 1 .. Len(buf) : buf[i] = ":"
         \/ need # 0 /\ ByteAt(pos) = "\n"
PreambleFill ==
    /\ at = "fill"
    /\ IF Found
       THEN GoOn("parse") /\ UNCHANGED <<input, buf, pos, need>>
       ELSE \E r \in Results :
              /\ Reads(r)
              /\ \/ r = -1 /\ ~mm /\ ReturnHurt("read") /\ UNCHANGED need
                 \/ (r = 0 \/ mm) /\ Return("format") /\ UNCHANGED need
                 \/ /\ r > 0
                    /\ need' = r
                    /\ GoOn(IF Avail + r < PreMax THEN "fill" ELSE "parse")
    /\ UNCHANGED <<mm, klen, dlen, rec, left, recs>>

\* What digits amount to
Decimal(ds) == FoldLeft(LAMBDA n, c : 10 * n + Value(c), 0, ds)

\* mcdb_bufread_number: [ok, n, p] of the digits at position p of the buffer;
\* the loop ends at the first position where it does not go on
Number(p, i) == Decimal(SubSeq(buf, p + 1, i))
GoesOn(p, i) == IsDigit(ByteAt(i)) /\ Number(p, i) <= NumMax
bufread_number(p) ==
    LET e == CHOOSE e \in p .. p + Len(buf) : ~GoesOn(p, e) /\ \A i \in p .. e - 1 : GoesOn(p, i)
    IN [ok |-> e # p /\ ~IsDigit(ByteAt(e)), n |-> Number(p, e), p |-> e]

ParsePreamble ==
    LET k == bufread_number(pos + 1)
        d == bufread_number(k.p + 1)
    IN /\ at = "parse"
       /\ CASE ByteAt(pos) = "\n" -> GoOn("finish") /\ pos' = pos + 1 /\ UNCHANGED <<klen, dlen>>
            [] ByteAt(pos) = "+" /\ k.ok /\ ByteAt(k.p) = "," /\ d.ok /\ ByteAt(d.p) = ":" ->
                 klen' = k.n /\ dlen' = d.n /\ pos' = d.p + 1 /\ GoOn("record")
            [] OTHER -> Return("format") /\ UNCHANGED <<pos, klen, dlen>>
       /\ UNCHANGED <<input, mm, buf, need, rec, left, recs>>

-----------------------------------------------------------------------------
(* The record: all of it in the buffer, or in parts.                       *)

\* Mutant: the newline may be missing.
BufferedShort == klen + dlen + 2 <= Avail

Buffered == klen + dlen + 3 <= Avail

AddBuffered ==
    /\ at = "record" /\ Buffered
    /\ \/ IF /\ ByteAt(pos + klen) = "-" /\ ByteAt(pos + klen + 1) = ">"
             /\ ByteAt(pos + klen + 2 + dlen) = "\n"
          THEN /\ recs' = Append(recs, [k |-> SubSeq(buf, pos + 1, pos + klen),
                                        d |-> SubSeq(buf, pos + klen + 3, pos + klen + 2 + dlen)])
               /\ pos' = pos + klen + dlen + 3
               /\ GoOn("preamble")
          ELSE Return("format") /\ UNCHANGED <<recs, pos>>
       \/ ReturnHurt("write") /\ UNCHANGED <<recs, pos>>
    /\ UNCHANGED <<input, mm, buf, need, klen, dlen, rec, left>>

AddBegin ==
    /\ at = "record" /\ ~Buffered
    /\ \/ GoOn("key") /\ rec' = [k |-> <<>>, d |-> <<>>] /\ left' = klen
       \/ ReturnHurt("write") /\ UNCHANGED <<rec, left>>
    /\ UNCHANGED <<input, mm, buf, pos, need, klen, dlen, recs>>

\* mcdb_bufread_str: take what there is; "then" when it is all of it
Take(f, more, then) ==
    LET u == IF Avail > left THEN left ELSE Avail
    IN /\ rec' = [rec EXCEPT ![f] = @ \o SubSeq(buf, pos + 1, pos + u)]
       /\ pos' = pos + u
       /\ left' = left - u
       /\ GoOn(IF left = u THEN then ELSE more)
       /\ UNCHANGED <<input, mm, buf, need, klen, dlen, recs>>
TakeKey  == at = "key"  /\ Take("k", "more key", "arrow")
TakeData == at = "data" /\ Take("d", "more data", "newline")

\* ... and more of it; also mcdb_bufread_xchars, which wants n bytes
More(from, to) ==
    /\ at = from
    /\ \E r \in Results : /\ Reads(r)
                          /\ \/ r > 0 /\ GoOn(to)
                             \/ (r = 0 \/ mm) /\ Return("format")
                             \/ r = -1 /\ ~mm /\ ReturnHurt("format")
    /\ UNCHANGED <<mm, need, klen, dlen, rec, left, recs>>
MoreKey  == More("more key", "key")
MoreData == More("more data", "data")

MoreXchars(n, label) == Avail < n /\ More(label, label)

AddArrow ==
    /\ at = "arrow" /\ Avail >= 2
    /\ IF ByteAt(pos) = "-" /\ ByteAt(pos + 1) = ">"
       THEN GoOn("data") /\ left' = dlen /\ pos' = pos + 2
       ELSE Return("format") /\ UNCHANGED <<left, pos>>
    /\ UNCHANGED <<input, mm, buf, need, klen, dlen, rec, recs>>

AddEnd ==
    /\ at = "newline" /\ Avail >= 1
    /\ IF ByteAt(pos) = "\n"
       THEN GoOn("preamble") /\ recs' = Append(recs, rec) /\ pos' = pos + 1
       ELSE Return("format") /\ UNCHANGED <<recs, pos>>
    /\ UNCHANGED <<input, mm, buf, need, klen, dlen, rec, left>>

\* The empty line: mcdb_make_finish
FmtFinish ==
    /\ at = "finish"
    /\ Return("ok") \/ ReturnHurt("write")
    /\ UNCHANGED <<input, mm, buf, pos, need, klen, dlen, rec, left, recs>>

FmtNext == \/ FmtFinish \/ Preamble \/ PreambleFill \/ ParsePreamble
           \/ AddBuffered \/ AddBegin
           \/ TakeKey \/ MoreKey \/ MoreXchars(2, "arrow") \/ AddArrow
           \/ TakeData \/ MoreData \/ MoreXchars(1, "newline") \/ AddEnd
=============================================================================
