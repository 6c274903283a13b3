------------------------------- MODULE McdbCtl -------------------------------
(***************************************************************************)
(* mcdbctl (mcdbctl.c): dump writes the records of a database as text in   *)
(* batches of iovecs, make reads such a text (McdbMakefmt), uniq leaves    *)
(* one record per key, get prints what is stored under a key.              *)
(*                                                                         *)
(* A database is the sequence of its records, in the order mcdb_iter gives *)
(* them.  mcdb_find and mcdb_findnext give the records of a key in the     *)
(* order in which mcdb_make_finish enters them into the slot's table: the  *)
(* last list node of HpList entries first.  All keys are in one slot here. *)
(***************************************************************************)
EXTENDS McdbMakefmt, Functions

CONSTANTS DbSet,      \* databases there may be at the start
          Texts,      \* texts that were not written by dump
          IovNum,     \* MCDB_IOVNUM
          SsizeMax,   \* SSIZE_MAX
          HpList      \* MCDB_HPLIST

Record == [k : Seq(Byte), d : Seq(Byte)]

ASSUME CtlAssumption ==
    /\ HpList \in Nat \ {0}
    /\ DbSet \subseteq Seq(Record) /\ Texts \subseteq Seq(Byte)

VARIABLES db,       \* the database
          was,      \* ghost: the database before the command
          cmd,      \* the command and how far it is
          it,       \* the record mcdb_iter gives next
          mk,       \* records added to the new database (uniq)
          first,    \* keep the first value, not the last?
          iov,      \* bytes of the iovecs that are not written yet
          iovcnt,   \* iovecs filled
          iovlen,   \* their length as dump counts it; sz in writev_loop
          then,     \* where dump goes on after writev_loop
          out,      \* the text that dump wrote, or the one given to make
          early     \* ghost: writev_loop returned true with iovecs left

dumpVars == <<iov, iovcnt, iovlen, then, early>>
uniqVars == <<mk, first>>
ctlVars == <<fmtVars, db, was, cmd, it, out, dumpVars, uniqVars>>

CtlInit ==
    /\ db \in DbSet /\ was = db
    /\ cmd = "idle" /\ it = 1 /\ mk = <<>> /\ first = TRUE
    /\ iov = <<>> /\ iovcnt = 0 /\ iovlen = 0 /\ then = "" /\ early = FALSE /\ out = <<>>
    /\ input = <<>> /\ mm = FALSE /\ buf = <<>> /\ pos = 0 /\ need = 0
    /\ klen = 0 /\ dlen = 0 /\ rec = [k |-> <<>>, d |-> <<>>] /\ left = 0
    /\ recs = <<>> /\ at = "none" /\ rv = "" /\ hurt = FALSE

-----------------------------------------------------------------------------
(* mcdb_find and mcdb_findnext.                                            *)

Node(i) == (i - 1) \div HpList
Before(i, j) == Node(i) > Node(j) \/ (Node(i) = Node(j) /\ i < j)

\* The positions in r of the records under key k, in the order of finding
Finds(r, k) == CHOOSE f \in SetToSeqs({i \in DOMAIN r : r[i].k = k}) :
                   \A i, j \in DOMAIN f : i < j => Before(f[i], f[j])

\* mcdbctl_getseq and mcdbctl_getall: what they print
getseq(r, k, seq) == IF seq < Len(Finds(r, k)) THEN <<r[Finds(r, k)[seq + 1]].d>> ELSE <<>>
getall(r, k) == [i \in DOMAIN Finds(r, k) |-> r[Finds(r, k)[i]].d]

-----------------------------------------------------------------------------
(* mcdbctl_uniq                                                            *)

has_unique_keys(r) == \A i \in DOMAIN r : Len(Finds(r, r[i].k)) = 1

Uniq(f) ==
    /\ cmd = "idle"
    /\ first' = f
    /\ cmd' = IF has_unique_keys(db) THEN "uniq over" ELSE "uniq"
    /\ UNCHANGED <<fmtVars, db, was, it, out, dumpVars, mk>>

\* Mutant: "last" is ignored.
UniqRecordFirst ==
    /\ cmd = "uniq" /\ it <= Len(db)
    /\ mk' = IF Finds(db, db[it].k)[1] = it THEN Append(mk, db[it]) ELSE mk
    /\ it' = it + 1
    /\ UNCHANGED <<fmtVars, db, was, cmd, out, dumpVars, first>>

\* mcdbctl_make_unique_keys: the record that a search finds first stands for
\* its key, with its own data or with that of the last one found.
UniqRecord ==
    LET found == Finds(db, db[it].k) IN
    /\ cmd = "uniq" /\ it <= Len(db)
    /\ mk' = IF found[1] = it
             THEN Append(mk, [k |-> db[it].k,
                              d |-> IF first THEN db[it].d ELSE db[Last(found)].d])
             ELSE mk
    /\ it' = it + 1
    /\ UNCHANGED <<fmtVars, db, was, cmd, out, dumpVars, first>>

UniqFinish ==
    /\ cmd = "uniq" /\ it > Len(db)
    /\ db' = mk
    /\ cmd' = "uniq over" /\ it' = 1
    /\ UNCHANGED <<fmtVars, was, out, dumpVars, uniqVars>>

\* mcdb_makefn_start, mcdb_make_start, an add or the end of it fails
UniqFails ==
    /\ Faults /\ cmd = "uniq"
    /\ cmd' = "uniq over" /\ it' = 1
    /\ UNCHANGED <<fmtVars, db, was, out, dumpVars, uniqVars>>

-----------------------------------------------------------------------------
(* mcdbctl_dump                                                            *)

\* Mutant: the last digit only
ascii_digit(n) == <<Digits[(n % 10) + 1]>>

\* uint32_to_ascii_base10
ascii_base10(n) ==
    LET digits[m \in 0 .. n] == IF m < 10 THEN <<Digits[m + 1]>>
                                ELSE Append(digits[m \div 10], Digits[(m % 10) + 1])
    IN digits[n]

Cur == db[it]
KeyPart(r)  == <<"+">> \o ascii_base10(Len(r.k)) \o <<",">> \o ascii_base10(Len(r.d))
                   \o <<":">> \o r.k \o <<"-", ">">>
DataPart(r) == r.d \o <<"\n">>

\* The length of each key and each data fits a number of the format, and any two
\* of them a preamble: lengths are below INT_MAX - 7, and PreMax is 23.
Fits(r) ==
    \A i, j \in DOMAIN r :
        LET kl == Len(r[i].k)
            dl == Len(r[j].d)
        IN /\ kl <= 10 * NumMax + 9 /\ dl <= 10 * NumMax + 9
           /\ Len(ascii_base10(kl)) + Len(ascii_base10(dl)) + 3 <= PreMax
ASSUME SizesAssumption == \A r \in DbSet : Fits(r)

Dump ==
    /\ cmd \in {"idle", "uniq over"}
    /\ cmd' = "dump" /\ was' = db
    /\ UNCHANGED <<fmtVars, db, it, out, dumpVars, uniqVars>>

Room == iovlen + Len(Cur.k) + 5 <= SsizeMax /\ iovcnt + 8 < IovNum

\* writev_loop before the next record, for which there is no room
DumpFlush ==
    /\ cmd = "dump" /\ then # "key" /\ it <= Len(db)
    /\ ~Room
    /\ cmd' = "writev" /\ then' = "key"
    /\ UNCHANGED <<fmtVars, db, was, it, out, uniqVars, iov, iovcnt, iovlen, early>>

\* and after the last one
DumpRest ==
    /\ cmd = "dump" /\ it > Len(db)
    /\ cmd' = "writev" /\ then' = "end"
    /\ UNCHANGED <<fmtVars, db, was, it, out, uniqVars, iov, iovcnt, iovlen, early>>

\* Seven iovecs; the digits are not counted.
DumpKey ==
    /\ cmd = "dump" /\ it <= Len(db)
    /\ then = "key" \/ Room
    /\ iov' = iov \o KeyPart(Cur)
    /\ iovcnt' = iovcnt + 7
    /\ iovlen' = iovlen + Len(Cur.k) + 5
    /\ IF iovlen' + Len(Cur.d) + 1 > SsizeMax
       THEN cmd' = "writev" /\ then' = "data"
       ELSE cmd' = "data" /\ then' = ""
    /\ UNCHANGED <<fmtVars, db, was, it, out, uniqVars, early>>

DumpData ==
    /\ cmd = "data"
    /\ iov' = iov \o DataPart(Cur)
    /\ iovcnt' = iovcnt + 2
    /\ iovlen' = iovlen + Len(Cur.d) + 1
    /\ it' = it + 1
    /\ cmd' = "dump" /\ then' = ""
    /\ UNCHANGED <<fmtVars, db, was, out, uniqVars, early>>

\* One writev of writev_loop: some of the bytes, at least one.
Writev ==
    /\ cmd = "writev" /\ iov # <<>>
    /\ \E n \in 1 .. Len(iov) :
         /\ out' = out \o SubSeq(iov, 1, n)
         /\ iovlen' = iovlen - n
         /\ IF iovlen' = 0
            THEN iov' = <<>> /\ early' = (early \/ n < Len(iov))
            ELSE iov' = SubSeq(iov, n + 1, Len(iov)) /\ UNCHANGED early
    /\ UNCHANGED <<fmtVars, db, was, cmd, it, uniqVars, iovcnt, then>>

\* writev_loop returns true, and at the end the empty line is written.
WritevDone ==
    /\ cmd = "writev" /\ iov = <<>>
    /\ iovcnt' = 0 /\ iovlen' = 0
    /\ IF then = "end"
       THEN cmd' = "dumped" /\ out' = Append(out, "\n") /\ it' = 1
       ELSE cmd' = (IF then = "data" THEN "data" ELSE "dump") /\ UNCHANGED <<out, it>>
    /\ UNCHANGED <<fmtVars, db, was, uniqVars, iov, then, early>>

\* MCDB_ERROR_WRITE: mcdbctl says so and exits.
WritevFails ==
    /\ Faults /\ cmd = "writev"
    /\ cmd' = "failed"
    /\ UNCHANGED <<fmtVars, db, was, it, out, dumpVars, uniqVars>>

-----------------------------------------------------------------------------
(* mcdbctl_make: from standard input or from a mapped file.                *)

Source ==
    /\ \/ cmd = "dumped" /\ UNCHANGED out
       \/ cmd = "idle" /\ out' \in Texts
    /\ cmd' = IF cmd = "dumped" THEN "remake" ELSE "make"
    /\ UNCHANGED <<db, was, it, dumpVars, uniqVars>>

MakeStdin == Source /\ FmtStart(out', FALSE)

MakeFile == Source /\ out' # <<>> /\ FmtStart(out', TRUE)

\* open, fstat or mmap fails; mmap refuses an empty file
MakeFileFails ==
    /\ Source /\ at = "none"
    /\ IF out' = <<>> THEN Return("read") ELSE ReturnHurt("read")
    /\ UNCHANGED <<input, mm, buf, pos, need, klen, dlen, rec, left, recs>>

MakeStep ==
    /\ cmd \in {"make", "remake"}
    /\ FmtNext
    /\ UNCHANGED <<db, was, cmd, it, out, dumpVars, uniqVars>>

\* mcdb_makefmt_fdintofile: the new database takes the name if all went well.
MakeDone ==
    /\ cmd \in {"make", "remake"} /\ at = "end"
    /\ db' = IF rv = "ok" THEN recs ELSE db
    /\ cmd' = "over"
    /\ UNCHANGED <<fmtVars, was, it, out, dumpVars, uniqVars>>

CtlNext ==
    \/ \E f \in BOOLEAN : Uniq(f)
    \/ UniqRecord \/ UniqFinish \/ UniqFails
    \/ Dump \/ DumpFlush \/ DumpRest \/ DumpKey \/ DumpData \/ Writev \/ WritevDone \/ WritevFails
    \/ MakeStdin \/ MakeFile \/ MakeFileFails \/ MakeStep \/ MakeDone

CtlSpec == CtlInit /\ [][CtlNext]_ctlVars

-----------------------------------------------------------------------------
(* The format as a grammar: what a text means, whatever buffer it is read  *)
(* through.                                                                *)

IsNumber(ds) == ds # <<>> /\ Range(ds) \subseteq Range(Digits) /\ Decimal(ds) <= 10 * NumMax + 9

\* Is "+klen,dlen:", of at most limit bytes, at position p of t, with the comma
\* at c and the colon at e?
IsPreamble(t, limit, p, c, e) ==
    /\ e - p < limit
    /\ t[p] = "+" /\ t[c] = "," /\ t[e] = ":"
    /\ IsNumber(SubSeq(t, p + 1, c - 1)) /\ IsNumber(SubSeq(t, c + 1, e - 1))

\* "key->data\n" behind position e, and the position after it
Bodies(t, e, kl, dl) ==
    LET a == e + kl
        z == a + 2 + dl
    IN IF z + 1 <= Len(t) /\ t[a + 1] = "-" /\ t[a + 2] = ">" /\ t[z + 1] = "\n"
       THEN {[k |-> SubSeq(t, e + 1, a), d |-> SubSeq(t, a + 3, z), next |-> z + 2]} ELSE {}

\* The record at position p of t
RecordsAt(t, limit, p) ==
    UNION {IF IsPreamble(t, limit, p, c, e)
           THEN Bodies(t, e, Decimal(SubSeq(t, p + 1, c - 1)), Decimal(SubSeq(t, c + 1, e - 1)))
           ELSE {}
           : c \in p + 2 .. Len(t), e \in p + 4 .. Len(t)}

\* Each record r followed by what the text from r.next on means
Continued(from, R) == UNION {{<<[k |-> r.k, d |-> r.d]>> \o s : s \in from[r.next]} : r \in R}

\* The records that t means from each position on: {} if it is not of the format
Meanings(t, limit) ==
    LET from[p \in 1 .. Len(t) + 1] ==
            IF p > Len(t) THEN {}
            ELSE IF t[p] = "\n" THEN {<<>>} ELSE Continued(from, RecordsAt(t, limit, p))
    IN from
Meaning(t, limit) == Meanings(t, limit)[1]

\* mcdb_makefmt_fdintofd reads a text as what it means, wherever the reads
\* cut it and however records lie across the end of the buffer.  It accepts no
\* text that means nothing, and refuses none that means something unless
\* leading zeros make a preamble longer than it need be.
FmtExact ==
    at = "end" => IF rv = "ok" THEN Meaning(out, Len(out)) = {recs}
                  ELSE hurt \/ Meaning(out, PreMax) = {}

\* What mcdbctl_dump wrote, whatever bytes are in keys and data and however
\* writev cuts it into pieces, mcdbctl make turns into the same database.
\* (A writev that stops where the miscounted length ends is left out: early.)
DumpWhole ==
    cmd = "remake" /\ at = "end" /\ ~early /\ ~hurt => rv = "ok" /\ recs = was

\* mcdbctl_uniq leaves one record for each key, the one that get printed
\* first or, with "last", last; these are the first and the last record added
\* as long as the slot has one list node.  A uniq that fails changes nothing.
UniqExact ==
    cmd = "uniq over" /\ db # was =>
        /\ \A i, j \in DOMAIN db : db[i].k = db[j].k => i = j
        /\ {r.k : r \in Range(db)} = {r.k : r \in Range(was)}
        /\ \A r \in Range(db) :
             /\ IF first THEN getseq(was, r.k, 0) = <<r.d>> ELSE Last(getall(was, r.k)) = r.d
             /\ Len(was) <= HpList =>
                  \E i \in DOMAIN was :
                      /\ r = was[i]
                      /\ \A j \in DOMAIN was : was[j].k = r.k => IF first THEN i <= j ELSE j <= i

-----------------------------------------------------------------------------
(* The invariants that these properties rest on.                           *)

\* uniq: mk has the records that stand for their keys so far.
StandsFor(i) == [k |-> db[i].k,
                 d |-> IF first THEN db[i].d ELSE db[Last(Finds(db, db[i].k))].d]
UniqInv ==
    /\ cmd \in {"idle", "uniq"} => db = was
    /\ cmd = "idle" => it = 1 /\ mk = <<>>
    /\ cmd = "uniq" =>
         /\ it \in 1 .. Len(db) + 1 /\ mk \in Seq(Record)
         /\ Range(mk) = {StandsFor(i) : i \in {j \in 1 .. it - 1 : Finds(db, db[j].k)[1] = j}}
         /\ \A i, j \in DOMAIN mk : mk[i].k = mk[j].k => i = j

\* make: what has been read of the text, and what is still in the buffer
Reading == at \notin {"none", "end"}
Gone == Len(out) - Len(input) - Avail
Stream ==
    /\ buf \in Seq(Byte) /\ input \in Seq(Byte)
    /\ pos \in 0 .. Len(buf) /\ Gone \in 0 .. Len(out)
    /\ IF mm THEN input = <<>> ELSE Len(buf) <= BufSz
    /\ \A i \in 1 .. Avail : buf[pos + i] = out[Gone + i]
    /\ \A i \in 1 .. Len(input) : input[i] = out[Gone + Avail + i]
StreamInv ==
    /\ at # "none" => cmd \in {"make", "remake", "over"}
    /\ Reading => cmd # "over" /\ recs \in Seq(Record) /\ Stream

\* A preamble is parsed only when all of it is in the buffer.
PreambleInv ==
    /\ at = "fill" => /\ Avail < PreMax /\ need \in 0 .. Avail /\ (need = 0 => Avail = 0)
                      /\ \A i \in pos + 1 .. Len(buf) - need : buf[i] # ":"
    /\ at = "parse" => \/ Avail >= PreMax \/ ByteAt(pos) = "\n"
                       \/ \E i \in pos + 1 .. Len(buf) : buf[i] = ":"

\* The colon of the record that is read, and the parts read so far
Colon == CASE at = "record" -> Gone
           [] at \in {"key", "more key", "arrow"} -> Gone - Len(rec.k)
           [] OTHER -> Gone - Len(rec.d) - 2 - klen
Inside == {"record", "key", "more key", "arrow", "data", "more data", "newline"}
RecordInv ==
    at \in Inside =>
        /\ klen \in Nat /\ dlen \in Nat /\ Colon \in 0 .. Len(out)
        /\ at # "record" => /\ rec \in Record
                            /\ rec.k = SubSeq(out, Colon + 1, Colon + Len(rec.k))
        /\ at \in {"key", "more key"} => left = klen - Len(rec.k) /\ left \in Nat
        /\ at \in {"key", "more key", "arrow"} => rec.d = <<>>
        /\ at \in {"arrow", "data", "more data", "newline"} => Len(rec.k) = klen
        /\ at \in {"data", "more data", "newline"} =>
             /\ out[Colon + klen + 1] = "-" /\ out[Colon + klen + 2] = ">"
             /\ rec.d = SubSeq(out, Colon + klen + 3, Gone)
             /\ left = dlen - Len(rec.d) /\ left \in Nat
        /\ at \in {"more key", "more data"} => Avail = 0 /\ left # 0
        /\ at = "newline" => left = 0

\* What the rest of the text may add to the records read so far
Ahead(limit) ==
    CASE at \in Inside -> Continued(Meanings(out, limit), Bodies(out, Colon, klen, dlen))
      [] at = "finish" -> {<<>>}
      [] OTHER -> Meanings(out, limit)[Gone + 1]
MeaningInv ==
    Reading => /\ Meaning(out, Len(out)) = {recs \o s : s \in Ahead(Len(out))}
               /\ Meaning(out, PreMax) # {} => Ahead(PreMax) # {}

FmtInv == out \in Seq(Byte) /\ StreamInv /\ PreambleInv /\ RecordInv /\ MeaningInv /\ FmtExact

\* dump: the text of the first i records of r
DumpText(r) ==
    LET text[i \in 0 .. Len(r)] == IF i = 0 THEN <<>> ELSE text[i - 1] \o KeyPart(r[i]) \o DataPart(r[i])
    IN text
DumpInv ==
    /\ cmd \in {"idle", "uniq", "uniq over"} => iov = <<>> /\ out = <<>> /\ then = ""
    /\ cmd \in {"idle", "uniq", "uniq over", "dump", "data", "writev", "dumped", "remake"} =>
         db \in Seq(Record) /\ Fits(db)
    /\ cmd \in {"idle", "uniq over"} => it = 1
    /\ cmd \in {"dump", "data", "writev", "dumped", "remake"} => db = was
    /\ cmd \in {"dump", "data", "writev"} =>
         /\ out \in Seq(Byte) /\ iov \in Seq(Byte)
         /\ it \in 1 .. Len(db) + 1 /\ (cmd = "data" => it <= Len(db))
         /\ cmd = "dump" => then \in {"", "key"}
         /\ cmd = "data" => then \in {"", "data"}
         /\ cmd = "writev" => then \in {"key", "data", "end"}
         /\ then = "data" => it <= Len(db)
         /\ then = "end" => it = Len(db) + 1
         /\ ~early => out \o iov = DumpText(db)[it - 1] \o IF cmd = "data" \/ then = "data" THEN KeyPart(Cur) ELSE <<>>
    /\ cmd \in {"dumped", "remake"} /\ ~early => out = Append(DumpText(db)[Len(db)], "\n")
=============================================================================
