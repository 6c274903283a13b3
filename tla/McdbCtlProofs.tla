---------------------------- MODULE McdbCtlProofs ----------------------------
(***************************************************************************)
(* Proofs about mcdbctl, for texts and databases of any bytes and any      *)
(* length, read and written in pieces of any size: make reads a text as    *)
(* what it means, it makes of a dump the database that was dumped, and     *)
(* uniq leaves one record per key.                                         *)
(***************************************************************************)
EXTENDS McdbCtl, NaturalsInduction, WellFoundedInduction, SequenceTheorems, FiniteSetTheorems,
        TLAPS

\* Every nonempty set of naturals has a least element, ...
LEMMA LeastNat == ASSUME NEW T \in SUBSET Nat, T # {} PROVE \E x \in T : \A y \in T : x =< y
<1>1. IsWellFoundedOn(OpToRel(<, Nat), Nat)
  BY NatLessThanWellFounded
<1>2. \E x \in T : \A y \in T : ~ (<<y, x>> \in OpToRel(<, Nat))
  BY <1>1, WFMin, Zenon
<1>3. PICK x \in T : \A y \in T : ~ (<<y, x>> \in OpToRel(<, Nat))
  BY <1>2
<1>4. \A y \in T : ~ (y < x)
  BY <1>3 DEF OpToRel
<1> QED BY <1>4

\* ... and one with a bound a greatest.
LEMMA MaxIs == ASSUME NEW n \in Nat, NEW S \in SUBSET (1 .. n), S # {}
               PROVE  Max(S) \in S /\ \A y \in S : y =< Max(S)
<1> DEFINE T == {n - x : x \in S}
<1>1. \A x \in S : x \in Nat /\ x =< n /\ n - x \in Nat
  OBVIOUS
<1>2. T \in SUBSET Nat /\ T # {}
  BY <1>1
<1>3. PICK d \in T : \A y \in T : d =< y
  BY <1>2, LeastNat
<1>4. PICK x \in S : d = n - x
  BY <1>3
<1>5. ASSUME NEW y \in S PROVE x >= y
  <2>1. n - y \in T
    OBVIOUS
  <2>2. d =< n - y
    BY <1>3, <2>1
  <2> QED BY <1>1, <1>4, <2>2
<1>6. x \in S /\ \A y \in S : x >= y
  BY <1>4, <1>5
<1>7. Max(S) \in S /\ \A y \in S : Max(S) >= y
  BY <1>6 DEF Max
<1> QED BY <1>1, <1>7

-----------------------------------------------------------------------------
(* Digits and numbers.                                                     *)

LEMMA DigitsAre == Range(Digits) = {"0", "1", "2", "3", "4", "5", "6", "7", "8", "9"}
<1>1. DOMAIN Digits = 1 .. 10
  BY DEF Digits
<1>2. /\ Digits[1] = "0" /\ Digits[2] = "1" /\ Digits[3] = "2" /\ Digits[4] = "3" /\ Digits[5] = "4"
      /\ Digits[6] = "5" /\ Digits[7] = "6" /\ Digits[8] = "7" /\ Digits[9] = "8" /\ Digits[10] = "9"
  BY DEF Digits
<1>3. \A i \in 1 .. 10 :
         i = 1 \/ i = 2 \/ i = 3 \/ i = 4 \/ i = 5 \/ i = 6 \/ i = 7 \/ i = 8 \/ i = 9 \/ i = 10
  OBVIOUS
<1> HIDE DEF Digits
<1> QED BY <1>1, <1>2, <1>3 DEF Range

LEMMA NoDigits ==
    ~IsDigit(Nil) /\ ~IsDigit(",") /\ ~IsDigit(":") /\ ~IsDigit("\n") /\ ~IsDigit("-") /\ ~IsDigit("+")
BY DigitsAre DEF IsDigit, Nil

LEMMA DigitValue == ASSUME NEW c, IsDigit(c) PROVE Value(c) \in 0 .. 9 /\ c \in Byte
<1>1. PICK i \in DOMAIN Digits : Digits[i] = c
  BY DEF IsDigit, Range
<1>2. DOMAIN Digits = 1 .. 10
  BY DEF Digits
<1>3. (CHOOSE j \in DOMAIN Digits : Digits[j] = c) \in DOMAIN Digits
  BY <1>1
<1>4. Value(c) \in 0 .. 9
  BY <1>2, <1>3 DEF Value
<1>5. c \in {"0", "1", "2", "3", "4", "5", "6", "7", "8", "9"}
  BY DigitsAre DEF IsDigit
<1>6. c \in Byte
  BY <1>5, ByteAssumption
<1> QED BY <1>4, <1>6

LEMMA ValueOfDigit == ASSUME NEW i \in 0 .. 9 PROVE IsDigit(Digits[i + 1]) /\ Value(Digits[i + 1]) = i
<1>1. DOMAIN Digits = 1 .. 10
  BY DEF Digits
<1>2. \A a, b \in 1 .. 10 : Digits[a] = Digits[b] => a = b
  BY DEF Digits
<1>3. i + 1 \in DOMAIN Digits
  BY <1>1
<1>4. (CHOOSE j \in DOMAIN Digits : Digits[j] = Digits[i + 1]) = i + 1
  BY <1>1, <1>2, <1>3
<1>5. IsDigit(Digits[i + 1])
  BY <1>3 DEF IsDigit, Range
<1>6. Value(Digits[i + 1]) = i
  <2> HIDE DEF Digits
  <2>1. Value(Digits[i + 1]) = (i + 1) - 1
    BY <1>4 DEF Value
  <2> QED BY <2>1
<1> QED BY <1>5, <1>6

\* The fold that gives the value of digits takes them one by one.
Sums(F, ds) == F[0] = 0 /\ \A m \in 1 .. Len(ds) : F[m] = 10 * F[m - 1] + Value(ds[m])

LEMMA DecimalSteps == ASSUME NEW ds \in Seq(Byte) PROVE \E F : Sums(F, ds) /\ Decimal(ds) = F[Len(ds)]
<1> DEFINE n  == Len(ds)
           Val(f, S) == IF S = {} THEN 0 ELSE 10 * f[S \ {Max(S)}] + Value(ds[Max(S)])
           Solves(f, m) == f = [S \in SUBSET (1 .. m) |-> Val(f, S)]
           T == {m \in Nat : ~ \E f : Solves(f, m)}
           iter == CHOOSE f : Solves(f, n)
<1>1. n \in Nat /\ DOMAIN ds = 1 .. n
  OBVIOUS
<1>2. Decimal(ds) = iter[1 .. n]
  BY <1>1 DEF Decimal, FoldLeft, MapThenFoldSet
<1> HIDE DEF n
<1>3. \A m \in Nat : \E f : Solves(f, m)
  <2>1. SUFFICES ASSUME T # {} PROVE FALSE
    <3> HIDE DEF Solves
    <3> QED OBVIOUS
  <2>2. PICK m \in T : \A y \in T : m =< y
    <3>1. T \in SUBSET Nat
      <4> HIDE DEF Solves
      <4> QED OBVIOUS
    <3> HIDE DEF T
    <3> QED BY <2>1, <3>1, LeastNat
  <2>3. m \in Nat /\ ~(\E f : Solves(f, m)) /\ \A y \in Nat : (~ \E f : Solves(f, y)) => m =< y
    <3> HIDE DEF Solves
    <3> QED BY <2>2
  <2>4. m # 0
    <3> DEFINE f == [S \in SUBSET (1 .. 0) |-> 0]
    <3>1. f = [S \in SUBSET (1 .. 0) |-> Val(f, S)]
      OBVIOUS
    <3> HIDE DEF f, Val
    <3>2. \E g : Solves(g, 0)
      BY <3>1
    <3> HIDE DEF Solves
    <3> QED BY <2>3, <3>2
  <2>5. PICK g : Solves(g, m - 1)
    <3>1. m - 1 \in Nat /\ ~ (m =< m - 1)
      BY <2>3, <2>4
    <3> HIDE DEF Solves
    <3> QED BY <2>3, <3>1
  <2>6. \A S \in SUBSET (1 .. m - 1) : g[S] = Val(g, S)
    <3> HIDE DEF Val
    <3> QED BY <2>5
  <2> DEFINE f == [S \in SUBSET (1 .. m) |-> Val(g, S)]
  <2>7. \A S \in SUBSET (1 .. m - 1) : S \in SUBSET (1 .. m) /\ f[S] = g[S]
    <3>1. \A S \in SUBSET (1 .. m - 1) : S \in SUBSET (1 .. m)
      BY <2>3
    <3> HIDE DEF Val
    <3> QED BY <2>6, <3>1
  <2>8. ASSUME NEW S \in SUBSET (1 .. m) PROVE Val(g, S) = Val(f, S)
    <3>1. CASE S = {}
      BY <3>1
    <3>2. CASE S # {}
      <4>1. Max(S) \in S /\ \A y \in S : y =< Max(S)
        BY <2>3, <3>2, MaxIs
      <4>2. S \ {Max(S)} \in SUBSET (1 .. m - 1)
        <5>1. \A y \in S : y \in 1 .. m
          OBVIOUS
        <5>2. ASSUME NEW y \in S, y # Max(S) PROVE y \in 1 .. m - 1
          <6>1. y =< Max(S) /\ Max(S) \in 1 .. m /\ y \in 1 .. m
            BY <4>1, <5>1
          <6> QED BY <2>3, <5>2, <6>1
        <5> QED BY <5>2
      <4>3. f[S \ {Max(S)}] = g[S \ {Max(S)}]
        <5> HIDE DEF f
        <5> QED BY <2>7, <4>2
      <4> HIDE DEF f
      <4> QED BY <4>3
    <3> QED BY <3>1, <3>2
  <2>9. f = [S \in SUBSET (1 .. m) |-> Val(f, S)]
    <3>1. f = [S \in SUBSET (1 .. m) |-> Val(g, S)]
      OBVIOUS
    <3> HIDE DEF f, Val
    <3> QED BY <2>8, <3>1
  <2>10. \E h : Solves(h, m)
    <3> HIDE DEF f, Val
    <3> QED BY <2>9
  <2> HIDE DEF Solves
  <2> QED BY <2>3, <2>10
<1>4. Solves(iter, n)
  <2> HIDE DEF Solves
  <2> QED BY <1>1, <1>3
<1> HIDE DEF iter
<1> DEFINE G == [m \in 0 .. n |-> iter[1 .. m]]
<1>5. \A S \in SUBSET (1 .. n) : iter[S] = Val(iter, S)
  <2> HIDE DEF Val
  <2> QED BY <1>4
<1>6. G[0] = 0
  <2>1. 1 .. 0 = {} /\ {} \in SUBSET (1 .. n) /\ 0 \in 0 .. n
    BY <1>1
  <2>2. iter[{}] = 0
    BY <1>5, <2>1
  <2> QED BY <2>1, <2>2
<1>7. ASSUME NEW m \in 1 .. n PROVE G[m] = 10 * G[m - 1] + Value(ds[m])
  <2>1. m \in 0 .. n /\ m - 1 \in 0 .. n /\ 1 .. m # {} /\ 1 .. m \in SUBSET (1 .. n)
    BY <1>1
  <2>2. Max(1 .. m) = m
    <3>1. m \in Nat /\ 1 .. m \in SUBSET (1 .. m) /\ m \in 1 .. m
      BY <1>1
    <3>2. Max(1 .. m) \in 1 .. m /\ m =< Max(1 .. m)
      BY <2>1, <3>1, MaxIs
    <3> QED BY <3>1, <3>2
  <2>3. (1 .. m) \ {m} = 1 .. m - 1
    BY <1>1
  <2>4. iter[1 .. m] = 10 * iter[1 .. m - 1] + Value(ds[m])
    BY <1>5, <2>1, <2>2, <2>3
  <2> QED BY <2>1, <2>4
<1>8. Decimal(ds) = G[n]
  BY <1>1, <1>2
<1>9. Sums(G, ds)
  <2> HIDE DEF G
  <2> QED BY <1>6, <1>7 DEF Sums, n
<1> HIDE DEF G
<1> QED BY <1>8, <1>9 DEF n

LEMMA DecimalEmpty == Decimal(<<>>) = 0
<1>1. PICK F : Sums(F, <<>>) /\ Decimal(<<>>) = F[Len(<<>>)]
  <2>1. <<>> \in Seq(Byte)
    OBVIOUS
  <2> QED BY <2>1, DecimalSteps
<1> QED BY <1>1 DEF Sums

\* Digits have a natural number for a value ...
LEMMA DecimalNat ==
    ASSUME NEW ds \in Seq(Byte), \A i \in 1 .. Len(ds) : IsDigit(ds[i])
    PROVE  Decimal(ds) \in Nat
<1>1. PICK F : Sums(F, ds) /\ Decimal(ds) = F[Len(ds)]
  BY DecimalSteps
<1>2. Len(ds) \in Nat
  OBVIOUS
<1> DEFINE T == {m \in 0 .. Len(ds) : F[m] \notin Nat}
<1>3. T = {}
  <2>1. SUFFICES ASSUME T # {} PROVE FALSE
    OBVIOUS
  <2>2. PICK m \in T : \A y \in T : m =< y
    <3>1. T \in SUBSET Nat
      BY <1>2
    <3> HIDE DEF T
    <3> QED BY <2>1, <3>1, LeastNat
  <2>3. m # 0
    BY <1>1, <2>2 DEF Sums
  <2>4. m - 1 \in 0 .. Len(ds) /\ m \in 1 .. Len(ds) /\ ~(m =< m - 1)
    BY <1>2, <2>2, <2>3
  <2>5. F[m - 1] \in Nat
    BY <2>2, <2>4
  <2>6. Value(ds[m]) \in Nat
    <3>1. IsDigit(ds[m])
      BY <2>4
    <3> QED BY <3>1, DigitValue
  <2>7. F[m] = 10 * F[m - 1] + Value(ds[m])
    BY <1>1, <2>4 DEF Sums
  <2> QED BY <2>2, <2>5, <2>6, <2>7
<1> QED BY <1>1, <1>2, <1>3

\* ... and one digit more makes it ten times as much and that digit.
LEMMA DecimalAppend ==
    ASSUME NEW ds \in Seq(Byte), NEW c \in Byte
    PROVE  Decimal(Append(ds, c)) = 10 * Decimal(ds) + Value(c)
<1> DEFINE es == Append(ds, c)
           n  == Len(ds)
<1>1. es \in Seq(Byte) /\ Len(es) = n + 1 /\ n \in Nat /\ es[n + 1] = c
      /\ \A i \in 1 .. n : es[i] = ds[i]
  OBVIOUS
<1>2. PICK F : Sums(F, ds) /\ Decimal(ds) = F[n]
  BY DecimalSteps
<1>3. PICK G : Sums(G, es) /\ Decimal(es) = G[n + 1]
  <2> HIDE DEF es
  <2> QED BY <1>1, DecimalSteps
<1> HIDE DEF es
<1> DEFINE T == {m \in 0 .. n : F[m] # G[m]}
<1>4. T = {}
  <2>1. SUFFICES ASSUME T # {} PROVE FALSE
    OBVIOUS
  <2>2. PICK m \in T : \A y \in T : m =< y
    <3>1. T \in SUBSET Nat
      BY <1>1
    <3> HIDE DEF T
    <3> QED BY <2>1, <3>1, LeastNat
  <2>3. m # 0
    BY <1>2, <1>3, <2>2 DEF Sums
  <2>4. m - 1 \in 0 .. n /\ m \in 1 .. n /\ m \in 1 .. n + 1 /\ ~(m =< m - 1)
    BY <1>1, <2>2, <2>3
  <2>5. F[m - 1] = G[m - 1]
    BY <2>2, <2>4
  <2>6. F[m] = 10 * F[m - 1] + Value(ds[m])
    BY <1>2, <2>4 DEF Sums
  <2>7. G[m] = 10 * G[m - 1] + Value(es[m])
    BY <1>1, <1>3, <2>4 DEF Sums
  <2>8. es[m] = ds[m]
    BY <1>1, <2>4
  <2> QED BY <2>2, <2>5, <2>6, <2>7, <2>8
<1>5. F[n] = G[n]
  BY <1>1, <1>4
<1>6. G[n + 1] = 10 * G[n] + Value(es[n + 1])
  <2>1. n + 1 \in 1 .. Len(es) /\ (n + 1) - 1 = n
    BY <1>1
  <2> QED BY <1>3, <2>1 DEF Sums
<1> QED BY <1>1, <1>2, <1>3, <1>5, <1>6 DEF es

-----------------------------------------------------------------------------
(* mcdb_bufread_number.                                                    *)

\* One byte more of a text
LEMMA OneMore ==
    ASSUME NEW t \in Seq(Byte), NEW p \in Nat, NEW i \in Nat, p =< i, i < Len(t)
    PROVE  /\ SubSeq(t, p + 1, i + 1) = Append(SubSeq(t, p + 1, i), t[i + 1])
           /\ SubSeq(t, p + 1, i) \in Seq(Byte) /\ t[i + 1] \in Byte
<1>1. t[i + 1] \in Byte /\ p + 1 \in 1 .. Len(t) /\ i + 1 \in p + 1 .. Len(t) /\ Len(t) \in Nat
  OBVIOUS
<1>2. SubSeq(t, p + 1, i + 1) = SubSeq(t, p + 1, (i + 1) - 1) \o <<t[i + 1]>>
  BY <1>1, SubSeqRecursiveSecond
<1>3. (i + 1) - 1 = i
  OBVIOUS
<1>4. SubSeq(t, p + 1, i) \in Seq(Byte)
  <2>1. \A j \in p + 1 .. i : t[j] \in Byte
    BY <1>1
  <2> QED BY <2>1, SubSeqProperties
<1>5. Append(SubSeq(t, p + 1, i), t[i + 1]) = SubSeq(t, p + 1, i) \o <<t[i + 1]>>
  BY <1>1, <1>4, AppendIsConcat
<1> QED BY <1>1, <1>2, <1>3, <1>4, <1>5

\* The loop over the digits ends somewhere.
LEMMA NumberEnds ==
    ASSUME buf \in Seq(Byte), NEW p \in Nat
    PROVE  LET e == bufread_number(p).p IN
           /\ e \in p .. p + Len(buf) /\ ~GoesOn(p, e) /\ \A i \in p .. e - 1 : GoesOn(p, i)
           /\ bufread_number(p).ok = (e # p /\ ~IsDigit(ByteAt(e)))
           /\ bufread_number(p).n = Number(p, e)
<1> DEFINE Good(e) == ~GoesOn(p, e) /\ \A i \in p .. e - 1 : GoesOn(p, i)
           c == CHOOSE e \in p .. p + Len(buf) : Good(e)
           T == {e \in p .. p + Len(buf) : ~GoesOn(p, e)}
<1>1. Len(buf) \in Nat
  OBVIOUS
<1>2. p + Len(buf) \in T
  <2>1. ByteAt(p + Len(buf)) = Nil
    BY <1>1 DEF ByteAt
  <2>2. ~GoesOn(p, p + Len(buf))
    BY <2>1, NoDigits DEF GoesOn
  <2>3. p + Len(buf) \in p .. p + Len(buf)
    BY <1>1
  <2> QED BY <2>2, <2>3
<1>3. PICK e \in T : \A y \in T : e =< y
  <2>1. T \in SUBSET Nat
    BY <1>1
  <2> HIDE DEF T
  <2> QED BY <1>2, <2>1, LeastNat
<1>4. Good(e) /\ e \in p .. p + Len(buf)
  <2>1. ASSUME NEW i \in p .. e - 1 PROVE GoesOn(p, i)
    <3>1. i \in p .. p + Len(buf) /\ ~(e =< i)
      BY <1>1, <1>3
    <3> QED BY <1>3, <3>1
  <2> QED BY <1>3, <2>1
<1>5. c \in p .. p + Len(buf) /\ Good(c)
  <2> HIDE DEF Good
  <2> QED BY <1>4
<1>6. bufread_number(p) = [ok |-> c # p /\ ~IsDigit(ByteAt(c)), n |-> Number(p, c), p |-> c]
  BY DEF bufread_number
<1> HIDE DEF c
<1> QED BY <1>5, <1>6

\* The digits from position p of the buffer up to position i
LEMMA DigitsFrom ==
    ASSUME buf \in Seq(Byte), NEW p \in Nat, NEW i \in p .. Len(buf)
    PROVE  LET ds == SubSeq(buf, p + 1, i) IN
           /\ ds \in Seq(Byte) /\ Len(ds) = i - p
           /\ \A j \in 1 .. Len(ds) : ds[j] = ByteAt(p + j - 1)
<1> DEFINE ds == SubSeq(buf, p + 1, i)
<1>1. Len(buf) \in Nat /\ i \in Nat /\ p =< i /\ i =< Len(buf)
  OBVIOUS
<1>2. \A j \in p + 1 .. i : buf[j] \in Byte
  BY <1>1
<1>3. /\ ds \in Seq(Byte)
      /\ Len(ds) = IF p + 1 <= i THEN i - (p + 1) + 1 ELSE 0
      /\ \A j \in 1 .. i - (p + 1) + 1 : ds[j] = buf[(p + 1) + j - 1]
  BY <1>1, <1>2, SubSeqProperties
<1> HIDE DEF ds
<1>4. Len(ds) = i - p
  BY <1>1, <1>3
<1>5. ASSUME NEW j \in 1 .. Len(ds) PROVE ds[j] = ByteAt(p + j - 1)
  <2>1. j \in 1 .. i - (p + 1) + 1 /\ (p + 1) + j - 1 = (p + j - 1) + 1 /\ p + j - 1 < Len(buf)
    BY <1>1, <1>4
  <2> QED BY <1>3, <2>1 DEF ByteAt
<1> QED BY <1>3, <1>4, <1>5 DEF ds

LEMMA NumberNat ==
    ASSUME buf \in Seq(Byte), NEW p \in Nat, NEW i \in p .. Len(buf),
           \A j \in p .. i - 1 : IsDigit(ByteAt(j))
    PROVE  Number(p, i) \in Nat
<1> DEFINE ds == SubSeq(buf, p + 1, i)
<1>1. ds \in Seq(Byte) /\ Len(ds) = i - p /\ \A j \in 1 .. Len(ds) : ds[j] = ByteAt(p + j - 1)
  BY DigitsFrom
<1> HIDE DEF ds
<1>2. ASSUME NEW j \in 1 .. Len(ds) PROVE IsDigit(ds[j])
  <2>1. p + j - 1 \in p .. i - 1
    BY <1>1
  <2> QED BY <1>1, <2>1
<1>3. Decimal(ds) \in Nat
  BY <1>1, <1>2, DecimalNat
<1> QED BY <1>3 DEF ds, Number

LEMMA NextDigit ==
    ASSUME buf \in Seq(Byte), NEW p \in Nat, NEW i \in Nat, p =< i, i < Len(buf)
    PROVE  Number(p, i + 1) = 10 * Number(p, i) + Value(ByteAt(i))
<1>1. /\ SubSeq(buf, p + 1, i + 1) = Append(SubSeq(buf, p + 1, i), buf[i + 1])
      /\ SubSeq(buf, p + 1, i) \in Seq(Byte) /\ buf[i + 1] \in Byte
  BY OneMore
<1>2. ByteAt(i) = buf[i + 1]
  BY DEF ByteAt
<1> QED BY <1>1, <1>2, DecimalAppend DEF Number

LEMMA NumberIs ==
    ASSUME buf \in Seq(Byte), NEW p \in Nat, NEW e \in p + 1 .. Len(buf)
    PROVE  IsNumber(SubSeq(buf, p + 1, e)) <=> /\ \A j \in p .. e - 1 : IsDigit(ByteAt(j))
                                               /\ Number(p, e) <= 10 * NumMax + 9
<1> DEFINE ds == SubSeq(buf, p + 1, e)
<1>0. Len(buf) \in Nat /\ e \in p .. Len(buf)
  OBVIOUS
<1>1. ds \in Seq(Byte) /\ Len(ds) = e - p /\ \A j \in 1 .. Len(ds) : ds[j] = ByteAt(p + j - 1)
  BY <1>0, DigitsFrom
<1>2. IsNumber(ds) <=> ds # <<>> /\ Range(ds) \subseteq Range(Digits) /\ Number(p, e) <= 10 * NumMax + 9
  BY DEF IsNumber, Number
<1> HIDE DEF ds
<1>3. ds # <<>> /\ DOMAIN ds = 1 .. Len(ds)
  BY <1>1
<1>4. Range(ds) \subseteq Range(Digits) <=> \A j \in 1 .. Len(ds) : IsDigit(ds[j])
  BY <1>3 DEF Range, IsDigit
<1>5. (\A j \in 1 .. Len(ds) : IsDigit(ds[j])) <=> \A j \in p .. e - 1 : IsDigit(ByteAt(j))
  <2>1. ASSUME \A j \in 1 .. Len(ds) : IsDigit(ds[j]), NEW j \in p .. e - 1 PROVE IsDigit(ByteAt(j))
    <3>1. j - p + 1 \in 1 .. Len(ds) /\ p + (j - p + 1) - 1 = j
      BY <1>1
    <3> QED BY <1>1, <2>1, <3>1
  <2>2. ASSUME \A j \in p .. e - 1 : IsDigit(ByteAt(j)), NEW j \in 1 .. Len(ds) PROVE IsDigit(ds[j])
    <3>1. p + j - 1 \in p .. e - 1
      BY <1>1
    <3> QED BY <1>1, <2>2, <3>1
  <2> QED BY <2>1, <2>2
<1> QED BY <1>2, <1>3, <1>4, <1>5 DEF ds

\* It accepts numbers, ...
LEMMA NumberSound ==
    ASSUME buf \in Seq(Byte), NEW p \in Nat, bufread_number(p).ok
    PROVE  LET e == bufread_number(p).p IN
           /\ e \in p + 1 .. Len(buf) /\ IsNumber(SubSeq(buf, p + 1, e)) /\ ~IsDigit(ByteAt(e))
           /\ bufread_number(p).n = Number(p, e) /\ Number(p, e) \in Nat
<1>1. PICK e \in p .. p + Len(buf) :
         /\ bufread_number(p).p = e
         /\ ~GoesOn(p, e) /\ \A i \in p .. e - 1 : GoesOn(p, i)
         /\ e # p /\ ~IsDigit(ByteAt(e))
         /\ bufread_number(p).n = Number(p, e)
  BY NumberEnds
<1>2. Len(buf) \in Nat /\ e \in Nat /\ p < e /\ e - 1 \in p .. e - 1 /\ e - 1 \in Nat
  BY <1>1
<1>3. \A i \in p .. e - 1 : IsDigit(ByteAt(i)) /\ Number(p, i) <= NumMax
  BY <1>1 DEF GoesOn
<1>4. e - 1 < Len(buf)
  <2>1. IsDigit(ByteAt(e - 1))
    BY <1>2, <1>3
  <2> QED BY <2>1, NoDigits DEF ByteAt
<1>5. e \in p + 1 .. Len(buf)
  BY <1>2, <1>4
<1>6. Number(p, e) = 10 * Number(p, e - 1) + Value(ByteAt(e - 1))
  <2>1. (e - 1) + 1 = e /\ p =< e - 1
    BY <1>2
  <2>2. Number(p, (e - 1) + 1) = 10 * Number(p, e - 1) + Value(ByteAt(e - 1))
    BY <1>2, <1>4, <2>1, NextDigit
  <2> QED BY <2>1, <2>2
<1>7. Number(p, e - 1) \in Nat /\ Number(p, e) \in Nat
  <2>1. e - 1 \in p .. Len(buf) /\ e \in p .. Len(buf) /\ \A j \in p .. (e - 1) - 1 : j \in p .. e - 1
    BY <1>2, <1>5
  <2> QED BY <1>3, <2>1, NumberNat
<1>8. Value(ByteAt(e - 1)) \in 0 .. 9 /\ Number(p, e - 1) <= NumMax
  BY <1>2, <1>3, DigitValue
<1>9. Number(p, e) <= 10 * NumMax + 9
  <2>1. PICK a \in Nat, b \in Nat, v \in 0 .. 9, m \in Nat :
           a = Number(p, e) /\ b = Number(p, e - 1) /\ v = Value(ByteAt(e - 1)) /\ m = NumMax
    BY <1>7, <1>8, FmtAssumption
  <2>2. a = 10 * b + v /\ b =< m
    BY <1>6, <1>8, <2>1
  <2>3. a <= 10 * m + 9
    BY <2>2
  <2> QED BY <2>1, <2>3
<1>10. IsNumber(SubSeq(buf, p + 1, e))
  BY <1>3, <1>5, <1>9, NumberIs
<1> QED BY <1>1, <1>5, <1>7, <1>10

\* ... and every number that is followed by something else.
LEMMA NumberComplete ==
    ASSUME buf \in Seq(Byte), NEW p \in Nat, NEW e \in p + 1 .. Len(buf),
           IsNumber(SubSeq(buf, p + 1, e)), ~IsDigit(ByteAt(e))
    PROVE  /\ bufread_number(p).ok /\ bufread_number(p).p = e
           /\ bufread_number(p).n = Number(p, e) /\ Number(p, e) \in Nat
<1>1. PICK f \in p .. p + Len(buf) :
         /\ bufread_number(p).p = f
         /\ ~GoesOn(p, f) /\ \A i \in p .. f - 1 : GoesOn(p, i)
         /\ bufread_number(p).ok = (f # p /\ ~IsDigit(ByteAt(f)))
         /\ bufread_number(p).n = Number(p, f)
  BY NumberEnds
<1>2. Len(buf) \in Nat /\ e \in Nat /\ p < e /\ e =< Len(buf) /\ e - 1 \in Nat /\ p =< e - 1
  OBVIOUS
<1>3. (\A j \in p .. e - 1 : IsDigit(ByteAt(j))) /\ Number(p, e) <= 10 * NumMax + 9
  BY NumberIs
<1>4. ASSUME NEW i \in p .. e PROVE Number(p, i) \in Nat
  <2>1. i \in p .. Len(buf) /\ \A j \in p .. i - 1 : j \in p .. e - 1
    BY <1>2
  <2> QED BY <1>3, <2>1, NumberNat
<1>5. ASSUME NEW i \in p .. e - 1
      PROVE  Number(p, i + 1) = 10 * Number(p, i) + Value(ByteAt(i)) /\ Value(ByteAt(i)) \in 0 .. 9
  <2>1. i \in Nat /\ p =< i /\ i < Len(buf)
    BY <1>2
  <2> QED BY <1>3, <2>1, NextDigit, DigitValue
<1>6. Number(p, e - 1) <= NumMax
  <2>1. e - 1 \in p .. e - 1 /\ e - 1 \in p .. e /\ e \in p .. e /\ (e - 1) + 1 = e
    BY <1>2
  <2>2. Number(p, e) = 10 * Number(p, e - 1) + Value(ByteAt(e - 1)) /\ Value(ByteAt(e - 1)) \in 0 .. 9
    BY <1>5, <2>1
  <2>3. Number(p, e) \in Nat /\ Number(p, e - 1) \in Nat
    BY <1>4, <2>1
  <2>4. PICK a \in Nat, b \in Nat, v \in 0 .. 9, m \in Nat :
           a = Number(p, e) /\ b = Number(p, e - 1) /\ v = Value(ByteAt(e - 1)) /\ m = NumMax
    BY <2>2, <2>3, FmtAssumption
  <2>5. a = 10 * b + v /\ a <= 10 * m + 9
    BY <1>3, <2>2, <2>4
  <2>6. b <= m
    BY <2>5
  <2> QED BY <2>4, <2>6
<1> DEFINE T == {n \in 0 .. e - 1 - p : ~(Number(p, e - 1 - n) <= NumMax)}
<1>7. T = {}
  <2>1. SUFFICES ASSUME T # {} PROVE FALSE
    OBVIOUS
  <2>2. PICK n \in T : \A y \in T : n =< y
    <3>1. T \in SUBSET Nat
      BY <1>2
    <3> HIDE DEF T
    <3> QED BY <2>1, <3>1, LeastNat
  <2>3. n # 0
    BY <1>2, <1>6, <2>2
  <2>4. /\ n - 1 \in 0 .. e - 1 - p /\ ~(n =< n - 1) /\ e - 1 - n \in p .. e - 1 /\ e - 1 - n \in p .. e
        /\ (e - 1 - n) + 1 = e - 1 - (n - 1)
    BY <1>2, <2>2, <2>3
  <2>5. Number(p, e - 1 - (n - 1)) <= NumMax
    BY <2>2, <2>4
  <2>6. /\ Number(p, (e - 1 - n) + 1) = 10 * Number(p, e - 1 - n) + Value(ByteAt(e - 1 - n))
        /\ Value(ByteAt(e - 1 - n)) \in 0 .. 9 /\ Number(p, e - 1 - n) \in Nat
    BY <1>4, <1>5, <2>4
  <2>7. Number(p, e - 1 - n) <= NumMax
    <3>1. Number(p, e - 1 - (n - 1)) = 10 * Number(p, e - 1 - n) + Value(ByteAt(e - 1 - n))
      BY ONLY <2>4, <2>6
    <3>2. PICK a \in Nat, v \in 0 .. 9 : a = Number(p, e - 1 - n) /\ v = Value(ByteAt(e - 1 - n))
      BY ONLY <2>6
    <3>3. 10 * a + v <= NumMax
      BY ONLY <2>5, <3>1, <3>2
    <3>4. NumMax \in Nat
      BY FmtAssumption
    <3>5. a <= NumMax
      BY ONLY <3>3, <3>4, a \in Nat, v \in 0 .. 9
    <3> QED BY ONLY <3>2, <3>5
  <2> QED BY <2>2, <2>7
<1>8. ASSUME NEW i \in p .. e - 1 PROVE GoesOn(p, i)
  <2>1. e - 1 - i \in 0 .. e - 1 - p /\ e - 1 - (e - 1 - i) = i
    BY <1>2
  <2>2. Number(p, i) <= NumMax
    BY <1>7, <2>1
  <2> QED BY <1>3, <2>2 DEF GoesOn
<1>9. ~GoesOn(p, e)
  BY DEF GoesOn
<1>10. f = e
  <2>1. CASE f < e
    BY <1>1, <1>2, <1>8, <2>1
  <2>2. CASE e < f
    BY <1>1, <1>2, <1>9, <2>2
  <2> QED BY <1>1, <1>2, <2>1, <2>2
<1>11. e \in p .. e
  BY <1>2
<1>12. Number(p, e) \in Nat
  BY <1>4, <1>11
<1>13. bufread_number(p).ok
  <2>1. e # p
    BY <1>2
  <2>2. bufread_number(p).ok = (e # p /\ ~IsDigit(ByteAt(e)))
    BY <1>1, <1>10
  <2> QED BY <2>1, <2>2, Zenon
<1> QED BY <1>1, <1>10, <1>12, <1>13

-----------------------------------------------------------------------------
(* The format.                                                             *)

\* A part of a text
LEMMA Part ==
    ASSUME NEW t \in Seq(Byte), NEW a \in Nat \ {0}, NEW b \in Nat, b <= Len(t)
    PROVE  /\ SubSeq(t, a, b) \in Seq(Byte)
           /\ Len(SubSeq(t, a, b)) = IF a <= b THEN b - a + 1 ELSE 0
           /\ \A i \in 1 .. b - a + 1 : SubSeq(t, a, b)[i] = t[a + i - 1]
<1>1. \A i \in a .. b : t[i] \in Byte
  OBVIOUS
<1>2. a \in Int /\ b \in Int
  OBVIOUS
<1> QED BY <1>1, <1>2, SubSeqProperties

LEMMA NumberDigits ==
    ASSUME NEW t \in Seq(Byte), NEW a \in Nat \ {0}, NEW b \in Nat, b <= Len(t), IsNumber(SubSeq(t, a, b))
    PROVE  a <= b /\ (\A i \in a .. b : IsDigit(t[i])) /\ Decimal(SubSeq(t, a, b)) \in Nat
<1> DEFINE ds == SubSeq(t, a, b)
<1>1. /\ ds \in Seq(Byte) /\ Len(ds) = IF a <= b THEN b - a + 1 ELSE 0
      /\ \A i \in 1 .. b - a + 1 : ds[i] = t[a + i - 1]
  BY Part
<1>2. IsNumber(ds)
  OBVIOUS
<1> HIDE DEF ds
<1>3. Len(ds) # 0 /\ Range(ds) \subseteq Range(Digits) /\ DOMAIN ds = 1 .. Len(ds)
  BY <1>1, <1>2 DEF IsNumber
<1>4. a <= b /\ Len(ds) = b - a + 1
  BY <1>1, <1>3
<1>5. \A i \in 1 .. Len(ds) : IsDigit(ds[i])
  BY <1>3 DEF Range, IsDigit
<1>6. ASSUME NEW i \in a .. b PROVE IsDigit(t[i])
  <2>1. i - a + 1 \in 1 .. Len(ds) /\ i - a + 1 \in 1 .. b - a + 1 /\ a + (i - a + 1) - 1 = i
    BY <1>4
  <2> QED BY <1>1, <1>5, <2>1
<1>7. Decimal(ds) \in Nat
  BY <1>1, <1>5, DecimalNat
<1> QED BY <1>4, <1>6, <1>7 DEF ds

LEMMA PreambleIs ==
    ASSUME NEW t \in Seq(Byte), NEW limit, NEW p \in 1 .. Len(t),
           NEW c \in p + 2 .. Len(t), NEW e \in p + 4 .. Len(t), IsPreamble(t, limit, p, c, e)
    PROVE  /\ e \in c + 2 .. Len(t)
           /\ t[p] = "+" /\ t[c] = "," /\ t[e] = ":" /\ e - p < limit
           /\ \A i \in p + 1 .. c - 1 : IsDigit(t[i])
           /\ \A i \in c + 1 .. e - 1 : IsDigit(t[i])
           /\ Decimal(SubSeq(t, p + 1, c - 1)) \in Nat
           /\ Decimal(SubSeq(t, c + 1, e - 1)) \in Nat
<1>1. /\ e - p < limit /\ t[p] = "+" /\ t[c] = "," /\ t[e] = ":"
      /\ IsNumber(SubSeq(t, p + 1, c - 1)) /\ IsNumber(SubSeq(t, c + 1, e - 1))
  BY DEF IsPreamble
<1>2. Len(t) \in Nat /\ p + 1 \in Nat \ {0} /\ c + 1 \in Nat \ {0} /\ c - 1 \in Nat /\ e - 1 \in Nat
      /\ c - 1 <= Len(t) /\ e - 1 <= Len(t)
  OBVIOUS
<1>3. /\ \A i \in p + 1 .. c - 1 : IsDigit(t[i])
      /\ Decimal(SubSeq(t, p + 1, c - 1)) \in Nat
  BY <1>1, <1>2, NumberDigits
<1>4. /\ c + 1 <= e - 1
      /\ \A i \in c + 1 .. e - 1 : IsDigit(t[i])
      /\ Decimal(SubSeq(t, c + 1, e - 1)) \in Nat
  BY <1>1, <1>2, NumberDigits
<1>5. e \in c + 2 .. Len(t)
  BY <1>4
<1> QED BY <1>1, <1>3, <1>4, <1>5

\* A preamble ends in one place only.
LEMMA OnePreamble ==
    ASSUME NEW t \in Seq(Byte), NEW l, NEW m, NEW p \in 1 .. Len(t),
           NEW c \in p + 2 .. Len(t), NEW e \in p + 4 .. Len(t), IsPreamble(t, l, p, c, e),
           NEW d \in p + 2 .. Len(t), NEW f \in p + 4 .. Len(t), IsPreamble(t, m, p, d, f)
    PROVE  c = d /\ e = f
<1>1. /\ e \in c + 2 .. Len(t) /\ t[c] = "," /\ t[e] = ":"
      /\ \A i \in p + 1 .. c - 1 : IsDigit(t[i])
      /\ \A i \in c + 1 .. e - 1 : IsDigit(t[i])
  BY PreambleIs
<1>2. /\ f \in d + 2 .. Len(t) /\ t[d] = "," /\ t[f] = ":"
      /\ \A i \in p + 1 .. d - 1 : IsDigit(t[i])
      /\ \A i \in d + 1 .. f - 1 : IsDigit(t[i])
  BY PreambleIs
<1>3. c = d
  <2>1. ~(c < d)
    <3>1. c < d => c \in p + 1 .. d - 1
      OBVIOUS
    <3> QED BY <1>1, <1>2, <3>1, NoDigits
  <2>2. ~(d < c)
    <3>1. d < c => d \in p + 1 .. c - 1
      OBVIOUS
    <3> QED BY <1>1, <1>2, <3>1, NoDigits
  <2> QED BY <2>1, <2>2
<1>4. e = f
  <2>1. ~(e < f)
    <3>0. e \in c + 2 .. Len(t) /\ c = d
      BY <1>1, <1>3
    <3>1. e < f => e \in d + 1 .. f - 1
      BY <3>0
    <3> QED BY <1>1, <1>2, <3>1, NoDigits
  <2>2. ~(f < e)
    <3>0. f \in d + 2 .. Len(t) /\ c = d
      BY <1>2, <1>3
    <3>1. f < e => f \in c + 1 .. e - 1
      BY <3>0
    <3> QED BY <1>1, <1>2, <3>1, NoDigits
  <2> QED BY <2>1, <2>2
<1> QED BY <1>3, <1>4

LEMMA BodyIs ==
    ASSUME NEW t \in Seq(Byte), NEW e \in Nat, NEW kl \in Nat, NEW dl \in Nat, NEW r \in Bodies(t, e, kl, dl)
    PROVE  /\ e + kl + dl + 3 <= Len(t) /\ r.next = e + kl + dl + 4
           /\ t[e + kl + 1] = "-" /\ t[e + kl + 2] = ">" /\ t[e + kl + dl + 3] = "\n"
           /\ r.k = SubSeq(t, e + 1, e + kl) /\ r.d = SubSeq(t, e + kl + 3, e + kl + dl + 2)
           /\ r.k \in Seq(Byte) /\ r.d \in Seq(Byte)
           /\ Bodies(t, e, kl, dl) = {r}
<1> DEFINE a == e + kl
           z == a + 2 + dl
           b == [k |-> SubSeq(t, e + 1, a), d |-> SubSeq(t, a + 3, z), next |-> z + 2]
<1>1. /\ z + 1 <= Len(t) /\ t[a + 1] = "-" /\ t[a + 2] = ">" /\ t[z + 1] = "\n"
      /\ Bodies(t, e, kl, dl) = {b}
  BY DEF Bodies
<1>2. r = b
  BY <1>1
<1>3. z + 1 = e + kl + dl + 3 /\ z + 2 = e + kl + dl + 4 /\ z = e + kl + dl + 2 /\ a \in Nat /\ z \in Nat
      /\ e + 1 \in Nat \ {0} /\ a + 3 \in Nat \ {0} /\ a <= Len(t) /\ z <= Len(t)
  BY <1>1
<1>4. SubSeq(t, e + 1, a) \in Seq(Byte) /\ SubSeq(t, a + 3, z) \in Seq(Byte)
  <2> HIDE DEF a, z
  <2> QED BY <1>3, Part
<1>5. r.k = SubSeq(t, e + 1, a) /\ r.d = SubSeq(t, a + 3, z) /\ r.next = z + 2
  BY <1>2
<1>6. Bodies(t, e, kl, dl) = {r}
  BY <1>1, <1>2
<1> HIDE DEF z, b
<1> QED BY <1>1, <1>3, <1>4, <1>5, <1>6

\* The body of a record, where a preamble promises one.
LEMMA BodyOf ==
    ASSUME NEW t \in Seq(Byte), NEW e \in Nat, NEW kl \in Nat, NEW dl \in Nat, NEW x \in Bodies(t, e, kl, dl)
    PROVE  /\ x.next = e + kl + dl + 4 /\ x.k = SubSeq(t, e + 1, e + kl)
           /\ x.d = SubSeq(t, e + kl + 3, e + kl + dl + 2) /\ Bodies(t, e, kl, dl) = {x}
BY BodyIs

\* It lies inside the text.
LEMMA BodyInside ==
    ASSUME NEW t \in Seq(Byte), NEW e \in Nat, NEW kl \in Nat, NEW dl \in Nat, NEW x \in Bodies(t, e, kl, dl)
    PROVE  e + kl + dl + 3 <= Len(t) /\ x.next = e + kl + dl + 4 /\ x.k \in Seq(Byte) /\ x.d \in Seq(Byte)
BY BodyIs

\* What a record says, and that it lies before the next one
LEMMA RecordIs ==
    ASSUME NEW t \in Seq(Byte), NEW limit, NEW p \in 1 .. Len(t), NEW r \in RecordsAt(t, limit, p)
    PROVE  r.next \in p + 1 .. Len(t) + 1 /\ r.k \in Seq(Byte) /\ r.d \in Seq(Byte)
<1> DEFINE kl(c) == Decimal(SubSeq(t, p + 1, c - 1))
           dl(c, e) == Decimal(SubSeq(t, c + 1, e - 1))
<1>1. PICK c \in p + 2 .. Len(t), e \in p + 4 .. Len(t) :
         IsPreamble(t, limit, p, c, e) /\ r \in Bodies(t, e, kl(c), dl(c, e))
  BY DEF RecordsAt
<1>2. kl(c) \in Nat /\ dl(c, e) \in Nat /\ e \in Nat /\ p < e /\ Len(t) \in Nat
  <2>1. Decimal(SubSeq(t, p + 1, c - 1)) \in Nat /\ Decimal(SubSeq(t, c + 1, e - 1)) \in Nat
    BY <1>1, PreambleIs
  <2>2. e \in Nat /\ p < e /\ Len(t) \in Nat
    OBVIOUS
  <2> QED BY <2>1, <2>2
<1> HIDE DEF kl, dl
<1>3. /\ e + kl(c) + dl(c, e) + 3 <= Len(t) /\ r.next = e + kl(c) + dl(c, e) + 4
      /\ r.k \in Seq(Byte) /\ r.d \in Seq(Byte)
  <2>1. r \in Bodies(t, e, kl(c), dl(c, e))
    BY <1>1
  <2> QED BY ONLY t \in Seq(Byte), <1>2, <2>1, BodyInside
<1> QED BY <1>2, <1>3

\* The meanings of a text, from each position on
LEMMA MeaningsAre ==
    ASSUME NEW t \in Seq(Byte), NEW limit, NEW p \in 1 .. Len(t) + 1
    PROVE  Meanings(t, limit)[p] =
               IF p > Len(t) THEN {}
               ELSE IF t[p] = "\n" THEN {<<>>} ELSE Continued(Meanings(t, limit), RecordsAt(t, limit, p))
<1> DEFINE L == Len(t) + 1
           Val(f, q) == IF q > Len(t) THEN {}
                        ELSE IF t[q] = "\n" THEN {<<>>} ELSE Continued(f, RecordsAt(t, limit, q))
           Solves(f, n) == f = [q \in 1 .. L |-> f[q]] /\ \A q \in 1 .. L : q > L - n => f[q] = Val(f, q)
           T == {n \in Nat : ~ \E f : Solves(f, n)}
<1>1. L \in Nat /\ Len(t) \in Nat
  OBVIOUS
<1>2. ASSUME NEW f, NEW g, NEW q \in 1 .. L, \A u \in q + 1 .. L : f[u] = g[u]
      PROVE  Val(f, q) = Val(g, q)
  <2>1. CASE q > Len(t)
    BY <2>1
  <2>2. CASE q <= Len(t)
    <3>1. \A r \in RecordsAt(t, limit, q) : f[r.next] = g[r.next]
      <4>1. q \in 1 .. Len(t)
        BY <1>1, <2>2
      <4>2. \A r \in RecordsAt(t, limit, q) : r.next \in q + 1 .. L
        BY <4>1, RecordIs
      <4> QED BY <1>2, <4>2
    <3>2. Continued(f, RecordsAt(t, limit, q)) = Continued(g, RecordsAt(t, limit, q))
      <4> DEFINE R == RecordsAt(t, limit, q)
                 C(h, r) == {<<[k |-> r.k, d |-> r.d]>> \o s : s \in h[r.next]}
      <4>1. Continued(f, R) = UNION {C(f, r) : r \in R} /\ Continued(g, R) = UNION {C(g, r) : r \in R}
        BY DEF Continued
      <4> HIDE DEF R
      <4>2. \A r \in R : C(f, r) = C(g, r)
        BY <3>1 DEF R
      <4> HIDE DEF C
      <4>3. Continued(f, R) = Continued(g, R)
        BY ONLY <4>1, <4>2
      <4> QED BY <4>3 DEF R
    <3> QED BY <3>2
  <2> QED BY <1>1, <2>1, <2>2
<1> HIDE DEF Val
<1>3. \A n \in Nat : \E f : Solves(f, n)
  <2>1. SUFFICES ASSUME T # {} PROVE FALSE
    <3> HIDE DEF Solves
    <3> QED OBVIOUS
  <2>2. PICK n \in T : \A y \in T : n =< y
    <3>1. T \in SUBSET Nat
      <4> HIDE DEF Solves
      <4> QED OBVIOUS
    <3> HIDE DEF T
    <3> QED BY <2>1, <3>1, LeastNat
  <2>3. n \in Nat /\ ~(\E f : Solves(f, n)) /\ \A y \in Nat : (~ \E f : Solves(f, y)) => n =< y
    <3> HIDE DEF Solves
    <3> QED BY <2>2
  <2>4. n # 0
    <3> DEFINE f == [q \in 1 .. L |-> {}]
    <3>1. f = [q \in 1 .. L |-> f[q]]
      OBVIOUS
    <3> HIDE DEF f, L
    <3>2. \A q \in 1 .. L : ~(q > L - 0)
      BY <1>1
    <3>3. Solves(f, 0)
      BY <3>1, <3>2
    <3> HIDE DEF Solves
    <3> QED BY <2>3, <3>3
  <2>5. PICK g : Solves(g, n - 1)
    <3>1. n - 1 \in Nat /\ ~ (n =< n - 1)
      BY <2>3, <2>4
    <3> HIDE DEF Solves
    <3> QED BY <2>3, <3>1
  <2> DEFINE f == [q \in 1 .. L |-> IF q = L - n + 1 THEN Val(g, q) ELSE g[q]]
  <2>6. f = [q \in 1 .. L |-> f[q]]
    OBVIOUS
  <2>7. \A q \in 1 .. L : f[q] = IF q = L - n + 1 THEN Val(g, q) ELSE g[q]
    OBVIOUS
  <2> HIDE DEF f
  <2>8. ASSUME NEW q \in 1 .. L, q > L - n PROVE f[q] = Val(f, q)
    <3>1. \A u \in q + 1 .. L : f[u] = g[u]
      <4>1. \A u \in q + 1 .. L : u \in 1 .. L /\ u # L - n + 1
        <5> HIDE DEF L
        <5> QED BY <1>1, <2>3, <2>8
      <4> QED BY <2>7, <4>1
    <3>2. Val(f, q) = Val(g, q)
      <4> HIDE DEF L
      <4> QED BY <1>2, <3>1
    <3>3. CASE q = L - n + 1
      BY <2>7, <3>2, <3>3
    <3>4. CASE q # L - n + 1
      <4>1. q > L - (n - 1)
        <5> HIDE DEF L
        <5> QED BY <1>1, <2>3, <2>8, <3>4
      <4>2. g[q] = Val(g, q)
        <5> HIDE DEF L
        <5> QED BY <2>5, <4>1
      <4> QED BY <2>7, <3>2, <3>4, <4>2
    <3> QED BY <3>3, <3>4
  <2>9. Solves(f, n)
    <3> HIDE DEF L
    <3> QED BY <2>6, <2>8
  <2> HIDE DEF Solves
  <2> QED BY <2>3, <2>9
<1>4. \E f : f = [q \in 1 .. L |-> Val(f, q)]
  <2>1. PICK f : Solves(f, L)
    <3> HIDE DEF Solves, L
    <3> QED BY <1>1, <1>3
  <2>2. \A q \in 1 .. L : f[q] = Val(f, q)
    <3> HIDE DEF L
    <3>1. \A q \in 1 .. L : q > L - L
      BY <1>1
    <3> QED BY <2>1, <3>1
  <2>3. f = [q \in 1 .. L |-> f[q]]
    BY <2>1
  <2>4. f = [q \in 1 .. L |-> Val(f, q)]
    <3> HIDE DEF L
    <3> QED BY <2>2, <2>3
  <2> QED BY <2>4
<1> DEFINE M == CHOOSE f : f = [q \in 1 .. L |-> Val(f, q)]
<1>5. Meanings(t, limit) = M
  BY DEF Meanings, Val
<1>6. M = [q \in 1 .. L |-> Val(M, q)]
  <2> HIDE DEF L
  <2> QED BY <1>4
<1> HIDE DEF M
<1>7. M[p] = Val(M, p)
  BY <1>6
<1> QED BY <1>5, <1>7 DEF Val

\* The preamble at a position says which record is there.
LEMMA PreambleRecords ==
    ASSUME NEW t \in Seq(Byte), NEW l, NEW m, NEW p \in 1 .. Len(t),
           NEW c \in p + 2 .. Len(t), NEW e \in p + 4 .. Len(t), IsPreamble(t, l, p, c, e)
    PROVE  LET R == Bodies(t, e, Decimal(SubSeq(t, p + 1, c - 1)), Decimal(SubSeq(t, c + 1, e - 1)))
           IN RecordsAt(t, l, p) = R /\ RecordsAt(t, m, p) \subseteq R
<1> DEFINE R == Bodies(t, e, Decimal(SubSeq(t, p + 1, c - 1)), Decimal(SubSeq(t, c + 1, e - 1)))
<1>1. R \subseteq RecordsAt(t, l, p)
  BY DEF RecordsAt
<1>2. ASSUME NEW n, NEW r \in RecordsAt(t, n, p) PROVE r \in R
  <2>1. PICK d \in p + 2 .. Len(t), f \in p + 4 .. Len(t) :
           /\ IsPreamble(t, n, p, d, f)
           /\ r \in Bodies(t, f, Decimal(SubSeq(t, p + 1, d - 1)), Decimal(SubSeq(t, d + 1, f - 1)))
    BY <1>2 DEF RecordsAt
  <2>2. c = d /\ e = f
    BY <2>1, OnePreamble
  <2> QED BY <2>1, <2>2
<1> QED BY <1>1, <1>2

LEMMA NoPreamble ==
    ASSUME NEW t, NEW l, NEW p,
           \A c \in p + 2 .. Len(t), e \in p + 4 .. Len(t) : ~IsPreamble(t, l, p, c, e)
    PROVE  RecordsAt(t, l, p) = {}
BY DEF RecordsAt

-----------------------------------------------------------------------------
(* What is in the buffer and what is not yet read.                         *)

LEMMA AvailIs == ASSUME Stream, out \in Seq(Byte)
                 PROVE  /\ Avail \in Nat /\ Gone + Avail + Len(input) = Len(out) /\ Gone \in Nat
                        /\ Len(input) \in Nat /\ Len(buf) \in Nat /\ Len(out) \in Nat /\ Gone + Avail <= Len(out)
                        /\ pos \in Nat /\ pos + Avail = Len(buf)
BY DEF Stream, Gone, Avail

LEMMA ReadKeeps ==
    ASSUME Stream, out \in Seq(Byte), NEW r \in Results, Reads(r), out' = out, mm' = mm
    PROVE  /\ Stream' /\ Gone' = Gone
           /\ Avail' = IF mm \/ r < 0 THEN Avail ELSE Avail + r
           /\ \A i \in 1 .. Avail : buf'[pos' + i] = buf[pos + i]
           /\ (r = 0 \/ mm) /\ Avail < BufSz /\ (Avail < MoveMin \/ pos = 0) => Len(input) = 0
<1>0. /\ Avail \in Nat /\ Gone + Avail + Len(input) = Len(out) /\ Gone \in Nat
      /\ Len(input) \in Nat /\ Len(buf) \in Nat /\ Len(out) \in Nat /\ pos \in Nat /\ pos + Avail = Len(buf)
  BY AvailIs
<1>a. /\ buf \in Seq(Byte) /\ input \in Seq(Byte)
      /\ pos \in 0 .. Len(buf) /\ Gone \in 0 .. Len(out)
      /\ IF mm THEN input = <<>> ELSE Len(buf) <= BufSz
      /\ \A i \in 1 .. Avail : buf[pos + i] = out[Gone + i]
      /\ \A i \in 1 .. Len(input) : input[i] = out[Gone + Avail + i]
  BY DEF Stream
<1>1. CASE mm
  <2>1. UNCHANGED <<input, buf, pos>> /\ input = <<>>
    BY <1>1, <1>a DEF Reads
  <2>2. Gone' = Gone /\ Avail' = Avail
    BY <2>1 DEF Gone, Avail
  <2>3. Stream'
    BY <1>a, <2>1, <2>2 DEF Stream
  <2>4. Len(input) = 0
    BY <2>1
  <2> QED BY <1>1, <2>1, <2>2, <2>3, <2>4
<1>2. CASE ~mm
  <2> DEFINE b == IF Moved THEN SubSeq(buf, pos + 1, Len(buf)) ELSE buf
             q == IF Moved THEN 0 ELSE pos
             n == IF r < 0 THEN 0 ELSE r
             x == SubSeq(input, 1, r)
  <2>0. r \in Int /\ BufSz \in Nat
    BY FmtAssumption DEF Results
  <2>1. /\ \/ r > 0 /\ r <= BufSz - Len(b) /\ r <= Len(input)
           \/ r = 0 /\ (BufSz - Len(b) = 0 \/ input = <<>>)
           \/ r = -1
        /\ pos' = q /\ buf' = b \o x
        /\ input' = IF r > 0 THEN SubSeq(input, r + 1, Len(input)) ELSE input
    BY <1>2 DEF Reads, bufread_fd
  <2>2. /\ b \in Seq(Byte) /\ Len(b) = q + Avail /\ q \in Nat /\ Len(b) \in Nat /\ Len(b) <= BufSz
        /\ \A i \in 1 .. Avail : b[q + i] = buf[pos + i]
    <3>1. CASE Moved
      <4>1. pos + 1 \in Nat \ {0} /\ Len(buf) <= Len(buf)
        BY <1>0
      <4>2. /\ b \in Seq(Byte) /\ Len(b) = IF pos + 1 <= Len(buf) THEN Len(buf) - (pos + 1) + 1 ELSE 0
            /\ \A i \in 1 .. Len(buf) - (pos + 1) + 1 : b[i] = buf[(pos + 1) + i - 1]
        BY <1>0, <1>a, <3>1, <4>1, Part
      <4>3. q = 0 /\ Len(b) = Avail
        BY <1>0, <3>1, <4>2
      <4>4. Len(b) <= BufSz
        BY <1>0, <1>2, <1>a, <4>3, FmtAssumption
      <4>5. \A i \in 1 .. Avail : b[q + i] = buf[pos + i]
        <5> HIDE DEF b
        <5> SUFFICES ASSUME NEW i \in 1 .. Avail PROVE b[q + i] = buf[pos + i]
          OBVIOUS
        <5>1. i \in 1 .. Len(buf) - (pos + 1) + 1 /\ (pos + 1) + i - 1 = pos + i /\ q + i = i
          BY <1>0, <4>3
        <5> QED BY <4>2, <5>1
      <4> HIDE DEF b
      <4> QED BY <1>0, <4>2, <4>3, <4>4, <4>5
    <3>2. CASE ~Moved
      BY <1>0, <1>2, <1>a, <3>2
    <3> QED BY <3>1, <3>2
  <2> HIDE DEF b
  <2>3. x \in Seq(Byte) /\ Len(x) = n /\ n \in Nat /\ n <= Len(input) /\ \A i \in 1 .. n : x[i] = input[i]
    <3>1. r \in -1 .. BufSz /\ BufSz \in Nat
      BY FmtAssumption DEF Results
    <3>2. n \in Nat /\ n <= Len(input)
      BY <1>0, <2>1, <3>1
    <3>3. ASSUME NEW i \in 1 .. r PROVE input[i] \in Byte
      <4>1. i \in 1 .. Len(input)
        BY <1>0, <3>1, <3>2
      <4> QED BY <1>a, <4>1
    <3>4. x \in Seq(Byte) /\ Len(x) = (IF 1 <= r THEN r - 1 + 1 ELSE 0) /\ \A i \in 1 .. r - 1 + 1 : x[i] = input[1 + i - 1]
      BY <3>1, <3>3, SubSeqProperties
    <3> HIDE DEF x
    <3>5. \A i \in 1 .. n : x[i] = input[i]
      BY <3>1, <3>4
    <3> QED BY <3>1, <3>2, <3>4, <3>5
  <2>4. /\ input' \in Seq(Byte) /\ Len(input') = Len(input) - n
        /\ \A i \in 1 .. Len(input') : input'[i] = input[n + i]
    <3>1. CASE r > 0
      <4>1. r + 1 \in Nat \ {0} /\ n = r /\ input' = SubSeq(input, r + 1, Len(input)) /\ Len(input) <= Len(input)
            /\ r \in Nat
        BY <1>0, <2>0, <2>1, <2>3, <3>1
      <4> HIDE DEF n, x, q
      <4> DEFINE y == SubSeq(input, r + 1, Len(input))
      <4>a. /\ y \in Seq(Byte) /\ Len(y) = IF r + 1 <= Len(input) THEN Len(input) - (r + 1) + 1 ELSE 0
            /\ \A i \in 1 .. Len(input) - (r + 1) + 1 : y[i] = input[(r + 1) + i - 1]
        BY <1>0, <1>a, <4>1, Part
      <4>b. input' = y
        BY <4>1
      <4> HIDE DEF y
      <4>2. /\ input' \in Seq(Byte) /\ Len(input') = IF r + 1 <= Len(input) THEN Len(input) - (r + 1) + 1 ELSE 0
            /\ \A i \in 1 .. Len(input) - (r + 1) + 1 : input'[i] = input[(r + 1) + i - 1]
        BY <4>a, <4>b
      <4>3. Len(input') = Len(input) - n
        BY <1>0, <2>3, <4>1, <4>2
      <4>4. ASSUME NEW i \in 1 .. Len(input') PROVE input'[i] = input[n + i]
        <5>1. i \in 1 .. Len(input) - (r + 1) + 1 /\ (r + 1) + i - 1 = n + i
          BY <1>0, <4>1, <4>3
        <5> QED BY <4>2, <5>1
      <4> QED BY <4>2, <4>3, <4>4
    <3>2. CASE ~(r > 0)
      <4>1. input' = input /\ n = 0
        BY <2>0, <2>1, <3>2
      <4> HIDE DEF n
      <4>2. \A i \in 1 .. Len(input') : input'[i] = input[n + i]
        BY <1>0, <4>1
      <4> QED BY <1>0, <1>a, <4>1, <4>2
    <3> QED BY <3>1, <3>2
  <2>5. /\ buf' \in Seq(Byte) /\ Len(buf') = Len(b) + n
        /\ \A i \in 1 .. Len(b) : buf'[i] = b[i]
        /\ \A i \in 1 .. n : buf'[Len(b) + i] = input[i]
    <3>1. /\ buf' \in Seq(Byte) /\ Len(buf') = Len(b) + Len(x)
          /\ \A i \in 1 .. Len(b) + Len(x) : buf'[i] = IF i <= Len(b) THEN b[i] ELSE x[i - Len(b)]
      <4> HIDE DEF x
      <4> QED BY <2>1, <2>2, <2>3, ConcatProperties
    <3> HIDE DEF x, n
    <3>2. ASSUME NEW i \in 1 .. Len(b) PROVE buf'[i] = b[i]
      <4>1. Len(x) \in Nat /\ Len(b) \in Nat
        BY <2>2, <2>3
      <4>2. i \in 1 .. Len(b) + Len(x) /\ i <= Len(b)
        BY ONLY <4>1, i \in 1 .. Len(b)
      <4> QED BY ONLY <3>1, <4>2
    <3>3. ASSUME NEW i \in 1 .. n PROVE buf'[Len(b) + i] = input[i]
      <4>1. Len(b) + i \in 1 .. Len(b) + Len(x) /\ ~(Len(b) + i <= Len(b)) /\ Len(b) + i - Len(b) = i
        BY <2>2, <2>3
      <4> QED BY <2>3, <3>1, <4>1
    <3> QED BY <2>3, <3>1, <3>2, <3>3
  <2>6. n = (IF r < 0 THEN 0 ELSE r) /\ pos' = q
    BY <2>1
  <2>7. Len(buf') <= BufSz
    BY <2>0, <2>1, <2>2, <2>3, <2>5, <2>6
  <2>8. (r = 0 /\ Avail < BufSz /\ (Avail < MoveMin \/ pos = 0)) => Len(input) = 0
    <3>1. SUFFICES ASSUME r = 0, Avail < BufSz, Avail < MoveMin \/ pos = 0 PROVE Len(input) = 0
      OBVIOUS
    <3>2. q = 0
      BY <3>1 DEF Moved
    <3>3. BufSz - Len(b) # 0
      BY <1>0, <2>2, <3>1, <3>2, FmtAssumption
    <3>4. input = <<>>
      BY <2>1, <3>1, <3>3
    <3> QED BY <3>4
  <2> HIDE DEF q, x, n
  <2>9. Avail' = Avail + n /\ Gone' = Gone
    <3>1. Avail' = Len(buf') - pos'
      BY DEF Avail
    <3>2. Avail' = Avail + n
      <4>1. Len(buf') - pos' = Len(b) - q + n /\ Len(b) - q = Avail
        BY <1>0, <2>2, <2>3, <2>5, <2>6
      <4>2. Avail \in Nat /\ n \in Nat /\ Len(b) \in Nat /\ q \in Nat
        BY <1>0, <2>2, <2>3
      <4> QED BY ONLY <3>1, <4>1, <4>2
    <3>3. Gone' = Len(out) - Len(input') - Avail' /\ Gone = Len(out) - Len(input) - Avail
      BY DEF Gone
    <3>4. Len(input') = Len(input) - n
      BY <2>4
    <3> HIDE DEF Gone, Avail
    <3>5. Len(input) \in Nat /\ n \in Nat /\ Avail \in Nat /\ Len(out) \in Nat
      BY <1>0, <2>3
    <3> QED BY ONLY <3>2, <3>3, <3>4, <3>5
  <2>10. ASSUME NEW i \in 1 .. Avail PROVE buf'[pos' + i] = buf[pos + i]
    <3>1. Avail \in Nat
      BY <1>0
    <3> HIDE DEF Avail
    <3>2. q + i \in 1 .. Len(b)
      BY ONLY <2>2, <3>1, i \in 1 .. Avail
    <3>3. buf'[q + i] = b[q + i]
      BY ONLY <2>5, <3>2
    <3> QED BY ONLY <2>2, <2>6, <3>3, i \in 1 .. Avail
  <2>11. ASSUME NEW i \in 1 .. Avail' PROVE buf'[pos' + i] = out[Gone + i]
    <3>1. CASE i <= Avail
      <4>1. i \in 1 .. Avail
        BY <1>0, <2>3, <2>9, <3>1
      <4> QED BY <1>a, <2>10, <4>1
    <3>2. CASE ~(i <= Avail)
      <4>1. PICK j \in 1 .. n : i = Avail + j
        <5>1. i - Avail \in 1 .. n /\ i = Avail + (i - Avail)
          BY <1>0, <2>3, <2>9, <3>2
        <5> QED BY <5>1
      <4>2. pos' + i = Len(b) + j /\ j \in 1 .. Len(input) /\ Gone + Avail + j = Gone + i
        BY <1>0, <2>2, <2>3, <2>6, <4>1
      <4> QED BY <1>a, <2>5, <4>1, <4>2
    <3> QED BY <3>1, <3>2
  <2>12. ASSUME NEW i \in 1 .. Len(input') PROVE input'[i] = out[Gone + Avail' + i]
    <3>1. n + i \in 1 .. Len(input) /\ Gone + Avail + (n + i) = Gone + Avail' + i
      BY <1>0, <2>3, <2>4, <2>9
    <3> QED BY <1>a, <2>4, <3>1
  <2>13. pos' \in 0 .. Len(buf') /\ Gone' \in 0 .. Len(out')
    <3>1. pos' \in 0 .. Len(buf')
      <4>1. pos' = q /\ Len(buf') = q + Avail + n /\ q \in Nat /\ Avail \in Nat /\ n \in Nat
        BY <1>0, <2>2, <2>3, <2>5, <2>6
      <4> QED BY <4>1
    <3> QED BY <1>a, <2>9, <3>1
  <2>14. Stream'
    BY <1>2, <2>4, <2>5, <2>7, <2>9, <2>11, <2>12, <2>13 DEF Stream
  <2> QED BY <1>0, <1>2, <2>3, <2>6, <2>8, <2>9, <2>10, <2>14
<1> QED BY <1>1, <1>2

\* Byte j of the buffer and a part of it are those of the text, behind what is gone.
LEMMA BufferIs ==
    ASSUME Stream, out \in Seq(Byte)
    PROVE  /\ \A j \in 0 .. Avail - 1 : ByteAt(pos + j) = out[Gone + j + 1]
           /\ \A j \in Nat : ~(j < Avail) => ByteAt(pos + j) = Nil
           /\ \A a \in Nat \ {0}, b \in 0 .. Avail : SubSeq(buf, pos + a, pos + b) = SubSeq(out, Gone + a, Gone + b)
<1>0. /\ Avail \in Nat /\ Gone + Avail <= Len(out) /\ Gone \in Nat
      /\ Len(buf) \in Nat /\ Len(out) \in Nat /\ pos \in Nat /\ pos + Avail = Len(buf)
  BY AvailIs
<1>1. buf \in Seq(Byte) /\ \A i \in 1 .. Avail : buf[pos + i] = out[Gone + i]
  BY DEF Stream
<1>2. ASSUME NEW j \in 0 .. Avail - 1 PROVE ByteAt(pos + j) = out[Gone + j + 1]
  <2>1. j + 1 \in 1 .. Avail /\ pos + j < Len(buf) /\ (pos + j) + 1 = pos + (j + 1) /\ Gone + j + 1 = Gone + (j + 1)
    BY <1>0
  <2> QED BY <1>1, <2>1 DEF ByteAt
<1>3. ASSUME NEW j \in Nat, ~(j < Avail) PROVE ByteAt(pos + j) = Nil
  <2>1. ~(pos + j < Len(buf))
    BY <1>0, <1>3
  <2> QED BY <2>1 DEF ByteAt
<1>4. ASSUME NEW a \in Nat \ {0}, NEW b \in 0 .. Avail
      PROVE  SubSeq(buf, pos + a, pos + b) = SubSeq(out, Gone + a, Gone + b)
  <2> DEFINE x == SubSeq(buf, pos + a, pos + b)
             y == SubSeq(out, Gone + a, Gone + b)
  <2>1. /\ pos + a \in Nat \ {0} /\ pos + b \in Nat /\ pos + b <= Len(buf)
        /\ Gone + a \in Nat \ {0} /\ Gone + b \in Nat /\ Gone + b <= Len(out)
    BY <1>0
  <2>2. /\ x \in Seq(Byte) /\ Len(x) = IF pos + a <= pos + b THEN (pos + b) - (pos + a) + 1 ELSE 0
        /\ \A i \in 1 .. (pos + b) - (pos + a) + 1 : x[i] = buf[(pos + a) + i - 1]
    <3>1. buf \in Seq(Byte)
      BY <1>1
    <3>2. PICK u \in Nat \ {0}, w \in Nat : u = pos + a /\ w = pos + b /\ w <= Len(buf)
      BY ONLY <2>1
    <3>3. /\ SubSeq(buf, u, w) \in Seq(Byte) /\ Len(SubSeq(buf, u, w)) = IF u <= w THEN w - u + 1 ELSE 0
          /\ \A i \in 1 .. w - u + 1 : SubSeq(buf, u, w)[i] = buf[u + i - 1]
      <4>1. u \in Nat \ {0} /\ w \in Nat /\ w <= Len(buf)
        BY ONLY <3>2, u \in Nat \ {0}, w \in Nat
      <4> QED BY ONLY <3>1, <4>1, Part, Zenon
    <3> QED BY ONLY <3>2, <3>3
  <2>3. /\ y \in Seq(Byte) /\ Len(y) = IF Gone + a <= Gone + b THEN (Gone + b) - (Gone + a) + 1 ELSE 0
        /\ \A i \in 1 .. (Gone + b) - (Gone + a) + 1 : y[i] = out[(Gone + a) + i - 1]
    <3>1. out \in Seq(Byte)
      OBVIOUS
    <3>2. PICK u \in Nat \ {0}, w \in Nat : u = Gone + a /\ w = Gone + b /\ w <= Len(out)
      BY ONLY <2>1
    <3>3. /\ SubSeq(out, u, w) \in Seq(Byte) /\ Len(SubSeq(out, u, w)) = IF u <= w THEN w - u + 1 ELSE 0
          /\ \A i \in 1 .. w - u + 1 : SubSeq(out, u, w)[i] = out[u + i - 1]
      <4>1. u \in Nat \ {0} /\ w \in Nat /\ w <= Len(out)
        BY ONLY <3>2, u \in Nat \ {0}, w \in Nat
      <4> QED BY ONLY <3>1, <4>1, Part, Zenon
    <3> QED BY ONLY <3>2, <3>3
  <2> HIDE DEF x, y
  <2>4. Len(x) = Len(y)
    BY <1>0, <2>2, <2>3
  <2>5. ASSUME NEW i \in 1 .. Len(x) PROVE x[i] = y[i]
    <3>1. /\ i \in 1 .. (pos + b) - (pos + a) + 1 /\ i \in 1 .. (Gone + b) - (Gone + a) + 1
          /\ (pos + a) + i - 1 = pos + (a + i - 1) /\ (Gone + a) + i - 1 = Gone + (a + i - 1)
          /\ a + i - 1 \in 1 .. Avail
      BY <1>0, <2>2
    <3> QED BY <1>1, <2>2, <2>3, <3>1
  <2>6. x = y
    BY <2>2, <2>3, <2>4, <2>5, SeqEqual
  <2> QED BY <2>6 DEF x, y
<1> QED BY <1>2, <1>3, <1>4

\* Some bytes are taken from the buffer.
LEMMA TakeKeeps ==
    ASSUME Stream, out \in Seq(Byte), NEW u \in 0 .. Avail, pos' = pos + u, UNCHANGED <<buf, input, mm, out>>
    PROVE  Stream' /\ Avail' = Avail - u /\ Gone' = Gone + u
<1>0. /\ Avail \in Nat /\ Gone + Avail + Len(input) = Len(out) /\ Gone \in Nat /\ Len(input) \in Nat
      /\ Len(buf) \in Nat /\ Len(out) \in Nat /\ pos \in Nat /\ pos + Avail = Len(buf)
  BY AvailIs
<1>a. /\ buf \in Seq(Byte) /\ input \in Seq(Byte)
      /\ IF mm THEN input = <<>> ELSE Len(buf) <= BufSz
      /\ \A i \in 1 .. Avail : buf[pos + i] = out[Gone + i]
      /\ \A i \in 1 .. Len(input) : input[i] = out[Gone + Avail + i]
  BY DEF Stream
<1>1. Avail' = Avail - u
  <2>1. Avail' = Len(buf) - (pos + u) /\ Avail = Len(buf) - pos
    BY DEF Avail
  <2> QED BY <1>0, <2>1
<1>2. Gone' = Gone + u
  <2>1. Gone' = Len(out) - Len(input) - Avail' /\ Gone = Len(out) - Len(input) - Avail
    BY DEF Gone
  <2> HIDE DEF Gone, Avail
  <2> QED BY <1>0, <1>1, <2>1
<1>3. ASSUME NEW i \in 1 .. Avail' PROVE buf'[pos' + i] = out'[Gone' + i]
  <2>1. u + i \in 1 .. Avail /\ pos' + i = pos + (u + i) /\ Gone' + i = Gone + (u + i)
    BY <1>0, <1>1, <1>2
  <2> QED BY <1>a, <2>1
<1>4. ASSUME NEW i \in 1 .. Len(input') PROVE input'[i] = out'[Gone' + Avail' + i]
  <2>1. Gone' + Avail' + i = Gone + Avail + i
    BY <1>0, <1>1, <1>2
  <2> QED BY <1>a, <2>1
<1>5. pos' \in 0 .. Len(buf') /\ Gone' \in 0 .. Len(out')
  BY <1>0, <1>2
<1>6. Stream'
  BY <1>a, <1>3, <1>4, <1>5 DEF Stream
<1> QED BY <1>1, <1>2, <1>6

-----------------------------------------------------------------------------
(* The preamble that mcdb_bufread_preamble accepts.                        *)

KeyLen  == bufread_number(pos + 1)
DataLen == bufread_number(KeyLen.p + 1)
Accepted ==
    ByteAt(pos) = "+" /\ KeyLen.ok /\ ByteAt(KeyLen.p) = "," /\ DataLen.ok /\ ByteAt(DataLen.p) = ":"

LEMMA ParseSound ==
    ASSUME Stream, out \in Seq(Byte), Accepted
    PROVE  LET k == KeyLen
               d == DataLen
               p == Gone + 1
           IN /\ p \in 1 .. Len(out) /\ d.p + 1 - pos \in 1 .. Avail
              /\ \E c \in p + 2 .. Len(out), e \in p + 4 .. Len(out) :
                    /\ e = Gone + (d.p + 1 - pos)
                    /\ IsPreamble(out, Len(out), p, c, e)
                    /\ k.n = Decimal(SubSeq(out, p + 1, c - 1)) /\ k.n \in Nat
                    /\ d.n = Decimal(SubSeq(out, c + 1, e - 1)) /\ d.n \in Nat
<1>0. /\ Avail \in Nat /\ Gone + Avail <= Len(out) /\ Gone \in Nat
      /\ Len(buf) \in Nat /\ Len(out) \in Nat /\ pos \in Nat /\ pos + Avail = Len(buf)
  BY AvailIs
<1>a. buf \in Seq(Byte)
  BY DEF Stream
<1> DEFINE k == KeyLen
           d == DataLen
           p == Gone + 1
<1>1. /\ k.p \in pos + 2 .. Len(buf) /\ IsNumber(SubSeq(buf, pos + 2, k.p))
      /\ k.n = Decimal(SubSeq(buf, pos + 2, k.p)) /\ k.n \in Nat
  <2>1. pos + 1 \in Nat /\ (pos + 1) + 1 = pos + 2
    BY <1>0
  <2>2. /\ k.p \in (pos + 1) + 1 .. Len(buf) /\ IsNumber(SubSeq(buf, (pos + 1) + 1, k.p))
        /\ k.n = Number(pos + 1, k.p) /\ Number(pos + 1, k.p) \in Nat
    <3>1. bufread_number(pos + 1).ok
      BY DEF Accepted, KeyLen
    <3> QED BY <1>a, <2>1, <3>1, NumberSound DEF KeyLen
  <2>3. Number(pos + 1, k.p) = Decimal(SubSeq(buf, (pos + 1) + 1, k.p))
    BY DEF Number
  <2> HIDE DEF k
  <2> QED BY <2>1, <2>2, <2>3
<1>2. k.p \in Nat /\ k.p + 1 \in Nat /\ (k.p + 1) + 1 = k.p + 2
  <2> HIDE DEF k
  <2> QED BY <1>0, <1>1
<1>3. /\ d.p \in k.p + 2 .. Len(buf) /\ IsNumber(SubSeq(buf, k.p + 2, d.p))
      /\ d.n = Decimal(SubSeq(buf, k.p + 2, d.p)) /\ d.n \in Nat
  <2>2. /\ d.p \in (k.p + 1) + 1 .. Len(buf) /\ IsNumber(SubSeq(buf, (k.p + 1) + 1, d.p))
        /\ d.n = Number(k.p + 1, d.p) /\ Number(k.p + 1, d.p) \in Nat
    <3>1. bufread_number(k.p + 1).ok
      BY DEF Accepted, DataLen
    <3> QED BY <1>a, <1>2, <3>1, NumberSound DEF DataLen
  <2>3. Number(k.p + 1, d.p) = Decimal(SubSeq(buf, (k.p + 1) + 1, d.p))
    BY DEF Number
  <2> HIDE DEF k, d
  <2> QED BY <1>2, <2>2, <2>3
<1>4. /\ ByteAt(pos) = "+" /\ ByteAt(k.p) = "," /\ ByteAt(d.p) = ":"
  BY DEF Accepted
<1> HIDE DEF k, d
<1>5. PICK a \in Nat, b \in Nat : k.p = pos + a /\ d.p = pos + b /\ 2 <= a /\ a + 2 <= b
  <2>1. PICK x \in Nat, y \in Nat : x = k.p /\ y = d.p /\ pos + 2 <= x /\ x + 2 <= y
    <3>1. k.p \in Nat /\ d.p \in Nat /\ pos + 2 <= k.p /\ k.p + 2 <= d.p
      BY <1>0, <1>1, <1>2, <1>3
    <3> QED BY <3>1
  <2>2. x - pos \in Nat /\ y - pos \in Nat /\ x = pos + (x - pos) /\ y = pos + (y - pos)
        /\ 2 <= x - pos /\ (x - pos) + 2 <= y - pos
    <3>1. pos \in Nat /\ pos + 2 <= x /\ x + 2 <= y
      BY <1>0, <2>1
    <3> QED BY <3>1
  <2> QED BY <2>1, <2>2
<1>6. b < Avail
  <2>1. ByteAt(pos + b) # Nil
    BY <1>4, <1>5 DEF Nil
  <2> QED BY <2>1, BufferIs
<1>7. /\ 0 \in 0 .. Avail - 1 /\ a \in 0 .. Avail - 1 /\ b \in 0 .. Avail - 1 /\ pos = pos + 0
      /\ a \in 0 .. Avail /\ b \in 0 .. Avail /\ a + 2 \in Nat \ {0} /\ 2 \in Nat \ {0}
  BY <1>0, <1>5, <1>6
<1>8. out[Gone + 0 + 1] = "+" /\ out[Gone + a + 1] = "," /\ out[Gone + b + 1] = ":"
  BY <1>4, <1>5, <1>7, BufferIs
<1>9. /\ SubSeq(buf, pos + 2, pos + a) = SubSeq(out, Gone + 2, Gone + a)
      /\ SubSeq(buf, pos + (a + 2), pos + b) = SubSeq(out, Gone + (a + 2), Gone + b)
  BY <1>7, BufferIs
<1> DEFINE c == Gone + a + 1
           e == Gone + b + 1
<1>10. /\ p \in 1 .. Len(out) /\ c \in p + 2 .. Len(out) /\ e \in p + 4 .. Len(out)
       /\ e = Gone + (d.p + 1 - pos) /\ d.p + 1 - pos \in 1 .. Avail
       /\ p + 1 = Gone + 2 /\ c - 1 = Gone + a /\ c + 1 = Gone + (a + 2) /\ e - 1 = Gone + b
       /\ p = Gone + 0 + 1 /\ e - p < Len(out) /\ k.p + 2 = pos + (a + 2)
  BY <1>0, <1>5, <1>6
<1>11. IsNumber(SubSeq(out, p + 1, c - 1)) /\ k.n = Decimal(SubSeq(out, p + 1, c - 1))
  <2> HIDE DEF c, e, p
  <2> QED BY <1>1, <1>5, <1>9, <1>10
<1>12. IsNumber(SubSeq(out, c + 1, e - 1)) /\ d.n = Decimal(SubSeq(out, c + 1, e - 1))
  <2> HIDE DEF c, e, p
  <2> QED BY <1>3, <1>5, <1>9, <1>10
<1>13. IsPreamble(out, Len(out), p, c, e)
  <2>1. out[p] = "+" /\ out[c] = "," /\ out[e] = ":"
    BY <1>8, <1>10
  <2> HIDE DEF c, e, p
  <2> QED BY <1>10, <1>11, <1>12, <2>1 DEF IsPreamble
<1> HIDE DEF c, e, p
<1>14. \E cc \in p + 2 .. Len(out), ee \in p + 4 .. Len(out) :
                    /\ ee = Gone + (d.p + 1 - pos)
                    /\ IsPreamble(out, Len(out), p, cc, ee)
                    /\ k.n = Decimal(SubSeq(out, p + 1, cc - 1)) /\ k.n \in Nat
                    /\ d.n = Decimal(SubSeq(out, cc + 1, ee - 1)) /\ d.n \in Nat
  BY <1>1, <1>3, <1>10, <1>11, <1>12, <1>13
<1> QED BY <1>10, <1>14 DEF k, d, p

LEMMA ParseComplete ==
    ASSUME Stream, out \in Seq(Byte), NEW l, NEW c \in Gone + 3 .. Len(out), NEW e \in Gone + 5 .. Len(out),
           IsPreamble(out, l, Gone + 1, c, e), e <= Gone + Avail
    PROVE  Accepted
<1>0. /\ Avail \in Nat /\ Gone + Avail <= Len(out) /\ Gone \in Nat
      /\ Len(buf) \in Nat /\ Len(out) \in Nat /\ pos \in Nat /\ pos + Avail = Len(buf)
  BY AvailIs
<1>a. buf \in Seq(Byte)
  BY DEF Stream
<1> DEFINE k == KeyLen
           d == DataLen
<1>1. /\ out[Gone + 1] = "+" /\ out[c] = "," /\ out[e] = ":"
      /\ IsNumber(SubSeq(out, (Gone + 1) + 1, c - 1)) /\ IsNumber(SubSeq(out, c + 1, e - 1))
  BY DEF IsPreamble
<1>2. e \in c + 2 .. Len(out)
  <2>1. Gone + 1 \in 1 .. Len(out) /\ c \in (Gone + 1) + 2 .. Len(out) /\ e \in (Gone + 1) + 4 .. Len(out)
    BY <1>0
  <2> QED BY <2>1, PreambleIs
<1>3. PICK a \in Nat, b \in Nat : c = Gone + a + 1 /\ e = Gone + b + 1 /\ 2 <= a /\ a + 2 <= b /\ b < Avail
  <2>1. c - 1 - Gone \in Nat /\ e - 1 - Gone \in Nat /\ c = Gone + (c - 1 - Gone) + 1
        /\ e = Gone + (e - 1 - Gone) + 1 /\ 2 <= c - 1 - Gone /\ (c - 1 - Gone) + 2 <= e - 1 - Gone
        /\ e - 1 - Gone < Avail
    BY <1>0, <1>2
  <2> QED BY <2>1
<1>4. /\ 0 \in 0 .. Avail - 1 /\ a \in 0 .. Avail - 1 /\ b \in 0 .. Avail - 1 /\ pos = pos + 0
      /\ a \in 0 .. Avail /\ b \in 0 .. Avail /\ a + 2 \in Nat \ {0} /\ 2 \in Nat \ {0}
      /\ (Gone + 1) + 1 = Gone + 2 /\ c - 1 = Gone + a /\ c + 1 = Gone + (a + 2) /\ e - 1 = Gone + b
      /\ Gone + 0 + 1 = Gone + 1
  BY <1>0, <1>3
<1>5. ByteAt(pos) = "+" /\ ByteAt(pos + a) = "," /\ ByteAt(pos + b) = ":"
  BY <1>1, <1>3, <1>4, BufferIs
<1>6. /\ SubSeq(buf, pos + 2, pos + a) = SubSeq(out, Gone + 2, Gone + a)
      /\ SubSeq(buf, pos + (a + 2), pos + b) = SubSeq(out, Gone + (a + 2), Gone + b)
  BY <1>4, BufferIs
<1>7. IsNumber(SubSeq(buf, pos + 2, pos + a)) /\ IsNumber(SubSeq(buf, pos + (a + 2), pos + b))
  BY <1>1, <1>4, <1>6
<1>8. k.ok /\ k.p = pos + a
  <2>1. pos + 1 \in Nat /\ (pos + 1) + 1 = pos + 2 /\ pos + a \in (pos + 1) + 1 .. Len(buf)
    BY <1>0, <1>3
  <2>2. ~IsDigit(ByteAt(pos + a))
    BY <1>5, NoDigits
  <2> QED BY <1>a, <1>7, <2>1, <2>2, NumberComplete DEF KeyLen
<1>9. d.ok /\ d.p = pos + b
  <2>1. k.p + 1 = pos + a + 1 /\ pos + a + 1 \in Nat /\ (pos + a + 1) + 1 = pos + (a + 2)
        /\ pos + b \in (pos + a + 1) + 1 .. Len(buf)
    BY <1>0, <1>3, <1>8
  <2>2. ~IsDigit(ByteAt(pos + b))
    BY <1>5, NoDigits
  <2>3. bufread_number(pos + a + 1).ok /\ bufread_number(pos + a + 1).p = pos + b
    BY <1>a, <1>7, <2>1, <2>2, NumberComplete
  <2> QED BY <2>1, <2>3 DEF DataLen
<1> QED BY <1>5, <1>8, <1>9 DEF Accepted

-----------------------------------------------------------------------------
(* What a text means.                                                      *)

LEMMA ContinuedIs ==
    ASSUME NEW from
    PROVE  /\ Continued(from, {}) = {}
           /\ \A r : Continued(from, {r}) = {<<[k |-> r.k, d |-> r.d]>> \o s : s \in from[r.next]}
           /\ \A Q, R : Q \subseteq R => Continued(from, Q) \subseteq Continued(from, R)
<1>1. Continued(from, {}) = {}
  BY DEF Continued
<1>2. ASSUME NEW r PROVE Continued(from, {r}) = {<<[k |-> r.k, d |-> r.d]>> \o s : s \in from[r.next]}
  <2> DEFINE C(q) == {<<[k |-> q.k, d |-> q.d]>> \o s : s \in from[q.next]}
  <2>1. Continued(from, {r}) = UNION {C(q) : q \in {r}}
    BY DEF Continued
  <2> HIDE DEF C
  <2>2. Continued(from, {r}) = C(r)
    BY <2>1
  <2> QED BY <2>2 DEF C
<1>3. ASSUME NEW Q, NEW R, Q \subseteq R PROVE Continued(from, Q) \subseteq Continued(from, R)
  <2> DEFINE C(q) == {<<[k |-> q.k, d |-> q.d]>> \o s : s \in from[q.next]}
  <2>1. Continued(from, Q) = UNION {C(q) : q \in Q} /\ Continued(from, R) = UNION {C(q) : q \in R}
    BY DEF Continued
  <2> HIDE DEF C
  <2> QED BY <1>3, <2>1
<1> QED BY <1>1, <1>2, <1>3

\* A text means sequences of records.
LEMMA MeaningsSeqs ==
    ASSUME NEW t \in Seq(Byte), NEW limit, NEW p \in 1 .. Len(t) + 1
    PROVE  Meanings(t, limit)[p] \subseteq Seq(Record)
<1> DEFINE M == Meanings(t, limit)
           n == Len(t)
           T == {i \in 0 .. n : ~(M[n + 1 - i] \subseteq Seq(Record))}
<1>0. n \in Nat
  OBVIOUS
<1> HIDE DEF M
<1>1. T = {}
  <2>1. SUFFICES ASSUME T # {} PROVE FALSE
    OBVIOUS
  <2>2. PICK i \in T : \A y \in T : i =< y
    <3>1. T \in SUBSET Nat
      BY <1>0
    <3> HIDE DEF T
    <3> QED BY <2>1, <3>1, LeastNat
  <2> DEFINE q == n + 1 - i
  <2>3. q \in 1 .. Len(t) + 1 /\ i \in 0 .. n /\ ~(M[q] \subseteq Seq(Record)) /\ q = Len(t) + 1 - i
    BY <1>0, <2>2
  <2>4. M[q] = IF q > Len(t) THEN {}
               ELSE IF t[q] = "\n" THEN {<<>>} ELSE Continued(M, RecordsAt(t, limit, q))
    <3> HIDE DEF q
    <3> QED BY <2>3, MeaningsAre DEF M
  <2> HIDE DEF q
  <2>5. q \in 1 .. Len(t)
    BY <2>3, <2>4
  <2>6. ASSUME NEW s \in Continued(M, RecordsAt(t, limit, q)) PROVE s \in Seq(Record)
    <3>1. PICK r \in RecordsAt(t, limit, q) : \E x \in M[r.next] : s = <<[k |-> r.k, d |-> r.d]>> \o x
      BY <2>6 DEF Continued
    <3>2. r.next \in q + 1 .. Len(t) + 1 /\ r.k \in Seq(Byte) /\ r.d \in Seq(Byte)
      BY <2>5, RecordIs
    <3>3. n + 1 - r.next \in 0 .. n /\ n + 1 - r.next < i /\ n + 1 - (n + 1 - r.next) = r.next
      BY <1>0, <2>3, <2>5, <3>2
    <3>4. n + 1 - r.next \notin T
      <4> HIDE DEF T
      <4>1. PICK j \in 0 .. n : j = n + 1 - r.next /\ j < i
        BY <3>3
      <4>2. j \notin T
        BY <1>0, <2>2, <2>3, <4>1
      <4> QED BY <4>1, <4>2
    <3>5. M[r.next] \subseteq Seq(Record)
      BY <3>3, <3>4
    <3>6. PICK x \in Seq(Record) : s = <<[k |-> r.k, d |-> r.d]>> \o x
      BY <3>1, <3>5
    <3>7. [k |-> r.k, d |-> r.d] \in Record
      BY <3>2 DEF Record
    <3>8. <<[k |-> r.k, d |-> r.d]>> \in Seq(Record)
      BY <3>7
    <3> QED BY <3>6, <3>8, ConcatProperties
  <2>7. <<>> \in Seq(Record)
    OBVIOUS
  <2> QED BY <2>3, <2>4, <2>6, <2>7
<1>2. n + 1 - p \in 0 .. n /\ n + 1 - (n + 1 - p) = p
  BY <1>0
<1>3. n + 1 - p \notin T
  BY <1>1
<1> QED BY <1>2, <1>3 DEF M

\* One record more is read, or none.
LEMMA OneRecord ==
    ASSUME NEW rs \in Seq(Record), NEW r \in Record, NEW S \in SUBSET Seq(Record)
    PROVE  {rs \o s : s \in {<<r>> \o x : x \in S}} = {Append(rs, r) \o x : x \in S}
<1>1. ASSUME NEW x \in S PROVE rs \o (<<r>> \o x) = Append(rs, r) \o x
  <2>1. <<r>> \in Seq(Record) /\ x \in Seq(Record)
    OBVIOUS
  <2>2. rs \o (<<r>> \o x) = (rs \o <<r>>) \o x
    BY <2>1, ConcatAssociative
  <2>3. Append(rs, r) = rs \o <<r>>
    BY AppendIsConcat
  <2> QED BY <2>2, <2>3
<1> DEFINE Pre(x) == <<r>> \o x
           Put(s) == rs \o s
           All(x) == Append(rs, r) \o x
<1>2. \A x \in S : Put(Pre(x)) = All(x)
  BY <1>1
<1> HIDE DEF Pre, Put, All
<1>3. {Put(s) : s \in {Pre(x) : x \in S}} = {All(x) : x \in S}
  BY <1>2
<1> QED BY <1>3 DEF Pre, Put, All

LEMMA NoRecord ==
    /\ \A S \in SUBSET Seq(Record) : {<<>> \o s : s \in S} = S
    /\ \A rs \in Seq(Record) : {rs \o s : s \in {<<>>}} = {rs}
<1>1. ASSUME NEW s \in Seq(Record) PROVE <<>> \o s = s /\ s \o <<>> = s
  BY ConcatEmptySeq
<1>2. ASSUME NEW S \in SUBSET Seq(Record) PROVE {<<>> \o s : s \in S} = S
  <2>1. \A s \in S : <<>> \o s = s
    BY <1>1
  <2> QED BY <2>1, Zenon
<1>3. ASSUME NEW rs \in Seq(Record) PROVE {rs \o s : s \in {<<>>}} = {rs}
  <2>1. rs \o <<>> = rs
    BY <1>1
  <2> QED BY <2>1, Zenon
<1> QED BY <1>2, <1>3

-----------------------------------------------------------------------------
(* mcdb_makefmt_fdintofd: the ways it ends.                                *)

Same == out' = out /\ cmd' = cmd /\ cmd \in {"make", "remake"}

LEMMA Ends == ASSUME FmtInv, Same, at' = "end", FmtExact' PROVE FmtInv'
<1>1. out' \in Seq(Byte)
  BY DEF FmtInv, Same
<1>2. StreamInv'
  BY DEF Same, StreamInv, Reading
<1>3. PreambleInv'
  BY DEF PreambleInv
<1>4. RecordInv'
  BY DEF RecordInv, Inside
<1>5. MeaningInv'
  BY DEF MeaningInv, Reading
<1> QED BY <1>1, <1>2, <1>3, <1>4, <1>5 DEF FmtInv

LEMMA EndsHurt == ASSUME FmtInv, Same, NEW e \in {"read", "write", "format"}, ReturnHurt(e) PROVE FmtInv'
<1>1. at' = "end" /\ rv' # "ok" /\ hurt'
  BY DEF ReturnHurt
<1>2. FmtExact'
  BY <1>1 DEF FmtExact
<1> QED BY <1>1, <1>2, Ends

LEMMA EndsFormat ==
    ASSUME FmtInv, Same, Reading, Return("format"), Ahead(PreMax) = {}
    PROVE  FmtInv'
<1>1. at' = "end" /\ rv' # "ok"
  BY DEF Return
<1>2. Meaning(out, PreMax) = {}
  BY DEF FmtInv, MeaningInv
<1>3. out' = out
  BY DEF Same
<1>4. FmtExact'
  BY <1>1, <1>2, <1>3 DEF FmtExact
<1> QED BY <1>1, <1>4, Ends

\* It goes on, and what the rest of the text means has not changed.
LEMMA GoesOnFmt ==
    ASSUME FmtInv, Same, Reading, Reading', recs' = recs, Stream', PreambleInv', RecordInv',
           Ahead(Len(out))' = Ahead(Len(out)), Ahead(PreMax) # {} => Ahead(PreMax)' # {}
    PROVE  FmtInv'
<1>1. out' \in Seq(Byte) /\ out' = out
  BY DEF FmtInv, Same
<1>2. StreamInv'
  BY DEF FmtInv, StreamInv, Same
<1>3. MeaningInv'
  <2>1. /\ Meaning(out, Len(out)) = {recs \o s : s \in Ahead(Len(out))}
        /\ Meaning(out, PreMax) # {} => Ahead(PreMax) # {}
    BY DEF FmtInv, MeaningInv
  <2>2. /\ Meaning(out', Len(out')) = {recs' \o s : s \in Ahead(Len(out))'}
        /\ Meaning(out', PreMax) # {} => Ahead(PreMax)' # {}
    BY <1>1, <2>1
  <2> QED BY <2>2 DEF MeaningInv
<1>4. FmtExact'
  BY DEF Reading, FmtExact
<1> QED BY <1>1, <1>2, <1>3, <1>4 DEF FmtInv

-----------------------------------------------------------------------------
(* mcdb_makefmt_fdintofd: its steps.                                       *)

LEMMA FmtFacts ==
    ASSUME FmtInv, Reading
    PROVE  /\ out \in Seq(Byte) /\ Stream /\ recs \in Seq(Record) /\ cmd # "over"
           /\ Avail \in Nat /\ Gone \in Nat /\ Gone + Avail + Len(input) = Len(out) /\ Gone + Avail <= Len(out)
           /\ Len(input) \in Nat /\ Len(buf) \in Nat /\ Len(out) \in Nat /\ pos \in Nat /\ pos + Avail = Len(buf)
<1>1. out \in Seq(Byte) /\ Stream /\ recs \in Seq(Record) /\ cmd # "over"
  BY DEF FmtInv, StreamInv
<1> QED BY <1>1, AvailIs

LEMMA Between ==
    ASSUME NEW l, at \in {"preamble", "fill", "parse"} PROVE Ahead(l) = Meanings(out, l)[Gone + 1]
BY DEF Ahead, Inside

LEMMA Within ==
    ASSUME NEW l, at \in Inside
    PROVE  Ahead(l) = Continued(Meanings(out, l), Bodies(out, Colon, klen, dlen))
BY DEF Ahead, Inside

LEMMA FmtPreamble == ASSUME FmtInv, Same, Preamble PROVE FmtInv'
<1>1. /\ at = "preamble" /\ at' \in {"fill", "parse"} /\ UNCHANGED <<input, mm, buf, pos, recs>> /\ out' = out
  BY DEF Preamble, GoOn, Same
<1>2. Reading /\ Reading'
  BY <1>1 DEF Reading
<1>3. Stream' /\ Avail' = Avail /\ Gone' = Gone
  <2>1. pos' = pos + 0 /\ 0 \in 0 .. Avail /\ Avail - 0 = Avail /\ Gone + 0 = Gone
    BY <1>1, <1>2, FmtFacts
  <2> QED BY <1>1, <1>2, <2>1, FmtFacts, TakeKeeps
<1>4. PreambleInv'
  <2>0. Avail \in Nat /\ pos \in Nat /\ pos + Avail = Len(buf)
    BY <1>2, FmtFacts
  <2>1. CASE Avail < PreMax
    <3>1. at' = "fill" /\ need' = Avail
      BY <2>1 DEF Preamble, GoOn
    <3>2. need' \in 0 .. Avail' /\ (need' = 0 => Avail' = 0) /\ Avail' < PreMax
      BY <1>3, <2>0, <2>1, <3>1
    <3>3. \A i \in pos' + 1 .. Len(buf') - need' : FALSE
      BY <1>1, <2>0, <3>1
    <3> QED BY <3>1, <3>2, <3>3 DEF PreambleInv
  <2>2. CASE ~(Avail < PreMax)
    <3>1. at' = "parse"
      BY <2>2 DEF Preamble, GoOn
    <3>2. Avail' >= PreMax
      BY <1>3, <2>0, <2>2, FmtAssumption
    <3> QED BY <3>1, <3>2 DEF PreambleInv
  <2> QED BY <2>1, <2>2
<1>5. RecordInv'
  BY <1>1 DEF RecordInv, Inside
<1>6. ASSUME NEW l PROVE Ahead(l) = Meanings(out, l)[Gone + 1] /\ Ahead(l)' = Meanings(out', l')[Gone' + 1]
  BY <1>1 DEF Ahead, Inside
<1>7. Ahead(Len(out))' = Ahead(Len(out)) /\ Ahead(PreMax)' = Ahead(PreMax)
  BY <1>1, <1>3 DEF Ahead, Inside
<1> QED BY <1>1, <1>2, <1>3, <1>4, <1>5, <1>7, GoesOnFmt

\* No preamble can be in the rest of the text without its colon.
LEMMA NoColon ==
    ASSUME FmtInv, Reading, at \in {"fill", "parse"}, NEW l,
           \A c \in Gone + 3 .. Len(out), e \in Gone + 5 .. Len(out) : ~IsPreamble(out, l, Gone + 1, c, e),
           Gone + 1 <= Len(out) => out[Gone + 1] # "\n"
    PROVE  Ahead(l) = {}
<1>0. out \in Seq(Byte) /\ Gone \in Nat /\ Len(out) \in Nat /\ Gone <= Len(out)
  BY FmtFacts
<1>1. Ahead(l) = Meanings(out, l)[Gone + 1]
  BY Between
<1>2. Gone + 1 \in 1 .. Len(out) + 1
  BY <1>0
<1> DEFINE p == Gone + 1
<1>3. Meanings(out, l)[p] = IF p > Len(out) THEN {}
                            ELSE IF out[p] = "\n" THEN {<<>>} ELSE Continued(Meanings(out, l), RecordsAt(out, l, p))
  <2> HIDE DEF p
  <2>1. p \in 1 .. Len(out) + 1
    BY <1>2 DEF p
  <2> QED BY <1>0, <2>1, MeaningsAre
<1>4. CASE p > Len(out)
  BY <1>1, <1>3, <1>4
<1>5. CASE p <= Len(out)
  <2>1. \A c \in p + 2 .. Len(out), e \in p + 4 .. Len(out) : ~IsPreamble(out, l, p, c, e)
    <3>1. p + 2 = Gone + 3 /\ p + 4 = Gone + 5
      BY <1>0
    <3> QED BY <3>1
  <2>2. RecordsAt(out, l, p) = {}
    <3> HIDE DEF p
    <3> QED BY <2>1, NoPreamble
  <2>3. Meanings(out, l)[p] = {}
    BY <1>0, <1>3, <1>5, <2>2, ContinuedIs
  <2> QED BY <1>1, <2>3
<1> QED BY <1>0, <1>4, <1>5

LEMMA FmtPreambleFill == ASSUME FmtInv, Same, PreambleFill PROVE FmtInv'
<1>1. at = "fill" /\ UNCHANGED <<mm, recs>> /\ out' = out
  BY DEF PreambleFill, Same
<1>2. Reading
  BY <1>1 DEF Reading
<1>3. Avail < PreMax /\ need \in 0 .. Avail /\ (need = 0 => Avail = 0)
      /\ \A i \in pos + 1 .. Len(buf) - need : buf[i] # ":"
  BY <1>1 DEF FmtInv, PreambleInv
<1>4. /\ out \in Seq(Byte) /\ Stream /\ recs \in Seq(Record)
      /\ Avail \in Nat /\ Gone \in Nat /\ Gone + Avail + Len(input) = Len(out)
      /\ Len(input) \in Nat /\ Len(buf) \in Nat /\ Len(out) \in Nat /\ pos \in Nat /\ pos + Avail = Len(buf)
  BY <1>2, FmtFacts
<1>a. need \in Nat /\ need <= Avail
  BY <1>3, <1>4
<1>5. CASE Found
  <2>1. at' = "parse" /\ UNCHANGED <<input, buf, pos>>
    BY <1>1, <1>5 DEF PreambleFill, GoOn
  <2>2. Reading'
    BY <2>1 DEF Reading
  <2>3. Stream' /\ Avail' = Avail /\ Gone' = Gone
    <3>1. pos' = pos + 0 /\ 0 \in 0 .. Avail /\ Avail - 0 = Avail /\ Gone + 0 = Gone
      BY <1>4, <2>1
    <3> QED BY <1>1, <1>4, <2>1, <3>1, TakeKeeps
  <2>4. PreambleInv'
    <3>1. CASE \E i \in Len(buf) - need + 1 .. Len(buf) : buf[i] = ":"
      <4>1. PICK i \in Len(buf) - need + 1 .. Len(buf) : buf[i] = ":"
        BY <3>1
      <4>2. i \in pos + 1 .. Len(buf)
        BY <1>4, <1>a
      <4>3. \E j \in pos' + 1 .. Len(buf') : buf'[j] = ":"
        BY <2>1, <4>1, <4>2
      <4> QED BY <2>1, <4>3 DEF PreambleInv
    <3>2. CASE ByteAt(pos) = "\n"
      <4>1. ByteAt(pos)' = "\n"
        BY <2>1, <3>2 DEF ByteAt
      <4> QED BY <2>1, <4>1 DEF PreambleInv
    <3> QED BY <1>5, <3>1, <3>2 DEF Found
  <2>5. RecordInv'
    BY <2>1 DEF RecordInv, Inside
  <2>6. Ahead(Len(out))' = Ahead(Len(out)) /\ Ahead(PreMax)' = Ahead(PreMax)
    BY <1>1, <2>1, <2>3 DEF Ahead, Inside
  <2> QED BY <1>1, <1>2, <2>2, <2>3, <2>4, <2>5, <2>6, GoesOnFmt
<1>6. CASE ~Found
  <2>1. PICK r \in Results :
          /\ Reads(r)
          /\ \/ r = -1 /\ ~mm /\ ReturnHurt("read")
             \/ (r = 0 \/ mm) /\ Return("format")
             \/ /\ r > 0
                /\ need' = r
                /\ GoOn(IF Avail + r < PreMax THEN "fill" ELSE "parse")
    BY <1>6 DEF PreambleFill
  <2>0. r \in Int /\ BufSz \in Nat /\ PreMax \in Nat /\ PreMax <= BufSz /\ PreMax <= MoveMin /\ MoveMin \in Nat
    BY FmtAssumption DEF Results
  <2>2. /\ Stream' /\ Gone' = Gone
        /\ Avail' = IF mm \/ r < 0 THEN Avail ELSE Avail + r
        /\ \A i \in 1 .. Avail : buf'[pos' + i] = buf[pos + i]
        /\ (r = 0 \/ mm) /\ Avail < BufSz /\ (Avail < MoveMin \/ pos = 0) => Len(input) = 0
    BY <1>1, <1>4, <2>1, ReadKeeps
  <2>3. \A i \in pos + 1 .. Len(buf) : buf[i] # ":"
    <3>1. ASSUME NEW i \in pos + 1 .. Len(buf) PROVE buf[i] # ":"
      <4>1. CASE i <= Len(buf) - need
        <5>1. i \in pos + 1 .. Len(buf) - need
          BY <1>4, <1>a, <4>1
        <5> QED BY <1>3, <5>1
      <4>2. CASE ~(i <= Len(buf) - need)
        <5>1. i \in Len(buf) - need + 1 .. Len(buf)
          BY <1>4, <1>a, <4>2
        <5> QED BY <1>6, <5>1 DEF Found
      <4> QED BY <4>1, <4>2
    <3> QED BY <3>1
  <2>4. CASE ReturnHurt("read")
    BY <2>4, EndsHurt
  <2>5. CASE (r = 0 \/ mm) /\ Return("format")
    <3>1. Len(input) = 0
      <4>1. Avail < BufSz /\ Avail < MoveMin
        BY <1>3, <1>4, <2>0
      <4> QED BY <2>2, <2>5, <4>1
    <3>2. Gone + Avail = Len(out)
      BY <1>4, <3>1
    <3>3. ASSUME NEW c \in Gone + 3 .. Len(out), NEW e \in Gone + 5 .. Len(out),
                 IsPreamble(out, PreMax, Gone + 1, c, e)
          PROVE  FALSE
      <4>1. out[e] = ":"
        BY <3>3 DEF IsPreamble
      <4>2. PICK j \in 1 .. Avail : e = Gone + j
        <5>1. e - Gone \in 1 .. Avail /\ e = Gone + (e - Gone)
          BY <1>4, <3>2
        <5> QED BY <5>1
      <4>3. pos + j \in pos + 1 .. Len(buf)
        BY <1>4
      <4>4. buf[pos + j] = out[Gone + j]
        BY <1>4 DEF Stream
      <4> QED BY <2>3, <4>1, <4>2, <4>3, <4>4
    <3>4. ASSUME Gone + 1 <= Len(out) PROVE out[Gone + 1] # "\n"
      <4>1. Avail # 0 /\ 0 \in 0 .. Avail - 1 /\ pos + 0 = pos /\ Gone + 0 + 1 = Gone + 1
        BY <1>4, <3>2, <3>4
      <4>2. ByteAt(pos) # "\n"
        BY <1>3, <1>6, <4>1 DEF Found
      <4>3. ByteAt(pos + 0) = out[Gone + 0 + 1]
        BY <1>4, <4>1, BufferIs
      <4> QED BY <4>1, <4>2, <4>3
    <3>5. Ahead(PreMax) = {}
      <4>1. at \in {"fill", "parse"}
        BY <1>1
      <4> QED BY <1>2, <3>3, <3>4, <4>1, NoColon
    <3> QED BY <1>2, <2>5, <3>5, EndsFormat
  <2>6. CASE r > 0 /\ need' = r /\ GoOn(IF Avail + r < PreMax THEN "fill" ELSE "parse")
    <3>1. ~mm
      BY <2>0, <2>1, <2>6 DEF Reads
    <3>2. Avail' = Avail + r
      BY <2>0, <2>2, <2>6, <3>1
    <3>3. Reading'
      BY <2>6 DEF GoOn, Reading
    <3>4. pos' \in Nat /\ Len(buf') \in Nat /\ pos' + Avail' = Len(buf')
      <4>1. Stream' /\ out' \in Seq(Byte)
        BY <1>1, <1>4, <2>2
      <4>2. pos' \in Nat /\ Len(buf') \in Nat /\ Avail' = Len(buf') - pos'
        BY <4>1 DEF Stream, Avail
      <4> QED BY <1>4, <2>0, <4>2
    <3>5. PreambleInv'
      <4>1. CASE Avail + r < PreMax
        <5>1. at' = "fill" /\ need' = r
          BY <2>6, <4>1 DEF GoOn
        <5>2. need' \in 0 .. Avail' /\ need' # 0 /\ Avail' < PreMax
          BY <1>4, <2>0, <2>6, <3>2, <4>1, <5>1
        <5>3. PICK m \in Nat, q \in Nat : q = pos' /\ m = Len(buf') /\ m = q + Avail + r
          <6>1. PICK x \in Nat : x = Avail'
            BY <1>4, <2>0, <2>6, <3>2
          <6>2. PICK m \in Nat, q \in Nat : q = pos' /\ m = Len(buf')
            BY <3>4
          <6>3. q + x = m
            BY <3>4, <6>1, <6>2
          <6>4. x = Avail + r
            BY <3>2, <6>1
          <6>5. m = q + Avail + r
            BY <1>4, <2>0, <6>3, <6>4
          <6> QED BY <6>2, <6>5
        <5>4. m - r = q + Avail
          BY <1>4, <2>0, <5>3
        <5>5. ASSUME NEW i \in q + 1 .. m - r PROVE buf'[i] # ":"
          <6>1. PICK j \in 1 .. Avail : i = q + j
            <7>1. i \in q + 1 .. q + Avail
              BY <5>4
            <7>2. i - q \in 1 .. Avail /\ i = q + (i - q)
              BY <1>4, <7>1
            <7> QED BY <7>2
          <6>2. buf'[i] = buf[pos + j] /\ pos + j \in pos + 1 .. Len(buf)
            BY <1>4, <2>2, <5>3, <6>1
          <6> QED BY <2>3, <6>2
        <5>6. \A i \in pos' + 1 .. Len(buf') - need' : buf'[i] # ":"
          BY <5>1, <5>3, <5>5
        <5> QED BY <5>1, <5>2, <5>6 DEF PreambleInv
      <4>2. CASE ~(Avail + r < PreMax)
        <5>1. at' = "parse"
          BY <2>6, <4>2 DEF GoOn
        <5>2. Avail' >= PreMax
          BY <1>4, <2>0, <3>2, <4>2
        <5> QED BY <5>1, <5>2 DEF PreambleInv
      <4> QED BY <4>1, <4>2
    <3>6. at' \in {"fill", "parse"}
      BY <2>6 DEF GoOn
    <3>7. RecordInv'
      BY <3>6 DEF RecordInv, Inside
    <3>8. Ahead(Len(out))' = Ahead(Len(out)) /\ Ahead(PreMax)' = Ahead(PreMax)
      BY <1>1, <2>2, <3>6 DEF Ahead, Inside
    <3> QED BY <1>1, <1>2, <2>2, <3>3, <3>5, <3>7, <3>8, GoesOnFmt
  <2> QED BY <2>1, <2>4, <2>5, <2>6
<1> QED BY <1>5, <1>6

LEMMA FmtParse == ASSUME FmtInv, Same, ParsePreamble PROVE FmtInv'
<1>1. at = "parse" /\ UNCHANGED <<input, mm, buf, recs>> /\ out' = out
  BY DEF ParsePreamble, Same
<1>2. Reading
  BY <1>1 DEF Reading
<1>3. \/ Avail >= PreMax \/ ByteAt(pos) = "\n"
      \/ \E i \in pos + 1 .. Len(buf) : buf[i] = ":"
  BY <1>1 DEF FmtInv, PreambleInv
<1>4. /\ out \in Seq(Byte) /\ Stream /\ recs \in Seq(Record)
      /\ Avail \in Nat /\ Gone \in Nat /\ Gone + Avail + Len(input) = Len(out) /\ Gone + Avail <= Len(out)
      /\ Len(input) \in Nat /\ Len(buf) \in Nat /\ Len(out) \in Nat /\ pos \in Nat /\ pos + Avail = Len(buf)
  BY <1>2, FmtFacts
<1>5. Avail # 0 /\ 0 \in 0 .. Avail - 1
  <2>1. CASE Avail >= PreMax
    BY <1>4, <2>1, FmtAssumption
  <2>2. CASE ByteAt(pos) = "\n"
    <3>1. pos + 0 = pos /\ 0 \in Nat
      BY <1>4
    <3>2. ByteAt(pos + 0) # Nil
      BY <2>2, <3>1 DEF Nil
    <3>3. 0 < Avail
      BY <1>4, <3>1, <3>2, BufferIs
    <3> QED BY <1>4, <3>3
  <2>3. CASE \E i \in pos + 1 .. Len(buf) : buf[i] = ":"
    BY <1>4, <2>3
  <2> QED BY <1>3, <2>1, <2>2, <2>3
<1>6. ByteAt(pos) = out[Gone + 1] /\ Gone + 1 \in 1 .. Len(out)
  <2>1. pos + 0 = pos /\ Gone + 0 + 1 = Gone + 1
    BY <1>4
  <2>2. ByteAt(pos + 0) = out[Gone + 0 + 1]
    BY <1>4, <1>5, BufferIs
  <2> QED BY <1>4, <1>5, <2>1, <2>2
<1>7. ASSUME NEW l
      PROVE  Ahead(l) = IF out[Gone + 1] = "\n" THEN {<<>>}
                        ELSE Continued(Meanings(out, l), RecordsAt(out, l, Gone + 1))
  <2>1. Ahead(l) = Meanings(out, l)[Gone + 1]
    BY <1>1, Between
  <2> DEFINE p == Gone + 1
  <2>2. p \in 1 .. Len(out) + 1 /\ ~(p > Len(out))
    BY <1>4, <1>6
  <2> HIDE DEF p
  <2>3. Meanings(out, l)[p] = IF p > Len(out) THEN {}
                              ELSE IF out[p] = "\n" THEN {<<>>} ELSE Continued(Meanings(out, l), RecordsAt(out, l, p))
    BY <1>4, <2>2, MeaningsAre
  <2>4. Meanings(out, l)[p] = IF out[p] = "\n" THEN {<<>>}
                              ELSE Continued(Meanings(out, l), RecordsAt(out, l, p))
    BY <2>2, <2>3
  <2> QED BY <2>1, <2>4 DEF p
<1>8. CASE ByteAt(pos) = "\n"
  <2>1. at' = "finish" /\ pos' = pos + 1 /\ UNCHANGED <<klen, dlen>>
    BY <1>8 DEF ParsePreamble, GoOn
  <2>2. Reading'
    BY <2>1 DEF Reading
  <2>3. Stream'
    <3>1. 1 \in 0 .. Avail
      BY <1>4, <1>5
    <3> QED BY <1>1, <1>4, <2>1, <3>1, TakeKeeps
  <2>4. PreambleInv' /\ RecordInv'
    BY <2>1 DEF PreambleInv, RecordInv, Inside
  <2>5. Ahead(Len(out)) = {<<>>} /\ Ahead(PreMax) = {<<>>}
    BY <1>6, <1>7, <1>8
  <2>6. Ahead(Len(out))' = {<<>>} /\ Ahead(PreMax)' = {<<>>}
    BY <2>1 DEF Ahead, Inside
  <2> QED BY <1>1, <1>2, <2>2, <2>3, <2>4, <2>5, <2>6, GoesOnFmt
<1>9. CASE ByteAt(pos) # "\n" /\ Accepted
  <2> DEFINE u == DataLen.p + 1 - pos
             p == Gone + 1
  <2>1. /\ at' = "record" /\ pos' = DataLen.p + 1 /\ klen' = KeyLen.n /\ dlen' = DataLen.n
    BY <1>9 DEF ParsePreamble, GoOn, Accepted, KeyLen, DataLen
  <2>2. /\ p \in 1 .. Len(out) /\ u \in 1 .. Avail
        /\ \E c \in p + 2 .. Len(out), e \in p + 4 .. Len(out) :
              /\ e = Gone + u
              /\ IsPreamble(out, Len(out), p, c, e)
              /\ KeyLen.n = Decimal(SubSeq(out, p + 1, c - 1)) /\ KeyLen.n \in Nat
              /\ DataLen.n = Decimal(SubSeq(out, c + 1, e - 1)) /\ DataLen.n \in Nat
    BY <1>4, <1>9, ParseSound
  <2>3. PICK c \in p + 2 .. Len(out), e \in p + 4 .. Len(out) :
              /\ e = Gone + u
              /\ IsPreamble(out, Len(out), p, c, e)
              /\ klen' = Decimal(SubSeq(out, p + 1, c - 1)) /\ klen' \in Nat
              /\ dlen' = Decimal(SubSeq(out, c + 1, e - 1)) /\ dlen' \in Nat
    BY <2>1, <2>2
  <2>4. Reading'
    BY <2>1 DEF Reading
  <2>5. Stream' /\ Gone' = e
    <3>1. pos' = pos + u
      <4>1. PICK j \in 1 .. Avail : j = u
        BY <2>2
      <4>2. DataLen.p + 1 = pos + j
        <5>1. DataLen.p \in Int
          <6>0. buf \in Seq(Byte) /\ pos + 1 \in Nat
            BY <1>4 DEF Stream
          <6>1. KeyLen.ok /\ DataLen.ok
            BY <1>9, Zenon DEF Accepted
          <6>2. KeyLen.p \in (pos + 1) + 1 .. Len(buf)
            BY <6>0, <6>1, NumberSound DEF KeyLen
          <6>3. KeyLen.p + 1 \in Nat
            BY <1>4, <6>2
          <6>4. DataLen.p \in (KeyLen.p + 1) + 1 .. Len(buf)
            BY <6>0, <6>1, <6>3, NumberSound DEF DataLen
          <6> QED BY <6>3, <6>4
        <5>2. pos \in Nat
          BY <1>4
        <5> QED BY ONLY <4>1, <5>1, <5>2
      <4> QED BY <2>1, <4>1, <4>2
    <3>2. u \in 0 .. Avail
      BY <2>2
    <3> HIDE DEF u
    <3> QED BY <1>1, <1>4, <2>3, <3>1, <3>2, TakeKeeps
  <2>6. PreambleInv'
    BY <2>1 DEF PreambleInv
  <2>7. Colon' = e
    BY <2>1, <2>5 DEF Colon
  <2>8. RecordInv'
    <3>1. e \in 0 .. Len(out)
      BY <1>4, <2>2
    <3> QED BY <1>1, <2>1, <2>3, <2>7, <3>1 DEF RecordInv, Inside
  <2> HIDE DEF u
  <2> DEFINE R == Bodies(out, e, klen', dlen')
  <2>9. /\ RecordsAt(out, Len(out), p) = R
        /\ \A m : RecordsAt(out, m, p) \subseteq R
    <3> HIDE DEF p
    <3> QED BY <1>4, <2>2, <2>3, PreambleRecords
  <2>10. ASSUME NEW l PROVE Ahead(l) = Continued(Meanings(out, l), RecordsAt(out, l, p))
    BY <1>6, <1>7, <1>9
  <2>11. /\ Ahead(Len(out))' = Continued(Meanings(out, Len(out)), R)
         /\ Ahead(PreMax)' = Continued(Meanings(out, PreMax), R)
    BY <1>1, <2>1, <2>7 DEF Ahead, Inside
  <2> HIDE DEF R, p
  <2>12. Ahead(Len(out))' = Ahead(Len(out))
    BY <2>9, <2>10, <2>11
  <2>13. Ahead(PreMax) # {} => Ahead(PreMax)' # {}
    <3>1. Continued(Meanings(out, PreMax), RecordsAt(out, PreMax, p)) \subseteq Continued(Meanings(out, PreMax), R)
      BY ONLY <2>9, ContinuedIs
    <3>2. Ahead(PreMax) = Continued(Meanings(out, PreMax), RecordsAt(out, PreMax, p))
      BY ONLY <2>10
    <3> QED BY ONLY <2>11, <3>1, <3>2
  <2> QED BY <1>1, <1>2, <2>4, <2>5, <2>6, <2>8, <2>12, <2>13, GoesOnFmt
<1>10. CASE ByteAt(pos) # "\n" /\ ~Accepted
  <2>1. Return("format")
    BY <1>10 DEF ParsePreamble, Accepted, KeyLen, DataLen
  <2>2. ASSUME NEW c \in Gone + 3 .. Len(out), NEW e \in Gone + 5 .. Len(out),
               IsPreamble(out, PreMax, Gone + 1, c, e)
        PROVE  FALSE
    <3>1. e <= Gone + Avail
      <4>1. CASE Avail >= PreMax
        <5>1. e - (Gone + 1) < PreMax
          BY <2>2 DEF IsPreamble
        <5> QED BY <1>4, <4>1, <5>1, FmtAssumption
      <4>2. CASE \E i \in pos + 1 .. Len(buf) : buf[i] = ":"
        <5>1. PICK j \in 1 .. Avail : buf[pos + j] = ":"
          <6>1. PICK i \in pos + 1 .. Len(buf) : buf[i] = ":"
            BY <4>2
          <6>2. i - pos \in 1 .. Avail /\ i = pos + (i - pos)
            BY <1>4
          <6> QED BY <6>1, <6>2
        <5>2. out[Gone + j] = ":"
          BY <1>4, <5>1 DEF Stream
        <5>3. /\ e \in c + 2 .. Len(out) /\ out[Gone + 1] = "+" /\ out[c] = ","
              /\ \A i \in Gone + 2 .. c - 1 : IsDigit(out[i])
              /\ \A i \in c + 1 .. e - 1 : IsDigit(out[i])
          <6>1. /\ Gone + 1 \in 1 .. Len(out) /\ c \in (Gone + 1) + 2 .. Len(out) /\ e \in (Gone + 1) + 4 .. Len(out)
                /\ (Gone + 1) + 1 = Gone + 2
            BY <1>4, <1>6
          <6>2. /\ e \in c + 2 .. Len(out) /\ out[Gone + 1] = "+" /\ out[c] = ","
                /\ \A i \in (Gone + 1) + 1 .. c - 1 : IsDigit(out[i])
                /\ \A i \in c + 1 .. e - 1 : IsDigit(out[i])
            BY <1>4, <2>2, <6>1, PreambleIs
          <6> QED BY <6>1, <6>2
        <5>4. ~IsDigit(out[Gone + j]) /\ out[Gone + j] # "+" /\ out[Gone + j] # ","
          BY <5>2, NoDigits
        <5>5. /\ Gone + j # Gone + 1 /\ Gone + j # c
              /\ Gone + j \notin Gone + 2 .. c - 1 /\ Gone + j \notin c + 1 .. e - 1
          BY <5>3, <5>4
        <5>6. e <= Gone + j
          <6>1. PICK x \in Nat : x = Gone + j /\ x >= Gone + 1
            BY <1>4
          <6>2. x # Gone + 1 /\ x # c /\ x \notin Gone + 2 .. c - 1 /\ x \notin c + 1 .. e - 1
            BY <5>5, <6>1
          <6>3. c \in Nat /\ e \in Nat /\ Gone \in Nat
            BY <1>4
          <6>4. x > c
            BY <6>1, <6>2, <6>3
          <6>5. e <= x
            BY <6>1, <6>2, <6>3, <6>4
          <6> QED BY <6>1, <6>5
        <5> QED BY <1>4, <5>6
      <4> QED BY <1>3, <1>10, <4>1, <4>2
    <3> QED BY <1>4, <1>10, <2>2, <3>1, ParseComplete
  <2>3. Ahead(PreMax) = {}
    <3>1. at \in {"fill", "parse"} /\ out[Gone + 1] # "\n"
      BY <1>1, <1>6, <1>10
    <3> QED BY <1>2, <2>2, <3>1, NoColon
  <2> QED BY <1>2, <2>1, <2>3, EndsFormat
<1> QED BY <1>8, <1>9, <1>10

\* The rest of a record is there ...
LEMMA BodyMade ==
    ASSUME NEW t \in Seq(Byte), NEW e \in Nat, NEW kl \in Nat, NEW dl \in Nat, e + kl + dl + 3 <= Len(t),
           t[e + kl + 1] = "-", t[e + kl + 2] = ">", t[e + kl + dl + 3] = "\n"
    PROVE  \E r : r \in Bodies(t, e, kl, dl)
<1> DEFINE a == e + kl
           z == a + 2 + dl
<1>1. z + 1 = e + kl + dl + 3 /\ a + 1 = e + kl + 1 /\ a + 2 = e + kl + 2
  OBVIOUS
<1>2. z + 1 <= Len(t) /\ t[a + 1] = "-" /\ t[a + 2] = ">" /\ t[z + 1] = "\n"
  BY <1>1
<1>3. Bodies(t, e, kl, dl) = {[k |-> SubSeq(t, e + 1, a), d |-> SubSeq(t, a + 3, z), next |-> z + 2]}
  BY <1>2 DEF Bodies
<1> QED BY <1>3

\* ... or not.
LEMMA NoBody ==
    ASSUME NEW t \in Seq(Byte), NEW e \in Nat, NEW kl \in Nat, NEW dl \in Nat,
           \/ ~(e + kl + dl + 3 <= Len(t))
           \/ ~(t[e + kl + 1] = "-" /\ t[e + kl + 2] = ">" /\ t[e + kl + dl + 3] = "\n")
    PROVE  Bodies(t, e, kl, dl) = {}
<1>1. ASSUME NEW r \in Bodies(t, e, kl, dl) PROVE FALSE
  BY BodyIs
<1> QED BY <1>1

\* A record has been read.
LEMMA RecordRead ==
    ASSUME FmtInv, Same, at \in Inside, at' = "preamble", NEW r \in Record, recs' = Append(recs, r), Stream',
           NEW e \in Nat, e = Colon, klen \in Nat, dlen \in Nat,
           Gone' = e + klen + dlen + 3, Gone' <= Len(out),
           out[e + klen + 1] = "-", out[e + klen + 2] = ">", out[e + klen + dlen + 3] = "\n",
           r.k = SubSeq(out, e + 1, e + klen), r.d = SubSeq(out, e + klen + 3, e + klen + dlen + 2)
    PROVE  FmtInv'
<1>1. Reading /\ Reading' /\ out' = out
  BY DEF Reading, Inside, Same
<1>2. out \in Seq(Byte) /\ recs \in Seq(Record) /\ cmd # "over" /\ Len(out) \in Nat
  BY <1>1, FmtFacts
<1>3. PICK b : b \in Bodies(out, e, klen, dlen)
  BY <1>2, BodyMade
<1>4. /\ b.next = e + klen + dlen + 4
      /\ b.k = SubSeq(out, e + 1, e + klen) /\ b.d = SubSeq(out, e + klen + 3, e + klen + dlen + 2)
      /\ Bodies(out, e, klen, dlen) = {b}
  BY ONLY <1>2, <1>3, e \in Nat, klen \in Nat, dlen \in Nat, BodyOf
<1>5. [k |-> b.k, d |-> b.d] = r
  BY <1>4 DEF Record
<1> DEFINE n == e + klen + dlen + 4
<1>6. n \in 1 .. Len(out) + 1 /\ Gone' + 1 = n
  BY <1>2
<1>7. ASSUME NEW l PROVE Ahead(l) = {<<r>> \o s : s \in Meanings(out, l)[n]}
  <2>1. Ahead(l) = Continued(Meanings(out, l), {b})
    BY <1>4, Within
  <2>2. Continued(Meanings(out, l), {b}) = {<<[k |-> b.k, d |-> b.d]>> \o s : s \in Meanings(out, l)[b.next]}
    <3> DEFINE M == Meanings(out, l)
    <3> HIDE DEF M
    <3>1. \A q : Continued(M, {q}) = {<<[k |-> q.k, d |-> q.d]>> \o s : s \in M[q.next]}
      BY ContinuedIs
    <3>2. Continued(M, {b}) = {<<[k |-> b.k, d |-> b.d]>> \o s : s \in M[b.next]}
      BY <3>1
    <3> QED BY <3>2 DEF M
  <2> QED BY <1>4, <1>5, <2>1, <2>2
<1>8. /\ Ahead(Len(out))' = Meanings(out, Len(out))[n]
      /\ Ahead(PreMax)' = Meanings(out, PreMax)[n]
  BY <1>1, <1>6 DEF Ahead, Inside
<1>9. \A l : Meanings(out, l)[n] \subseteq Seq(Record)
  <2> HIDE DEF n
  <2> QED BY <1>2, <1>6, MeaningsSeqs
<1> HIDE DEF n
<1>10. Meaning(out', Len(out')) = {recs' \o s : s \in Ahead(Len(out))'}
  <2> DEFINE S == Meanings(out, Len(out))[n]
  <2>1. Meaning(out, Len(out)) = {recs \o s : s \in Ahead(Len(out))}
    BY <1>1 DEF FmtInv, MeaningInv
  <2>2. Ahead(Len(out)) = {<<r>> \o x : x \in S} /\ Ahead(Len(out))' = S
    BY <1>7, <1>8
  <2>3. S \in SUBSET Seq(Record)
    BY <1>9
  <2> HIDE DEF S
  <2>4. {recs \o s : s \in {<<r>> \o x : x \in S}} = {Append(recs, r) \o x : x \in S}
    BY <1>2, <2>3, OneRecord
  <2>5. Meaning(out, Len(out)) = {Append(recs, r) \o x : x \in S}
    BY <2>1, <2>2, <2>4
  <2> QED BY <1>1, <2>2, <2>5
<1>11. Meaning(out', PreMax) # {} => Ahead(PreMax)' # {}
  <2>1. Meaning(out, PreMax) # {} => Ahead(PreMax) # {}
    BY <1>1 DEF FmtInv, MeaningInv
  <2> QED BY <1>1, <1>7, <1>8, <2>1
<1>12. MeaningInv'
  BY <1>10, <1>11 DEF MeaningInv
<1>13. StreamInv'
  <2>1. recs' \in Seq(Record)
    BY <1>2
  <2> QED BY <1>2, <2>1 DEF StreamInv, Same
<1>14. PreambleInv' /\ RecordInv'
  BY DEF PreambleInv, RecordInv, Inside
<1>15. FmtExact'
  BY DEF FmtExact
<1> QED BY <1>1, <1>2, <1>12, <1>13, <1>14, <1>15 DEF FmtInv

LEMMA FmtAddBuffered == ASSUME FmtInv, Same, AddBuffered PROVE FmtInv'
<1>1. at = "record" /\ Buffered /\ UNCHANGED <<input, mm, buf, klen, dlen>> /\ out' = out
  BY DEF AddBuffered, Same
<1>2. Reading /\ at \in Inside
  BY <1>1 DEF Reading, Inside
<1>3. /\ out \in Seq(Byte) /\ Stream /\ recs \in Seq(Record)
      /\ Avail \in Nat /\ Gone \in Nat /\ Gone + Avail + Len(input) = Len(out) /\ Gone + Avail <= Len(out)
      /\ Len(input) \in Nat /\ Len(buf) \in Nat /\ Len(out) \in Nat /\ pos \in Nat /\ pos + Avail = Len(buf)
  BY <1>2, FmtFacts
<1>4. klen \in Nat /\ dlen \in Nat /\ Colon = Gone /\ klen + dlen + 3 <= Avail
  BY <1>1, <1>2 DEF FmtInv, RecordInv, Colon, Buffered
<1> DEFINE rr == [k |-> SubSeq(buf, pos + 1, pos + klen), d |-> SubSeq(buf, pos + klen + 3, pos + klen + 2 + dlen)]
           fits == /\ ByteAt(pos + klen) = "-" /\ ByteAt(pos + klen + 1) = ">"
                   /\ ByteAt(pos + klen + 2 + dlen) = "\n"
<1>5. \/ fits /\ recs' = Append(recs, rr) /\ pos' = pos + klen + dlen + 3 /\ GoOn("preamble")
      \/ ~fits /\ Return("format")
      \/ ReturnHurt("write")
  BY DEF AddBuffered
<1>6. fits <=> /\ out[Gone + klen + 1] = "-" /\ out[Gone + klen + 2] = ">"
               /\ out[Gone + klen + dlen + 3] = "\n"
  <2>1. klen \in 0 .. Avail - 1 /\ klen + 1 \in 0 .. Avail - 1 /\ klen + 2 + dlen \in 0 .. Avail - 1
    BY <1>3, <1>4
  <2>2. /\ pos + (klen + 1) = pos + klen + 1 /\ pos + (klen + 2 + dlen) = pos + klen + 2 + dlen
        /\ Gone + (klen + 1) + 1 = Gone + klen + 2 /\ Gone + (klen + 2 + dlen) + 1 = Gone + klen + dlen + 3
    BY <1>3, <1>4
  <2>3. /\ ByteAt(pos + klen) = out[Gone + klen + 1] /\ ByteAt(pos + (klen + 1)) = out[Gone + (klen + 1) + 1]
        /\ ByteAt(pos + (klen + 2 + dlen)) = out[Gone + (klen + 2 + dlen) + 1]
    BY <1>3, <2>1, BufferIs
  <2> QED BY <2>2, <2>3
<1>7. /\ rr \in Record
      /\ rr.k = SubSeq(out, Gone + 1, Gone + klen)
      /\ rr.d = SubSeq(out, Gone + klen + 3, Gone + klen + dlen + 2)
  <2>1. /\ 1 \in Nat \ {0} /\ klen + 3 \in Nat \ {0} /\ klen \in 0 .. Avail /\ klen + dlen + 2 \in 0 .. Avail
        /\ pos + (klen + 3) = pos + klen + 3 /\ pos + (klen + dlen + 2) = pos + klen + 2 + dlen
        /\ Gone + (klen + 3) = Gone + klen + 3 /\ Gone + (klen + dlen + 2) = Gone + klen + dlen + 2
    BY <1>3, <1>4
  <2>2. /\ SubSeq(buf, pos + 1, pos + klen) = SubSeq(out, Gone + 1, Gone + klen)
        /\ SubSeq(buf, pos + (klen + 3), pos + (klen + dlen + 2)) = SubSeq(out, Gone + (klen + 3), Gone + (klen + dlen + 2))
    BY <1>3, <2>1, BufferIs
  <2>3. /\ Gone + 1 \in Nat \ {0} /\ Gone + klen \in Nat /\ Gone + klen <= Len(out)
        /\ Gone + klen + 3 \in Nat \ {0} /\ Gone + klen + dlen + 2 \in Nat /\ Gone + klen + dlen + 2 <= Len(out)
    BY <1>3, <1>4
  <2>4. SubSeq(out, Gone + 1, Gone + klen) \in Seq(Byte) /\ SubSeq(out, Gone + klen + 3, Gone + klen + dlen + 2) \in Seq(Byte)
    BY <1>3, <2>3, Part
  <2> QED BY <2>1, <2>2, <2>4 DEF Record
<1> HIDE DEF rr, fits
<1>8. CASE fits /\ recs' = Append(recs, rr) /\ pos' = pos + klen + dlen + 3 /\ GoOn("preamble")
  <2>1. at' = "preamble"
    BY <1>8 DEF GoOn
  <2>2. Stream' /\ Gone' = Gone + klen + dlen + 3
    <3>1. klen + dlen + 3 \in 0 .. Avail /\ pos' = pos + (klen + dlen + 3) /\ Gone + (klen + dlen + 3) = Gone + klen + dlen + 3
      BY <1>3, <1>4, <1>8
    <3> QED BY <1>1, <1>3, <3>1, TakeKeeps
  <2>3. Gone + klen + dlen + 3 <= Len(out)
    BY <1>3, <1>4
  <2> QED BY <1>2, <1>3, <1>4, <1>6, <1>7, <1>8, <2>1, <2>2, <2>3, RecordRead
<1>9. CASE ~fits /\ Return("format")
  <2>1. Bodies(out, Gone, klen, dlen) = {}
    BY <1>3, <1>4, <1>6, <1>9, NoBody
  <2>2. Ahead(PreMax) = {}
    BY <1>2, <1>4, <2>1, Within, ContinuedIs
  <2> QED BY <1>2, <1>9, <2>2, EndsFormat
<1>10. CASE ReturnHurt("write")
  BY <1>10, EndsHurt
<1> QED BY <1>5, <1>8, <1>9, <1>10

LEMMA FmtAddBegin == ASSUME FmtInv, Same, AddBegin PROVE FmtInv'
<1>1. at = "record" /\ UNCHANGED <<input, mm, buf, pos, klen, dlen, recs>> /\ out' = out
      /\ \/ GoOn("key") /\ rec' = [k |-> <<>>, d |-> <<>>] /\ left' = klen
         \/ ReturnHurt("write")
  BY DEF AddBegin, Same
<1>2. Reading /\ at \in Inside
  BY <1>1 DEF Reading, Inside
<1>3. /\ out \in Seq(Byte) /\ Stream /\ Avail \in Nat /\ Gone \in Nat /\ pos \in Nat
  BY <1>2, FmtFacts
<1>4. klen \in Nat /\ dlen \in Nat /\ Colon = Gone /\ Colon \in 0 .. Len(out)
  BY <1>1, <1>2 DEF FmtInv, RecordInv, Colon
<1>5. CASE ReturnHurt("write")
  BY <1>5, EndsHurt
<1>6. CASE GoOn("key") /\ rec' = [k |-> <<>>, d |-> <<>>] /\ left' = klen
  <2>1. at' = "key" /\ rec' = [k |-> <<>>, d |-> <<>>] /\ left' = klen
    BY <1>6 DEF GoOn
  <2>2. Reading'
    BY <2>1 DEF Reading
  <2>3. Stream' /\ Gone' = Gone
    <3>1. 0 \in 0 .. Avail /\ pos' = pos + 0 /\ Gone + 0 = Gone
      BY <1>1, <1>3
    <3> QED BY <1>1, <1>3, <3>1, TakeKeeps
  <2>4. PreambleInv'
    BY <2>1 DEF PreambleInv
  <2>5. Colon' = Gone
    <3>1. Colon' = Gone' - Len(rec'.k)
      BY <2>1 DEF Colon
    <3>2. Len(rec'.k) = 0
      BY <2>1
    <3> QED BY <1>3, <2>3, <3>1, <3>2
  <2>6. RecordInv'
    <3>1. rec' \in Record /\ Len(rec'.k) = 0 /\ rec'.k = <<>> /\ rec'.d = <<>>
      BY <2>1 DEF Record
    <3>2. SubSeq(out', Gone + 1, Gone + Len(rec'.k)) = <<>>
      <4>1. SubSeq(out, Gone + 1, Gone) = <<>>
        BY <1>3
      <4> QED BY <1>1, <1>3, <3>1, <4>1
    <3>3. left' = klen' - Len(rec'.k) /\ left' \in Nat
      BY <1>1, <1>4, <2>1, <3>1
    <3> QED BY <1>1, <1>4, <2>1, <2>5, <3>1, <3>2, <3>3 DEF RecordInv, Inside
  <2>7. Ahead(Len(out))' = Ahead(Len(out)) /\ Ahead(PreMax)' = Ahead(PreMax)
    BY <1>1, <1>4, <2>1, <2>5 DEF Ahead, Inside
  <2> QED BY <1>1, <1>2, <2>2, <2>3, <2>4, <2>6, <2>7, GoesOnFmt
<1> QED BY <1>1, <1>5, <1>6

\* mcdb_bufread_str takes what there is in the buffer, if not more than it wants.
Took(f, more, thn, u) ==
    /\ u <= left /\ left' = left - u /\ (left # u => Avail' = 0)
    /\ rec' = [rec EXCEPT ![f] = @ \o SubSeq(out, Gone + 1, Gone + u)]
    /\ at' = (IF left = u THEN thn ELSE more)
    /\ Stream' /\ Gone' = Gone + u
    /\ UNCHANGED <<input, mm, buf, need, klen, dlen, recs>>

LEMMA TakeIs ==
    ASSUME FmtInv, Same, Reading, left \in Nat, NEW f, NEW more, NEW thn, Take(f, more, thn)
    PROVE  \E u \in 0 .. Avail : Took(f, more, thn, u)
<1>1. /\ out \in Seq(Byte) /\ Stream /\ out' = out
      /\ Avail \in Nat /\ Gone \in Nat /\ pos \in Nat
  BY FmtFacts DEF Same
<1> DEFINE v == IF Avail > left THEN left ELSE Avail
<1>2. /\ rec' = [rec EXCEPT ![f] = @ \o SubSeq(buf, pos + 1, pos + v)]
      /\ pos' = pos + v /\ left' = left - v /\ at' = (IF left = v THEN thn ELSE more)
      /\ UNCHANGED <<input, mm, buf, need, klen, dlen, recs>>
  BY DEF Take, GoOn
<1>3. PICK u \in 0 .. Avail : u = v /\ u <= left /\ (left # u => u = Avail)
  BY <1>1
<1> HIDE DEF v
<1>4. Stream' /\ Avail' = Avail - u /\ Gone' = Gone + u
  BY <1>1, <1>2, <1>3, TakeKeeps
<1>5. left # u => Avail' = 0
  BY <1>1, <1>3, <1>4
<1>6. SubSeq(buf, pos + 1, pos + u) = SubSeq(out, Gone + 1, Gone + u)
  <2>1. 1 \in Nat \ {0}
    OBVIOUS
  <2> QED BY <1>1, <2>1, BufferIs
<1>7. /\ rec' = [rec EXCEPT ![f] = @ \o SubSeq(out, Gone + 1, Gone + u)]
      /\ left' = left - u /\ at' = (IF left = u THEN thn ELSE more)
      /\ UNCHANGED <<input, mm, buf, need, klen, dlen, recs>>
  BY <1>2, <1>3, <1>6
<1> QED BY <1>3, <1>4, <1>5, <1>7 DEF Took

\* More is wanted when the buffer has too little: more is read, or the text is
\* over, or the read fails.
LEMMA MoreIs ==
    ASSUME FmtInv, Same, NEW from, NEW to, at = from, from \in Inside, More(from, to),
           Avail < 2, Gone + Avail = Len(out) => Ahead(PreMax) = {}
    PROVE  \/ FmtInv'
           \/ /\ at' = to /\ Stream' /\ Gone' = Gone
              /\ UNCHANGED <<mm, need, klen, dlen, rec, left, recs>>
<1>0. Reading /\ out' = out
  BY DEF Reading, Inside, Same
<1>1. /\ out \in Seq(Byte) /\ Stream
      /\ Avail \in Nat /\ Gone \in Nat /\ Gone + Avail + Len(input) = Len(out) /\ Len(input) \in Nat /\ Len(out) \in Nat
  BY <1>0, FmtFacts
<1>2. PICK r \in Results : /\ Reads(r)
                           /\ \/ r > 0 /\ GoOn(to)
                              \/ (r = 0 \/ mm) /\ Return("format")
                              \/ r = -1 /\ ~mm /\ ReturnHurt("format")
  BY DEF More
<1>3. UNCHANGED <<mm, need, klen, dlen, rec, left, recs>>
  BY DEF More
<1>4. /\ Stream' /\ Gone' = Gone
      /\ (r = 0 \/ mm) /\ Avail < BufSz /\ (Avail < MoveMin \/ pos = 0) => Len(input) = 0
  BY <1>0, <1>1, <1>2, <1>3, ReadKeeps
<1>5. CASE r > 0 /\ GoOn(to)
  BY <1>3, <1>4, <1>5 DEF GoOn
<1>6. CASE (r = 0 \/ mm) /\ Return("format")
  <2>1. Avail < BufSz /\ Avail < MoveMin
    BY <1>1, FmtAssumption
  <2>2. Gone + Avail = Len(out)
    BY <1>1, <1>4, <1>6, <2>1
  <2> QED BY <1>0, <1>6, <2>2, EndsFormat
<1>7. CASE ReturnHurt("format")
  BY <1>7, EndsHurt
<1> QED BY <1>2, <1>5, <1>6, <1>7

\* While the key is read
InKey == at \in {"key", "more key", "arrow"}
InData == at \in {"data", "more data", "newline"}

LEMMA KeyFacts ==
    ASSUME FmtInv, InKey
    PROVE  /\ klen \in Nat /\ dlen \in Nat /\ rec \in Record /\ rec.d = <<>>
           /\ \E e \in 0 .. Len(out), n \in Nat :
                 /\ e = Colon /\ n = Len(rec.k) /\ e + n = Gone
                 /\ rec.k = SubSeq(out, e + 1, e + n)
                 /\ at \in {"key", "more key"} => left = klen - n /\ left \in Nat
                 /\ at = "arrow" => n = klen
                 /\ at = "more key" => Avail = 0 /\ left # 0
<1>0. Reading /\ at \in Inside /\ at # "record"
  BY DEF Reading, Inside, InKey
<1>1. out \in Seq(Byte) /\ Gone \in Nat /\ Len(out) \in Nat
  BY <1>0, FmtFacts
<1>2. /\ klen \in Nat /\ dlen \in Nat /\ Colon \in 0 .. Len(out)
      /\ rec \in Record /\ rec.k = SubSeq(out, Colon + 1, Colon + Len(rec.k))
      /\ at \in {"key", "more key"} => left = klen - Len(rec.k) /\ left \in Nat
      /\ rec.d = <<>>
      /\ at = "arrow" => Len(rec.k) = klen
      /\ at = "more key" => Avail = 0 /\ left # 0
  BY <1>0 DEF FmtInv, RecordInv, InKey
<1>3. Len(rec.k) \in Nat
  <2>1. rec.k \in Seq(Byte)
    BY <1>2 DEF Record
  <2> QED BY <2>1, LenProperties
<1>4. Colon = Gone - Len(rec.k)
  BY DEF Colon, InKey
<1>a. klen \in Nat /\ Colon \in 0 .. Len(out)
  BY <1>2
<1>5. PICK e \in Nat, n \in Nat : e = Colon /\ n = Len(rec.k) /\ e \in 0 .. Len(out)
  BY <1>1, <1>3, <1>a
<1>6. e + n = Gone
  <2>1. PICK g \in Nat : g = Gone
    BY <1>1
  <2>2. e = g - n
    BY <1>4, <1>5, <2>1
  <2>3. e + n = g
    BY <1>1, <2>2
  <2> QED BY <2>1, <2>3
<1> QED BY <1>2, <1>5, <1>6

\* While the data is read
LEMMA DataFacts ==
    ASSUME FmtInv, InData
    PROVE  /\ klen \in Nat /\ dlen \in Nat /\ rec \in Record
           /\ \E e \in 0 .. Len(out), n \in Nat :
                 /\ e = Colon /\ n = Len(rec.d) /\ e + klen + 2 + n = Gone
                 /\ rec.k = SubSeq(out, e + 1, e + klen) /\ Len(rec.k) = klen
                 /\ out[e + klen + 1] = "-" /\ out[e + klen + 2] = ">"
                 /\ rec.d = SubSeq(out, e + klen + 3, Gone)
                 /\ left = dlen - n /\ left \in Nat
                 /\ at = "more data" => Avail = 0 /\ left # 0
                 /\ at = "newline" => left = 0
<1>0. Reading /\ at \in Inside /\ at # "record"
  BY DEF Reading, Inside, InData
<1>1. out \in Seq(Byte) /\ Gone \in Nat /\ Len(out) \in Nat
  BY <1>0, FmtFacts
<1>2. /\ klen \in Nat /\ dlen \in Nat /\ Colon \in 0 .. Len(out)
      /\ rec \in Record /\ rec.k = SubSeq(out, Colon + 1, Colon + Len(rec.k))
      /\ Len(rec.k) = klen
      /\ out[Colon + klen + 1] = "-" /\ out[Colon + klen + 2] = ">"
      /\ rec.d = SubSeq(out, Colon + klen + 3, Gone)
      /\ left = dlen - Len(rec.d) /\ left \in Nat
      /\ at = "more data" => Avail = 0 /\ left # 0
      /\ at = "newline" => left = 0
  BY <1>0 DEF FmtInv, RecordInv, InData
<1>3. Len(rec.d) \in Nat
  <2>1. rec.d \in Seq(Byte)
    BY <1>2 DEF Record
  <2> QED BY <2>1, LenProperties
<1>4. Colon = Gone - Len(rec.d) - 2 - klen
  BY DEF Colon, InData
<1>a. klen \in Nat /\ Colon \in 0 .. Len(out)
  BY <1>2
<1>5. PICK e \in Nat, n \in Nat : e = Colon /\ n = Len(rec.d) /\ e \in 0 .. Len(out)
  BY <1>1, <1>3, <1>a
<1>6. e + klen + 2 + n = Gone
  <2>1. PICK g \in Nat : g = Gone
    BY <1>1
  <2>2. e = g - n - 2 - klen
    BY <1>4, <1>5, <2>1
  <2>3. e + klen + 2 + n = g
    BY <1>1, <1>a, <2>2
  <2> QED BY <2>1, <2>3
<1> QED BY <1>2, <1>5, <1>6

\* The record that is read goes on: where it began and what it says are the same.
LEMMA RecordGoesOn ==
    ASSUME FmtInv, Same, at \in Inside, at' \in Inside, Colon' = Colon, UNCHANGED <<klen, dlen, recs>>,
           Stream', RecordInv'
    PROVE  FmtInv'
<1>1. Reading /\ Reading' /\ out' = out
  BY DEF Reading, Inside, Same
<1>2. PreambleInv'
  BY DEF PreambleInv, Inside
<1>3. Ahead(Len(out))' = Ahead(Len(out)) /\ Ahead(PreMax)' = Ahead(PreMax)
  <2>1. /\ Ahead(Len(out)) = Continued(Meanings(out, Len(out)), Bodies(out, Colon, klen, dlen))
        /\ Ahead(PreMax) = Continued(Meanings(out, PreMax), Bodies(out, Colon, klen, dlen))
    BY Within
  <2>2. /\ Ahead(Len(out))' = Continued(Meanings(out', Len(out')), Bodies(out', Colon', klen', dlen'))
        /\ Ahead(PreMax)' = Continued(Meanings(out', PreMax), Bodies(out', Colon', klen', dlen'))
    BY DEF Ahead, Inside
  <2> QED BY <1>1, <2>1, <2>2
<1> QED BY <1>1, <1>2, <1>3, GoesOnFmt

LEMMA FmtTakeKey == ASSUME FmtInv, Same, TakeKey PROVE FmtInv'
<1>1. at = "key" /\ Take("k", "more key", "arrow") /\ out' = out
  BY DEF TakeKey, Same
<1>2. Reading /\ at \in Inside /\ InKey
  BY <1>1 DEF Reading, Inside, InKey
<1>3. out \in Seq(Byte) /\ Gone \in Nat /\ Avail \in Nat /\ Len(out) \in Nat /\ Gone + Avail <= Len(out)
  BY <1>2, FmtFacts
<1>4. klen \in Nat /\ dlen \in Nat /\ rec \in Record /\ rec.d = <<>>
  BY <1>2, KeyFacts
<1>5. PICK e \in 0 .. Len(out), n \in Nat :
         /\ e = Colon /\ n = Len(rec.k) /\ e + n = Gone
         /\ rec.k = SubSeq(out, e + 1, e + n)
         /\ left = klen - n /\ left \in Nat
  BY <1>1, <1>2, KeyFacts
<1>b. PICK u \in 0 .. Avail : Took("k", "more key", "arrow", u)
  <2>1. left \in Nat
    BY <1>5
  <2> QED BY <1>1, <1>2, <2>1, TakeIs
<1>6. /\ u <= left /\ left' = left - u /\ (left # u => Avail' = 0)
      /\ rec' = [rec EXCEPT !["k"] = @ \o SubSeq(out, Gone + 1, Gone + u)]
      /\ at' = (IF left = u THEN "arrow" ELSE "more key")
      /\ Stream' /\ Gone' = Gone + u
      /\ UNCHANGED <<input, mm, buf, need, klen, dlen, recs>>
  BY <1>b DEF Took
<1>7. e \in Nat /\ u \in Nat /\ u <= Avail
  BY <1>3
<1>8. rec' \in Record /\ rec'.k = rec.k \o SubSeq(out, Gone + 1, Gone + u) /\ rec'.d = <<>>
  <2>1. Gone + 1 \in Nat \ {0} /\ Gone + u \in Nat /\ Gone + u <= Len(out)
    BY <1>3, <1>7
  <2>2. SubSeq(out, Gone + 1, Gone + u) \in Seq(Byte)
    BY <1>3, <2>1, Part
  <2>3. rec.k \in Seq(Byte) /\ rec = [k |-> rec.k, d |-> rec.d]
    BY <1>4 DEF Record
  <2>4. rec' = [k |-> rec.k \o SubSeq(out, Gone + 1, Gone + u), d |-> rec.d]
    BY <1>4, <1>6 DEF Record
  <2>5. rec.k \o SubSeq(out, Gone + 1, Gone + u) \in Seq(Byte)
    BY <2>2, <2>3, ConcatProperties
  <2>6. rec.d \in Seq(Byte)
    BY <1>4 DEF Record
  <2> QED BY <1>4, <2>4, <2>5, <2>6 DEF Record
<1>9. rec'.k = SubSeq(out, e + 1, e + n + u)
  <2>1. e + 1 \in 1 .. Len(out) + 1 /\ e + n \in (e + 1) - 1 .. Len(out) /\ e + n + u \in e + n .. Len(out)
        /\ Gone + 1 = (e + n) + 1 /\ Gone + u = e + n + u
    <3>1. Gone = e + n /\ e + n + u <= Len(out) /\ Len(out) \in Nat
      <4>1. Gone + u <= Len(out)
        BY <1>3, <1>7
      <4>2. Gone = e + n
        BY <1>5
      <4> QED BY <1>3, <4>1, <4>2
    <3> QED BY <1>7, <3>1
  <2>2. SubSeq(out, e + 1, e + n) \o SubSeq(out, (e + n) + 1, e + n + u) = SubSeq(out, e + 1, e + n + u)
    BY <1>3, <2>1, ConcatAdjacentSubSeq
  <2> QED BY <1>5, <1>8, <2>1, <2>2
<1>10. Len(rec'.k) = n + u
  <2>1. e + 1 \in Nat \ {0} /\ e + n + u \in Nat /\ e + n + u <= Len(out)
    BY <1>3, <1>5, <1>7
  <2>2. Len(SubSeq(out, e + 1, e + n + u)) = IF e + 1 <= e + n + u THEN e + n + u - (e + 1) + 1 ELSE 0
    BY <1>3, <2>1, Part
  <2> QED BY <1>7, <1>9, <2>2
<1>11. at' \in {"arrow", "more key"}
  BY <1>6
<1>12. Colon' = e
  <2>1. Colon' = Gone' - Len(rec'.k)
    BY <1>11 DEF Colon
  <2>2. Colon' = (Gone + u) - (n + u)
    BY <1>6, <1>10, <2>1
  <2>3. (Gone + u) - (n + u) = e
    <3>1. Gone = e + n
      BY <1>5
    <3> QED BY <1>7, <3>1
  <2> QED BY <2>2, <2>3
<1>13. RecordInv'
  <2>1. left' = klen' - Len(rec'.k) /\ left' \in Nat
    <3>1. left = klen - n /\ left \in Nat /\ u <= left /\ left' = left - u /\ klen' = klen
      BY <1>5, <1>6
    <3>2. left' = klen - (n + u) /\ left' \in Nat
      BY <1>4, <1>7, <3>1
    <3> QED BY <1>10, <3>1, <3>2
  <2>2. rec'.k = SubSeq(out', Colon' + 1, Colon' + Len(rec'.k)) /\ Colon' \in 0 .. Len(out')
    <3>1. e + n + u = e + (n + u)
      BY <1>7
    <3> QED BY <1>1, <1>9, <1>10, <1>12, <3>1
  <2>3. at' = "arrow" => Len(rec'.k) = klen'
    <3>1. at' = "arrow" => left = u
      BY <1>6
    <3>2. left = u => n + u = klen
      BY <1>4, <1>5, <1>7
    <3> QED BY <1>6, <1>10, <3>1, <3>2
  <2>4. at' = "more key" => Avail' = 0 /\ left' # 0
    <3>1. at' = "more key" => left # u
      BY <1>6
    <3>2. left # u => Avail' = 0 /\ left' # 0
      <4>1. left \in Nat /\ left' = left - u /\ (left # u => Avail' = 0)
        BY <1>5, <1>6
      <4> QED BY <1>7, <4>1
    <3> QED BY <3>1, <3>2
  <2>5. klen' \in Nat /\ dlen' \in Nat
    BY <1>4, <1>6
  <2> QED BY <1>8, <1>11, <2>1, <2>2, <2>3, <2>4, <2>5 DEF RecordInv, Inside
<1>14. at' \in Inside
  BY <1>11 DEF Inside
<1>15. Colon' = Colon /\ Stream' /\ UNCHANGED <<klen, dlen, recs>>
  BY <1>5, <1>6, <1>12
<1> QED BY <1>2, <1>13, <1>14, <1>15, RecordGoesOn

\* When the text is over within a record, it is not of the format.
LEMMA CutShort ==
    ASSUME FmtInv, at \in Inside, NEW e \in Nat, e = Colon, klen \in Nat, dlen \in Nat,
           ~(e + klen + dlen + 3 <= Len(out))
    PROVE  \A l : Ahead(l) = {}
<1>1. Reading
  BY DEF Reading, Inside
<1>2. out \in Seq(Byte)
  BY <1>1, FmtFacts
<1>3. Bodies(out, e, klen, dlen) = {}
  BY <1>2, NoBody
<1> QED BY <1>3, Within, ContinuedIs

LEMMA FmtMoreKey == ASSUME FmtInv, Same, MoreKey PROVE FmtInv'
<1>1. at = "more key" /\ More("more key", "key") /\ out' = out
  BY DEF MoreKey, More, Same
<1>2. Reading /\ at \in Inside /\ InKey /\ "more key" \in Inside
  BY <1>1 DEF Reading, Inside, InKey
<1>3. klen \in Nat /\ dlen \in Nat
  BY <1>2, KeyFacts
<1>4. PICK e \in 0 .. Len(out), n \in Nat :
         e = Colon /\ n = Len(rec.k) /\ e + n = Gone /\ left = klen - n /\ left \in Nat /\ Avail = 0 /\ left # 0
  BY <1>1, <1>2, KeyFacts
<1>5. e \in Nat /\ Len(out) \in Nat /\ Gone \in Nat
  <2>1. Len(out) \in Nat /\ Gone \in Nat
    BY <1>2, FmtFacts
  <2> QED BY <2>1
<1>6. ASSUME Gone + Avail = Len(out) PROVE Ahead(PreMax) = {}
  <2>1. n < klen
    BY <1>3, <1>4
  <2>2. e + n = Len(out)
    <3>1. Gone + Avail = Gone
      BY <1>4, <1>5
    <3> QED BY <1>4, <1>6, <3>1
  <2>3. ~(e + klen + dlen + 3 <= Len(out))
    BY <1>3, <1>5, <2>1, <2>2
  <2> QED BY <1>2, <1>3, <1>4, <1>5, <2>3, CutShort
<1>7. Avail < 2
  BY <1>4
<1>8. CASE at' = "key" /\ Stream' /\ Gone' = Gone /\ UNCHANGED <<mm, need, klen, dlen, rec, left, recs>>
  <2>1. at' \in Inside
    BY <1>8 DEF Inside
  <2>2. Colon' = Colon
    BY <1>1, <1>8 DEF Colon
  <2>3. RecordInv'
    BY <1>1, <1>8, <2>2 DEF FmtInv, RecordInv, Inside
  <2> QED BY <1>2, <1>8, <2>1, <2>2, <2>3, RecordGoesOn
<1> QED BY <1>1, <1>2, <1>6, <1>7, <1>8, MoreIs

LEMMA FmtMoreArrow == ASSUME FmtInv, Same, MoreXchars(2, "arrow") PROVE FmtInv'
<1>1. at = "arrow" /\ More("arrow", "arrow") /\ out' = out
  BY DEF MoreXchars, More, Same
<1>2. Reading /\ at \in Inside /\ InKey /\ "arrow" \in Inside
  BY <1>1 DEF Reading, Inside, InKey
<1>3. klen \in Nat /\ dlen \in Nat
  BY <1>2, KeyFacts
<1>4. PICK e \in 0 .. Len(out), n \in Nat : e = Colon /\ n = Len(rec.k) /\ e + n = Gone /\ n = klen
  BY <1>1, <1>2, KeyFacts
<1>5. e \in Nat /\ Len(out) \in Nat /\ Avail \in Nat /\ Gone \in Nat
  <2>1. Len(out) \in Nat /\ Avail \in Nat /\ Gone \in Nat
    BY <1>2, FmtFacts
  <2> QED BY <2>1
<1>7. Avail < 2
  BY DEF MoreXchars
<1>6. ASSUME Gone + Avail = Len(out) PROVE Ahead(PreMax) = {}
  <2>1. e + klen + Avail = Len(out)
    BY <1>4, <1>6
  <2>2. ~(e + klen + dlen + 3 <= Len(out))
    BY <1>3, <1>5, <1>7, <2>1
  <2> QED BY <1>2, <1>3, <1>4, <1>5, <2>2, CutShort
<1>8. CASE at' = "arrow" /\ Stream' /\ Gone' = Gone /\ UNCHANGED <<mm, need, klen, dlen, rec, left, recs>>
  <2>1. at' \in Inside
    BY <1>8 DEF Inside
  <2>2. Colon' = Colon
    BY <1>1, <1>8 DEF Colon
  <2>3. RecordInv'
    BY <1>1, <1>8, <2>2 DEF FmtInv, RecordInv, Inside
  <2> QED BY <1>2, <1>8, <2>1, <2>2, <2>3, RecordGoesOn
<1> QED BY <1>1, <1>2, <1>6, <1>7, <1>8, MoreIs

LEMMA FmtMoreData == ASSUME FmtInv, Same, MoreData PROVE FmtInv'
<1>1. at = "more data" /\ More("more data", "data") /\ out' = out
  BY DEF MoreData, More, Same
<1>2. Reading /\ at \in Inside /\ InData /\ "more data" \in Inside
  BY <1>1 DEF Reading, Inside, InData
<1>3. klen \in Nat /\ dlen \in Nat
  BY <1>2, DataFacts
<1>4. PICK e \in 0 .. Len(out), n \in Nat :
         /\ e = Colon /\ n = Len(rec.d) /\ e + klen + 2 + n = Gone
         /\ left = dlen - n /\ left \in Nat /\ Avail = 0 /\ left # 0
  BY <1>1, <1>2, DataFacts
<1>5. e \in Nat /\ Len(out) \in Nat /\ Gone \in Nat
  <2>1. Len(out) \in Nat /\ Gone \in Nat
    BY <1>2, FmtFacts
  <2> QED BY <2>1
<1>6. ASSUME Gone + Avail = Len(out) PROVE Ahead(PreMax) = {}
  <2>1. n < dlen
    BY <1>3, <1>4
  <2>2. e + klen + 2 + n = Len(out)
    <3>1. Gone + Avail = Gone
      BY <1>4, <1>5
    <3> QED BY <1>4, <1>6, <3>1
  <2>3. ~(e + klen + dlen + 3 <= Len(out))
    BY <1>3, <1>5, <2>1, <2>2
  <2> QED BY <1>2, <1>3, <1>4, <1>5, <2>3, CutShort
<1>7. Avail < 2
  BY <1>4
<1>8. CASE at' = "data" /\ Stream' /\ Gone' = Gone /\ UNCHANGED <<mm, need, klen, dlen, rec, left, recs>>
  <2>1. at' \in Inside
    BY <1>8 DEF Inside
  <2>2. Colon' = Colon
    BY <1>1, <1>8 DEF Colon
  <2>3. RecordInv'
    BY <1>1, <1>8, <2>2 DEF FmtInv, RecordInv, Inside
  <2> QED BY <1>2, <1>8, <2>1, <2>2, <2>3, RecordGoesOn
<1> QED BY <1>1, <1>2, <1>6, <1>7, <1>8, MoreIs

LEMMA FmtMoreNewline == ASSUME FmtInv, Same, MoreXchars(1, "newline") PROVE FmtInv'
<1>1. at = "newline" /\ More("newline", "newline") /\ out' = out
  BY DEF MoreXchars, More, Same
<1>2. Reading /\ at \in Inside /\ InData /\ "newline" \in Inside
  BY <1>1 DEF Reading, Inside, InData
<1>3. klen \in Nat /\ dlen \in Nat
  BY <1>2, DataFacts
<1>4. PICK e \in 0 .. Len(out), n \in Nat :
         e = Colon /\ e + klen + 2 + n = Gone /\ left = dlen - n /\ left = 0
  BY <1>1, <1>2, DataFacts
<1>5. e \in Nat /\ Len(out) \in Nat /\ Avail \in Nat /\ Gone \in Nat
  <2>1. Len(out) \in Nat /\ Avail \in Nat /\ Gone \in Nat
    BY <1>2, FmtFacts
  <2> QED BY <2>1
<1>7. Avail < 1
  BY DEF MoreXchars
<1>6. ASSUME Gone + Avail = Len(out) PROVE Ahead(PreMax) = {}
  <2>0. n = dlen /\ Avail = 0
    BY <1>3, <1>4, <1>5, <1>7
  <2>1. e + klen + 2 + dlen = Len(out)
    <3>1. Gone + Avail = Gone
      BY <1>5, <2>0
    <3>2. e + klen + 2 + n = Len(out)
      BY <1>4, <1>6, <3>1
    <3> QED BY <2>0, <3>2
  <2>2. ~(e + klen + dlen + 3 <= Len(out))
    BY <1>3, <1>5, <2>1
  <2> QED BY <1>2, <1>3, <1>4, <1>5, <2>2, CutShort
<1>8. CASE at' = "newline" /\ Stream' /\ Gone' = Gone /\ UNCHANGED <<mm, need, klen, dlen, rec, left, recs>>
  <2>1. at' \in Inside
    BY <1>8 DEF Inside
  <2>2. Colon' = Colon
    BY <1>1, <1>8 DEF Colon
  <2>3. RecordInv'
    BY <1>1, <1>8, <2>2 DEF FmtInv, RecordInv, Inside
  <2> QED BY <1>2, <1>8, <2>1, <2>2, <2>3, RecordGoesOn
<1>9. Avail < 2
  BY <1>5, <1>7
<1> QED BY <1>1, <1>2, <1>6, <1>8, <1>9, MoreIs

LEMMA FmtAddArrow == ASSUME FmtInv, Same, AddArrow PROVE FmtInv'
<1> DEFINE fits == ByteAt(pos) = "-" /\ ByteAt(pos + 1) = ">"
<1>1. /\ at = "arrow" /\ UNCHANGED <<input, mm, buf, klen, dlen, rec, recs>> /\ out' = out
      /\ \/ fits /\ at' = "data" /\ left' = dlen /\ pos' = pos + 2
         \/ ~fits /\ Return("format")
  BY DEF AddArrow, GoOn, Same
<1>a. Avail >= 2
  BY DEF AddArrow
<1>2. Reading /\ at \in Inside /\ InKey
  BY <1>1 DEF Reading, Inside, InKey
<1>3. klen \in Nat /\ dlen \in Nat /\ rec \in Record /\ rec.d = <<>>
  BY <1>2, KeyFacts
<1>4. PICK e \in 0 .. Len(out), n \in Nat :
         e = Colon /\ n = Len(rec.k) /\ e + n = Gone /\ n = klen /\ rec.k = SubSeq(out, e + 1, e + n)
  BY <1>1, <1>2, KeyFacts
<1>5. /\ out \in Seq(Byte) /\ Stream /\ Avail \in Nat /\ Gone \in Nat /\ Len(out) \in Nat
      /\ Gone + Avail <= Len(out) /\ pos \in Nat
  BY <1>2, FmtFacts
<1>6. e \in Nat /\ Gone = e + klen
  BY <1>4, <1>5
<1>7. fits <=> out[e + klen + 1] = "-" /\ out[e + klen + 2] = ">"
  <2>1. /\ 0 \in 0 .. Avail - 1 /\ 1 \in 0 .. Avail - 1 /\ pos + 0 = pos
        /\ Gone + 0 + 1 = Gone + 1 /\ Gone + 1 + 1 = Gone + 2
    BY <1>5, <1>a
  <2>2. ByteAt(pos + 0) = out[Gone + 0 + 1] /\ ByteAt(pos + 1) = out[Gone + 1 + 1]
    BY <1>5, <2>1, BufferIs
  <2>3. ByteAt(pos) = out[Gone + 1] /\ ByteAt(pos + 1) = out[Gone + 2]
    BY <2>1, <2>2
  <2> QED BY <1>6, <2>3
<1> HIDE DEF fits
<1>8. CASE fits /\ at' = "data" /\ left' = dlen /\ pos' = pos + 2
  <2>1. at' \in Inside
    BY <1>8 DEF Inside
  <2>2. Stream' /\ Gone' = Gone + 2
    <3>1. 2 \in 0 .. Avail
      BY <1>5, <1>a
    <3> QED BY <1>1, <1>5, <1>8, <3>1, TakeKeeps
  <2>3. Colon' = e
    <3>1. Colon' = Gone' - Len(rec'.d) - 2 - klen'
      BY <1>8 DEF Colon
    <3>2. Len(rec'.d) = 0 /\ klen' = klen
      BY <1>1, <1>3
    <3>3. Colon' = (e + klen + 2) - 0 - 2 - klen
      BY <1>6, <2>2, <3>1, <3>2
    <3> QED BY <1>3, <1>6, <3>3
  <2>4. RecordInv'
    <3>1. rec'.d = SubSeq(out', Colon' + klen' + 3, Gone')
      <4>1. SubSeq(out, e + klen + 3, e + klen + 2) = <<>>
        <5>1. e + klen + 3 \in Int /\ e + klen + 2 \in Int /\ e + klen + 2 < e + klen + 3
          BY <1>3, <1>6
        <5> QED BY <5>1, SubSeqEmpty
      <4> QED BY <1>1, <1>3, <1>6, <2>2, <2>3, <4>1
    <3>2. left' = dlen' - Len(rec'.d) /\ left' \in Nat
      <4>1. Len(rec'.d) = 0 /\ left' = dlen /\ dlen' = dlen
        BY <1>1, <1>3, <1>8
      <4> QED BY <1>3, <4>1
    <3>3. /\ rec' \in Record /\ rec'.k = SubSeq(out', Colon' + 1, Colon' + Len(rec'.k))
          /\ Len(rec'.k) = klen' /\ klen' \in Nat /\ dlen' \in Nat /\ Colon' \in 0 .. Len(out')
      BY <1>1, <1>3, <1>4, <2>3
    <3>4. out'[Colon' + klen' + 1] = "-" /\ out'[Colon' + klen' + 2] = ">"
      BY <1>1, <1>7, <1>8, <2>3
    <3> QED BY <1>8, <3>1, <3>2, <3>3, <3>4 DEF RecordInv, Inside
  <2> QED BY <1>1, <1>2, <1>4, <2>1, <2>2, <2>3, <2>4, RecordGoesOn
<1>9. CASE ~fits /\ Return("format")
  <2>1. Bodies(out, e, klen, dlen) = {}
    BY <1>3, <1>5, <1>6, <1>7, <1>9, NoBody
  <2>2. Ahead(PreMax) = {}
    BY <1>2, <1>4, <2>1, Within, ContinuedIs
  <2> QED BY <1>2, <1>9, <2>2, EndsFormat
<1> QED BY <1>1, <1>8, <1>9

LEMMA FmtTakeData == ASSUME FmtInv, Same, TakeData PROVE FmtInv'
<1>1. at = "data" /\ Take("d", "more data", "newline") /\ out' = out
  BY DEF TakeData, Same
<1>2. Reading /\ at \in Inside /\ InData
  BY <1>1 DEF Reading, Inside, InData
<1>3. out \in Seq(Byte) /\ Gone \in Nat /\ Avail \in Nat /\ Len(out) \in Nat /\ Gone + Avail <= Len(out)
  BY <1>2, FmtFacts
<1>4. klen \in Nat /\ dlen \in Nat /\ rec \in Record
  BY <1>2, DataFacts
<1>5. PICK e \in 0 .. Len(out), n \in Nat :
         /\ e = Colon /\ n = Len(rec.d) /\ e + klen + 2 + n = Gone
         /\ rec.k = SubSeq(out, e + 1, e + klen) /\ Len(rec.k) = klen
         /\ out[e + klen + 1] = "-" /\ out[e + klen + 2] = ">"
         /\ rec.d = SubSeq(out, e + klen + 3, Gone)
         /\ left = dlen - n /\ left \in Nat
  BY <1>1, <1>2, DataFacts
<1>b. PICK u \in 0 .. Avail : Took("d", "more data", "newline", u)
  <2>1. left \in Nat
    BY <1>5
  <2> QED BY <1>1, <1>2, <2>1, TakeIs
<1>6. /\ u <= left /\ left' = left - u /\ (left # u => Avail' = 0)
      /\ rec' = [rec EXCEPT !["d"] = @ \o SubSeq(out, Gone + 1, Gone + u)]
      /\ at' = (IF left = u THEN "newline" ELSE "more data")
      /\ Stream' /\ Gone' = Gone + u
      /\ UNCHANGED <<input, mm, buf, need, klen, dlen, recs>>
  BY <1>b DEF Took
<1>7. e \in Nat /\ u \in Nat /\ u <= Avail
  BY <1>3
<1>a. Gone = e + klen + 2 + n /\ Gone + u <= Len(out) /\ Gone + u = e + klen + 2 + n + u
  <2>1. Gone + u <= Len(out)
    BY <1>3, <1>7
  <2>2. Gone = e + klen + 2 + n
    BY <1>5
  <2> QED BY <1>4, <1>7, <2>1, <2>2
<1>8. /\ rec' \in Record /\ rec'.k = rec.k
      /\ rec'.d = rec.d \o SubSeq(out, Gone + 1, Gone + u) /\ Len(rec'.d) = n + u
  <2>1. Gone + 1 \in Nat \ {0} /\ Gone + u \in Nat /\ Gone + u <= Len(out) /\ (Gone + u) - (Gone + 1) + 1 = u
    <3>1. Gone + u <= Len(out)
      BY <1>a
    <3> QED BY <1>3, <1>7, <3>1
  <2>2. SubSeq(out, Gone + 1, Gone + u) \in Seq(Byte)
        /\ Len(SubSeq(out, Gone + 1, Gone + u)) = IF Gone + 1 <= Gone + u THEN (Gone + u) - (Gone + 1) + 1 ELSE 0
    BY <1>3, <2>1, Part
  <2>a. Len(SubSeq(out, Gone + 1, Gone + u)) = u
    BY <1>3, <1>7, <2>1, <2>2
  <2>3. rec.k \in Seq(Byte) /\ rec.d \in Seq(Byte) /\ rec = [k |-> rec.k, d |-> rec.d]
    BY <1>4 DEF Record
  <2>4. rec' = [k |-> rec.k, d |-> rec.d \o SubSeq(out, Gone + 1, Gone + u)]
    BY <1>4, <1>6 DEF Record
  <2>5. /\ rec.d \o SubSeq(out, Gone + 1, Gone + u) \in Seq(Byte)
        /\ Len(rec.d \o SubSeq(out, Gone + 1, Gone + u)) = Len(rec.d) + u
    BY <2>2, <2>a, <2>3, ConcatProperties
  <2>6. Len(rec.d) = n
    BY <1>5
  <2> QED BY <2>3, <2>4, <2>5, <2>6 DEF Record
<1>9. rec'.d = SubSeq(out, e + klen + 3, Gone + u)
  <2>1. e + klen + 3 \in 1 .. Len(out) + 1 /\ Gone \in (e + klen + 3) - 1 .. Len(out) /\ Gone + u \in Gone .. Len(out)
    BY <1>3, <1>4, <1>7, <1>a
  <2>2. SubSeq(out, e + klen + 3, Gone) \o SubSeq(out, Gone + 1, Gone + u) = SubSeq(out, e + klen + 3, Gone + u)
    BY <1>3, <2>1, ConcatAdjacentSubSeq
  <2> QED BY <1>5, <1>8, <2>2
<1>11. at' \in {"newline", "more data"}
  BY <1>6
<1>12. Colon' = e
  <2>1. Colon' = Gone' - Len(rec'.d) - 2 - klen'
    BY <1>11 DEF Colon
  <2>2. Colon' = (e + klen + 2 + n + u) - (n + u) - 2 - klen
    BY <1>6, <1>8, <1>a, <2>1
  <2> QED BY <1>4, <1>7, <2>2
<1>13. RecordInv'
  <2>1. left' = dlen' - Len(rec'.d) /\ left' \in Nat
    <3>1. left = dlen - n /\ left \in Nat /\ u <= left /\ left' = left - u /\ dlen' = dlen
      BY <1>5, <1>6
    <3>2. left' = dlen - (n + u) /\ left' \in Nat
      BY <1>4, <1>7, <3>1
    <3> QED BY <1>8, <3>1, <3>2
  <2>2. /\ rec'.k = SubSeq(out', Colon' + 1, Colon' + Len(rec'.k)) /\ Colon' \in 0 .. Len(out')
        /\ Len(rec'.k) = klen' /\ klen' \in Nat /\ dlen' \in Nat
        /\ out'[Colon' + klen' + 1] = "-" /\ out'[Colon' + klen' + 2] = ">"
        /\ rec'.d = SubSeq(out', Colon' + klen' + 3, Gone')
    BY <1>1, <1>4, <1>5, <1>6, <1>8, <1>9, <1>12
  <2>3. at' = "newline" => left' = 0
    <3>1. at' = "newline" => left = u
      BY <1>6
    <3>2. left = u => left' = 0
      <4>1. left \in Nat /\ left' = left - u
        BY <1>5, <1>6
      <4> QED BY <4>1
    <3> QED BY <3>1, <3>2
  <2>4. at' = "more data" => Avail' = 0 /\ left' # 0
    <3>1. at' = "more data" => left # u
      BY <1>6
    <3>2. left # u => Avail' = 0 /\ left' # 0
      <4>1. left \in Nat /\ left' = left - u /\ (left # u => Avail' = 0)
        BY <1>5, <1>6
      <4> QED BY <1>7, <4>1
    <3> QED BY <3>1, <3>2
  <2> QED BY <1>8, <1>11, <2>1, <2>2, <2>3, <2>4 DEF RecordInv, Inside
<1>14. at' \in Inside
  BY <1>11 DEF Inside
<1>15. Colon' = Colon /\ Stream' /\ UNCHANGED <<klen, dlen, recs>>
  BY <1>5, <1>6, <1>12
<1> QED BY <1>2, <1>13, <1>14, <1>15, RecordGoesOn

LEMMA FmtAddEnd == ASSUME FmtInv, Same, AddEnd PROVE FmtInv'
<1>1. /\ at = "newline" /\ UNCHANGED <<input, mm, buf, klen, dlen>> /\ out' = out
      /\ \/ ByteAt(pos) = "\n" /\ at' = "preamble" /\ recs' = Append(recs, rec) /\ pos' = pos + 1
         \/ ByteAt(pos) # "\n" /\ Return("format")
  BY DEF AddEnd, GoOn, Same
<1>a. Avail >= 1
  BY DEF AddEnd
<1>2. Reading /\ at \in Inside /\ InData
  BY <1>1 DEF Reading, Inside, InData
<1>3. klen \in Nat /\ dlen \in Nat /\ rec \in Record
  BY <1>2, DataFacts
<1>4. PICK e \in 0 .. Len(out), n \in Nat :
         /\ e = Colon /\ n = Len(rec.d) /\ e + klen + 2 + n = Gone
         /\ rec.k = SubSeq(out, e + 1, e + klen)
         /\ out[e + klen + 1] = "-" /\ out[e + klen + 2] = ">"
         /\ rec.d = SubSeq(out, e + klen + 3, Gone)
         /\ left = dlen - n /\ left = 0
  BY <1>1, <1>2, DataFacts
<1>5. /\ out \in Seq(Byte) /\ Stream /\ Avail \in Nat /\ Gone \in Nat /\ Len(out) \in Nat
      /\ Gone + Avail <= Len(out) /\ pos \in Nat
  BY <1>2, FmtFacts
<1>6. e \in Nat /\ Gone = e + klen + dlen + 2 /\ Gone + 1 = e + klen + dlen + 3 /\ Gone + 1 <= Len(out)
  <2>1. n = dlen
    <3>1. dlen - n = 0
      BY <1>4
    <3>2. dlen \in Nat
      BY <1>3
    <3> QED BY <3>1, <3>2
  <2>2. e \in Nat
    BY <1>5
  <2>3. Gone = e + klen + 2 + dlen
    BY <1>4, <2>1
  <2>4. Gone + 1 <= Len(out)
    BY <1>5, <1>a
  <2> QED BY <1>3, <2>2, <2>3, <2>4
<1>7. ByteAt(pos) = out[e + klen + dlen + 3]
  <2>1. 0 \in 0 .. Avail - 1 /\ pos + 0 = pos /\ Gone + 0 + 1 = Gone + 1
    BY <1>5, <1>a
  <2>2. ByteAt(pos + 0) = out[Gone + 0 + 1]
    BY <1>5, <2>1, BufferIs
  <2> QED BY <1>6, <2>1, <2>2
<1>8. CASE ByteAt(pos) = "\n" /\ at' = "preamble" /\ recs' = Append(recs, rec) /\ pos' = pos + 1
  <2>1. Stream' /\ Gone' = e + klen + dlen + 3
    <3>1. 1 \in 0 .. Avail
      BY <1>5, <1>a
    <3>2. Stream' /\ Gone' = Gone + 1
      BY <1>1, <1>5, <1>8, <3>1, TakeKeeps
    <3> QED BY <1>6, <3>2
  <2>2. rec.d = SubSeq(out, e + klen + 3, e + klen + dlen + 2)
    BY <1>4, <1>6
  <2>3. Gone' <= Len(out)
    BY <1>6, <2>1
  <2> QED BY <1>2, <1>3, <1>4, <1>6, <1>7, <1>8, <2>1, <2>2, <2>3, RecordRead
<1>9. CASE ByteAt(pos) # "\n" /\ Return("format")
  <2>1. Bodies(out, e, klen, dlen) = {}
    BY <1>3, <1>5, <1>6, <1>7, <1>9, NoBody
  <2>2. Ahead(PreMax) = {}
    BY <1>2, <1>4, <2>1, Within, ContinuedIs
  <2> QED BY <1>2, <1>9, <2>2, EndsFormat
<1> QED BY <1>1, <1>8, <1>9

LEMMA FmtFinishes == ASSUME FmtInv, Same, FmtFinish PROVE FmtInv'
<1>1. at = "finish" /\ UNCHANGED recs /\ (Return("ok") \/ ReturnHurt("write")) /\ out' = out
  BY DEF FmtFinish, Same
<1>2. Reading
  BY <1>1 DEF Reading
<1>3. CASE ReturnHurt("write")
  BY <1>3, EndsHurt
<1>4. CASE Return("ok")
  <2>1. at' = "end" /\ rv' = "ok"
    BY <1>4 DEF Return
  <2>2. Ahead(Len(out)) = {<<>>}
    BY <1>1 DEF Ahead, Inside
  <2>3. Meaning(out, Len(out)) = {recs \o s : s \in {<<>>}}
    BY <1>2, <2>2 DEF FmtInv, MeaningInv
  <2>4. Meaning(out, Len(out)) = {recs}
    BY <1>2, <2>3, FmtFacts, NoRecord
  <2>5. FmtExact'
    BY <1>1, <2>1, <2>4 DEF FmtExact
  <2> QED BY <2>1, <2>5, Ends
<1> QED BY <1>1, <1>3, <1>4

LEMMA FmtSteps == ASSUME FmtInv, Same, FmtNext PROVE FmtInv'
BY FmtFinishes, FmtPreamble, FmtPreambleFill, FmtParse, FmtAddBuffered, FmtAddBegin, FmtTakeKey, FmtMoreKey,
   FmtMoreArrow, FmtAddArrow, FmtTakeData, FmtMoreData, FmtMoreNewline, FmtAddEnd DEF FmtNext

\* The start of it
LEMMA FmtBegins ==
    ASSUME out' \in Seq(Byte), NEW m \in BOOLEAN, FmtStart(out', m), cmd' \in {"make", "remake"}
    PROVE  FmtInv'
<1>1. /\ mm' = m /\ buf' = (IF m THEN out' ELSE <<>>) /\ input' = (IF m THEN <<>> ELSE out')
      /\ pos' = 0 /\ recs' = <<>>
      /\ \/ at' = "preamble"
         \/ at' = "end" /\ rv' = "write" /\ hurt'
  BY DEF FmtStart, GoOn, ReturnHurt
<1> DEFINE L == Len(out')
<1>2. L \in Nat
  OBVIOUS
<1>3. Len(buf') = (IF m THEN L ELSE 0) /\ Len(input') = (IF m THEN 0 ELSE L)
  BY <1>1
<1> HIDE DEF L
<1>4. Avail' = (IF m THEN L ELSE 0)
  <2>1. Avail' = Len(buf') - pos'
    BY DEF Avail
  <2> QED BY <1>1, <1>2, <1>3, <2>1
<1>5. Gone' = 0
  <2>1. Gone' = L - Len(input') - Avail'
    BY DEF Gone, L
  <2> QED BY <1>2, <1>3, <1>4, <2>1
<1>6. Stream'
  <2>1. buf' \in Seq(Byte) /\ input' \in Seq(Byte)
    BY <1>1
  <2>2. pos' \in 0 .. Len(buf') /\ Gone' \in 0 .. Len(out')
    BY <1>1, <1>2, <1>3, <1>5 DEF L
  <2>3. IF mm' THEN input' = <<>> ELSE Len(buf') <= BufSz
    BY <1>1, <1>3, FmtAssumption
  <2>4. ASSUME NEW i \in 1 .. Avail' PROVE buf'[pos' + i] = out'[Gone' + i]
    <3>1. m /\ i \in Nat
      BY <1>2, <1>4
    <3> QED BY <1>1, <1>5, <3>1
  <2>5. ASSUME NEW i \in 1 .. Len(input') PROVE input'[i] = out'[Gone' + Avail' + i]
    <3>1. ~m /\ i \in Nat
      BY <1>2, <1>3
    <3>2. Gone' + Avail' + i = i
      BY <1>4, <1>5, <3>1
    <3> QED BY <1>1, <3>1, <3>2
  <2> QED BY <2>1, <2>2, <2>3, <2>4, <2>5 DEF Stream
<1>7. CASE at' = "preamble"
  <2>1. StreamInv'
    <3>1. recs' \in Seq(Record)
      BY <1>1
    <3> QED BY <1>6, <3>1 DEF StreamInv
  <2>2. PreambleInv' /\ RecordInv' /\ FmtExact'
    BY <1>7 DEF PreambleInv, RecordInv, Inside, FmtExact
  <2>3. MeaningInv'
    <3>1. /\ Ahead(Len(out))' = Meanings(out', Len(out'))[1]
          /\ Ahead(PreMax)' = Meanings(out', PreMax)[1]
      <4>1. Gone' + 1 = 1
        BY <1>5
      <4> QED BY <1>7, <4>1 DEF Ahead, Inside
    <3>2. Meanings(out', Len(out'))[1] \subseteq Seq(Record)
      <4>1. 1 \in 1 .. Len(out') + 1
        BY <1>2 DEF L
      <4> QED BY <4>1, MeaningsSeqs
    <3>3. {<<>> \o s : s \in Meanings(out', Len(out'))[1]} = Meanings(out', Len(out'))[1]
      <4> DEFINE S == Meanings(out', Len(out'))[1]
      <4> HIDE DEF S
      <4>1. S \in SUBSET Seq(Record)
        BY <3>2 DEF S
      <4>2. {<<>> \o s : s \in S} = S
        BY <4>1, NoRecord
      <4> QED BY <4>2 DEF S
    <3> QED BY <1>1, <3>1, <3>3 DEF MeaningInv, Meaning
  <2> QED BY <2>1, <2>2, <2>3 DEF FmtInv
<1>8. CASE at' = "end" /\ rv' = "write" /\ hurt'
  BY <1>8 DEF FmtInv, StreamInv, PreambleInv, RecordInv, MeaningInv, FmtExact, Reading, Inside
<1> QED BY <1>1, <1>7, <1>8

LEMMA FmtFails == ASSUME Source, MakeFileFails, out' \in Seq(Byte) PROVE FmtInv'
<1>1. at' = "end" /\ rv' = "read" /\ (hurt' \/ out' = <<>>) /\ cmd' \in {"make", "remake"}
  BY DEF MakeFileFails, Source, Return, ReturnHurt
<1>2. ASSUME out' = <<>> PROVE Meaning(out', PreMax) = {}
  <2> DEFINE t == out'
  <2>1. t \in Seq(Byte) /\ Len(t) = 0 /\ 1 \in 1 .. Len(t) + 1 /\ 1 > Len(t)
    BY <1>2
  <2> HIDE DEF t
  <2>2. Meanings(t, PreMax)[1] = {}
    BY <2>1, MeaningsAre
  <2> QED BY <2>2 DEF Meaning, t
<1>3. FmtExact'
  BY <1>1, <1>2 DEF FmtExact
<1> QED BY <1>1, <1>3 DEF FmtInv, StreamInv, PreambleInv, RecordInv, MeaningInv, Reading, Inside

LEMMA FmtIdle == ASSUME at = "none", at' = "none", out' \in Seq(Byte) PROVE FmtInv'
BY DEF FmtInv, StreamInv, PreambleInv, RecordInv, MeaningInv, FmtExact, Reading, Inside

LEMMA FmtOver == ASSUME FmtInv, at = "end", UNCHANGED <<at, rv, hurt, recs, out>>, cmd' = "over" PROVE FmtInv'
<1>1. FmtExact'
  BY DEF FmtInv, FmtExact
<1>2. out' \in Seq(Byte)
  BY DEF FmtInv
<1> QED BY <1>1, <1>2 DEF FmtInv, StreamInv, PreambleInv, RecordInv, MeaningInv, Reading, Inside

LEMMA FmtStays == ASSUME FmtInv, UNCHANGED ctlVars PROVE FmtInv'
<1>1. UNCHANGED <<input, mm, buf, pos, need, klen, dlen, rec, left, recs, at, rv, hurt, out, cmd>>
  BY DEF ctlVars, fmtVars
<1>2. /\ Avail' = Avail /\ Gone' = Gone /\ ByteAt(pos)' = ByteAt(pos)
  BY <1>1 DEF Avail, Gone, ByteAt
<1>3. Colon' = Colon /\ (Reading' <=> Reading)
  BY <1>1, <1>2 DEF Colon, Reading
<1>4. Stream => Stream'
  BY <1>1, <1>2 DEF Stream
<1>5. StreamInv'
  BY <1>1, <1>3, <1>4 DEF FmtInv, StreamInv
<1>6. PreambleInv'
  BY <1>1, <1>2 DEF FmtInv, PreambleInv
<1>7. RecordInv'
  BY <1>1, <1>2, <1>3 DEF FmtInv, RecordInv, Inside
<1>8. MeaningInv'
  <2>1. Ahead(Len(out))' = Ahead(Len(out)) /\ Ahead(PreMax)' = Ahead(PreMax)
    BY <1>1, <1>2, <1>3 DEF Ahead, Inside
  <2> QED BY <1>1, <1>3, <2>1 DEF FmtInv, MeaningInv
<1>9. FmtExact'
  BY <1>1 DEF FmtInv, FmtExact
<1> QED BY <1>1, <1>5, <1>6, <1>7, <1>8, <1>9 DEF FmtInv

LEMMA FmtInit == ASSUME CtlInit PROVE FmtInv
<1>1. at = "none" /\ out = <<>>
  BY DEF CtlInit
<1>2. out \in Seq(Byte)
  BY <1>1
<1> QED BY <1>1, <1>2 DEF FmtInv, StreamInv, PreambleInv, RecordInv, MeaningInv, FmtExact, Reading, Inside

-----------------------------------------------------------------------------
(* uint32_to_ascii_base10: the digits are those of the number.             *)

AsciiOf(f, m) == IF m < 10 THEN <<Digits[m + 1]>> ELSE Append(f[m \div 10], Digits[(m % 10) + 1])

LEMMA Tens == ASSUME NEW m \in Nat
              PROVE  /\ m % 10 \in 0 .. 9 /\ m = 10 * (m \div 10) + (m % 10) /\ m \div 10 \in Nat
                     /\ m >= 10 => m \div 10 < m
<1>1. m % 10 \in 0 .. 9
  OBVIOUS
<1>2. m = 10 * (m \div 10) + (m % 10)
  OBVIOUS
<1>3. m \div 10 \in Int
  OBVIOUS
<1>4. PICK q \in Int, c \in Int : q = m \div 10 /\ c = m % 10
  BY <1>1, <1>3
<1>5. c \in 0 .. 9 /\ m = 10 * q + c
  BY <1>1, <1>2, <1>4
<1>6. q \in Nat /\ (m >= 10 => q < m)
  BY <1>5
<1> QED BY <1>1, <1>2, <1>4, <1>6

LEMMA AsciiSteps ==
    ASSUME NEW n \in Nat
    PROVE  \E D : (\A m \in 0 .. n : D[m] = AsciiOf(D, m)) /\ ascii_base10(n) = D[n]
<1> DEFINE Solves(f, b) == f = [m \in 0 .. b |-> AsciiOf(f, m)]
           T == {b \in Nat : ~ \E f : Solves(f, b)}
           D == CHOOSE f : Solves(f, n)
<1>1. ascii_base10(n) = D[n]
  BY DEF ascii_base10, AsciiOf
<1>2. \A b \in Nat : \E f : Solves(f, b)
  <2>1. SUFFICES ASSUME T # {} PROVE FALSE
    <3> HIDE DEF Solves
    <3> QED OBVIOUS
  <2>2. PICK b \in T : \A y \in T : b =< y
    <3>1. T \in SUBSET Nat
      <4> HIDE DEF Solves
      <4> QED OBVIOUS
    <3> HIDE DEF T
    <3> QED BY <2>1, <3>1, LeastNat
  <2>3. b \in Nat /\ ~(\E f : Solves(f, b)) /\ \A y \in Nat : (~ \E f : Solves(f, y)) => b =< y
    <3> HIDE DEF Solves
    <3> QED BY <2>2
  <2>4. b # 0
    <3> DEFINE f == [m \in 0 .. 0 |-> AsciiOf(<<>>, m)]
    <3>1. \A m \in 0 .. 0 : AsciiOf(<<>>, m) = AsciiOf(f, m)
      BY DEF AsciiOf
    <3>2. f = [m \in 0 .. 0 |-> AsciiOf(f, m)]
      <4>1. f = [m \in 0 .. 0 |-> AsciiOf(<<>>, m)]
        OBVIOUS
      <4> HIDE DEF f
      <4> QED BY <3>1, <4>1
    <3> HIDE DEF f
    <3>3. \E g : Solves(g, 0)
      BY <3>2
    <3> HIDE DEF Solves
    <3> QED BY <2>3, <3>3
  <2>5. PICK g : Solves(g, b - 1)
    <3>1. b - 1 \in Nat /\ ~ (b =< b - 1)
      BY <2>3, <2>4
    <3> HIDE DEF Solves
    <3> QED BY <2>3, <3>1
  <2> DEFINE f == [m \in 0 .. b |-> AsciiOf(g, m)]
  <2>6. \A m \in 0 .. b - 1 : f[m] = g[m]
    <3>1. \A m \in 0 .. b - 1 : m \in 0 .. b
      BY <2>3
    <3> QED BY <2>5, <3>1
  <2>7. ASSUME NEW m \in 0 .. b PROVE AsciiOf(g, m) = AsciiOf(f, m)
    <3> HIDE DEF f
    <3>0. m \in Nat
      BY <2>3
    <3>1. CASE m < 10
      BY <3>1 DEF AsciiOf
    <3>2. CASE ~(m < 10)
      <4>1. m \div 10 \in 0 .. b - 1
        BY <2>3, <3>0, <3>2, Tens
      <4> QED BY <2>6, <4>1 DEF AsciiOf
    <3> QED BY <3>1, <3>2
  <2>8. f = [m \in 0 .. b |-> AsciiOf(f, m)]
    <3>1. f = [m \in 0 .. b |-> AsciiOf(g, m)]
      OBVIOUS
    <3> HIDE DEF f
    <3> QED BY <2>7, <3>1
  <2>9. \E h : Solves(h, b)
    <3> HIDE DEF f
    <3> QED BY <2>8
  <2> HIDE DEF Solves
  <2> QED BY <2>3, <2>9
<1>3. Solves(D, n)
  <2> HIDE DEF Solves
  <2> QED BY <1>2
<1> HIDE DEF D
<1>4. \A m \in 0 .. n : D[m] = AsciiOf(D, m)
  BY <1>3
<1> QED BY <1>1, <1>4

LEMMA AsciiIs ==
    ASSUME NEW n \in Nat
    PROVE  LET ds == ascii_base10(n) IN
           /\ ds \in Seq(Byte) /\ ds # <<>> /\ (\A i \in 1 .. Len(ds) : IsDigit(ds[i])) /\ Decimal(ds) = n
<1> DEFINE Ok(ds, m) == /\ ds \in Seq(Byte) /\ ds # <<>> /\ (\A i \in 1 .. Len(ds) : IsDigit(ds[i]))
                        /\ Decimal(ds) = m
<1>1. PICK D : (\A m \in 0 .. n : D[m] = AsciiOf(D, m)) /\ ascii_base10(n) = D[n]
  BY AsciiSteps
<1> DEFINE T == {m \in 0 .. n : ~Ok(D[m], m)}
<1>2. T = {}
  <2>1. SUFFICES ASSUME T # {} PROVE FALSE
    <3> HIDE DEF Ok
    <3> QED OBVIOUS
  <2>2. PICK m \in T : \A y \in T : m =< y
    <3>1. T \in SUBSET Nat
      <4> HIDE DEF Ok
      <4> QED OBVIOUS
    <3> HIDE DEF T
    <3> QED BY <2>1, <3>1, LeastNat
  <2>3. m \in 0 .. n /\ m \in Nat /\ ~Ok(D[m], m) /\ \A y \in 0 .. n : ~Ok(D[y], y) => m =< y
    <3> HIDE DEF Ok
    <3> QED BY <2>2
  <2>4. D[m] = AsciiOf(D, m)
    BY <1>1, <2>3
  <2>5. CASE m < 10
    <3> DEFINE c == Digits[m + 1]
    <3>1. m \in 0 .. 9
      BY <2>3, <2>5
    <3>2. IsDigit(c) /\ Value(c) = m
      BY <3>1, ValueOfDigit
    <3>3. c \in Byte
      BY <3>2, DigitValue
    <3>4. D[m] = <<c>>
      BY <2>4, <2>5 DEF AsciiOf
    <3> HIDE DEF c
    <3>5. Append(<<>>, c) = <<c>> /\ <<>> \in Seq(Byte)
      OBVIOUS
    <3>6. Decimal(<<c>>) = m
      <4>1. Decimal(Append(<<>>, c)) = 10 * Decimal(<<>>) + Value(c)
        BY <3>3, <3>5, DecimalAppend
      <4>2. Decimal(<<c>>) = 10 * 0 + Value(c)
        BY <3>5, <4>1, DecimalEmpty
      <4> QED BY <2>3, <3>2, <4>2
    <3>7. <<c>> \in Seq(Byte) /\ <<c>> # <<>> /\ \A i \in 1 .. Len(<<c>>) : IsDigit(<<c>>[i])
      BY <3>2, <3>3
    <3>8. Ok(<<c>>, m)
      BY <3>6, <3>7
    <3> HIDE DEF Ok
    <3> QED BY <2>3, <3>4, <3>8
  <2>6. CASE ~(m < 10)
    <3> DEFINE q == m \div 10
               c == Digits[(m % 10) + 1]
    <3>1. q \in 0 .. n /\ ~(m =< q) /\ q \in Nat /\ m = 10 * q + (m % 10) /\ m % 10 \in 0 .. 9
      BY <2>3, <2>6, Tens
    <3>2. Ok(D[q], q)
      <4> HIDE DEF Ok, q
      <4> QED BY <2>3, <3>1
    <3>3. IsDigit(c) /\ Value(c) = m % 10
      BY <3>1, ValueOfDigit
    <3>4. c \in Byte
      BY <3>3, DigitValue
    <3>5. D[m] = Append(D[q], c)
      BY <2>4, <2>6 DEF AsciiOf
    <3> HIDE DEF c, q
    <3>6. Decimal(D[m]) = m
      <4>1. Decimal(Append(D[q], c)) = 10 * Decimal(D[q]) + Value(c)
        BY <3>2, <3>4, DecimalAppend
      <4>2. Decimal(D[q]) = q
        BY <3>2
      <4>3. Decimal(D[m]) = 10 * q + (m % 10)
        <5>1. Decimal(Append(D[q], c)) = 10 * q + (m % 10)
          BY ONLY <3>3, <4>1, <4>2
        <5> QED BY ONLY <3>5, <5>1
      <4> QED BY <3>1, <4>3
    <3>7. D[m] \in Seq(Byte) /\ D[m] # <<>> /\ \A i \in 1 .. Len(D[m]) : IsDigit(D[m][i])
      BY <3>2, <3>3, <3>4, <3>5
    <3>8. Ok(D[m], m)
      BY <3>6, <3>7
    <3> QED BY <2>3, <3>8
  <2> QED BY <2>5, <2>6
<1>3. n \in 0 .. n
  OBVIOUS
<1>4. Ok(D[n], n)
  <2> HIDE DEF Ok
  <2> QED BY <1>2, <1>3
<1> QED BY <1>1, <1>4

-----------------------------------------------------------------------------
(* mcdbctl_dump: the text of a database.                                   *)

\* The two iovecs of a record, as mcdbctl_dump fills them, are bytes.
LEMMA Parts ==
    ASSUME NEW r \in Record
    PROVE  KeyPart(r) \in Seq(Byte) /\ DataPart(r) \in Seq(Byte)
<1>1. r.k \in Seq(Byte) /\ r.d \in Seq(Byte)
  BY DEF Record
<1> DEFINE kl == ascii_base10(Len(r.k))
           dl == ascii_base10(Len(r.d))
<1>2. kl \in Seq(Byte) /\ dl \in Seq(Byte)
  BY <1>1, AsciiIs
<1>3. /\ <<"+">> \in Seq(Byte) /\ <<",">> \in Seq(Byte) /\ <<":">> \in Seq(Byte)
      /\ <<"-", ">">> \in Seq(Byte) /\ <<"\n">> \in Seq(Byte)
  <2>1. \A x \in Byte : <<x>> \in Seq(Byte)
    OBVIOUS
  <2>2. \A x, y \in Byte : <<x, y>> \in Seq(Byte)
    OBVIOUS
  <2>3. "+" \in Byte /\ "," \in Byte /\ ":" \in Byte /\ "-" \in Byte /\ ">" \in Byte /\ "\n" \in Byte
    BY ByteAssumption
  <2> QED BY <2>1, <2>2, <2>3
<1>4. KeyPart(r) = <<"+">> \o kl \o <<",">> \o dl \o <<":">> \o r.k \o <<"-", ">">>
  BY DEF KeyPart
<1>5. DataPart(r) = r.d \o <<"\n">>
  BY DEF DataPart
<1> HIDE DEF kl, dl
<1>6. PICK A \in Seq(Byte), B \in Seq(Byte), C \in Seq(Byte), D \in Seq(Byte), E \in Seq(Byte) :
        A = <<"+">> /\ B = <<",">> /\ C = <<":">> /\ D = <<"-", ">">> /\ E = <<"\n">>
  BY <1>3
<1>7. A \o kl \o B \o dl \o C \o r.k \o D \in Seq(Byte)
  BY <1>1, <1>2
<1>8. KeyPart(r) = A \o kl \o B \o dl \o C \o r.k \o D
  BY <1>4, <1>6
<1>9. DataPart(r) = r.d \o E
  BY <1>5, <1>6
<1>10. r.d \o E \in Seq(Byte)
  BY <1>1
<1> QED BY <1>7, <1>8, <1>9, <1>10

TextOf(f, r, i) == IF i = 0 THEN <<>> ELSE f[i - 1] \o KeyPart(r[i]) \o DataPart(r[i])

\* The recursive function DumpText is defined, ...
LEMMA DumpSteps ==
    ASSUME NEW r \in Seq(Record)
    PROVE  \A i \in 0 .. Len(r) : DumpText(r)[i] = TextOf(DumpText(r), r, i)
<1> DEFINE Solves(f, b) == f = [i \in 0 .. b |-> TextOf(f, r, i)]
           T == {b \in Nat : ~ \E f : Solves(f, b)}
           D == CHOOSE f : Solves(f, Len(r))
<1>1. DumpText(r) = D
  BY DEF DumpText, TextOf
<1>2. \A b \in Nat : \E f : Solves(f, b)
  <2>1. SUFFICES ASSUME T # {} PROVE FALSE
    <3> HIDE DEF Solves
    <3> QED OBVIOUS
  <2>2. PICK b \in T : \A y \in T : b =< y
    <3>1. T \in SUBSET Nat
      <4> HIDE DEF Solves
      <4> QED OBVIOUS
    <3> HIDE DEF T
    <3> QED BY <2>1, <3>1, LeastNat
  <2>3. b \in Nat /\ ~(\E f : Solves(f, b)) /\ \A y \in Nat : (~ \E f : Solves(f, y)) => b =< y
    <3> HIDE DEF Solves
    <3> QED BY <2>2
  <2>4. b # 0
    <3> DEFINE f == [i \in 0 .. 0 |-> TextOf(<<>>, r, i)]
    <3>1. \A i \in 0 .. 0 : TextOf(<<>>, r, i) = TextOf(f, r, i)
      BY DEF TextOf
    <3>2. f = [i \in 0 .. 0 |-> TextOf(f, r, i)]
      <4>1. f = [i \in 0 .. 0 |-> TextOf(<<>>, r, i)]
        OBVIOUS
      <4> HIDE DEF f
      <4> QED BY <3>1, <4>1
    <3> HIDE DEF f
    <3>3. \E g : Solves(g, 0)
      BY <3>2
    <3> HIDE DEF Solves
    <3> QED BY <2>3, <3>3
  <2>5. PICK g : Solves(g, b - 1)
    <3>1. b - 1 \in Nat /\ ~ (b =< b - 1)
      BY <2>3, <2>4
    <3> HIDE DEF Solves
    <3> QED BY <2>3, <3>1
  <2> DEFINE f == [i \in 0 .. b |-> TextOf(g, r, i)]
  <2>6. \A i \in 0 .. b - 1 : f[i] = g[i]
    <3>1. \A i \in 0 .. b - 1 : i \in 0 .. b
      BY <2>3
    <3> QED BY <2>5, <3>1
  <2>7. ASSUME NEW i \in 0 .. b PROVE TextOf(g, r, i) = TextOf(f, r, i)
    <3> HIDE DEF f
    <3>1. CASE i = 0
      BY <3>1 DEF TextOf
    <3>2. CASE i # 0
      <4>1. i - 1 \in 0 .. b - 1
        BY <2>3, <3>2
      <4> QED BY <2>6, <4>1 DEF TextOf
    <3> QED BY <3>1, <3>2
  <2>8. f = [i \in 0 .. b |-> TextOf(f, r, i)]
    <3>1. f = [i \in 0 .. b |-> TextOf(g, r, i)]
      OBVIOUS
    <3> HIDE DEF f
    <3> QED BY <2>7, <3>1
  <2>9. \E h : Solves(h, b)
    <3> HIDE DEF f
    <3> QED BY <2>8
  <2> HIDE DEF Solves
  <2> QED BY <2>3, <2>9
<1>3. Solves(D, Len(r))
  <2>1. Len(r) \in Nat
    OBVIOUS
  <2> HIDE DEF Solves
  <2> QED BY <1>2, <2>1
<1> HIDE DEF D
<1>4. \A i \in 0 .. Len(r) : D[i] = TextOf(D, r, i)
  BY <1>3
<1> QED BY <1>1, <1>4

\* The text of the first i records is that of one record less and of the i-th.
LEMMA DumpTextIs ==
    ASSUME NEW r \in Seq(Record)
    PROVE  /\ \A i \in 0 .. Len(r) : DumpText(r)[i] \in Seq(Byte)
           /\ DumpText(r)[0] = <<>>
           /\ \A i \in 1 .. Len(r) : DumpText(r)[i] = DumpText(r)[i - 1] \o KeyPart(r[i]) \o DataPart(r[i])
<1> DEFINE D == DumpText(r)
           T == {i \in 0 .. Len(r) : D[i] \notin Seq(Byte)}
<1>0. Len(r) \in Nat
  OBVIOUS
<1>1. D[0] = <<>>
  <2>1. 0 \in 0 .. Len(r)
    BY <1>0
  <2> QED BY <2>1, DumpSteps DEF TextOf
<1>2. \A i \in 1 .. Len(r) : D[i] = D[i - 1] \o KeyPart(r[i]) \o DataPart(r[i])
  <2>1. \A i \in 1 .. Len(r) : i \in 0 .. Len(r) /\ i # 0
    BY <1>0
  <2> QED BY <2>1, DumpSteps DEF TextOf
<1> HIDE DEF D
<1>3. T = {}
  <2>1. SUFFICES ASSUME T # {} PROVE FALSE
    OBVIOUS
  <2>2. PICK i \in T : \A y \in T : i =< y
    <3>1. T \in SUBSET Nat
      BY <1>0
    <3> HIDE DEF T
    <3> QED BY <2>1, <3>1, LeastNat
  <2>3. i # 0
    <3>1. <<>> \in Seq(Byte)
      OBVIOUS
    <3> QED BY <1>1, <2>2, <3>1
  <2>4. i \in 1 .. Len(r) /\ i - 1 \in 0 .. Len(r) /\ ~(i =< i - 1)
    BY <1>0, <2>2, <2>3
  <2>5. D[i - 1] \in Seq(Byte)
    BY <2>2, <2>4
  <2>6. r[i] \in Record
    BY <2>4
  <2>7. KeyPart(r[i]) \in Seq(Byte) /\ DataPart(r[i]) \in Seq(Byte)
    BY <2>6, Parts
  <2>8. D[i] \in Seq(Byte)
    <3>1. \A x, y, z \in Seq(Byte) : x \o y \o z \in Seq(Byte)
      OBVIOUS
    <3>2. D[i] = D[i - 1] \o KeyPart(r[i]) \o DataPart(r[i])
      BY <1>2, <2>4
    <3> QED BY <2>5, <2>7, <3>1, <3>2
  <2> QED BY <2>2, <2>8
<1> QED BY <1>1, <1>2, <1>3 DEF D

-----------------------------------------------------------------------------
(* mcdb_find and mcdb_findnext: what they find under a key, in their order. *)

LEMMA NodeNat == ASSUME NEW i \in Nat \ {0} PROVE Node(i) \in Nat
<1>1. HpList \in Nat \ {0}
  BY CtlAssumption
<1>2. PICK n \in Nat, h \in Nat \ {0} : n = i - 1 /\ h = HpList
  BY <1>1
<1>3. n \div h \in Nat
  OBVIOUS
<1> QED BY <1>2, <1>3 DEF Node

\* As long as there is one list node, all records are in node 0.
LEMMA OneNode == ASSUME NEW i \in Nat \ {0}, i <= HpList PROVE Node(i) = 0
<1>1. HpList \in Nat \ {0}
  BY CtlAssumption
<1>2. PICK n \in Nat, h \in Nat \ {0} : n = i - 1 /\ h = HpList
  BY <1>1
<1>3. n < h
  BY <1>2
<1>4. n \div h = 0
  BY <1>3
<1> QED BY <1>2, <1>4 DEF Node

\* The order of the list nodes is total.
LEMMA BeforeOrder ==
    ASSUME NEW i \in Nat \ {0}, NEW j \in Nat \ {0}, NEW k \in Nat \ {0}
    PROVE  /\ ~Before(i, i)
           /\ Before(i, j) /\ Before(j, k) => Before(i, k)
<1>1. Node(i) \in Nat /\ Node(j) \in Nat /\ Node(k) \in Nat
  BY NodeNat
<1> QED BY <1>1 DEF Before

\* Of some records one is found last.
LEMMA LastOne ==
    ASSUME NEW m \in Nat, NEW S \in SUBSET (1 .. m), S # {}
    PROVE  \E x \in S : \A y \in S : y # x => Before(y, x)
<1>1. \A x \in S : x \in Nat \ {0} /\ Node(x) \in Nat
  BY NodeNat
<1> DEFINE T == {Node(x) : x \in S}
<1>2. T \in SUBSET Nat /\ T # {}
  BY <1>1
<1>3. PICK n \in T : \A y \in T : n =< y
  BY <1>2, LeastNat
<1>4. \A x \in S : n =< Node(x)
  BY <1>3
<1> DEFINE U == {x \in S : Node(x) = n}
<1>5. U \in SUBSET (1 .. m) /\ U # {}
  BY <1>3
<1>6. PICK x \in U : \A y \in U : y =< x
  BY <1>5, MaxIs
<1>7. x \in S /\ Node(x) = n
  OBVIOUS
<1>8. ASSUME NEW y \in S, y # x PROVE Before(y, x)
  <2>1. CASE Node(y) = n
    <3>1. y =< x
      BY <1>6, <2>1
    <3>2. y < x
      BY <1>1, <1>7, <1>8, <3>1
    <3> QED BY <1>7, <2>1, <3>2 DEF Before
  <2>2. CASE Node(y) # n
    <3>1. n =< Node(y) /\ Node(y) \in Nat /\ n \in Nat
      BY <1>1, <1>2, <1>4
    <3>2. Node(y) > n
      BY <2>2, <3>1
    <3> QED BY <1>7, <3>2 DEF Before
  <2> QED BY <2>1, <2>2
<1> QED BY <1>7, <1>8

\* Records S in the order of finding
InOrder(f, S) ==
    /\ f \in Seq(S) /\ Range(f) = S
    /\ \A i, j \in DOMAIN f : i < j => Before(f[i], f[j])

\* The records found can be put in that order.
LEMMA OrderExists ==
    ASSUME NEW m \in Nat, NEW S \in SUBSET (1 .. m)
    PROVE  \E f : InOrder(f, S)
<1> DEFINE Q(V) == \E f : InOrder(f, V)
           T == {c \in Nat : \E V \in SUBSET (1 .. m) : Cardinality(V) = c /\ ~Q(V)}
<1>0. \A V \in SUBSET (1 .. m) : IsFiniteSet(V) /\ Cardinality(V) \in Nat
  <2>1. IsFiniteSet(1 .. m)
    BY FS_Interval
  <2> QED BY <2>1, FS_Subset, FS_CardinalityType
<1>1. T = {}
  <2>1. SUFFICES ASSUME T # {} PROVE FALSE
    <3> HIDE DEF Q
    <3> QED OBVIOUS
  <2>2. PICK c \in T : \A y \in T : c =< y
    <3>1. T \in SUBSET Nat
      <4> HIDE DEF Q
      <4> QED OBVIOUS
    <3> HIDE DEF T
    <3> QED BY <2>1, <3>1, LeastNat
  <2> HIDE DEF Q
  <2>3. PICK V \in SUBSET (1 .. m) : Cardinality(V) = c /\ ~Q(V)
    BY <2>2
  <2>4. c \in Nat /\ \A W \in SUBSET (1 .. m) : Cardinality(W) \in Nat /\ ~Q(W) => c =< Cardinality(W)
    BY <2>2
  <2>5. V # {}
    <3>1. InOrder(<<>>, {})
      <4>1. <<>> \in Seq({}) /\ DOMAIN <<>> = {}
        OBVIOUS
      <4> QED BY <4>1 DEF InOrder, Range
    <3> QED BY <2>3, <3>1 DEF Q
  <2>6. PICK x \in V : \A y \in V : y # x => Before(y, x)
    BY <2>5, LastOne
  <2> DEFINE W == V \ {x}
  <2>7. W \in SUBSET (1 .. m) /\ Cardinality(W) = c - 1 /\ Cardinality(W) \in Nat
    BY <1>0, <2>3, FS_RemoveElement
  <2>8. Q(W)
    <3>1. ~(c =< Cardinality(W))
      BY <2>4, <2>7
    <3> HIDE DEF W
    <3> QED BY <2>4, <2>7, <3>1
  <2>9. PICK f : InOrder(f, W)
    BY <2>8 DEF Q
  <2> DEFINE g == Append(f, x)
             n == Len(f)
  <2>10. f \in Seq(W) /\ Range(f) = W /\ n \in Nat /\ DOMAIN f = 1 .. n
    BY <2>9 DEF InOrder
  <2>11. f \in Seq(V)
    BY <2>10
  <2>12. g \in Seq(V) /\ Len(g) = n + 1 /\ DOMAIN g = 1 .. n + 1 /\ g[n + 1] = x /\ \A i \in 1 .. n : g[i] = f[i]
    BY <2>11
  <2> HIDE DEF g, n
  <2>13. Range(g) = V
    <3>1. \A y \in Range(g) : y \in V
      BY <2>12 DEF Range
    <3>2. ASSUME NEW y \in V PROVE y \in Range(g)
      <4>1. CASE y = x
        <5>1. n + 1 \in DOMAIN g
          BY <2>10, <2>12
        <5> QED BY <2>12, <4>1, <5>1 DEF Range
      <4>2. CASE y # x
        <5>1. y \in Range(f)
          BY <2>10, <4>2
        <5>2. PICK i \in 1 .. n : f[i] = y
          BY <2>10, <5>1 DEF Range
        <5>3. i \in DOMAIN g
          BY <2>10, <2>12
        <5> QED BY <2>12, <5>2, <5>3 DEF Range
      <4> QED BY <4>1, <4>2
    <3> QED BY <3>1, <3>2
  <2>14. ASSUME NEW i \in DOMAIN g, NEW j \in DOMAIN g, i < j PROVE Before(g[i], g[j])
    <3>1. i \in 1 .. n
      BY <2>10, <2>12, <2>14
    <3>2. CASE j \in 1 .. n
      <4>1. Before(f[i], f[j])
        BY <2>9, <2>10, <2>14, <3>1, <3>2 DEF InOrder
      <4> QED BY <2>12, <3>1, <3>2, <4>1
    <3>3. CASE j = n + 1
      <4>1. f[i] \in W
        BY <2>10, <3>1
      <4> QED BY <2>6, <2>12, <3>1, <3>3, <4>1
    <3> QED BY <2>10, <2>12, <3>2, <3>3
  <2>15. InOrder(g, V)
    BY <2>12, <2>13, <2>14 DEF InOrder
  <2> QED BY <2>3, <2>15 DEF Q
<1>2. Q(S)
  <2>1. Cardinality(S) \in Nat
    BY <1>0
  <2> HIDE DEF Q
  <2> QED BY <1>1, <2>1
<1> QED BY <1>2

\* Each record of a key is found, once, and in the order of the slot's table.
LEMMA FindsAre ==
    ASSUME NEW r \in Seq(Record), NEW k
    PROVE  InOrder(Finds(r, k), {i \in DOMAIN r : r[i].k = k})
<1> DEFINE S == {i \in DOMAIN r : r[i].k = k}
           m == Len(r)
           c == Cardinality(S)
<1>1. m \in Nat /\ S \in SUBSET (1 .. m)
  OBVIOUS
<1> DEFINE P(f) == \A i, j \in DOMAIN f : i < j => Before(f[i], f[j])
<1>2. Finds(r, k) = CHOOSE f \in SetToSeqs(S) : P(f)
  BY DEF Finds
<1> HIDE DEF S, m
<1>3. IsFiniteSet(S) /\ c \in Nat
  <2>1. IsFiniteSet(1 .. m)
    BY <1>1, FS_Interval
  <2> QED BY <1>1, <2>1, FS_Subset, FS_CardinalityType
<1>4. PICK f : InOrder(f, S)
  BY <1>1, OrderExists
<1>5. f \in SetToSeqs(S)
  <2> DEFINE n == Len(f)
  <2>1. n \in Nat /\ f \in [1 .. n -> S] /\ DOMAIN f = 1 .. n
    BY <1>4 DEF InOrder
  <2> HIDE DEF n
  <2>2. \A i, j \in 1 .. n : i # j => f[i] # f[j]
    <3>1. SUFFICES ASSUME NEW i \in 1 .. n, NEW j \in 1 .. n, i < j PROVE f[i] # f[j]
      BY <2>1
    <3>2. Before(f[i], f[j])
      BY <1>4, <2>1, <3>1 DEF InOrder
    <3>3. f[i] \in Nat \ {0}
      <4>1. f[i] \in S
        BY <2>1
      <4>2. \A y \in 1 .. m : y \in Nat \ {0}
        BY <1>1
      <4> QED BY <1>1, <4>1, <4>2
    <3> QED BY <3>2, <3>3, BeforeOrder
  <2>3. f \in Bijection(1 .. n, S)
    <3>1. f \in Injection(1 .. n, S)
      BY <2>1, <2>2 DEF Injection, IsInjective
    <3>2. \A y \in S : \E i \in 1 .. n : f[i] = y
      BY <1>4, <2>1 DEF InOrder, Range
    <3>3. f \in Surjection(1 .. n, S)
      BY <2>1, <3>2 DEF Surjection
    <3> QED BY <3>1, <3>3 DEF Bijection
  <2>4. n = c
    <3>1. IsFiniteSet(1 .. n) /\ Cardinality(1 .. n) = n
      BY <2>1, FS_Interval
    <3>2. ExistsBijection(1 .. n, S)
      BY <2>3 DEF ExistsBijection
    <3> QED BY <3>1, <3>2, FS_Bijection
  <2> HIDE DEF c
  <2> QED BY <2>1, <2>2, <2>4 DEF SetToSeqs, c
<1>6. P(f)
  BY <1>4 DEF InOrder
<1> DEFINE g == Finds(r, k)
<1>7. g \in SetToSeqs(S) /\ P(g)
  <2> HIDE DEF P
  <2> QED BY <1>2, <1>5, <1>6
<1> HIDE DEF g
<1>8. g \in [1 .. c -> S] /\ DOMAIN g = 1 .. c /\ \A i, j \in 1 .. c : i # j => g[i] # g[j]
  BY <1>7 DEF SetToSeqs
<1>9. g \in Seq(S)
  <2> HIDE DEF c
  <2> QED BY <1>3, <1>8
<1>10. Range(g) = S
  <2>1. g \in Injection(1 .. c, S)
    BY <1>8 DEF Injection, IsInjective
  <2>2. Cardinality(1 .. c) = c
    <3> HIDE DEF c
    <3> QED BY <1>3, FS_Interval
  <2>3. g \in Surjection(1 .. c, S)
    BY <1>3, <2>1, <2>2, FS_Injection
  <2> QED BY <1>8, <2>3 DEF Surjection, Range
<1>11. InOrder(g, S)
  BY <1>7, <1>9, <1>10 DEF InOrder
<1> QED BY <1>11 DEF g, S

-----------------------------------------------------------------------------
(* mcdbctl_uniq                                                            *)

\* What is found under the key of a record: at least that record, the first
\* and the last of them among the records of r, with that key.
LEMMA FoundAre ==
    ASSUME NEW r \in Seq(Record), NEW i \in 1 .. Len(r)
    PROVE  LET f == Finds(r, r[i].k) IN
           /\ Len(f) \in Nat \ {0} /\ DOMAIN f = 1 .. Len(f)
           /\ \A m \in 1 .. Len(f) : f[m] \in 1 .. Len(r) /\ r[f[m]].k = r[i].k
           /\ \A j \in 1 .. Len(r) : r[j].k = r[i].k => \E m \in 1 .. Len(f) : f[m] = j
           /\ \A m, n \in 1 .. Len(f) : m < n => Before(f[m], f[n])
<1> DEFINE f == Finds(r, r[i].k)
           S == {j \in DOMAIN r : r[j].k = r[i].k}
<1>1. InOrder(f, S)
  BY FindsAre
<1>2. \A j : j \in S <=> j \in 1 .. Len(r) /\ r[j].k = r[i].k
  OBVIOUS
<1> HIDE DEF f, S
<1>3. f \in Seq(S) /\ Range(f) = S
  BY <1>1 DEF InOrder
<1>4. DOMAIN f = 1 .. Len(f) /\ Len(f) \in Nat /\ \A m \in 1 .. Len(f) : f[m] \in S
  BY <1>3
<1>5. \A j \in S : \E m \in 1 .. Len(f) : f[m] = j
  BY <1>3, <1>4 DEF Range
<1>6. Len(f) # 0
  <2>1. PICK m \in 1 .. Len(f) : f[m] = i
    BY <1>2, <1>5
  <2> QED BY <1>4, <2>1
<1>7. \A m, n \in 1 .. Len(f) : m < n => Before(f[m], f[n])
  BY <1>1, <1>4 DEF InOrder
<1> QED BY <1>2, <1>4, <1>5, <1>6, <1>7 DEF f

\* Does the record at i stand for its key in r?
Stands(r, i) == Finds(r, r[i].k)[1] = i

\* Of each key one record does.
LEMMA OneStands ==
    ASSUME NEW r \in Seq(Record), NEW i \in 1 .. Len(r)
    PROVE  /\ \E j \in 1 .. Len(r) : r[j].k = r[i].k /\ Stands(r, j)
           /\ \A j \in 1 .. Len(r) : r[j].k = r[i].k /\ Stands(r, i) /\ Stands(r, j) => i = j
<1> DEFINE f == Finds(r, r[i].k)
<1>1. f[1] \in 1 .. Len(r) /\ r[f[1]].k = r[i].k
  <2>1. Len(f) \in Nat \ {0} /\ \A m \in 1 .. Len(f) : f[m] \in 1 .. Len(r) /\ r[f[m]].k = r[i].k
    BY FoundAre
  <2>2. 1 \in 1 .. Len(f)
    BY <2>1
  <2> HIDE DEF f
  <2> QED BY <2>1, <2>2
<1>2. Finds(r, r[f[1]].k)[1] = f[1]
  BY <1>1
<1>3. Stands(r, f[1])
  BY <1>2 DEF Stands
<1> QED BY <1>1, <1>3 DEF Stands

\* The record added for it has its key, and data of a record with that key.
LEMMA StandsForIs ==
    ASSUME db \in Seq(Record), NEW i \in 1 .. Len(db)
    PROVE  /\ StandsFor(i) \in Record /\ StandsFor(i).k = db[i].k
           /\ \E j \in 1 .. Len(db) : StandsFor(i).d = db[j].d /\ db[j].k = db[i].k
<1> DEFINE f == Finds(db, db[i].k)
<1>1. f[Len(f)] \in 1 .. Len(db) /\ db[f[Len(f)]].k = db[i].k
  <2>1. /\ Len(f) \in Nat \ {0}
        /\ \A m \in 1 .. Len(f) : f[m] \in 1 .. Len(db) /\ db[f[m]].k = db[i].k
    BY FoundAre
  <2>2. Len(f) \in 1 .. Len(f)
    BY <2>1
  <2> HIDE DEF f
  <2> QED BY <2>1, <2>2
<1>2. PICK j \in 1 .. Len(db) : db[j].k = db[i].k /\ (IF first THEN db[i].d ELSE db[Last(f)].d) = db[j].d
  <2>1. CASE first
    BY <2>1
  <2>2. CASE ~first
    <3>1. Last(f) \in 1 .. Len(db) /\ db[Last(f)].k = db[i].k
      BY <1>1 DEF Last
    <3> HIDE DEF f
    <3> QED BY <2>2, <3>1
  <2> HIDE DEF f
  <2> QED BY <2>1, <2>2
<1>3. StandsFor(i) = [k |-> db[i].k, d |-> db[j].d]
  BY <1>2 DEF StandsFor
<1>4. db[i] \in Record /\ db[j] \in Record
  OBVIOUS
<1>5. [k |-> db[i].k, d |-> db[j].d] \in Record
  BY <1>4 DEF Record
<1> QED BY <1>2, <1>3, <1>5

\* Those that stand for their keys among the first n records of db
Standing(n) == {i \in 1 .. n : Stands(db, i)}

\* UniqInv, by those names.
LEMMA UniqInvIs ==
    UniqInv = /\ cmd \in {"idle", "uniq"} => db = was
              /\ cmd = "idle" => it = 1 /\ mk = <<>>
              /\ cmd = "uniq" => /\ it \in 1 .. Len(db) + 1 /\ mk \in Seq(Record)
                                 /\ Range(mk) = {StandsFor(i) : i \in Standing(it - 1)}
                                 /\ \A i, j \in DOMAIN mk : mk[i].k = mk[j].k => i = j
BY DEF UniqInv, Standing, Stands

\* Before the first record none stands for its key.
LEMMA UniqBegins == ASSUME UniqInv, NEW f \in BOOLEAN, Uniq(f), Len(db) \in Nat PROVE UniqInv'
<1>1. cmd = "idle"
  BY DEF Uniq
<1>2. db' = db /\ was' = was /\ db = was /\ it' = 1 /\ mk' = <<>> /\ cmd' \in {"uniq", "uniq over"}
  BY <1>1 DEF Uniq, UniqInv, uniqVars
<1>2a. db' = db /\ it' = 1 /\ mk' = <<>>
  BY <1>2
<1>3. it' \in 1 .. Len(db') + 1
  <2>1. 1 \in 1 .. Len(db) + 1
    BY ONLY Len(db) \in Nat
  <2> QED BY ONLY <1>2a, <2>1
<1>4. mk' \in Seq(Record) /\ DOMAIN mk' = {} /\ Range(mk') = {}
  <2>1. <<>> \in Seq(Record) /\ DOMAIN <<>> = {}
    BY ONLY TRUE
  <2>2. Range(<<>>) = {}
    BY ONLY <2>1 DEF Range
  <2> QED BY ONLY <1>2a, <2>1, <2>2
<1>5. it' - 1 = 0 /\ 1 .. 0 = {}
  BY ONLY <1>2a
<1>6. {i \in 1 .. it' - 1 : (Finds(db, db[i].k)[1] = i)'} = {}
  BY <1>5
<1> QED BY <1>2, <1>3, <1>4, <1>6 DEF UniqInv

\* A record is added for the key it stands for, or passed over.
LEMMA UniqAdds == ASSUME UniqInv, UniqRecord, db \in Seq(Record) PROVE UniqInv'
<1>1. /\ cmd = "uniq" /\ cmd' = "uniq" /\ it <= Len(db) /\ it' = it + 1
      /\ UNCHANGED <<db, was, first>> /\ db = was
  BY DEF UniqRecord, UniqInv, uniqVars
<1>2. it \in 1 .. Len(db) /\ it' \in 1 .. Len(db) + 1 /\ it' - 1 = it /\ it \in Nat
  BY <1>1 DEF UniqInv
<1>3. /\ mk \in Seq(Record)
      /\ Range(mk) = {StandsFor(i) : i \in Standing(it - 1)}
      /\ \A i, j \in DOMAIN mk : mk[i].k = mk[j].k => i = j
  BY <1>1, UniqInvIs
<1>4. mk' = IF Stands(db, it) THEN Append(mk, StandsFor(it)) ELSE mk
  BY <1>1 DEF UniqRecord, Stands, StandsFor, Last
<1>5. \A i : StandsFor(i)' = StandsFor(i)
  BY <1>1 DEF StandsFor
<1>6. Standing(it - 1)' = Standing(it)
  <2>1. db' = db /\ it' - 1 = it
    BY <1>1, <1>2
  <2> QED BY ONLY <2>1 DEF Standing
<1>7. Standing(it) = IF Stands(db, it) THEN Standing(it - 1) \cup {it} ELSE Standing(it - 1)
  <2>1. \A i : i \in 1 .. it <=> i \in 1 .. it - 1 \/ i = it
    BY ONLY <1>2
  <2> QED BY ONLY <2>1 DEF Standing
<1>8. /\ mk' \in Seq(Record)
      /\ Range(mk') = {StandsFor(i) : i \in Standing(it)}
      /\ \A i, j \in DOMAIN mk' : mk'[i].k = mk'[j].k => i = j
  <2>1. CASE ~Stands(db, it)
    BY <1>3, <1>4, <1>7, <2>1
  <2>2. CASE Stands(db, it)
    <3> DEFINE s == StandsFor(it)
               n == Len(mk)
    <3>1. s \in Record /\ s.k = db[it].k
      BY <1>2, StandsForIs
    <3>2. mk' = Append(mk, s)
      BY <1>4, <2>2
    <3> HIDE DEF s
    <3>3. n \in Nat /\ DOMAIN mk = 1 .. n
      BY <1>3
    <3>4. /\ mk' \in Seq(Record) /\ DOMAIN mk' = 1 .. n + 1
          /\ mk'[n + 1] = s /\ \A i \in 1 .. n : mk'[i] = mk[i]
      BY <1>3, <3>1, <3>2
    <3> HIDE DEF n
    <3>5. Range(mk') = Range(mk) \cup {s}
      <4>1. \A i : i \in 1 .. n + 1 <=> i \in 1 .. n \/ i = n + 1
        BY <3>3
      <4> QED BY <3>3, <3>4, <4>1 DEF Range
    <3>6. {StandsFor(i) : i \in Standing(it)} = {StandsFor(i) : i \in Standing(it - 1)} \cup {s}
      BY <1>7, <2>2 DEF s
    <3>7. \A i \in 1 .. n : mk[i].k # s.k
      <4> SUFFICES ASSUME NEW i \in 1 .. n, mk[i].k = s.k PROVE FALSE
        OBVIOUS
      <4>1. mk[i] \in Range(mk)
        BY <3>3 DEF Range
      <4>2. PICK j \in Standing(it - 1) : mk[i] = StandsFor(j)
        BY <1>3, <4>1
      <4>3. j \in 1 .. Len(db) /\ j # it /\ Stands(db, j)
        BY <1>2, <4>2 DEF Standing
      <4>4. db[j].k = db[it].k
        BY <3>1, <4>2, <4>3, StandsForIs
      <4> QED BY <1>2, <2>2, <4>3, <4>4, OneStands
    <3>8. ASSUME NEW i \in 1 .. n + 1, NEW j \in 1 .. n + 1, mk'[i].k = mk'[j].k PROVE i = j
      <4>1. CASE i \in 1 .. n /\ j \in 1 .. n
        BY <1>3, <3>3, <3>4, <3>8, <4>1
      <4>2. CASE i = n + 1 /\ j \in 1 .. n
        BY <3>4, <3>7, <3>8, <4>2
      <4>3. CASE j = n + 1 /\ i \in 1 .. n
        BY <3>4, <3>7, <3>8, <4>3
      <4> QED BY <3>3, <4>1, <4>2, <4>3
    <3> QED BY <1>3, <3>4, <3>5, <3>6, <3>8
  <2> QED BY <2>1, <2>2
<1>9. {StandsFor(i) : i \in Standing(it - 1)}' = {StandsFor(i) : i \in Standing(it)}
  BY <1>5, <1>6
<1>10. {j \in 1 .. it - 1 : Finds(db, db[j].k)[1] = j}' = Standing(it - 1)'
  BY DEF Standing, Stands
<1>11. {StandsFor(i) : i \in {j \in 1 .. it - 1 : Finds(db, db[j].k)[1] = j}}' = {StandsFor(i) : i \in Standing(it - 1)}'
  BY <1>10
<1>12. Range(mk') = {StandsFor(i) : i \in {j \in 1 .. it - 1 : Finds(db, db[j].k)[1] = j}}'
  BY <1>8, <1>9, <1>11
<1>13. it' \in 1 .. Len(db') + 1
  BY <1>1, <1>2
<1> QED BY <1>1, <1>8, <1>12, <1>13 DEF UniqInv

\* What the database is when uniq is over.
LEMMA UniqEnds ==
    ASSUME UniqInv, UniqFinish, db \in Seq(Record), Fits(db)
    PROVE  UniqExact' /\ db' \in Seq(Record) /\ Fits(db')
<1>1. /\ cmd = "uniq" /\ cmd' = "uniq over" /\ ~(it <= Len(db)) /\ db' = mk /\ UNCHANGED <<was, first>> /\ db = was
  <2>0. it \in 1 .. Len(db) + 1 /\ it > Len(db)
    BY UniqInvIs DEF UniqFinish
  <2>1. /\ cmd = "uniq" /\ cmd' = "uniq over" /\ ~(it <= Len(db)) /\ db' = mk /\ was' = was /\ uniqVars' = uniqVars
    <3>1. ~(it <= Len(db))
      BY ONLY <2>0, db \in Seq(Record)
    <3> QED BY <3>1 DEF UniqFinish
  <2>2. first' = first
    BY <2>1 DEF uniqVars
  <2>3. db = was
    BY <2>1, UniqInvIs
  <2> QED BY <2>1, <2>2, <2>3
<1>2. it \in 1 .. Len(db) + 1 /\ Len(db) \in Nat
  <2>1. it \in 1 .. Len(db) + 1
    BY <1>1, UniqInvIs
  <2> QED BY <2>1
<1>3. it - 1 = Len(db)
  <2>1. ~(it <= Len(db))
    BY <1>1
  <2> QED BY ONLY <1>2, <2>1
<1>4. /\ mk \in Seq(Record)
      /\ Range(mk) = {StandsFor(i) : i \in Standing(Len(db))}
      /\ \A i, j \in DOMAIN mk : mk[i].k = mk[j].k => i = j
  BY <1>1, <1>3, UniqInvIs
<1>5. \A r \in Range(mk) : \E i \in 1 .. Len(db) : r = StandsFor(i) /\ Stands(db, i)
  BY <1>4 DEF Standing
<1>6. \A i \in 1 .. Len(db) : Stands(db, i) => StandsFor(i) \in Range(mk)
  BY <1>4 DEF Standing
<1>7. {r.k : r \in Range(mk)} = {r.k : r \in Range(db)}
  <2>1. ASSUME NEW r \in Range(mk) PROVE \E s \in Range(db) : s.k = r.k
    <3>1. PICK i \in 1 .. Len(db) : r = StandsFor(i)
      BY <1>5
    <3>2. r.k = db[i].k /\ db[i] \in Range(db)
      BY <3>1, StandsForIs DEF Range
    <3> QED BY <3>2
  <2>2. ASSUME NEW s \in Range(db) PROVE \E r \in Range(mk) : r.k = s.k
    <3>1. PICK i \in 1 .. Len(db) : s = db[i]
      BY DEF Range
    <3>2. PICK j \in 1 .. Len(db) : db[j].k = s.k /\ Stands(db, j)
      BY <3>1, OneStands
    <3>3. StandsFor(j) \in Range(mk) /\ StandsFor(j).k = s.k
      BY <1>6, <3>2, StandsForIs
    <3> QED BY <3>3
  <2> QED BY <2>1, <2>2
<1>8. ASSUME NEW r \in Range(mk)
      PROVE  /\ IF first THEN getseq(db, r.k, 0) = <<r.d>> ELSE Last(getall(db, r.k)) = r.d
             /\ Len(db) <= HpList =>
                  \E i \in DOMAIN db :
                      /\ r = db[i]
                      /\ \A j \in DOMAIN db : db[j].k = r.k => IF first THEN i <= j ELSE j <= i
  <2>1. PICK i \in 1 .. Len(db) : r = StandsFor(i) /\ Stands(db, i)
    BY <1>5
  <2>2. db[i] \in Record /\ r.k = db[i].k
    BY <2>1, StandsForIs
  <2> DEFINE f == Finds(db, db[i].k)
             n == Len(f)
  <2>3. /\ n \in Nat \ {0} /\ DOMAIN f = 1 .. n
        /\ \A m \in 1 .. n : f[m] \in 1 .. Len(db) /\ db[f[m]].k = db[i].k
        /\ \A j \in 1 .. Len(db) : db[j].k = db[i].k => \E m \in 1 .. n : f[m] = j
        /\ \A m, q \in 1 .. n : m < q => Before(f[m], f[q])
    BY FoundAre
  <2>4. f[1] = i
    BY <2>1 DEF Stands
  <2>5. r = [k |-> db[i].k, d |-> IF first THEN db[i].d ELSE db[f[n]].d]
    BY <2>1 DEF StandsFor, Last
  <2>6. getseq(db, r.k, 0) = IF 0 < n THEN <<db[f[0 + 1]].d>> ELSE <<>>
    BY <2>2 DEF getseq
  <2>7. getall(db, r.k) = [m \in DOMAIN f |-> db[f[m]].d]
    BY <2>2 DEF getall
  <2> HIDE DEF f, n
  <2>8. CASE first
    <3>1. r = db[i]
      <4>1. r = [k |-> db[i].k, d |-> db[i].d]
        BY <2>5, <2>8
      <4> QED BY <2>2, <4>1 DEF Record
    <3>2. getseq(db, r.k, 0) = <<r.d>>
      <4>1. 0 < n /\ 0 + 1 = 1
        BY <2>3
      <4> QED BY <2>4, <2>6, <3>1, <4>1
    <3>3. ASSUME Len(db) <= HpList, NEW j \in DOMAIN db, db[j].k = r.k PROVE i <= j
      <4>1. j \in 1 .. Len(db)
        BY <1>2
      <4>2. PICK m \in 1 .. n : f[m] = j
        BY <2>2, <2>3, <3>3, <4>1
      <4>3. m = 1 \/ 1 < m
        OBVIOUS
      <4>4. CASE m = 1
        BY <2>4, <4>2, <4>4
      <4>5. CASE 1 < m
        <5>1. Before(i, j)
          <6>1. 1 \in 1 .. n
            BY <2>3
          <6> QED BY <2>3, <2>4, <4>2, <4>5, <6>1
        <5>2. Node(i) = 0 /\ Node(j) = 0
          <6>1. i \in Nat \ {0} /\ j \in Nat \ {0} /\ i <= Len(db) /\ j <= Len(db)
            BY <4>1
          <6>2. HpList \in Nat
            BY CtlAssumption
          <6>3. i <= HpList /\ j <= HpList
            BY <1>2, <3>3, <6>1, <6>2
          <6> QED BY <6>1, <6>3, OneNode
        <5> QED BY <4>1, <5>1, <5>2 DEF Before
      <4> QED BY <4>3, <4>4, <4>5
    <3> QED BY <1>2, <2>8, <3>1, <3>2, <3>3
  <2>9. CASE ~first
    <3> DEFINE e == f[n]
    <3>1. e \in 1 .. Len(db) /\ db[e].k = db[i].k /\ db[e] \in Record
      <4>1. n \in 1 .. n
        BY <2>3
      <4> QED BY <2>3, <4>1
    <3>2. r = db[e]
      <4>1. r = [k |-> db[e].k, d |-> db[e].d]
        BY <2>5, <2>9, <3>1
      <4> QED BY <3>1, <4>1 DEF Record
    <3>3. Last(getall(db, r.k)) = r.d
      <4> DEFINE g == [m \in 1 .. n |-> db[f[m]].d]
      <4>1. getall(db, r.k) = g
        BY <2>3, <2>7
      <4>2. Len(g) = n
        BY <2>3
      <4>3. n \in 1 .. n
        BY <2>3
      <4>4. g[n] = db[f[n]].d
        BY <4>3
      <4> HIDE DEF g
      <4> QED BY <3>2, <4>1, <4>2, <4>4 DEF Last
    <3>4. ASSUME Len(db) <= HpList, NEW j \in DOMAIN db, db[j].k = r.k PROVE j <= e
      <4>1. j \in 1 .. Len(db)
        BY <1>2
      <4>2. PICK m \in 1 .. n : f[m] = j
        BY <2>2, <2>3, <3>4, <4>1
      <4>3. m = n \/ m < n
        BY <2>3
      <4>4. CASE m = n
        BY <3>1, <4>2, <4>4
      <4>5. CASE m < n
        <5>1. Before(j, e)
          <6>1. n \in 1 .. n
            BY <2>3
          <6> QED BY <2>3, <4>2, <4>5, <6>1
        <5>2. Node(e) = 0 /\ Node(j) = 0
          <6>1. e \in Nat \ {0} /\ j \in Nat \ {0} /\ e <= Len(db) /\ j <= Len(db)
            BY <3>1, <4>1
          <6>2. HpList \in Nat
            BY CtlAssumption
          <6>3. e <= HpList /\ j <= HpList
            BY <1>2, <3>4, <6>1, <6>2
          <6> QED BY <6>1, <6>3, OneNode
        <5> QED BY <3>1, <4>1, <5>1, <5>2 DEF Before
      <4> QED BY <4>3, <4>4, <4>5
    <3> HIDE DEF e
    <3> QED BY <1>2, <2>9, <3>1, <3>2, <3>3, <3>4
  <2> QED BY <2>8, <2>9
<1>9. Fits(mk)
  <2>1. \A i \in DOMAIN mk : \E a, b \in DOMAIN db : mk[i].k = db[a].k /\ mk[i].d = db[b].d
    <3> SUFFICES ASSUME NEW i \in DOMAIN mk PROVE \E a, b \in DOMAIN db : mk[i].k = db[a].k /\ mk[i].d = db[b].d
      OBVIOUS
    <3>1. mk[i] \in Range(mk)
      BY DEF Range
    <3>2. PICK a \in 1 .. Len(db) : mk[i] = StandsFor(a)
      BY <1>5, <3>1
    <3>3. mk[i].k = db[a].k /\ \E b \in 1 .. Len(db) : mk[i].d = db[b].d
      BY <3>2, StandsForIs
    <3>4. DOMAIN db = 1 .. Len(db)
      BY <1>2
    <3> QED BY <3>3, <3>4
  <2> QED BY <2>1 DEF Fits
<1> QED BY <1>1, <1>4, <1>7, <1>8, <1>9 DEF UniqExact

\* Dump and make do not go back to uniq.
LEMMA NoUniq ==
    ASSUME \/ Dump \/ DumpFlush \/ DumpRest \/ DumpKey \/ DumpData \/ Writev \/ WritevDone \/ WritevFails
           \/ MakeStdin \/ MakeFile \/ MakeFileFails \/ MakeStep \/ MakeDone
    PROVE  cmd' \notin {"idle", "uniq", "uniq over"}
<1>1. CASE Dump
  BY <1>1 DEF Dump
<1>2. CASE DumpFlush
  BY <1>2 DEF DumpFlush
<1>3. CASE DumpRest
  BY <1>3 DEF DumpRest
<1>4. CASE DumpKey
  BY <1>4 DEF DumpKey
<1>5. CASE DumpData
  BY <1>5 DEF DumpData
<1>6. CASE Writev
  BY <1>6 DEF Writev
<1>7. CASE WritevDone
  BY <1>7 DEF WritevDone
<1>8. CASE WritevFails
  BY <1>8 DEF WritevFails
<1>9. CASE MakeStdin \/ MakeFile \/ MakeFileFails
  BY <1>9 DEF MakeStdin, MakeFile, MakeFileFails, Source
<1>10. CASE MakeStep
  BY <1>10 DEF MakeStep
<1>11. CASE MakeDone
  BY <1>11 DEF MakeDone
<1> QED BY <1>1, <1>2, <1>3, <1>4, <1>5, <1>6, <1>7, <1>8, <1>9, <1>10, <1>11

\* Every step keeps what uniq has written.
LEMMA UniqKeeps ==
    ASSUME UniqInv, UniqExact, DumpInv, CtlNext
    PROVE  UniqInv' /\ UniqExact' /\ (cmd = "uniq" /\ cmd' = "uniq over" => db' \in Seq(Record) /\ Fits(db'))
<1>1. cmd \in {"idle", "uniq"} => db \in Seq(Record) /\ Fits(db)
  BY DEF DumpInv
<1>2. ASSUME NEW f \in BOOLEAN, Uniq(f) PROVE UniqInv' /\ UniqExact' /\ cmd # "uniq"
  <2>1. cmd = "idle" /\ db' = db /\ was' = was
    BY <1>2 DEF Uniq
  <2>2. Len(db) \in Nat
    <3>1. db \in Seq(Record)
      BY <1>1, <2>1
    <3> QED BY <3>1
  <2>3. db = was
    BY <2>1 DEF UniqInv
  <2>4. UniqExact'
    BY <2>1, <2>3 DEF UniqExact
  <2> QED BY <1>2, <2>1, <2>2, <2>4, UniqBegins
<1>3. CASE UniqRecord
  <2>1. cmd = "uniq" /\ cmd' = "uniq"
    BY <1>3 DEF UniqRecord
  <2> QED BY <1>1, <1>3, <2>1, UniqAdds DEF UniqExact
<1>4. CASE UniqFinish
  <2>1. cmd = "uniq" /\ cmd' = "uniq over"
    BY <1>4 DEF UniqFinish
  <2>2. UniqInv'
    BY <2>1 DEF UniqInv
  <2> QED BY <1>1, <1>4, <2>1, <2>2, UniqEnds
<1>5. CASE UniqFails
  <2>1. cmd = "uniq" /\ cmd' = "uniq over" /\ db' = db /\ was' = was
    BY <1>5 DEF UniqFails
  <2>2. db = was
    BY <2>1 DEF UniqInv
  <2>3. UniqExact'
    BY <2>1, <2>2 DEF UniqExact
  <2>4. UniqInv'
    BY <2>1 DEF UniqInv
  <2> QED BY <1>1, <2>1, <2>3, <2>4
<1>6. CASE \/ Dump \/ DumpFlush \/ DumpRest \/ DumpKey \/ DumpData \/ Writev \/ WritevDone \/ WritevFails
           \/ MakeStdin \/ MakeFile \/ MakeFileFails \/ MakeStep \/ MakeDone
  BY <1>6, NoUniq DEF UniqInv, UniqExact
<1> QED BY <1>2, <1>3, <1>4, <1>5, <1>6 DEF CtlNext

-----------------------------------------------------------------------------
(* mcdbctl_dump: what is written and what waits in the iovecs.             *)

\* The bytes o written and v waiting are the text of n records of d and s.
Told(d, o, v, n, s) == o \o v = DumpText(d)[n] \o s

\* Pieces put together in either order.
LEMMA Assoc == \A a, b, c \in Seq(Byte) : (a \o b) \o c = a \o (b \o c)
BY ConcatAssociative

\* More behind the bytes waiting, ...
LEMMA ToldMore ==
    ASSUME NEW d, NEW o \in Seq(Byte), NEW v \in Seq(Byte), NEW n, DumpText(d)[n] \in Seq(Byte),
           NEW s \in Seq(Byte), NEW x \in Seq(Byte), Told(d, o, v, n, s)
    PROVE  Told(d, o, v \o x, n, s \o x)
<1>1. o \o (v \o x) = (o \o v) \o x
  <2>1. (o \o v) \o x = o \o (v \o x)
    BY ONLY o \in Seq(Byte), v \in Seq(Byte), x \in Seq(Byte), Assoc
  <2> QED BY ONLY <2>1
<1>2. (DumpText(d)[n] \o s) \o x = DumpText(d)[n] \o (s \o x)
  <2>1. PICK y \in Seq(Byte) : y = DumpText(d)[n]
    OBVIOUS
  <2>2. (y \o s) \o x = y \o (s \o x)
    BY ONLY y \in Seq(Byte), s \in Seq(Byte), x \in Seq(Byte), Assoc
  <2> QED BY ONLY <2>1, <2>2
<1> QED BY ONLY <1>1, <1>2, Told(d, o, v, n, s) DEF Told

\* ... and a record, which is the text of one record more.
LEMMA ToldRecord ==
    ASSUME NEW d \in Seq(Record), NEW o \in Seq(Byte), NEW v \in Seq(Byte), NEW n \in 1 .. Len(d),
           Told(d, o, v, n - 1, KeyPart(d[n]))
    PROVE  /\ Told(d, o, v \o DataPart(d[n]), n, <<>>) /\ v \o DataPart(d[n]) \in Seq(Byte)
<1>1. n - 1 \in 0 .. Len(d) /\ n \in 0 .. Len(d) /\ d[n] \in Record
  OBVIOUS
<1>2. KeyPart(d[n]) \in Seq(Byte) /\ DataPart(d[n]) \in Seq(Byte)
  BY <1>1, Parts
<1>3. /\ DumpText(d)[n - 1] \in Seq(Byte) /\ DumpText(d)[n] \in Seq(Byte)
      /\ DumpText(d)[n] = DumpText(d)[n - 1] \o KeyPart(d[n]) \o DataPart(d[n])
  BY <1>1, DumpTextIs
<1> DEFINE K == KeyPart(d[n])
           P == DataPart(d[n])
           A == DumpText(d)[n - 1]
<1> HIDE DEF K, P, A
<1>4. o \o (v \o P) = (o \o v) \o P
  BY <1>2, Assoc, Zenon DEF P
<1>5. o \o v = A \o K
  BY DEF Told, A, K
<1>6. o \o (v \o P) = A \o K \o P
  BY <1>4, <1>5
<1>7. o \o (v \o P) = DumpText(d)[n]
  BY <1>3, <1>6 DEF A, K, P
<1>8. DumpText(d)[n] \o <<>> = DumpText(d)[n]
  BY <1>3, ConcatEmptySeq
<1>9. v \o P \in Seq(Byte)
  BY <1>2, ConcatProperties DEF P
<1> QED BY <1>7, <1>8, <1>9 DEF Told, P

\* What writev takes from the front is written.
LEMMA ToldWritten ==
    ASSUME NEW d, NEW o \in Seq(Byte), NEW v \in Seq(Byte), NEW n, NEW s, Told(d, o, v, n, s),
           NEW m \in 1 .. Len(v)
    PROVE  /\ o \o SubSeq(v, 1, m) \in Seq(Byte) /\ SubSeq(v, m + 1, Len(v)) \in Seq(Byte)
           /\ Told(d, o \o SubSeq(v, 1, m), SubSeq(v, m + 1, Len(v)), n, s)
           /\ m = Len(v) => Told(d, o \o SubSeq(v, 1, m), <<>>, n, s)
<1> DEFINE a == SubSeq(v, 1, m)
           b == SubSeq(v, m + 1, Len(v))
<1>1. a \in Seq(Byte) /\ b \in Seq(Byte)
  OBVIOUS
<1>2. a \o b = v
  <2>1. 1 \in 1 .. Len(v) + 1 /\ m \in 0 .. Len(v) /\ Len(v) \in m .. Len(v) /\ 1 - 1 = 0
    OBVIOUS
  <2>2. a \o b = SubSeq(v, 1, Len(v))
    BY <2>1, ConcatAdjacentSubSeq
  <2> QED BY <2>2, SubSeqFull
<1>3. m = Len(v) => a = v
  BY SubSeqFull
<1> HIDE DEF a, b
<1>4. (o \o a) \o b = o \o v
  <2>1. (o \o a) \o b = o \o (a \o b)
    BY <1>1, Assoc, Zenon
  <2> QED BY <1>2, <2>1
<1>5. o \o a \in Seq(Byte)
  BY <1>1, ConcatProperties
<1>6. m = Len(v) => (o \o a) \o <<>> = o \o v
  BY <1>3, <1>5, ConcatEmptySeq
<1> QED BY <1>1, <1>4, <1>5, <1>6 DEF Told, a, b

\* What DumpInv says while dump is at work
Piece == IF cmd = "data" \/ then = "data" THEN KeyPart(Cur) ELSE <<>>
DumpSome ==
    /\ out \in Seq(Byte) /\ iov \in Seq(Byte) /\ it \in 1 .. Len(db) + 1
    /\ ~early => Told(db, out, iov, it - 1, Piece)

\* DumpInv, by those names.
LEMMA DumpInvIs ==
    ASSUME cmd \in {"dump", "data", "writev"}
    PROVE  DumpInv <=>
             /\ db \in Seq(Record) /\ Fits(db) /\ db = was
             /\ DumpSome
             /\ cmd = "data" => it <= Len(db)
             /\ cmd = "dump" => then \in {"", "key"}
             /\ cmd = "data" => then \in {"", "data"}
             /\ cmd = "writev" => then \in {"key", "data", "end"}
             /\ then = "data" => it <= Len(db)
             /\ then = "end" => it = Len(db) + 1
BY DEF DumpInv, DumpSome, Told, Piece

\* dump begins with nothing written and nothing waiting.
LEMMA DumpStarts == ASSUME DumpInv, Dump PROVE DumpInv'
<1>1. /\ cmd \in {"idle", "uniq over"} /\ cmd' = "dump" /\ was' = db
      /\ UNCHANGED <<db, it, out, iov, then, early>>
  BY DEF Dump, dumpVars
<1>2. iov = <<>> /\ out = <<>> /\ then = "" /\ db \in Seq(Record) /\ Fits(db) /\ it = 1
  BY <1>1 DEF DumpInv
<1>3. db' = db /\ it' = 1 /\ out' = <<>> /\ iov' = <<>>
  BY <1>1, <1>2
<1>4. Piece' = <<>>
  BY <1>1, <1>2 DEF Piece
<1>5. DumpText(db)[0] = <<>> /\ Len(db) \in Nat
  <2>1. db \in Seq(Record)
    BY <1>2
  <2>2. Len(db) \in Nat
    BY <2>1
  <2> QED BY <2>1, <2>2, DumpTextIs, Zenon
<1>6. it' - 1 = 0 /\ 1 \in 1 .. Len(db) + 1
  BY <1>3, <1>5
<1>7. <<>> \o <<>> = <<>> /\ <<>> \in Seq(Byte)
  OBVIOUS
<1>8. DumpSome'
  BY <1>3, <1>4, <1>5, <1>6, <1>7 DEF DumpSome, Told
<1> QED BY <1>1, <1>2, <1>8 DEF DumpInv, DumpSome, Told, Piece

\* writev_loop begins: nothing is written yet.
LEMMA DumpFlushes == ASSUME DumpInv, DumpFlush \/ DumpRest PROVE DumpInv'
<1>1. cmd = "dump" /\ cmd' = "writev" /\ UNCHANGED <<db, was, it, out, iov, early>>
  BY DEF DumpFlush, DumpRest
<1>2. db \in Seq(Record) /\ Fits(db) /\ db = was /\ DumpSome /\ then \in {"", "key"}
  BY <1>1, DumpInvIs
<1>2a. db \in Seq(Record) /\ DumpSome
  BY <1>2
<1>3. then' = "key" \/ (then' = "end" /\ it > Len(db))
  <2>1. CASE DumpFlush
    <3>1. then' = "key"
      BY <2>1 DEF DumpFlush
    <3> QED BY <3>1, Zenon
  <2>2. CASE DumpRest
    <3>1. then' = "end"
      BY <2>2 DEF DumpRest
    <3>2. it > Len(db)
      BY ONLY <2>2 DEF DumpRest
    <3> QED BY <3>1, <3>2, Zenon
  <2> QED BY <2>1, <2>2
<1>4. it > Len(db) => it = Len(db) + 1
  <2>1. it \in 1 .. Len(db) + 1 /\ Len(db) \in Nat
    BY <1>2a DEF DumpSome
  <2> QED BY <2>1
<1>5. Piece' = Piece
  BY <1>1, <1>2, <1>3 DEF Piece
<1>6. DumpSome'
  <2>1. UNCHANGED <<db, it, out, iov, early, Piece>>
    BY <1>1, <1>5
  <2> QED BY <1>2, <2>1 DEF DumpSome
<1> QED BY <1>1, <1>2, <1>3, <1>4, <1>6 DEF DumpInv, DumpSome, Told, Piece

\* The iovecs in front of a key, and the key, ...
LEMMA DumpKeyed == ASSUME DumpInv, DumpKey PROVE DumpInv'
<1>1. /\ cmd = "dump" /\ it <= Len(db) /\ iov' = iov \o KeyPart(Cur) /\ UNCHANGED <<db, was, it, out, early>>
      /\ \/ cmd' = "writev" /\ then' = "data"
         \/ cmd' = "data" /\ then' = ""
  BY DEF DumpKey
<1>2. db \in Seq(Record) /\ Fits(db) /\ db = was /\ DumpSome /\ then \in {"", "key"}
  BY <1>1, DumpInvIs
<1>2a. db \in Seq(Record) /\ DumpSome
  BY <1>2
<1>3. Piece = <<>> /\ Piece' = KeyPart(Cur)
  BY <1>1, <1>2 DEF Piece, Cur
<1>4. it \in 1 .. Len(db) /\ it - 1 \in 0 .. Len(db)
  <2>1. it \in 1 .. Len(db) + 1 /\ Len(db) \in Nat
    BY <1>2a DEF DumpSome
  <2>2. it <= Len(db)
    BY <1>1
  <2> QED BY <2>1, <2>2
<1>5. KeyPart(Cur) \in Seq(Byte)
  <2>1. Cur \in Record
    BY <1>2a, <1>4 DEF Cur
  <2> QED BY <2>1, Parts
<1>6. DumpSome'
  <2>1. UNCHANGED <<db, it, out, early>> /\ iov' = iov \o KeyPart(Cur)
    BY <1>1
  <2>2. DumpText(db)[it - 1] \in Seq(Byte)
    BY <1>2, <1>4, DumpTextIs
  <2>3. out \in Seq(Byte) /\ iov \in Seq(Byte) /\ <<>> \in Seq(Byte)
    BY <1>2a DEF DumpSome
  <2>4. ~early => Told(db, out, iov \o KeyPart(Cur), it - 1, <<>> \o KeyPart(Cur))
    BY <1>2, <1>3, <1>5, <2>2, <2>3, ToldMore DEF DumpSome
  <2>5. <<>> \o KeyPart(Cur) = KeyPart(Cur) /\ iov \o KeyPart(Cur) \in Seq(Byte)
    BY <1>5, <2>3, ConcatEmptySeq, ConcatProperties
  <2> QED BY <1>2, <1>3, <2>1, <2>4, <2>5 DEF DumpSome
<1> QED BY <1>1, <1>2, <1>6 DEF DumpInv, DumpSome, Told, Piece

\* ... and those of its data.
LEMMA DumpDataed == ASSUME DumpInv, DumpData PROVE DumpInv'
<1>1. /\ cmd = "data" /\ cmd' = "dump" /\ then' = "" /\ iov' = iov \o DataPart(Cur) /\ it' = it + 1
      /\ UNCHANGED <<db, was, out, early>>
  BY DEF DumpData
<1>2. db \in Seq(Record) /\ Fits(db) /\ db = was /\ DumpSome /\ it <= Len(db)
  BY <1>1, DumpInvIs
<1>3. Piece = KeyPart(Cur) /\ Piece' = <<>>
  BY <1>1 DEF Piece
<1>4. it \in 1 .. Len(db) /\ it + 1 \in 1 .. Len(db) + 1 /\ it + 1 - 1 = it
  <2>1. it \in 1 .. Len(db) + 1 /\ Len(db) \in Nat
    BY <1>2 DEF DumpSome
  <2> QED BY <1>2, <2>1
<1>5. DumpSome'
  <2>1. out \in Seq(Byte) /\ iov \in Seq(Byte)
    BY <1>2 DEF DumpSome
  <2>2. ~early => Told(db, out, iov \o DataPart(Cur), it, <<>>)
    BY <1>2, <1>3, <1>4, <2>1, ToldRecord DEF DumpSome, Cur
  <2>3. iov \o DataPart(Cur) \in Seq(Byte)
    <3>1. Cur \in Record
      BY <1>2, <1>4 DEF Cur
    <3> QED BY <2>1, <3>1, Parts, ConcatProperties
  <2>4. UNCHANGED <<db, out, early>> /\ iov' = iov \o DataPart(Cur) /\ it' = it + 1
    BY <1>1
  <2> QED BY <1>3, <1>4, <2>1, <2>2, <2>3, <2>4 DEF DumpSome
<1> QED BY <1>1, <1>2, <1>5 DEF DumpInv, DumpSome, Told, Piece

\* writev takes some bytes, or fails.
LEMMA DumpWrites == ASSUME DumpInv, Writev PROVE DumpInv'
<1>1. cmd = "writev" /\ cmd' = "writev" /\ UNCHANGED <<db, was, it, then>>
  BY DEF Writev
<1>2. PICK n \in 1 .. Len(iov) :
         /\ out' = out \o SubSeq(iov, 1, n)
         /\ \/ iov' = <<>> /\ early' = (early \/ n < Len(iov))
            \/ iov' = SubSeq(iov, n + 1, Len(iov)) /\ early' = early
  BY DEF Writev
<1>3. /\ db \in Seq(Record) /\ Fits(db) /\ db = was /\ DumpSome
      /\ then \in {"key", "data", "end"} /\ (then = "data" => it <= Len(db)) /\ (then = "end" => it = Len(db) + 1)
  BY <1>1, DumpInvIs
<1>4. Piece' = Piece
  BY <1>1 DEF Piece, Cur
<1>5. DumpSome'
  <2>1. UNCHANGED <<db, it, Piece>>
    BY <1>1, <1>4
  <2>2. out \in Seq(Byte) /\ iov \in Seq(Byte) /\ Len(iov) \in Nat
    BY <1>3 DEF DumpSome
  <2>3. out' \in Seq(Byte) /\ iov' \in Seq(Byte)
    <3>1. SubSeq(iov, 1, n) \in Seq(Byte) /\ SubSeq(iov, n + 1, Len(iov)) \in Seq(Byte) /\ <<>> \in Seq(Byte)
      BY <2>2
    <3> QED BY <1>2, <2>2, <3>1, ConcatProperties
  <2>4. ASSUME ~early' PROVE Told(db, out', iov', it - 1, Piece)
    <3>1. Told(db, out, iov, it - 1, Piece)
      BY <1>2, <1>3, <2>4 DEF DumpSome
    <3>2. ~(n < Len(iov)) => n = Len(iov)
      BY <2>2
    <3>3. \/ out' = out \o SubSeq(iov, 1, n) /\ iov' = <<>> /\ n = Len(iov)
          \/ out' = out \o SubSeq(iov, 1, n) /\ iov' = SubSeq(iov, n + 1, Len(iov))
      BY <1>2, <2>4, <3>2
    <3>4. /\ Told(db, out \o SubSeq(iov, 1, n), SubSeq(iov, n + 1, Len(iov)), it - 1, Piece)
          /\ n = Len(iov) => Told(db, out \o SubSeq(iov, 1, n), <<>>, it - 1, Piece)
      BY <2>2, <3>1, ToldWritten
    <3> QED BY <3>3, <3>4
  <2> QED BY <1>3, <2>1, <2>3, <2>4 DEF DumpSome
<1> QED BY <1>1, <1>3, <1>5 DEF DumpInv, DumpSome, Told, Piece

\* writev_loop is through; at the end the empty line follows.
LEMMA DumpWritten == ASSUME DumpInv, WritevDone PROVE DumpInv'
<1>1. cmd = "writev" /\ iov = <<>> /\ UNCHANGED <<db, was, iov, then, early>>
  BY DEF WritevDone
<1>2. /\ db \in Seq(Record) /\ Fits(db) /\ db = was /\ DumpSome
      /\ then \in {"key", "data", "end"} /\ (then = "data" => it <= Len(db)) /\ (then = "end" => it = Len(db) + 1)
  BY <1>1, DumpInvIs
<1>3. CASE then = "end"
  <2>1. cmd' = "dumped" /\ out' = Append(out, "\n")
    BY <1>3 DEF WritevDone
  <2>2. Piece = <<>>
    BY <1>1, <1>3 DEF Piece
  <2>3. out \in Seq(Byte) /\ Len(db) \in Nat
    BY <1>2 DEF DumpSome
  <2>4. it - 1 = Len(db) /\ Len(db) \in 0 .. Len(db)
    <3>1. it = Len(db) + 1
      BY <1>2, <1>3
    <3> QED BY <2>3, <3>1
  <2>5. ASSUME ~early PROVE out = DumpText(db)[Len(db)]
    <3>1. out \o <<>> = DumpText(db)[Len(db)] \o <<>>
      BY <1>1, <1>2, <2>2, <2>4, <2>5 DEF DumpSome, Told
    <3>2. DumpText(db)[Len(db)] \in Seq(Byte)
      BY <1>2, <2>4, DumpTextIs
    <3> QED BY <2>3, <3>1, <3>2, ConcatEmptySeq
  <2> QED BY <1>1, <1>2, <2>1, <2>5 DEF DumpInv
<1>4. CASE then # "end"
  <2>1. cmd' = (IF then = "data" THEN "data" ELSE "dump") /\ UNCHANGED <<out, it>>
    BY <1>4 DEF WritevDone
  <2>2. Piece' = Piece
    BY <1>1, <1>2, <1>4, <2>1 DEF Piece, Cur
  <2>3. DumpSome'
    <3>1. UNCHANGED <<db, it, out, iov, early, Piece>>
      BY <1>1, <2>1, <2>2
    <3> QED BY <1>2, <3>1 DEF DumpSome
  <2> QED BY <1>1, <1>2, <1>4, <2>1, <2>3 DEF DumpInv, DumpSome, Told, Piece
<1> QED BY <1>3, <1>4

\* Every step keeps what dump has written.
LEMMA DumpKeeps ==
    ASSUME DumpInv, CtlNext, cmd = "uniq" /\ cmd' = "uniq over" => db' \in Seq(Record) /\ Fits(db')
    PROVE  DumpInv'
<1>1. ASSUME NEW f \in BOOLEAN, Uniq(f) PROVE DumpInv'
  BY <1>1 DEF Uniq, DumpInv, dumpVars
<1>2. CASE UniqRecord
  BY <1>2 DEF UniqRecord, DumpInv, dumpVars
<1>3. CASE UniqFinish
  BY <1>3 DEF UniqFinish, DumpInv, dumpVars
<1>4. CASE UniqFails
  BY <1>4 DEF UniqFails, DumpInv, dumpVars
<1>5. CASE Dump
  BY <1>5, DumpStarts
<1>6. CASE DumpFlush \/ DumpRest
  BY <1>6, DumpFlushes
<1>7. CASE DumpKey
  BY <1>7, DumpKeyed
<1>8. CASE DumpData
  BY <1>8, DumpDataed
<1>9. CASE Writev
  BY <1>9, DumpWrites
<1>10. CASE WritevDone
  BY <1>10, DumpWritten
<1>11. CASE WritevFails
  BY <1>11 DEF WritevFails, DumpInv
<1>12. CASE MakeStdin \/ MakeFile \/ MakeFileFails
  <2>1. Source
    BY <1>12 DEF MakeStdin, MakeFile, MakeFileFails
  <2>2. CASE cmd = "dumped"
    <3>1. cmd' = "remake" /\ UNCHANGED <<db, was, out, early>>
      BY <2>1, <2>2 DEF Source, dumpVars
    <3> QED BY <2>2, <3>1 DEF DumpInv
  <2>3. CASE cmd # "dumped"
    BY <2>1, <2>3 DEF Source, DumpInv
  <2> QED BY <2>2, <2>3
<1>13. CASE MakeStep
  <2>1. cmd \in {"make", "remake"} /\ UNCHANGED <<db, was, cmd, out, early>>
    BY <1>13 DEF MakeStep, dumpVars
  <2> QED BY <2>1 DEF DumpInv
<1>14. CASE MakeDone
  BY <1>14 DEF MakeDone, DumpInv
<1> QED BY <1>1, <1>2, <1>3, <1>4, <1>5, <1>6, <1>7, <1>8, <1>9, <1>10, <1>11, <1>12, <1>13, <1>14 DEF CtlNext

-----------------------------------------------------------------------------
(* The three invariants are one: every step of mcdbctl keeps them.         *)

CtlInv == FmtInv /\ DumpInv /\ UniqInv /\ UniqExact

\* Before make starts, nothing is read.
LEMMA NotYet ==
    ASSUME FmtInv, cmd \in {"idle", "uniq", "uniq over", "dump", "data", "writev"}, fmtVars' = fmtVars
    PROVE  at = "none" /\ at' = "none"
<1>1. at = "none"
  BY DEF FmtInv, StreamInv
<1> QED BY <1>1 DEF fmtVars

\* Every step of the three commands keeps the stream and what make made of it.
LEMMA TextKeeps == ASSUME FmtInv, DumpInv', CtlNext PROVE FmtInv'
<1>0. out \in Seq(Byte)
  BY DEF FmtInv
<1>1. CASE \/ \E f \in BOOLEAN : Uniq(f)
           \/ UniqRecord \/ UniqFinish \/ UniqFails
           \/ Dump \/ DumpFlush \/ DumpRest \/ DumpKey \/ DumpData \/ WritevFails
  <2>1. cmd \in {"idle", "uniq", "uniq over", "dump", "data", "writev"} /\ fmtVars' = fmtVars /\ out' = out
    BY <1>1 DEF Uniq, UniqRecord, UniqFinish, UniqFails, Dump, DumpFlush, DumpRest, DumpKey, DumpData, WritevFails
  <2> QED BY <1>0, <2>1, NotYet, FmtIdle
<1>2. CASE Writev
  <2>1. cmd = "writev" /\ cmd' = "writev" /\ fmtVars' = fmtVars
    BY <1>2 DEF Writev
  <2>2. out' \in Seq(Byte)
    BY <2>1 DEF DumpInv
  <2> QED BY <2>1, <2>2, NotYet, FmtIdle
<1>3. CASE WritevDone
  <2>1. cmd = "writev" /\ fmtVars' = fmtVars /\ (out' = out \/ out' = Append(out, "\n"))
    BY <1>3 DEF WritevDone
  <2>2. out' \in Seq(Byte)
    <3>1. "\n" \in Byte
      BY ByteAssumption
    <3>2. \A b \in Byte : Append(out, b) \in Seq(Byte)
      BY <1>0
    <3> QED BY <1>0, <2>1, <3>1, <3>2
  <2> QED BY <2>1, <2>2, NotYet, FmtIdle
<1>4. ASSUME Source PROVE out' \in Seq(Byte) /\ cmd' \in {"make", "remake"}
  <2>1. Texts \subseteq Seq(Byte)
    BY CtlAssumption
  <2> QED BY <1>0, <1>4, <2>1 DEF Source
<1>5. CASE MakeStdin
  BY <1>4, <1>5, FmtBegins DEF MakeStdin
<1>6. CASE MakeFile
  BY <1>4, <1>6, FmtBegins DEF MakeFile
<1>7. CASE MakeFileFails
  BY <1>4, <1>7, FmtFails DEF MakeFileFails
<1>8. CASE MakeStep
  BY <1>8, FmtSteps DEF MakeStep, Same
<1>9. CASE MakeDone
  <2>1. at = "end" /\ cmd' = "over" /\ UNCHANGED <<at, rv, hurt, recs, out>>
    BY <1>9 DEF MakeDone, fmtVars
  <2> QED BY <2>1, FmtOver
<1> QED BY <1>1, <1>2, <1>3, <1>5, <1>6, <1>7, <1>8, <1>9 DEF CtlNext

\* The invariant holds at the start ...
LEMMA CtlStarts == ASSUME CtlInit PROVE CtlInv
<1>1. /\ db \in DbSet /\ was = db /\ cmd = "idle" /\ it = 1 /\ mk = <<>>
      /\ iov = <<>> /\ then = "" /\ out = <<>>
  BY DEF CtlInit
<1>2. db \in Seq(Record) /\ Fits(db)
  BY <1>1, CtlAssumption, SizesAssumption
<1>3. DumpInv
  BY <1>1, <1>2 DEF DumpInv
<1>4. UniqInv
  BY <1>1 DEF UniqInv
<1>5. UniqExact
  BY <1>1 DEF UniqExact
<1> QED BY <1>3, <1>4, <1>5, FmtInit DEF CtlInv

\* ... and every step keeps it.
LEMMA CtlKeeps == ASSUME CtlInv, [CtlNext]_ctlVars PROVE CtlInv'
<1>1. CASE CtlNext
  <2>1. FmtInv /\ DumpInv /\ UniqInv /\ UniqExact
    BY DEF CtlInv
  <2>2. UniqInv' /\ UniqExact' /\ (cmd = "uniq" /\ cmd' = "uniq over" => db' \in Seq(Record) /\ Fits(db'))
    BY <1>1, <2>1, UniqKeeps
  <2>3. DumpInv'
    BY <1>1, <2>1, <2>2, DumpKeeps
  <2>4. FmtInv'
    BY <1>1, <2>1, <2>3, TextKeeps
  <2> QED BY <2>2, <2>3, <2>4 DEF CtlInv
<1>2. CASE UNCHANGED ctlVars
  <2>1. FmtInv'
    BY <1>2, FmtStays DEF CtlInv
  <2>2. UNCHANGED <<db, was, cmd, it, out, iov, iovcnt, iovlen, then, early, mk, first>>
    BY <1>2 DEF ctlVars, dumpVars, uniqVars
  <2>3. DumpInv'
    <3>1. UNCHANGED <<db, was, cmd, it, out, iov, then, early, Cur>>
      BY <2>2 DEF Cur
    <3> QED BY <3>1 DEF CtlInv, DumpInv
  <2>4. UniqInv'
    <3>1. UNCHANGED <<db, was, cmd, it, mk, first>>
      BY <2>2
    <3>2. \A i : StandsFor(i)' = StandsFor(i)
      BY <3>1 DEF StandsFor
    <3> QED BY <3>1, <3>2 DEF CtlInv, UniqInv
  <2>5. UniqExact'
    BY <2>2 DEF CtlInv, UniqExact
  <2> QED BY <2>1, <2>3, <2>4, <2>5 DEF CtlInv
<1> QED BY <1>1, <1>2

\* dump has written the text of the records it has been over, make is where the
\* text it has read takes it, and uniq has added the records that stand for the
\* keys it has seen, in every state of the three commands.
THEOREM CtlInvariant == CtlSpec => []CtlInv
<1>1. CtlInit => CtlInv
  BY CtlStarts
<1>2. CtlInv /\ [CtlNext]_ctlVars => CtlInv'
  BY CtlKeeps
<1> QED BY <1>1, <1>2, PTL DEF CtlSpec

\* mcdbctl_uniq leaves one record for each key, the one that is printed first
\* or last, and a uniq that fails leaves the database alone.
THEOREM UniqOnePerKey == CtlSpec => []UniqExact
<1>1. CtlInv => UniqExact
  BY DEF CtlInv
<1> QED BY <1>1, CtlInvariant, PTL

\* mcdb_makefmt_fdintofd reads a text as what it means, wherever the reads cut
\* it and however records lie across the end of the buffer.
THEOREM MakeReadsText == CtlSpec => []FmtExact
<1>1. CtlInv => FmtExact
  BY DEF CtlInv, FmtInv
<1> QED BY <1>1, CtlInvariant, PTL

-----------------------------------------------------------------------------
(* A dump means the records that were dumped.                              *)

\* Behind position q of t is s.
Has(t, q, s) == q + Len(s) <= Len(t) /\ \A j \in 1 .. Len(s) : t[q + j] = s[j]

\* A text that is at a place has its parts there, one behind the other, ...
LEMMA HasParts ==
    ASSUME NEW t \in Seq(Byte), NEW q \in Nat, NEW a \in Seq(Byte), NEW b \in Seq(Byte), Has(t, q, a \o b)
    PROVE  /\ a \o b \in Seq(Byte) /\ Len(a \o b) = Len(a) + Len(b)
           /\ Has(t, q, a) /\ Has(t, q + Len(a), b)
<1>1. /\ a \o b \in Seq(Byte) /\ Len(a \o b) = Len(a) + Len(b)
      /\ \A i \in 1 .. Len(a) + Len(b) : (a \o b)[i] = IF i <= Len(a) THEN a[i] ELSE b[i - Len(a)]
  BY ConcatProperties
<1>2. PICK m \in Nat, n \in Nat : m = Len(a) /\ n = Len(b)
  OBVIOUS
<1> DEFINE c == a \o b
<1>3. Len(c) = m + n /\ \A i \in 1 .. m + n : c[i] = IF i <= m THEN a[i] ELSE b[i - m]
  BY <1>1, <1>2
<1> HIDE DEF c
<1>4. q + (m + n) <= Len(t) /\ \A j \in 1 .. m + n : t[q + j] = c[j]
  BY <1>3 DEF Has, c
<1>5. Len(t) \in Nat
  OBVIOUS
<1>6. q + m <= Len(t) /\ q + m + n <= Len(t)
  BY <1>4, <1>5
<1>7. \A j \in 1 .. m : t[q + j] = a[j]
  <2>1. \A j \in 1 .. m : j \in 1 .. m + n /\ j <= m
    OBVIOUS
  <2> QED BY <1>3, <1>4, <2>1
<1>8. \A j \in 1 .. n : t[q + m + j] = b[j]
  <2> SUFFICES ASSUME NEW j \in 1 .. n PROVE t[q + m + j] = b[j]
    OBVIOUS
  <2>1. m + j \in 1 .. m + n /\ ~(m + j <= m) /\ m + j - m = j /\ q + (m + j) = q + m + j
    OBVIOUS
  <2>2. t[q + (m + j)] = c[m + j]
    BY <1>4, <2>1
  <2>3. c[m + j] = b[m + j - m]
    BY <1>3, <2>1
  <2> QED BY <2>1, <2>2, <2>3
<1> QED BY <1>1, <1>2, <1>6, <1>7, <1>8 DEF Has

\* ... and SubSeq takes it out again.
LEMMA HasSub ==
    ASSUME NEW t \in Seq(Byte), NEW q \in Nat, NEW s \in Seq(Byte), Has(t, q, s)
    PROVE  SubSeq(t, q + 1, q + Len(s)) = s
<1>1. PICK n \in Nat : n = Len(s)
  OBVIOUS
<1>2. q + n <= Len(t) /\ \A j \in 1 .. n : t[q + j] = s[j]
  BY <1>1 DEF Has
<1> DEFINE u == SubSeq(t, q + 1, q + n)
<1>3. /\ u \in Seq(Byte) /\ Len(u) = (IF q + 1 <= q + n THEN q + n - (q + 1) + 1 ELSE 0)
      /\ \A i \in 1 .. q + n - (q + 1) + 1 : u[i] = t[q + 1 + i - 1]
  BY <1>2, Part
<1> HIDE DEF u
<1>4. Len(u) = n
  BY <1>3
<1>5. \A i \in 1 .. n : u[i] = s[i]
  <2> SUFFICES ASSUME NEW i \in 1 .. n PROVE u[i] = s[i]
    OBVIOUS
  <2>1. q + n - (q + 1) + 1 = n /\ q + 1 + i - 1 = q + i
    OBVIOUS
  <2> QED BY <1>2, <1>3, <2>1
<1>6. u = s
  BY <1>1, <1>3, <1>4, <1>5, SeqEqual
<1> QED BY <1>1, <1>6 DEF u

\* ascii_base10 writes numbers of the format.
LEMMA AsciiNumber ==
    ASSUME NEW n \in Nat, n <= 10 * NumMax + 9
    PROVE  /\ IsNumber(ascii_base10(n)) /\ Decimal(ascii_base10(n)) = n
           /\ ascii_base10(n) \in Seq(Byte) /\ Len(ascii_base10(n)) \in Nat \ {0}
<1> DEFINE ds == ascii_base10(n)
<1>1. ds \in Seq(Byte) /\ ds # <<>> /\ (\A i \in 1 .. Len(ds) : IsDigit(ds[i])) /\ Decimal(ds) = n
  BY AsciiIs
<1> HIDE DEF ds
<1>2. Range(ds) \subseteq Range(Digits)
  <2>1. DOMAIN ds = 1 .. Len(ds)
    BY <1>1
  <2> QED BY <1>1, <2>1 DEF Range, IsDigit
<1>3. Len(ds) \in Nat \ {0}
  BY <1>1
<1> QED BY <1>1, <1>2, <1>3 DEF IsNumber, ds

\* Record r in front of each of S
InFront(r, S) == {<<r>> \o s : s \in S}

\* What is continued from one record has it in front.
LEMMA ContinuedOne ==
    ASSUME NEW from, NEW x
    PROVE  Continued(from, {x}) = InFront([k |-> x.k, d |-> x.d], from[x.next])
<1>1. \A r : Continued(from, {r}) = {<<[k |-> r.k, d |-> r.d]>> \o s : s \in from[r.next]}
  BY ContinuedIs
<1>2. Continued(from, {x}) = {<<[k |-> x.k, d |-> x.d]>> \o s : s \in from[x.next]}
  BY <1>1
<1> QED BY <1>2 DEF InFront

\* What the text means where a record is written: that record and what follows it.
LEMMA RecordMeans ==
    ASSUME NEW t \in Seq(Byte), NEW q \in Nat, NEW r \in Record, NEW l,
           Len(r.k) <= 10 * NumMax + 9, Len(r.d) <= 10 * NumMax + 9,
           NEW m \in Nat, m = Len(ascii_base10(Len(r.k))) + Len(ascii_base10(Len(r.d))) + 3, l \in Nat, m <= l \/ l = Len(t),
           Has(t, q, KeyPart(r) \o DataPart(r))
    PROVE  LET z == q + Len(KeyPart(r) \o DataPart(r)) IN
           /\ z \in Nat /\ z <= Len(t)
           /\ Meanings(t, l)[q + 1] = InFront(r, Meanings(t, l)[z + 1])
<1>1. r.k \in Seq(Byte) /\ r.d \in Seq(Byte)
  BY DEF Record
<1> DEFINE a == ascii_base10(Len(r.k))
           b == ascii_base10(Len(r.d))
<1>2. PICK kl \in Nat, dl \in Nat : kl = Len(r.k) /\ dl = Len(r.d)
  BY <1>1
<1>3. /\ IsNumber(a) /\ Decimal(a) = kl /\ a \in Seq(Byte) /\ Len(a) \in Nat \ {0}
      /\ IsNumber(b) /\ Decimal(b) = dl /\ b \in Seq(Byte) /\ Len(b) \in Nat \ {0}
  BY <1>2, AsciiNumber
<1>4. PICK la \in Nat \ {0}, lb \in Nat \ {0} : la = Len(a) /\ lb = Len(b)
  BY <1>3
<1>4a. \A o \in Nat : \A x \in Bodies(t, o, kl, dl) :
          /\ x.next = o + kl + dl + 4 /\ x.k = SubSeq(t, o + 1, o + kl)
          /\ x.d = SubSeq(t, o + kl + 3, o + kl + dl + 2) /\ Bodies(t, o, kl, dl) = {x}
  BY ONLY t \in Seq(Byte), kl \in Nat, dl \in Nat, BodyOf
<1>5. PICK plus \in Byte, comma \in Byte, colon \in Byte, dash \in Byte, gt \in Byte, nl \in Byte :
        plus = "+" /\ comma = "," /\ colon = ":" /\ dash = "-" /\ gt = ">" /\ nl = "\n"
  BY ByteAssumption
<1>6. \A x, y \in Byte : /\ <<x>> \in Seq(Byte) /\ Len(<<x>>) = 1 /\ <<x>>[1] = x
                         /\ <<x, y>> \in Seq(Byte) /\ Len(<<x, y>>) = 2 /\ <<x, y>>[1] = x /\ <<x, y>>[2] = y
  OBVIOUS
<1>6a. PICK sa \in Seq(Byte) : sa = <<plus>> /\ Len(sa) = 1 /\ sa[1] = plus
  BY <1>6
<1>6b. PICK sb \in Seq(Byte) : sb = <<comma>> /\ Len(sb) = 1 /\ sb[1] = comma
  BY <1>6
<1>6c. PICK sc \in Seq(Byte) : sc = <<colon>> /\ Len(sc) = 1 /\ sc[1] = colon
  BY <1>6
<1>6d. PICK sd \in Seq(Byte) : sd = <<dash, gt>> /\ Len(sd) = 2 /\ sd[1] = dash /\ sd[2] = gt
  <2>1. /\ <<dash, gt>> \in Seq(Byte) /\ Len(<<dash, gt>>) = 2
        /\ <<dash, gt>>[1] = dash /\ <<dash, gt>>[2] = gt
    BY ONLY dash \in Byte, gt \in Byte
  <2> QED BY ONLY <2>1
<1>6e. PICK se \in Seq(Byte) : se = <<nl>> /\ Len(se) = 1 /\ se[1] = nl
  BY ONLY <1>6, nl \in Byte
<1>7. /\ Len(sa) = 1 /\ Len(sb) = 1 /\ Len(sc) = 1 /\ Len(sd) = 2 /\ Len(se) = 1
      /\ sa[1] = plus /\ sb[1] = comma /\ sc[1] = colon /\ sd[1] = dash /\ sd[2] = gt /\ se[1] = nl
  BY <1>6a, <1>6b, <1>6c, <1>6d, <1>6e
<1> DEFINE s1 == sa \o a
           s2 == s1 \o sb
           s3 == s2 \o b
           s4 == s3 \o sc
           s5 == s4 \o r.k
           s6 == s5 \o sd
           s7 == r.d \o se
<1>8. KeyPart(r) = s6 /\ DataPart(r) = s7
  BY <1>5, <1>6a, <1>6b, <1>6c, <1>6d, <1>6e DEF KeyPart, DataPart
<1> HIDE DEF a, b
<1>9. PICK k \in Seq(Byte), d \in Seq(Byte) : k = r.k /\ d = r.d /\ Len(k) = kl /\ Len(d) = dl
  BY <1>1, <1>2
<1>10. /\ s1 \in Seq(Byte) /\ s2 \in Seq(Byte) /\ s3 \in Seq(Byte) /\ s4 \in Seq(Byte)
       /\ s5 \in Seq(Byte) /\ s6 \in Seq(Byte) /\ s7 \in Seq(Byte)
  <2>1. \A x, y \in Seq(Byte) : x \o y \in Seq(Byte)
    BY ConcatProperties
  <2>2. s1 \in Seq(Byte)
    BY <1>3, <2>1
  <2> HIDE DEF s1
  <2>3. s2 \in Seq(Byte)
    BY <2>1, <2>2
  <2> HIDE DEF s2
  <2>4. s3 \in Seq(Byte)
    BY <1>3, <2>1, <2>3
  <2> HIDE DEF s3
  <2>5. s4 \in Seq(Byte)
    BY <2>1, <2>4
  <2> HIDE DEF s4
  <2>6. s5 \in Seq(Byte)
    BY <1>1, <2>1, <2>5
  <2> HIDE DEF s5
  <2>7. s6 \in Seq(Byte) /\ s7 \in Seq(Byte)
    BY <1>1, <2>1, <2>6
  <2> QED BY <2>2, <2>3, <2>4, <2>5, <2>6, <2>7
<1> DEFINE Split(x, y) == Len(x \o y) = Len(x) + Len(y) /\ Has(t, q, x) /\ Has(t, q + Len(x), y)
<1>11. \A x, y \in Seq(Byte) : Has(t, q, x \o y) => Split(x, y)
  BY HasParts
<1> HIDE DEF Split
<1>12. Split(s6, s7) /\ Has(t, q, s6)
  <2>1. Has(t, q, s6 \o s7)
    BY <1>8
  <2> HIDE DEF s6, s7
  <2> QED BY <1>10, <1>11, <2>1 DEF Split
<1>13. Split(s5, sd) /\ Has(t, q, s5)
  <2> HIDE DEF s5
  <2> QED BY <1>10, <1>11, <1>12 DEF Split
<1>14. Split(s4, r.k) /\ Has(t, q, s4)
  <2> HIDE DEF s4
  <2> QED BY <1>1, <1>10, <1>11, <1>13 DEF Split
<1>15. Split(s3, sc) /\ Has(t, q, s3)
  <2> HIDE DEF s3
  <2> QED BY <1>10, <1>11, <1>14 DEF Split
<1>16. Split(s2, b) /\ Has(t, q, s2)
  <2> HIDE DEF s2
  <2> QED BY <1>3, <1>10, <1>11, <1>15 DEF Split
<1>17. Split(s1, sb) /\ Has(t, q, s1)
  <2> HIDE DEF s1
  <2> QED BY <1>10, <1>11, <1>16 DEF Split
<1>18. Split(sa, a)
  BY <1>3, <1>10, <1>11, <1>17 DEF Split
<1> DEFINE p == q + 1
           c == q + 2 + la
           e == q + 3 + la + lb
\* The offsets of the parts
<1>19. /\ Len(s1) = 1 + la /\ Len(s2) = 2 + la /\ Len(s3) = 2 + la + lb /\ Len(s4) = 3 + la + lb
       /\ Len(s5) = 3 + la + lb + kl /\ Len(s6) = 5 + la + lb + kl /\ Len(s7) \in Nat
  <2>1. Len(s1) = Len(sa) + Len(a)
    BY <1>18 DEF Split
  <2>2. Len(s2) = Len(s1) + Len(sb)
    BY <1>17 DEF Split
  <2>3. Len(s3) = Len(s2) + Len(b)
    BY <1>16 DEF Split
  <2>4. Len(s4) = Len(s3) + Len(sc)
    BY <1>15 DEF Split
  <2>5. Len(s5) = Len(s4) + Len(r.k)
    BY <1>14 DEF Split
  <2>6. Len(s6) = Len(s5) + Len(sd)
    BY <1>13 DEF Split
  <2> HIDE DEF s1, s2, s3, s4, s5, s6, s7
  <2>7. Len(s7) \in Nat
    BY <1>10
  <2>8. Len(s1) = 1 + la
    BY <1>4, <1>7, <2>1
  <2>9. Len(s2) = 2 + la
    BY <1>4, <1>7, <2>2, <2>8
  <2>10. Len(s3) = 2 + la + lb
    BY <1>4, <2>3, <2>9
  <2>11. Len(s4) = 3 + la + lb
    BY <1>7, <2>4, <2>10
  <2>12. Len(s5) = 3 + la + lb + kl
    BY <1>2, <2>5, <2>11
  <2>13. Len(s6) = 5 + la + lb + kl
    BY <1>7, <2>6, <2>12
  <2> QED BY <2>7, <2>8, <2>9, <2>10, <2>11, <2>12, <2>13
<1>20. /\ Has(t, q, sa) /\ Has(t, q + 1, a) /\ Has(t, c - 1, sb) /\ Has(t, c, b) /\ Has(t, e - 1, sc)
       /\ Has(t, e, r.k) /\ Has(t, e + kl, sd) /\ Has(t, e + kl + 2, s7)
       /\ Len(s6 \o s7) = 5 + la + lb + kl + Len(s7)
  <2>1. /\ q + Len(sa) = q + 1 /\ q + Len(s1) = c - 1 /\ q + Len(s2) = c /\ q + Len(s3) = e - 1
        /\ q + Len(s4) = e /\ q + Len(s5) = e + kl /\ q + Len(s6) = e + kl + 2
    <3> HIDE DEF s1, s2, s3, s4, s5, s6, s7
    <3>1. Len(sa) = 1
      BY <1>7
    <3>2. /\ Len(s1) = 1 + la /\ Len(s2) = 2 + la /\ Len(s3) = 2 + la + lb /\ Len(s4) = 3 + la + lb
          /\ Len(s5) = 3 + la + lb + kl /\ Len(s6) = 5 + la + lb + kl
      BY <1>19
    <3> QED BY <3>1, <3>2
  <2> HIDE DEF s1, s2, s3, s4, s5, s6, s7, c, e
  <2> QED BY <1>12, <1>13, <1>14, <1>15, <1>16, <1>17, <1>18, <1>19, <2>1 DEF Split
<1>21. /\ Len(s7) = dl + 1 /\ Has(t, e + kl + 2, r.d) /\ Has(t, e + kl + 2 + dl, se)
  <2>1. e + kl + 2 \in Nat
    OBVIOUS
  <2>2. Has(t, e + kl + 2, r.d \o se)
    BY <1>20
  <2> HIDE DEF e, s7
  <2>3. /\ Len(r.d \o se) = Len(r.d) + Len(se) /\ Has(t, e + kl + 2, r.d) /\ Has(t, e + kl + 2 + Len(r.d), se)
    <3>1. r.d \in Seq(Byte) /\ se \in Seq(Byte)
      BY <1>1
    <3>2. PICK v \in Nat : v = e + kl + 2
      BY <2>1
    <3>3. Has(t, v, r.d \o se)
      BY <2>2, <3>2
    <3>4. Len(r.d \o se) = Len(r.d) + Len(se) /\ Has(t, v, r.d) /\ Has(t, v + Len(r.d), se)
      <4>1. PICK x \in Seq(Byte) : x = r.d
        BY <3>1
      <4>2. Has(t, v, x \o se)
        BY <3>3, <4>1
      <4>3. Len(x \o se) = Len(x) + Len(se) /\ Has(t, v, x) /\ Has(t, v + Len(x), se)
        BY ONLY t \in Seq(Byte), v \in Nat, x \in Seq(Byte), se \in Seq(Byte), <4>2, HasParts
      <4> QED BY <4>1, <4>3
    <3> QED BY <3>2, <3>4
  <2>4. Len(r.d) + Len(se) = dl + 1 /\ Len(r.d) = dl
    BY <1>2, <1>7
  <2> QED BY <2>3, <2>4 DEF s7
<1> HIDE DEF s1, s2, s3, s4, s5, s6, s7
<1>22. q + 1 <= Len(t) /\ c - 1 + 1 <= Len(t) /\ e - 1 + 1 <= Len(t) /\ e + kl + 2 + (dl + 1) <= Len(t)
  BY <1>7, <1>20, <1>21 DEF Has
<1>23. /\ t[q + 1] = plus /\ t[c - 1 + 1] = comma /\ t[e - 1 + 1] = colon
       /\ t[e + kl + 1] = dash /\ t[e + kl + 2] = gt /\ t[e + kl + 2 + dl + 1] = nl
  <2>1. 1 \in 1 .. 1 /\ 1 \in 1 .. 2 /\ 2 \in 1 .. 2
    OBVIOUS
  <2> HIDE DEF c, e
  <2> QED BY <1>7, <1>20, <1>21, <2>1 DEF Has
<1>24. /\ t[p] = plus /\ t[c] = comma /\ t[e] = colon
       /\ t[e + kl + 1] = dash /\ t[e + kl + 2] = gt /\ t[e + kl + dl + 3] = nl
  <2>1. c - 1 + 1 = c /\ e - 1 + 1 = e /\ e + kl + 2 + dl + 1 = e + kl + dl + 3
    OBVIOUS
  <2> HIDE DEF c, e
  <2> QED BY <1>23, <2>1
<1>25. SubSeq(t, p + 1, c - 1) = a /\ SubSeq(t, c + 1, e - 1) = b
  <2>1. q + 1 \in Nat /\ c \in Nat /\ q + 1 + 1 = p + 1 /\ q + 1 + la = c - 1 /\ c + lb = e - 1
    OBVIOUS
  <2>2. SubSeq(t, q + 1 + 1, q + 1 + Len(a)) = a
    BY <1>3, <1>20, <2>1, HasSub
  <2> HIDE DEF p, c, e
  <2>3. SubSeq(t, c + 1, c + Len(b)) = b
    BY <1>3, <1>20, <2>1, HasSub
  <2>4. q + 1 + Len(a) = c - 1 /\ c + Len(b) = e - 1
    BY <1>4, <2>1
  <2> QED BY <2>1, <2>2, <2>3, <2>4
<1>26. SubSeq(t, e + 1, e + kl) = r.k
  <2>1. e \in Nat
    OBVIOUS
  <2> HIDE DEF e
  <2>2. SubSeq(t, e + 1, e + Len(r.k)) = r.k
    BY <1>1, <1>20, <2>1, HasSub
  <2> QED BY <1>2, <2>2
<1>27. SubSeq(t, e + kl + 3, e + kl + dl + 2) = r.d
  <2>1. e + kl + 2 \in Nat /\ e + kl + 2 + 1 = e + kl + 3 /\ e + kl + 2 + dl = e + kl + dl + 2
    OBVIOUS
  <2> HIDE DEF e
  <2>2. SubSeq(t, e + kl + 2 + 1, e + kl + 2 + Len(r.d)) = r.d
    BY <1>1, <1>21, <2>1, HasSub
  <2> QED BY <1>2, <2>1, <2>2
<1>28. /\ p \in 1 .. Len(t) /\ c \in p + 2 .. Len(t) /\ e \in p + 4 .. Len(t) /\ e + kl + dl + 3 <= Len(t)
       /\ e - p < l /\ e \in Nat
  <2>1. m = la + lb + 3
    BY <1>2, <1>4 DEF a, b
  <2>2. Len(t) \in Nat
    OBVIOUS
  <2>3. la \in Nat \ {0} /\ lb \in Nat \ {0} /\ kl \in Nat /\ dl \in Nat /\ q \in Nat /\ l \in Nat
        /\ (m <= l \/ l = Len(t))
    OBVIOUS
  <2> QED BY ONLY <1>22, <2>1, <2>2, <2>3
<1> HIDE DEF p, c, e
<1>29. IsPreamble(t, l, p, c, e)
  BY <1>3, <1>5, <1>24, <1>25, <1>28 DEF IsPreamble
<1>30. RecordsAt(t, l, p) = Bodies(t, e, kl, dl)
  <2>1. RecordsAt(t, l, p) = Bodies(t, e, Decimal(SubSeq(t, p + 1, c - 1)), Decimal(SubSeq(t, c + 1, e - 1)))
    <3>1. p \in 1 .. Len(t) /\ c \in p + 2 .. Len(t) /\ e \in p + 4 .. Len(t)
      BY <1>28
    <3>2. RecordsAt(t, l, p) = Bodies(t, e, Decimal(SubSeq(t, p + 1, c - 1)), Decimal(SubSeq(t, c + 1, e - 1)))
          /\ RecordsAt(t, l, p) \subseteq Bodies(t, e, Decimal(SubSeq(t, p + 1, c - 1)), Decimal(SubSeq(t, c + 1, e - 1)))
      BY ONLY t \in Seq(Byte), <1>29, <3>1, PreambleRecords
    <3> QED BY <3>2
  <2> QED BY <1>3, <1>25, <2>1
<1>31. PICK x : x \in Bodies(t, e, kl, dl)
  BY <1>5, <1>24, <1>28, BodyMade
<1>32. x.next = e + kl + dl + 4 /\ x.k = r.k /\ x.d = r.d /\ Bodies(t, e, kl, dl) = {x}
  <2>1. /\ x.next = e + kl + dl + 4 /\ x.k = SubSeq(t, e + 1, e + kl)
        /\ x.d = SubSeq(t, e + kl + 3, e + kl + dl + 2) /\ Bodies(t, e, kl, dl) = {x}
    <3>1. e \in Nat
      BY ONLY <1>28, Zenon
    <3> QED BY ONLY <1>4a, <1>31, <3>1
  <2> QED BY <1>26, <1>27, <2>1
<1>33. [k |-> x.k, d |-> x.d] = r
  BY <1>32 DEF Record
<1>34. Meanings(t, l)[p] = Continued(Meanings(t, l), {x})
  <2>1. ~(p > Len(t)) /\ p \in 1 .. Len(t) + 1
    BY ONLY <1>28, t \in Seq(Byte)
  <2>2. t[p] # "\n"
    BY <1>5, <1>24
  <2>3. Meanings(t, l)[p] = IF p > Len(t) THEN {}
                            ELSE IF t[p] = "\n" THEN {<<>>} ELSE Continued(Meanings(t, l), RecordsAt(t, l, p))
    BY <2>1, MeaningsAre
  <2>4. RecordsAt(t, l, p) = {x}
    BY <1>30, <1>32
  <2> QED BY <2>1, <2>2, <2>3, <2>4
<1>35. Meanings(t, l)[p] = InFront(r, Meanings(t, l)[e + kl + dl + 4])
  <2>1. Continued(Meanings(t, l), {x}) = InFront([k |-> x.k, d |-> x.d], Meanings(t, l)[x.next])
    BY ONLY ContinuedOne
  <2>2. x.next = e + kl + dl + 4
    BY <1>32
  <2> QED BY <1>33, <1>34, <2>1, <2>2
<1>36. q + Len(s6 \o s7) = e + kl + dl + 3
  <2>1. Len(s6 \o s7) = 5 + la + lb + kl + Len(s7) /\ Len(s7) = dl + 1
    BY <1>20, <1>21
  <2>2. q \in Nat /\ la \in Nat /\ lb \in Nat /\ kl \in Nat /\ dl \in Nat
    OBVIOUS
  <2> QED BY ONLY <2>1, <2>2 DEF e
<1>37. e + kl + dl + 3 \in Nat /\ e + kl + dl + 3 + 1 = e + kl + dl + 4
  BY <1>28
<1>38. q + Len(KeyPart(r) \o DataPart(r)) = e + kl + dl + 3
  BY <1>8, <1>36 DEF s6, s7
<1> QED BY <1>28, <1>35, <1>37, <1>38 DEF p

\* The same where every preamble is within the limit.
LEMMA RecordMeansAt ==
    ASSUME NEW t \in Seq(Byte), NEW q \in Nat, NEW r \in Record, NEW l \in Nat, l = PreMax \/ l = Len(t),
           Len(r.k) <= 10 * NumMax + 9, Len(r.d) <= 10 * NumMax + 9,
           Len(ascii_base10(Len(r.k))) + Len(ascii_base10(Len(r.d))) + 3 <= PreMax,
           Has(t, q, KeyPart(r) \o DataPart(r))
    PROVE  Meanings(t, l)[q + 1] = InFront(r, Meanings(t, l)[q + Len(KeyPart(r) \o DataPart(r)) + 1])
<1>1. PICK m \in Nat : m = Len(ascii_base10(Len(r.k))) + Len(ascii_base10(Len(r.d))) + 3
  <2>1. Len(r.k) \in Nat /\ Len(r.d) \in Nat
    BY DEF Record
  <2>2. ascii_base10(Len(r.k)) \in Seq(Byte) /\ ascii_base10(Len(r.d)) \in Seq(Byte)
    BY <2>1, AsciiIs
  <2>3. Len(ascii_base10(Len(r.k))) \in Nat /\ Len(ascii_base10(Len(r.d))) \in Nat
    BY <2>2
  <2> QED BY <2>3
<1>2. m <= l \/ l = Len(t)
  BY <1>1
<1>3. /\ q + Len(KeyPart(r) \o DataPart(r)) \in Nat /\ q + Len(KeyPart(r) \o DataPart(r)) <= Len(t)
      /\ Meanings(t, l)[q + 1] = InFront(r, Meanings(t, l)[q + Len(KeyPart(r) \o DataPart(r)) + 1])
  BY ONLY t \in Seq(Byte), q \in Nat, r \in Record, l \in Nat, <1>1, <1>2,
          Len(r.k) <= 10 * NumMax + 9, Len(r.d) <= 10 * NumMax + 9,
          Has(t, q, KeyPart(r) \o DataPart(r)), RecordMeans
<1> QED BY ONLY <1>3

\* The text of some records, and the empty line, means those records.
LEMMA DumpMeans ==
    ASSUME NEW r \in Seq(Record), Fits(r), NEW t \in Seq(Byte), t = Append(DumpText(r)[Len(r)], "\n"),
           NEW l \in Nat, l = PreMax \/ l = Len(t)
    PROVE  r \in Meaning(t, l)
<1> DEFINE n == Len(r)
           T(i) == DumpText(r)[i]
           C(i) == Has(t, 0, T(i)) /\ SubSeq(r, i + 1, n) \in Meanings(t, l)[Len(T(i)) + 1]
           U == {j \in 0 .. n : ~C(n - j)}
<1>0. n \in Nat
  OBVIOUS
<1>0a. ASSUME NEW q \in Nat, NEW x \in Record,
              Len(x.k) <= 10 * NumMax + 9, Len(x.d) <= 10 * NumMax + 9,
              Len(ascii_base10(Len(x.k))) + Len(ascii_base10(Len(x.d))) + 3 <= PreMax,
              Has(t, q, KeyPart(x) \o DataPart(x))
       PROVE  Meanings(t, l)[q + 1] = InFront(x, Meanings(t, l)[q + Len(KeyPart(x) \o DataPart(x)) + 1])
  <2>1. t \in Seq(Byte) /\ l \in Nat /\ q \in Nat /\ x \in Record /\ (l = PreMax \/ l = Len(t))
    OBVIOUS
  <2> HIDE DEF n, T, C, U
  <2> QED BY ONLY <1>0a, <2>1, RecordMeansAt, ZenonT(60)
<1>1. /\ \A i \in 0 .. n : T(i) \in Seq(Byte) /\ Len(T(i)) \in Nat
      /\ T(0) = <<>>
      /\ \A i \in 1 .. n : T(i) = T(i - 1) \o KeyPart(r[i]) \o DataPart(r[i])
  <2>1. \A s \in Seq(Byte) : Len(s) \in Nat
    OBVIOUS
  <2> QED BY <2>1, DumpTextIs
<1>2. C(n)
  <2>1. n \in 0 .. n
    BY <1>0
  <2>2. PICK s \in Seq(Byte), nl \in Byte : s = T(n) /\ nl = "\n"
    BY <1>1, <2>1, ByteAssumption
  <2>3. t = Append(s, nl)
    BY <2>2
  <2>4. PICK k \in Nat : k = Len(s)
    OBVIOUS
  <2>5. Len(t) = k + 1 /\ t[k + 1] = nl /\ \A j \in 1 .. k : t[j] = s[j]
    BY ONLY <2>3, <2>4, s \in Seq(Byte), nl \in Byte, k \in Nat
  <2>6. Has(t, 0, s)
    BY ONLY <2>4, <2>5, k \in Nat DEF Has
  <2>7. Meanings(t, l)[k + 1] = {<<>>}
    <3>1. k + 1 \in 1 .. Len(t) + 1 /\ ~(k + 1 > Len(t))
      BY <2>5
    <3>2. t[k + 1] = "\n"
      BY <2>2, <2>5
    <3>3. Meanings(t, l)[k + 1] = IF k + 1 > Len(t) THEN {}
              ELSE IF t[k + 1] = "\n" THEN {<<>>} ELSE Continued(Meanings(t, l), RecordsAt(t, l, k + 1))
      BY <3>1, MeaningsAre
    <3> QED BY <3>1, <3>2, <3>3
  <2>8. SubSeq(r, n + 1, n) = <<>>
    BY <1>0, SubSeqEmpty
  <2> HIDE DEF n, T
  <2> QED BY <2>2, <2>4, <2>6, <2>7, <2>8
<1>3. ASSUME NEW i \in 1 .. n, C(i) PROVE C(i - 1)
  <2> DEFINE x == r[i]
             a == T(i - 1)
             s == KeyPart(x) \o DataPart(x)
  <2>1. x \in Record /\ i - 1 \in 0 .. n /\ i \in 0 .. n
    OBVIOUS
  <2>2. a \in Seq(Byte) /\ Len(a) \in Nat
    BY <1>1, <2>1
  <2>3. KeyPart(x) \in Seq(Byte) /\ DataPart(x) \in Seq(Byte) /\ s \in Seq(Byte)
    <3>1. KeyPart(x) \in Seq(Byte) /\ DataPart(x) \in Seq(Byte)
      BY <2>1, Parts
    <3> QED BY <3>1, ConcatProperties
  <2>4. T(i) = a \o s
    <3>1. T(i) = a \o KeyPart(x) \o DataPart(x)
      BY <1>1
    <3> HIDE DEF x, a, T
    <3> QED BY <2>2, <2>3, <3>1, Assoc
  <2>5. Has(t, 0, T(i)) /\ SubSeq(r, i + 1, n) \in Meanings(t, l)[Len(T(i)) + 1]
    BY <1>3
  <2> HIDE DEF T, s, a
  <2>6. Len(T(i)) = Len(a) + Len(s) /\ Has(t, 0, a) /\ Has(t, Len(a), s)
    <3>1. Has(t, 0, a \o s)
      BY <2>4, <2>5
    <3>2. Len(a \o s) = Len(a) + Len(s) /\ Has(t, 0, a) /\ Has(t, 0 + Len(a), s)
      <4>1. t \in Seq(Byte) /\ a \in Seq(Byte) /\ s \in Seq(Byte) /\ 0 \in Nat
        BY <2>2, <2>3
      <4> QED BY ONLY <3>1, <4>1, HasParts
    <3>3. 0 + Len(a) = Len(a)
      BY <2>2
    <3> QED BY <2>4, <3>2, <3>3
  <2>7. /\ Len(x.k) <= 10 * NumMax + 9 /\ Len(x.d) <= 10 * NumMax + 9
        /\ Len(ascii_base10(Len(x.k))) + Len(ascii_base10(Len(x.d))) + 3 <= PreMax
    <3>1. i \in DOMAIN r
      OBVIOUS
    <3> QED BY <3>1 DEF Fits
  <2> DEFINE z == Len(a) + Len(s)
  <2>10. Meanings(t, l)[Len(a) + 1] = InFront(x, Meanings(t, l)[z + 1])
    <3> HIDE DEF x
    <3>1. PICK q \in Nat : q = Len(a)
      BY <2>2
    <3>2. Has(t, q, KeyPart(x) \o DataPart(x))
      BY <2>6, <3>1 DEF s
    <3>3. Meanings(t, l)[q + 1] = InFront(x, Meanings(t, l)[q + Len(KeyPart(x) \o DataPart(x)) + 1])
      <4>1. q \in Nat
        OBVIOUS
      <4> QED BY ONLY <2>1, <2>7, <3>2, <4>1, <1>0a, Zenon
    <3> QED BY <3>1, <3>3 DEF s
  <2>11. SubSeq(r, i, n) = <<x>> \o SubSeq(r, i + 1, n)
    <3>1. i \in 1 .. Len(r) /\ n \in i .. Len(r)
      BY <1>0
    <3> QED BY <3>1, SubSeqRecursiveFirst
  <2>12. SubSeq(r, i, n) \in Meanings(t, l)[Len(a) + 1]
    <3>1. SubSeq(r, i + 1, n) \in Meanings(t, l)[z + 1]
      BY <2>5, <2>6
    <3> HIDE DEF x, n, z
    <3> QED BY <2>10, <2>11, <3>1 DEF InFront
  <2>13. i - 1 + 1 = i
    OBVIOUS
  <2> QED BY <2>6, <2>12, <2>13 DEF a
<1> HIDE DEF C
<1>4. U = {}
  <2>1. SUFFICES ASSUME U # {} PROVE FALSE
    OBVIOUS
  <2>2. PICK j \in U : \A y \in U : j =< y
    <3>1. U \in SUBSET Nat
      BY <1>0
    <3> HIDE DEF U
    <3> QED BY <2>1, <3>1, LeastNat
  <2>3. j \in 0 .. n /\ ~C(n - j)
    BY <2>2
  <2> HIDE DEF n
  <2>4. j # 0
    <3>1. n - 0 = n
      BY <1>0
    <3> QED BY <1>2, <2>3, <3>1
  <2>5. C(n - (j - 1))
    <3>1. j - 1 \in 0 .. n /\ ~(j =< j - 1)
      BY <1>0, <2>3, <2>4
    <3> QED BY <2>2, <3>1
  <2>6. n - (j - 1) \in 1 .. n /\ n - (j - 1) - 1 = n - j
    BY <1>0, <2>3, <2>4
  <2> QED BY <1>3, <2>3, <2>5, <2>6
<1>5. C(0)
  <2>1. n \in 0 .. n /\ n - n = 0
    BY <1>0
  <2>2. C(n - n)
    BY <1>4, <2>1
  <2> QED BY <2>1, <2>2
<1>6. SubSeq(r, 0 + 1, n) \in Meanings(t, l)[Len(T(0)) + 1]
  BY <1>5 DEF C
<1>7. 0 + 1 = 1 /\ Len(<<>>) = 0 /\ SubSeq(r, 1, n) = r
  BY SubSeqFull
<1>8. r \in Meanings(t, l)[1]
  <2> HIDE DEF n, T
  <2> QED BY <1>1, <1>6, <1>7
<1> QED BY <1>8 DEF Meaning

\* What mcdbctl_dump wrote mcdbctl make turns into the same database, whatever
\* is in keys and data and however writev and read cut it into pieces.
THEOREM DumpComesBack == CtlSpec => []DumpWhole
<1>1. ASSUME CtlInv PROVE DumpWhole
  <2> SUFFICES ASSUME cmd = "remake", at = "end", ~early, ~hurt PROVE rv = "ok" /\ recs = was
    BY DEF DumpWhole
  <2>1. db \in Seq(Record) /\ Fits(db) /\ db = was /\ out = Append(DumpText(db)[Len(db)], "\n")
    BY <1>1 DEF CtlInv, DumpInv
  <2>2. out \in Seq(Byte) /\ Len(out) \in Nat /\ PreMax \in Nat
    <3>1. out \in Seq(Byte)
      BY <1>1 DEF CtlInv, FmtInv
    <3>2. PreMax \in Nat
      BY FmtAssumption
    <3> QED BY ONLY <3>1, <3>2
  <2>3. db \in Meaning(out, PreMax) /\ db \in Meaning(out, Len(out))
    BY <2>1, <2>2, DumpMeans
  <2>4. IF rv = "ok" THEN Meaning(out, Len(out)) = {recs} ELSE hurt \/ Meaning(out, PreMax) = {}
    BY <1>1 DEF CtlInv, FmtInv, FmtExact
  <2> QED BY <2>1, <2>3, <2>4
<1> QED BY <1>1, CtlInvariant, PTL
=============================================================================
