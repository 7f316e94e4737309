---------------------------- MODULE StreamProofs ----------------------------
(***************************************************************************)
(* The stream the decoder is given (BitstreamHeaders) and what it finds in *)
(* it, for films of any number of packets of any size, whatever the start  *)
(* codes and the names of the codecs are: DecoderFindsTheFilm.             *)
(*                                                                         *)
(* The decoder walks over the stream from its first byte, and a packet is  *)
(* added at the last one, so for each format the proof shows that a walk   *)
(* over what was sent goes on over what is sent next: the units a size     *)
(* goes before, the units a start code ends, the pictures of a container,  *)
(* the slices of RV.  What was found before a packet is then what was      *)
(* found before, and the packet adds its content (Reads).                  *)
(***************************************************************************)
EXTENDS BitstreamHeaders, SequenceTheorems, WellFoundedInduction, TLAPS

(***************************************************************************)
(* Induction and recursion.  The provers take no lemma with an operator as *)
(* parameter, so they are stated for sets and for functions.               *)
(***************************************************************************)
LEMMA NatInduct ==
  ASSUME NEW T, 0 \in T, \A n \in Nat : n \in T => n + 1 \in T
  PROVE  Nat \subseteq T
<1>1. SUFFICES ASSUME Nat \ T # {} PROVE FALSE
  OBVIOUS
<1> DEFINE R == OpToRel(<, Nat)
<1>2. /\ \A x, y \in Nat : y < x => <<y, x>> \in R
      /\ IsWellFoundedOn(R, Nat)
  BY NatLessThanWellFounded DEF OpToRel
<1> HIDE DEF R
<1>3. PICK x \in Nat \ T : \A y \in Nat \ T : ~(<<y, x>> \in R)
  BY <1>1, <1>2, WFMin
<1>4. x \in Nat /\ x # 0
  BY <1>3
<1>5. x - 1 \in Nat /\ x - 1 < x
  BY <1>4
<1>6. x - 1 \in T
  BY <1>2, <1>3, <1>5
<1>7. QED
  BY <1>3, <1>5, <1>6

(* A set with the empty sequence that appending does not leave holds all. *)
LEMMA SeqInduct ==
  ASSUME NEW V, NEW T, <<>> \in T,
         \A s \in Seq(V), e \in V : s \in T => s \o <<e>> \in T
  PROVE  Seq(V) \subseteq T
<1> DEFINE U == {n \in Nat : \A s \in Seq(V) : Len(s) = n => s \in T}
<1>1. 0 \in U
  BY EmptySeq
<1>2. ASSUME NEW n \in Nat, n \in U PROVE n + 1 \in U
  <2>1. SUFFICES ASSUME NEW s \in Seq(V), Len(s) = n + 1 PROVE s \in T
    OBVIOUS
  <2>2. s # <<>>
    BY <2>1, EmptySeq
  <2>3. PICK r \in Seq(V), e \in V : s = Append(r, e)
    BY <2>2, SequenceEmptyOrAppend
  <2>4. Len(r) = n /\ s = r \o <<e>>
    BY <2>1, <2>3, AppendProperties, AppendIsConcat, LenProperties
  <2>5. QED
    BY <1>2, <2>4
<1>3. Nat \subseteq U
  <2> HIDE DEF U
  <2>1. QED
    BY <1>1, <1>2, NatInduct
<1>4. QED
  BY <1>3, LenProperties

(***************************************************************************)
(* Digits.                                                                 *)
(***************************************************************************)
LEMMA Halves ==
  ASSUME NEW v \in Nat
  PROVE  /\ v \div Radix \in Nat /\ v % Radix \in Nat
         /\ v = (Radix * (v \div Radix)) + (v % Radix)
BY RadixAssumption

(* The recursion of Shifted: each digit is one division. *)
LEMMA ShiftedIs ==
  ASSUME NEW v \in Nat
  PROVE  /\ Shifted(v, 0) = v
         /\ \A n \in Nat : /\ Shifted(v, n) \in Nat
                           /\ Shifted(v, n + 1) = Shifted(v, n) \div Radix
<1> DEFINE Is(f, n) == f = [i \in 0 .. n |-> IF i = 0 THEN v ELSE f[i - 1] \div Radix]
           By(n) == CHOOSE f : Is(f, n)
<1>1. ASSUME NEW n \in Nat PROVE \E f : Is(f, n)
  <2> DEFINE Step(f, i) == f[i - 1] \div Radix
             Level(f, i) == IF i = 0 THEN v ELSE Step(f, i)
             T == {m \in Nat : \E f : f = [i \in 0 .. m |-> Level(f, i)]}
  <2>1. 0 \in T
    <3> DEFINE f == [i \in 0 .. 0 |-> v]
    <3>1. f = [i \in 0 .. 0 |-> Level(f, i)]
      OBVIOUS
    <3> HIDE DEF f
    <3>2. QED
      BY <3>1
  <2>2. ASSUME NEW m \in Nat, m \in T PROVE m + 1 \in T
    <3>1. PICK f : f = [i \in 0 .. m |-> Level(f, i)]
      BY <2>2
    <3> DEFINE g == [i \in 0 .. m + 1 |-> Level(f, i)]
    <3> HIDE DEF Level
    <3>2. \A i \in 0 .. m : g[i] = f[i]
      BY <3>1
    <3>3. ASSUME NEW i \in 0 .. m + 1 PROVE g[i] = Level(g, i)
      <4>1. i # 0 => i - 1 \in 0 .. m
        OBVIOUS
      <4>2. g[i] = Level(f, i)
        OBVIOUS
      <4> HIDE DEF g
      <4>3. QED
        BY <3>2, <4>1, <4>2 DEF Level
    <3>4. g = [i \in 0 .. m + 1 |-> Level(g, i)]
      <4>1. g = [i \in 0 .. m + 1 |-> g[i]]
        OBVIOUS
      <4> HIDE DEF g
      <4>2. QED
        BY <3>3, <4>1
    <3> HIDE DEF g
    <3>5. QED
      BY <3>4
  <2>3. n \in T
    <3> HIDE DEF T
    <3>1. QED
      BY <2>1, <2>2, NatInduct
  <2>4. QED
    BY <2>3
<1>2. ASSUME NEW n \in Nat PROVE Is(By(n), n)
  BY <1>1
<1>3. \A n \in Nat : Shifted(v, n) = By(n)[n]
  BY DEF Shifted
<1> HIDE DEF By
<1>4. \A n \in Nat : By(n)[0] = v /\ \A i \in 1 .. n : By(n)[i] = By(n)[i - 1] \div Radix
  BY <1>2
<1>5. ASSUME NEW n \in Nat, NEW m \in n .. n + 1 PROVE \A i \in 0 .. n : By(m)[i] = By(n)[i] /\ By(n)[i] \in Nat
  <2> DEFINE T == {i \in Nat : i <= n => By(m)[i] = By(n)[i] /\ By(n)[i] \in Nat}
  <2>1. 0 \in T
    BY <1>4
  <2>2. ASSUME NEW i \in Nat, i \in T PROVE i + 1 \in T
    <3>1. SUFFICES ASSUME i + 1 <= n PROVE By(m)[i + 1] = By(n)[i + 1] /\ By(n)[i + 1] \in Nat
      OBVIOUS
    <3>2. By(m)[i] = By(n)[i] /\ By(n)[i] \in Nat
      BY <2>2, <3>1
    <3>3. i + 1 \in 1 .. n /\ i + 1 \in 1 .. m /\ (i + 1) - 1 = i /\ m \in Nat
      BY <3>1
    <3>4. By(m)[i + 1] = By(m)[i] \div Radix /\ By(n)[i + 1] = By(n)[i] \div Radix
      BY <1>4, <3>3
    <3>5. QED
      BY <3>2, <3>4, Halves
  <2>3. Nat \subseteq T
    <3> HIDE DEF T
    <3>1. QED
      BY <2>1, <2>2, NatInduct
  <2>4. QED
    BY <2>3
<1>6. Shifted(v, 0) = v
  BY <1>3, <1>4
<1>7. ASSUME NEW n \in Nat
      PROVE  Shifted(v, n) \in Nat /\ Shifted(v, n + 1) = Shifted(v, n) \div Radix
  <2>1. By(n)[n] \in Nat /\ By(n + 1)[n] = By(n)[n]
    BY <1>5
  <2>2. n + 1 \in Nat /\ n + 1 \in 1 .. n + 1 /\ (n + 1) - 1 = n
    OBVIOUS
  <2>3. By(n + 1)[n + 1] = By(n + 1)[n] \div Radix
    BY <1>4, <2>2
  <2>4. QED
    BY <1>3, <2>1, <2>2, <2>3
<1>8. QED
  BY <1>6, <1>7

(* The recursion of Number, as a function of how many bytes are read. *)
LEMMA NumberIs ==
  ASSUME NEW b, Len(b) \in Nat
  PROVE  \E f :
           /\ f[0] = 0
           /\ \A i \in 1 .. Len(b) : f[i] = (f[i - 1] * Radix) + b[i][2]
           /\ Number(b) = f[Len(b)]
<1> DEFINE n == Len(b)
           Is(f) == f = [i \in 0 .. n |-> IF i = 0 THEN 0 ELSE (f[i - 1] * Radix) + b[i][2]]
           Upto == CHOOSE f : Is(f)
<1>1. \E f : Is(f)
  <2> DEFINE Step(f, i) == (f[i - 1] * Radix) + b[i][2]
             Level(f, i) == IF i = 0 THEN 0 ELSE Step(f, i)
             T == {m \in Nat : \E f : f = [i \in 0 .. m |-> Level(f, i)]}
  <2>1. 0 \in T
    <3> DEFINE f == [i \in 0 .. 0 |-> 0]
    <3>1. f = [i \in 0 .. 0 |-> Level(f, i)]
      OBVIOUS
    <3> HIDE DEF f
    <3>2. QED
      BY <3>1
  <2>2. ASSUME NEW m \in Nat, m \in T PROVE m + 1 \in T
    <3>1. PICK f : f = [i \in 0 .. m |-> Level(f, i)]
      BY <2>2
    <3> DEFINE g == [i \in 0 .. m + 1 |-> Level(f, i)]
    <3> HIDE DEF Level
    <3>2. \A i \in 0 .. m : g[i] = f[i]
      BY <3>1
    <3>3. ASSUME NEW i \in 0 .. m + 1 PROVE g[i] = Level(g, i)
      <4>1. i # 0 => i - 1 \in 0 .. m
        OBVIOUS
      <4>2. g[i] = Level(f, i)
        OBVIOUS
      <4> HIDE DEF g
      <4>3. QED
        BY <3>2, <4>1, <4>2 DEF Level
    <3>4. g = [i \in 0 .. m + 1 |-> Level(g, i)]
      <4>1. g = [i \in 0 .. m + 1 |-> g[i]]
        OBVIOUS
      <4> HIDE DEF g
      <4>2. QED
        BY <3>3, <4>1
    <3> HIDE DEF g
    <3>5. QED
      BY <3>4
  <2>3. n \in T
    <3> HIDE DEF T
    <3>1. QED
      BY <2>1, <2>2, NatInduct
  <2>4. QED
    BY <2>3
<1>2. Is(Upto)
  BY <1>1
<1>3. Number(b) = Upto[n]
  BY DEF Number
<1> HIDE DEF Upto
<1>4. Upto[0] = 0 /\ \A i \in 1 .. n : Upto[i] = (Upto[i - 1] * Radix) + b[i][2]
  BY <1>2
<1>5. QED
  BY <1>3, <1>4

(* What PUT_BE writes, the VPU reads. *)
LEMMA NumberOfPutBE ==
  ASSUME NEW v \in Nat, NEW n \in Nat, Fits(v, n)
  PROVE  Number(PutBE(v, n)) = v
<1> DEFINE b == PutBE(v, n)
<1>1. Len(b) = n /\ \A i \in 1 .. n : n - i \in Nat /\ b[i][2] = Shifted(v, n - i) % Radix
  BY DEF PutBE, B
<1> HIDE DEF b
<1>2. \A i \in 1 .. n : b[i][2] \in Nat
  <2> TAKE i \in 1 .. n
  <2>1. Shifted(v, n - i) \in Nat
    BY <1>1, ShiftedIs
  <2>2. QED
    BY <1>1, <2>1, Halves
<1>3. PICK f : /\ f[0] = 0
               /\ \A i \in 1 .. n : f[i] = (f[i - 1] * Radix) + b[i][2]
               /\ Number(b) = f[n]
  <2>1. Len(b) = n /\ Len(b) \in Nat
    BY <1>1
  <2>2. PICK f : /\ f[0] = 0
                 /\ \A i \in 1 .. Len(b) : f[i] = (f[i - 1] * Radix) + b[i][2]
                 /\ Number(b) = f[Len(b)]
    BY <2>1, NumberIs
  <2>3. QED
    BY <2>1, <2>2
<1> DEFINE T == {i \in Nat : i <= n => f[i] = Shifted(v, n - i)}
<1>4. 0 \in T
  BY <1>3 DEF Fits
<1>5. ASSUME NEW i \in Nat, i \in T PROVE i + 1 \in T
  <2>1. SUFFICES ASSUME i + 1 <= n PROVE f[i + 1] = Shifted(v, n - (i + 1))
    OBVIOUS
  <2> DEFINE k == n - (i + 1)
  <2>2. k \in Nat /\ n - i = k + 1 /\ i + 1 \in 1 .. n /\ (i + 1) - 1 = i
    BY <2>1
  <2>3. f[i] = Shifted(v, k + 1)
    BY <1>5, <2>1, <2>2
  <2>4. f[i + 1] = (f[i] * Radix) + (Shifted(v, k) % Radix)
    BY <1>1, <1>3, <2>2
  <2> HIDE DEF k
  <2>5. Shifted(v, k) \in Nat /\ Shifted(v, k + 1) = Shifted(v, k) \div Radix
    BY <2>2, ShiftedIs
  <2>6. f[i + 1] = Shifted(v, k)
    <3> DEFINE w == Shifted(v, k)
    <3>1. f[i + 1] = ((w \div Radix) * Radix) + (w % Radix)
      BY <2>3, <2>4, <2>5
    <3>2. w \in Nat
      BY <2>5
    <3> HIDE DEF w
    <3>3. w = (Radix * (w \div Radix)) + (w % Radix) /\ w \div Radix \in Nat
      BY <3>2, Halves
    <3>4. (w \div Radix) * Radix = Radix * (w \div Radix)
      BY <3>3, RadixAssumption
    <3>5. QED
      BY <3>1, <3>3, <3>4 DEF w
  <2>7. QED
    BY <2>6 DEF k
<1>6. n \in T
  <2> HIDE DEF T
  <2>1. QED
    BY <1>4, <1>5, NatInduct
<1>7. f[n] = v
  <2>1. n - n = 0 /\ n <= n
    OBVIOUS
  <2>2. QED
    BY <1>6, <2>1, ShiftedIs
<1>8. Number(b) = v
  BY <1>3, <1>7
<1>9. QED
  BY <1>8 DEF b

(* What PUT_BE and PUT_LE write are so many bytes. *)
LEMMA PutTypes ==
  ASSUME NEW v \in Nat, NEW n \in Nat
  PROVE  /\ PutBE(v, n) \in Seq(Byte) /\ Len(PutBE(v, n)) = n
         /\ PutLE(v, n) \in Seq(Byte) /\ Len(PutLE(v, n)) = n
<1>1. \A i \in 1 .. n : Shifted(v, n - i) % Radix \in Nat /\ Shifted(v, i - 1) % Radix \in Nat
  <2> TAKE i \in 1 .. n
  <2>1. n - i \in Nat /\ i - 1 \in Nat
    OBVIOUS
  <2>2. QED
    BY <2>1, ShiftedIs, Halves
<1>2. \A i \in 1 .. n : /\ B(Shifted(v, n - i) % Radix) \in Byte
                        /\ B(Shifted(v, i - 1) % Radix) \in Byte
  BY <1>1, NamesAssumption DEF B, Byte
<1>3. QED
  BY <1>2 DEF PutBE, PutLE

(* The little end first is the big end first, backwards. *)
LEMMA ReverseOfPutLE ==
  ASSUME NEW v \in Nat, NEW n \in Nat
  PROVE  S!Reverse(PutLE(v, n)) = PutBE(v, n)
<1>1. \A i \in 1 .. n : (n - i) + 1 \in 1 .. n /\ ((n - i) + 1) - 1 = n - i
  OBVIOUS
<1>2. \A i \in 1 .. n : PutLE(v, n)[(n - i) + 1] = B(Shifted(v, n - i) % Radix)
  BY <1>1 DEF PutLE
<1>3. QED
  BY <1>2, PutTypes DEF S!Reverse, PutBE

(* Each length of a header has two digits. *)
LEMMA ShortFits ==
  ASSUME NEW v \in Nat, v < 36, NEW n \in {2, 4}
  PROVE  Fits(v, n)
<1>1. /\ Shifted(v, 0) = v
      /\ Shifted(v, 1) = v \div Radix /\ Shifted(v, 2) = Shifted(v, 1) \div Radix
      /\ Shifted(v, 3) = Shifted(v, 2) \div Radix /\ Shifted(v, 4) = Shifted(v, 3) \div Radix
  <2>1. 0 + 1 = 1 /\ 1 + 1 = 2 /\ 2 + 1 = 3 /\ 3 + 1 = 4
    OBVIOUS
  <2>2. QED
    BY <2>1, ShiftedIs
<1>2. \A w \in Nat : w < Radix => w \div Radix = 0
  BY RadixAssumption
<1>3. v \div Radix \in Nat /\ v \div Radix < 6
  BY Halves, RadixAssumption
<1>4. Shifted(v, 2) = 0
  BY <1>1, <1>2, <1>3, RadixAssumption
<1>5. Shifted(v, 4) = 0
  BY <1>1, <1>2, <1>4, RadixAssumption
<1>6. QED
  BY <1>4, <1>5 DEF Fits

(***************************************************************************)
(* Pieces of sequences.                                                    *)
(***************************************************************************)
LEMMA Prefixes ==
  ASSUME NEW V, NEW s \in Seq(V)
  PROVE  /\ SubSeq(s, 1, 0) = <<>> /\ SubSeq(s, 1, Len(s)) = s
         /\ \A n \in 0 .. Len(s) : SubSeq(s, 1, n) \in Seq(V) /\ Len(SubSeq(s, 1, n)) = n
         /\ \A n \in 0 .. Len(s) - 1 : SubSeq(s, 1, n + 1) = SubSeq(s, 1, n) \o <<s[n + 1]>>
<1>1. Len(s) \in Nat /\ \A i \in 1 .. Len(s) : s[i] \in V
  BY LenProperties, ElementOfSeq
<1>2. SubSeq(s, 1, 0) = <<>> /\ SubSeq(s, 1, Len(s)) = s
  BY SubSeqEmpty, SubSeqFull
<1>3. ASSUME NEW n \in 0 .. Len(s)
      PROVE  SubSeq(s, 1, n) \in Seq(V) /\ Len(SubSeq(s, 1, n)) = n
  <2>1. \A i \in 1 .. n : s[i] \in V
    BY <1>1
  <2>2. QED
    BY <1>1, <2>1, SubSeqProperties
<1>4. ASSUME NEW n \in 0 .. Len(s) - 1
      PROVE  SubSeq(s, 1, n + 1) = SubSeq(s, 1, n) \o <<s[n + 1]>>
  <2>1. 1 \in 1 .. Len(s) /\ n + 1 \in 1 .. Len(s) /\ (n + 1) - 1 = n
    BY <1>1
  <2>2. SubSeq(s, 1, n + 1) = SubSeq(s, 1, (n + 1) - 1) \o <<s[n + 1]>>
    BY <2>1, SubSeqRecursiveSecond
  <2>3. QED
    BY <2>1, <2>2
<1>5. QED
  BY <1>2, <1>3, <1>4

(* A piece byte by byte. *)
LEMMA PieceIs ==
  ASSUME NEW V, NEW s \in Seq(V), NEW from \in Nat, NEW n \in Nat, from + n <= Len(s)
  PROVE  /\ Piece(s, from, n) \in Seq(V) /\ Len(Piece(s, from, n)) = n
         /\ \A i \in 1 .. n : Piece(s, from, n)[i] = s[from + i]
<1>1. Len(s) \in Nat /\ \A i \in 1 .. Len(s) : s[i] \in V
  BY LenProperties, ElementOfSeq
<1> DEFINE a == from + 1
           b == from + n
<1>2. a \in Int /\ b \in Int /\ \A i \in a .. b : s[i] \in V
  BY <1>1
<1>3. (b - a) + 1 = n /\ (a <= b <=> n > 0) /\ \A i \in 1 .. n : (a + i) - 1 = from + i
  OBVIOUS
<1>4. Piece(s, from, n) = SubSeq(s, a, b)
  BY DEF Piece
<1> HIDE DEF a, b
<1>5. /\ SubSeq(s, a, b) \in Seq(V)
      /\ Len(SubSeq(s, a, b)) = IF a <= b THEN (b - a) + 1 ELSE 0
      /\ \A i \in 1 .. (b - a) + 1 : SubSeq(s, a, b)[i] = s[(a + i) - 1]
  BY <1>2, SubSeqProperties
<1>6. Len(SubSeq(s, a, b)) = n
  BY <1>2, <1>3, <1>5
<1>7. ASSUME NEW i \in 1 .. n PROVE SubSeq(s, a, b)[i] = s[from + i]
  <2>1. i \in 1 .. (b - a) + 1 /\ (a + i) - 1 = from + i
    BY <1>3
  <2>2. SubSeq(s, a, b)[i] = s[(a + i) - 1]
    BY <1>5, <2>1
  <2>3. QED
    BY <2>1, <2>2
<1>8. QED
  BY <1>4, <1>5, <1>6, <1>7

(* A piece of s is the same when something follows s. *)
LEMMA PieceFirst ==
  ASSUME NEW V, NEW s \in Seq(V), NEW t \in Seq(V),
         NEW from \in Nat, NEW n \in Nat, from + n <= Len(s)
  PROVE  Piece(s \o t, from, n) = Piece(s, from, n)
<1> DEFINE u == s \o t
<1>1. /\ u \in Seq(V) /\ Len(u) = Len(s) + Len(t)
      /\ Len(s) \in Nat /\ Len(t) \in Nat
      /\ \A i \in 1 .. Len(s) : u[i] = s[i]
  BY ConcatProperties, LenProperties
<1> HIDE DEF u
<1>2. u \in Seq(V) /\ from + n <= Len(u)
  BY <1>1
<1>3. /\ Piece(u, from, n) \in Seq(V) /\ Len(Piece(u, from, n)) = n
      /\ \A i \in 1 .. n : Piece(u, from, n)[i] = u[from + i]
  BY <1>2, PieceIs
<1>4. /\ Piece(s, from, n) \in Seq(V) /\ Len(Piece(s, from, n)) = n
      /\ \A i \in 1 .. n : Piece(s, from, n)[i] = s[from + i]
  BY PieceIs
<1>5. \A i \in 1 .. n : from + i \in 1 .. Len(s)
  BY <1>1
<1>6. \A i \in 1 .. n : Piece(u, from, n)[i] = Piece(s, from, n)[i]
  BY <1>1, <1>3, <1>4, <1>5
<1>7. Piece(u, from, n) = Piece(s, from, n)
  BY <1>3, <1>4, <1>6, SeqEqual
<1>8. QED
  BY <1>7 DEF u

(* A piece of what follows s, counted from the beginning of s. *)
LEMMA PieceSecond ==
  ASSUME NEW V, NEW s \in Seq(V), NEW t \in Seq(V),
         NEW from \in Nat, NEW n \in Nat, from + n <= Len(t)
  PROVE  Piece(s \o t, Len(s) + from, n) = Piece(t, from, n)
<1> DEFINE f == Len(s) + from
           u == s \o t
<1>1. /\ u \in Seq(V) /\ Len(u) = Len(s) + Len(t)
      /\ Len(s) \in Nat /\ Len(t) \in Nat
      /\ \A i \in 1 .. Len(s) + Len(t) :
           u[i] = IF i <= Len(s) THEN s[i] ELSE t[i - Len(s)]
  BY ConcatProperties, LenProperties
<1> HIDE DEF u
<1>2. f \in Nat /\ f + n <= Len(u) /\ u \in Seq(V)
  BY <1>1
<1>3. \A i \in 1 .. n : u[f + i] = t[from + i]
  <2> TAKE i \in 1 .. n
  <2>1. f + i \in 1 .. Len(s) + Len(t) /\ ~(f + i <= Len(s)) /\ (f + i) - Len(s) = from + i
    BY <1>1
  <2>2. QED
    BY <1>1, <2>1
<1> HIDE DEF f
<1>4. /\ Piece(u, f, n) \in Seq(V) /\ Len(Piece(u, f, n)) = n
      /\ \A i \in 1 .. n : Piece(u, f, n)[i] = u[f + i]
  BY <1>2, PieceIs
<1>5. /\ Piece(t, from, n) \in Seq(V) /\ Len(Piece(t, from, n)) = n
      /\ \A i \in 1 .. n : Piece(t, from, n)[i] = t[from + i]
  BY PieceIs
<1>6. \A i \in 1 .. n : Piece(u, f, n)[i] = Piece(t, from, n)[i]
  BY <1>3, <1>4, <1>5
<1>7. Piece(u, f, n) = Piece(t, from, n)
  BY <1>4, <1>5, <1>6, SeqEqual
<1>8. QED
  BY <1>7 DEF f, u

(* The piece that is everything. *)
LEMMA PieceWhole ==
  ASSUME NEW V, NEW s \in Seq(V)
  PROVE  Piece(s, 0, Len(s)) = s
<1>1. Len(s) \in Nat /\ 0 + 1 = 1 /\ 0 + Len(s) = Len(s)
  BY LenProperties
<1>2. QED
  BY <1>1, SubSeqFull DEF Piece

(* The piece in the middle of three. *)
LEMMA PieceMiddle ==
  ASSUME NEW V, NEW a \in Seq(V), NEW b \in Seq(V), NEW c \in Seq(V)
  PROVE  Piece(a \o b \o c, Len(a), Len(b)) = b
<1>1. Len(a) \in Nat /\ Len(b) \in Nat /\ a \o b \in Seq(V) /\ Len(a \o b) = Len(a) + Len(b)
  BY LenProperties, ConcatProperties
<1>2. Piece(a \o b \o c, Len(a), Len(b)) = Piece(a \o b, Len(a), Len(b))
  <2> DEFINE u == a \o b
  <2>1. u \in Seq(V) /\ Len(a) + Len(b) <= Len(u)
    BY <1>1
  <2> HIDE DEF u
  <2>2. Piece(u \o c, Len(a), Len(b)) = Piece(u, Len(a), Len(b))
    BY <1>1, <2>1, PieceFirst
  <2>3. QED
    BY <2>2 DEF u
<1>3. Len(a) + 0 = Len(a) /\ 0 + Len(b) <= Len(b)
  BY <1>1
<1>4. Piece(a \o b, Len(a) + 0, Len(b)) = Piece(b, 0, Len(b))
  BY <1>1, <1>3, PieceSecond
<1>5. QED
  BY <1>2, <1>3, <1>4, PieceWhole

(* Reading a number where it was put, whatever follows. *)
LEMMA NumberAtMiddle ==
  ASSUME NEW a \in Seq(Byte), NEW c \in Seq(Byte), NEW v \in Nat, NEW n \in Nat, Fits(v, n)
  PROVE  /\ NumberAt(a \o PutBE(v, n) \o c, Len(a), n) = v
         /\ LittleAt(a \o PutLE(v, n) \o c, Len(a), n) = v
<1>1. Piece(a \o PutBE(v, n) \o c, Len(a), n) = PutBE(v, n)
  BY PutTypes, PieceMiddle
<1>2. Piece(a \o PutLE(v, n) \o c, Len(a), n) = PutLE(v, n)
  BY PutTypes, PieceMiddle
<1>3. QED
  BY <1>1, <1>2, ReverseOfPutLE, NumberOfPutBE DEF NumberAt, LittleAt

(* A number that is in s is the same when something follows s. *)
LEMMA NumberAtFirst ==
  ASSUME NEW s \in Seq(Byte), NEW t \in Seq(Byte), NEW at \in Nat, NEW n \in Nat,
         at + n <= Len(s)
  PROVE  NumberAt(s \o t, at, n) = NumberAt(s, at, n) /\ LittleAt(s \o t, at, n) = LittleAt(s, at, n)
BY PieceFirst DEF NumberAt, LittleAt

(***************************************************************************)
(* Sequences one behind the other.                                         *)
(***************************************************************************)
LEMMA FlattenIs ==
  ASSUME NEW ss, Len(ss) \in Nat \ {0}
  PROVE  \E f :
           /\ f[1] = ss[1]
           /\ \A i \in 2 .. Len(ss) : f[i] = f[i - 1] \o ss[i]
           /\ S!FlattenSeq(ss) = f[Len(ss)]
<1> DEFINE n == Len(ss)
           Level(f, i) == IF i = 1 THEN ss[i] ELSE f[i - 1] \o ss[i]
           Is(f, m) == f = [i \in 1 .. m |-> Level(f, i)]
           flatten == CHOOSE f : Is(f, n)
           T == {m \in Nat : \E f : Is(f, m)}
<1>1. 0 \in T
  <2>1. \E f : f = [i \in 1 .. 0 |-> 0] /\ f = [i \in 1 .. 0 |-> Level(f, i)]
    OBVIOUS
  <2>2. QED
    BY <2>1
<1>2. ASSUME NEW m \in Nat, m \in T PROVE m + 1 \in T
  <2>1. PICK f : Is(f, m)
    BY <1>2
  <2> DEFINE g == [i \in 1 .. m + 1 |-> Level(f, i)]
  <2> HIDE DEF Level
  <2>2. \A i \in 1 .. m : g[i] = f[i]
    BY <2>1
  <2>3. ASSUME NEW i \in 1 .. m + 1 PROVE g[i] = Level(g, i)
    <3>1. i # 1 => i - 1 \in 1 .. m
      OBVIOUS
    <3>2. g[i] = Level(f, i)
      OBVIOUS
    <3> HIDE DEF g
    <3>3. QED
      BY <2>2, <3>1, <3>2 DEF Level
  <2>4. Is(g, m + 1)
    <3>1. g = [i \in 1 .. m + 1 |-> g[i]]
      OBVIOUS
    <3> HIDE DEF g
    <3>2. QED
      BY <2>3, <3>1
  <2> HIDE DEF g
  <2>5. QED
    BY <2>4
<1>3. n \in T
  <2> HIDE DEF T
  <2>1. QED
    BY <1>1, <1>2, NatInduct
<1>4. Is(flatten, n)
  BY <1>3
<1>5. S!FlattenSeq(ss) = flatten[n]
  BY DEF S!FlattenSeq
<1> HIDE DEF flatten
<1>6. flatten[1] = ss[1] /\ \A i \in 2 .. n : flatten[i] = flatten[i - 1] \o ss[i]
  <2>1. 1 \in 1 .. n /\ \A i \in 2 .. n : i \in 1 .. n /\ i # 1
    OBVIOUS
  <2>2. \A i \in 1 .. n : flatten[i] = Level(flatten, i)
    BY <1>4
  <2>3. QED
    BY <2>1, <2>2
<1>7. QED
  BY <1>5, <1>6

(* No sequences make an empty one. *)
LEMMA FlattenEmpty == S!FlattenSeq(<<>>) = <<>>
BY DEF S!FlattenSeq

(* One more sequence goes behind the others. *)
LEMMA FlattenAppend ==
  ASSUME NEW V, NEW ss \in Seq(Seq(V)), NEW x \in Seq(V)
  PROVE  /\ S!FlattenSeq(ss) \in Seq(V)
         /\ S!FlattenSeq(ss \o <<x>>) = S!FlattenSeq(ss) \o x
<1> DEFINE n == Len(ss)
           tt == ss \o <<x>>
<1>1. /\ n \in Nat /\ tt \in Seq(Seq(V)) /\ Len(tt) = n + 1
      /\ \A i \in 1 .. n : tt[i] = ss[i] /\ ss[i] \in Seq(V)
      /\ tt[n + 1] = x
  <2>1. <<x>> \in Seq(Seq(V)) /\ Len(<<x>>) = 1 /\ <<x>>[1] = x
    OBVIOUS
  <2>2. n \in Nat /\ \A i \in 1 .. n : ss[i] \in Seq(V)
    BY LenProperties, ElementOfSeq
  <2>3. /\ tt \in Seq(Seq(V)) /\ Len(tt) = n + 1
        /\ \A i \in 1 .. n + 1 : tt[i] = IF i <= n THEN ss[i] ELSE <<x>>[i - n]
    BY <2>1, <2>2, ConcatProperties
  <2> HIDE DEF n, tt
  <2>4. n + 1 \in 1 .. n + 1 /\ ~(n + 1 <= n) /\ (n + 1) - n = 1
    BY <2>2
  <2>5. QED
    BY <2>1, <2>2, <2>3, <2>4
<1> HIDE DEF tt
<1>2. Len(tt) \in Nat \ {0}
  BY <1>1
<1>3. PICK g : /\ g[1] = tt[1]
               /\ \A i \in 2 .. Len(tt) : g[i] = g[i - 1] \o tt[i]
               /\ S!FlattenSeq(tt) = g[Len(tt)]
  BY <1>2, FlattenIs
<1>4. CASE n = 0
  <2>1. ss = <<>>
    BY <1>4, EmptySeq, LenProperties
  <2>2. S!FlattenSeq(tt) = x
    BY <1>1, <1>3, <1>4
  <2>3. QED
    BY <2>1, <2>2, FlattenEmpty, ConcatEmptySeq, EmptySeq DEF tt
<1>5. CASE n # 0
  <2>1. PICK f : /\ f[1] = ss[1]
                 /\ \A i \in 2 .. n : f[i] = f[i - 1] \o ss[i]
                 /\ S!FlattenSeq(ss) = f[n]
    BY <1>1, <1>5, FlattenIs
  <2> DEFINE T == {i \in Nat : i + 1 <= n => f[i + 1] \in Seq(V) /\ g[i + 1] = f[i + 1]}
  <2>2. 0 \in T
    <3>1. 1 \in 1 .. n /\ 0 + 1 = 1
      BY <1>1, <1>5
    <3>2. QED
      BY <1>1, <1>3, <2>1, <3>1
  <2>3. ASSUME NEW i \in Nat, i \in T PROVE i + 1 \in T
    <3>1. SUFFICES ASSUME (i + 1) + 1 <= n
                   PROVE  f[(i + 1) + 1] \in Seq(V) /\ g[(i + 1) + 1] = f[(i + 1) + 1]
      OBVIOUS
    <3> DEFINE k == (i + 1) + 1
    <3>2. k \in 2 .. n /\ k \in 2 .. Len(tt) /\ k \in 1 .. n /\ k - 1 = i + 1 /\ i + 1 <= n
      BY <1>1, <3>1
    <3>3. f[k - 1] \in Seq(V) /\ g[k - 1] = f[k - 1]
      BY <2>3, <3>2
    <3> HIDE DEF k
    <3>4. f[k] = f[k - 1] \o ss[k] /\ g[k] = g[k - 1] \o tt[k]
      BY <1>3, <2>1, <3>2
    <3>5. tt[k] = ss[k] /\ ss[k] \in Seq(V)
      BY <1>1, <3>2
    <3>6. f[k] \in Seq(V) /\ g[k] = f[k]
      BY <3>3, <3>4, <3>5, ConcatProperties
    <3>7. QED
      BY <3>6 DEF k
  <2>4. f[n] \in Seq(V) /\ g[n] = f[n]
    <3>1. n - 1 \in Nat /\ (n - 1) + 1 = n /\ n <= n
      BY <1>1, <1>5
    <3>2. n - 1 \in T
      <4> HIDE DEF T
      <4>1. QED
        BY <2>2, <2>3, <3>1, NatInduct
    <3>3. QED
      BY <3>1, <3>2
  <2>5. n + 1 \in 2 .. Len(tt) /\ (n + 1) - 1 = n
    BY <1>1, <1>5
  <2>6. g[n + 1] = g[n] \o x
    BY <1>1, <1>3, <2>5
  <2>7. QED
    BY <1>1, <1>3, <2>1, <2>4, <2>6 DEF tt
<1>6. QED
  BY <1>4, <1>5

(* Sequences over V make a sequence over V. *)
LEMMA FlattenType ==
  ASSUME NEW V, NEW ss \in Seq(Seq(V))
  PROVE  S!FlattenSeq(ss) \in Seq(V)
<1>1. <<>> \in Seq(V)
  BY EmptySeq
<1>2. QED
  BY <1>1, FlattenAppend

(***************************************************************************)
(* Walk.                                                                   *)
(***************************************************************************)
LEMMA WalkStep ==
  ASSUME NEW end \in Nat, NEW found, NEW next, NEW at \in Nat
  PROVE  Walk(end, at, found, next) =
           IF at < end /\ next[at] \in at + 1 .. end
           THEN found[at] \o Walk(end, next[at], found, next) ELSE <<>>
<1> DEFINE Body(f, i) == IF i < end /\ next[i] \in i + 1 .. end
                         THEN found[i] \o f[next[i]] ELSE <<>>
           From == CHOOSE f : f = [i \in Nat |-> Body(f, i)]
           T == {d \in Nat : \E f : \A i \in Nat : i + d >= end => f[i] = Body(f, i)}
<1>1. 0 \in T
  <2> DEFINE f == [i \in Nat |-> <<>>]
  <2>1. ASSUME NEW i \in Nat, i + 0 >= end PROVE f[i] = Body(f, i)
    <3>1. ~(i < end) /\ f[i] = <<>>
      BY <2>1
    <3> HIDE DEF f
    <3>2. QED
      BY <3>1
  <2> HIDE DEF f
  <2>2. QED
    BY <2>1
<1>2. ASSUME NEW d \in Nat, d \in T PROVE d + 1 \in T
  <2>1. PICK f : \A i \in Nat : i + d >= end => f[i] = Body(f, i)
    BY <1>2
  <2> DEFINE g == [i \in Nat |-> IF i + d >= end THEN f[i] ELSE Body(f, i)]
  <2>2. ASSUME NEW i \in Nat, i + (d + 1) >= end PROVE g[i] = Body(g, i)
    <3>1. g[i] = Body(f, i)
      BY <2>1
    <3>2. ASSUME i < end, next[i] \in i + 1 .. end PROVE f[next[i]] = g[next[i]]
      <4>1. next[i] \in Nat /\ next[i] + d >= end
        BY <2>2, <3>2
      <4>2. QED
        BY <4>1
    <3> HIDE DEF g
    <3>3. QED
      BY <3>1, <3>2
  <2> HIDE DEF g
  <2>3. QED
    BY <2>2
<1>3. end \in T
  <2> HIDE DEF T
  <2>1. QED
    BY <1>1, <1>2, NatInduct
<1>4. PICK f : \A i \in Nat : f[i] = Body(f, i)
  <2>1. \A i \in Nat : i + end >= end
    OBVIOUS
  <2>2. QED
    BY <1>3, <2>1
<1> DEFINE g == [i \in Nat |-> f[i]]
<1>5. \A i \in Nat : Body(f, i) = Body(g, i)
  <2> TAKE i \in Nat
  <2>1. ASSUME next[i] \in i + 1 .. end PROVE f[next[i]] = g[next[i]]
    <3>1. next[i] \in Nat
      BY <2>1
    <3>2. QED
      BY <3>1
  <2> HIDE DEF g
  <2>2. QED
    BY <2>1
<1>6. g = [i \in Nat |-> Body(g, i)]
  <2>1. \A i \in Nat : f[i] = Body(g, i)
    BY <1>4, <1>5
  <2> DEFINE h == [i \in Nat |-> Body(g, i)]
  <2>2. h = g
    <3> HIDE DEF Body
    <3>1. QED
      BY <2>1
  <2>3. QED
    BY <2>2
<1> HIDE DEF g
<1>7. From = [i \in Nat |-> Body(From, i)]
  BY <1>6
<1>8. \A i \in Nat : Walk(end, i, found, next) = From[i]
  BY DEF Walk
<1> HIDE DEF From
<1>9. From[at] = Body(From, at)
  BY <1>7
<1>10. ASSUME next[at] \in at + 1 .. end PROVE Walk(end, next[at], found, next) = From[next[at]]
  <2>1. next[at] \in Nat
    BY <1>10
  <2>2. QED
    BY <1>8, <2>1
<1>11. Walk(end, at, found, next) = From[at]
  BY <1>8
<1>12. QED
  BY <1>9, <1>10, <1>11

(* A walk through something and one through its continuation, from d on, by
   something else: they stop at the same places and find the same there. *)
Continues(V, end, found, next, wide, found2, next2, d, stops) ==
  /\ end \in Nat /\ wide \in Nat /\ d \in end .. wide
  /\ stops \subseteq 0 .. end
  /\ \A at \in stops : at # end =>
       /\ next[at] \in stops /\ next[at] > at
       /\ found[at] \in Seq(V) /\ found2[at] = found[at]
       /\ next2[at] = IF next[at] = end THEN d ELSE next[at]
  /\ Walk(wide, d, found2, next2) \in Seq(V)

(* Behind what the first walk finds the second finds what there is from d
   on. *)
LEMMA WalkGrows ==
  ASSUME NEW V, NEW end, NEW found, NEW next, NEW wide, NEW found2, NEW next2, NEW d,
         NEW stops, Continues(V, end, found, next, wide, found2, next2, d, stops)
  PROVE  \A at \in stops :
           /\ Walk(end, at, found, next) \in Seq(V)
           /\ Walk(wide, IF at = end THEN d ELSE at, found2, next2)
                = Walk(end, at, found, next) \o Walk(wide, d, found2, next2)
<1>0. /\ end \in Nat /\ wide \in Nat /\ d \in end .. wide
      /\ stops \subseteq 0 .. end
      /\ \A at \in stops : at # end =>
           /\ next[at] \in stops /\ next[at] > at
           /\ found[at] \in Seq(V) /\ found2[at] = found[at]
           /\ next2[at] = IF next[at] = end THEN d ELSE next[at]
      /\ Walk(wide, d, found2, next2) \in Seq(V)
  BY DEF Continues
<1>00. d \in Nat /\ end <= d /\ d <= wide
  BY <1>0
<1> USE <1>0, <1>00
<1> DEFINE W(at) == Walk(end, at, found, next)
           W2(at) == Walk(wide, at, found2, next2)
           To(at) == IF at = end THEN d ELSE at
           Good(at) == W(at) \in Seq(V) /\ W2(To(at)) = W(at) \o W2(d)
           T == {k \in Nat : \A at \in stops : end - at <= k => Good(at)}
<1>1. ASSUME end \in stops PROVE Good(end)
  <2>1. W(end) = <<>>
    <3>1. ~(end < end)
      OBVIOUS
    <3>2. QED
      BY <3>1, WalkStep
  <2>2. W2(d) \in Seq(V)
    OBVIOUS
  <2> HIDE DEF W, W2
  <2>3. QED
    BY <2>1, <2>2, EmptySeq, ConcatEmptySeq
<1>2. 0 \in T
  <2>1. \A at \in stops : end - at <= 0 => at = end
    OBVIOUS
  <2> HIDE DEF Good
  <2>2. QED
    BY <1>1, <2>1
<1>3. ASSUME NEW k \in Nat, k \in T PROVE k + 1 \in T
  <2>1. SUFFICES ASSUME NEW at \in stops, end - at <= k + 1, at # end PROVE Good(at)
    <3> HIDE DEF Good
    <3>1. QED
      BY <1>1
  <2>2. /\ at \in Nat /\ at < end
        /\ next[at] \in stops /\ next[at] > at /\ next[at] \in 0 .. end
        /\ found[at] \in Seq(V) /\ found2[at] = found[at]
        /\ next2[at] = To(next[at])
    <3>1. at \in 0 .. end
      OBVIOUS
    <3>2. /\ next[at] \in stops /\ next[at] > at
          /\ found[at] \in Seq(V) /\ found2[at] = found[at]
          /\ next2[at] = To(next[at])
      BY <2>1
    <3>3. next[at] \in 0 .. end
      BY <3>2
    <3> HIDE DEF To
    <3>4. QED
      BY <2>1, <3>1, <3>2, <3>3
  <2> DEFINE n == next[at]
  <2>3. n \in stops /\ end - n <= k /\ n \in at + 1 .. end /\ To(n) \in at + 1 .. wide /\ at < wide
    BY <2>1, <2>2
  <2>4. Good(n)
    <3> HIDE DEF Good, n
    <3>1. QED
      BY <1>3, <2>3
  <2>5. W(at) = found[at] \o W(n)
    BY <2>2, <2>3, WalkStep
  <2>6. W2(at) = found[at] \o W2(To(n))
    <3>1. W2(at) = found2[at] \o W2(next2[at])
      <4>1. at \in Nat /\ at < wide /\ next2[at] \in at + 1 .. wide
        <5> HIDE DEF To
        <5>1. QED
          BY <2>2, <2>3
      <4>2. QED
        BY <4>1, WalkStep
    <3>2. QED
      BY <2>2, <3>1
  <2>7. To(at) = at /\ W2(d) \in Seq(V)
    BY <2>1
  <2> HIDE DEF W, W2, To, n
  <2>8. W(n) \in Seq(V) /\ W2(To(n)) = W(n) \o W2(d) /\ found[at] \in Seq(V)
    BY <2>2, <2>4
  <2>9. W(at) \in Seq(V)
    BY <2>5, <2>8, ConcatProperties
  <2>10. found[at] \o (W(n) \o W2(d)) = (found[at] \o W(n)) \o W2(d)
    <3>1. \A x, y, z \in Seq(V) : x \o (y \o z) = (x \o y) \o z
      BY ONLY ConcatAssociative
    <3>2. QED
      BY <2>7, <2>8, <3>1
  <2>11. QED
    BY <2>5, <2>6, <2>7, <2>8, <2>9, <2>10
<1>4. Nat \subseteq T
  <2> HIDE DEF T
  <2>1. QED
    BY <1>2, <1>3, NatInduct
<1>5. \A at \in stops : Good(at)
  <2> TAKE at \in stops
  <2>1. end - at \in Nat /\ end - at <= end - at
    OBVIOUS
  <2> HIDE DEF Good
  <2>2. QED
    BY <1>4, <2>1
<1>6. QED
  BY <1>5

(* Bytes are a natural number. *)
LEMMA NumberType ==
  ASSUME NEW b \in Seq(Byte)
  PROVE  Number(b) \in Nat
<1> DEFINE n == Len(b)
<1>1. n \in Nat /\ \A i \in 1 .. n : b[i][2] \in Nat
  <2>1. n \in Nat /\ \A i \in 1 .. n : b[i] \in Byte
    BY LenProperties, ElementOfSeq
  <2>2. QED
    BY <2>1 DEF Byte
<1>2. Len(b) = n /\ Len(b) \in Nat
  BY <1>1
<1> HIDE DEF n
<1>3. PICK f :
        /\ f[0] = 0
        /\ \A i \in 1 .. Len(b) : f[i] = (f[i - 1] * Radix) + b[i][2]
        /\ Number(b) = f[Len(b)]
  BY <1>2, NumberIs
<1> DEFINE T == {i \in Nat : i <= n => f[i] \in Nat}
<1>4. 0 \in T
  BY <1>3
<1>5. ASSUME NEW i \in Nat, i \in T PROVE i + 1 \in T
  <2>1. SUFFICES ASSUME i + 1 <= n PROVE f[i + 1] \in Nat
    OBVIOUS
  <2>2. i + 1 \in 1 .. Len(b) /\ i + 1 \in 1 .. n /\ (i + 1) - 1 = i /\ f[i] \in Nat
    BY <1>2, <1>5, <2>1
  <2>3. f[i + 1] = (f[i] * Radix) + b[i + 1][2] /\ b[i + 1][2] \in Nat
    BY <1>1, <1>3, <2>2
  <2>4. QED
    BY <2>2, <2>3, RadixAssumption
<1>6. n \in T
  <2> HIDE DEF T
  <2>1. QED
    BY <1>1, <1>4, <1>5, NatInduct
<1>7. f[n] \in Nat
  BY <1>1, <1>6
<1>8. QED
  BY <1>2, <1>3, <1>7

(* So are the bytes at an offset, in either order. *)
LEMMA NumberAtType ==
  ASSUME NEW s \in Seq(Byte), NEW at \in Nat, NEW n \in Nat, at + n <= Len(s)
  PROVE  NumberAt(s, at, n) \in Nat /\ LittleAt(s, at, n) \in Nat
<1> DEFINE p == Piece(s, at, n)
<1>1. p \in Seq(Byte)
  BY PieceIs
<1> HIDE DEF p
<1>2. S!Reverse(p) \in Seq(Byte)
  <2>1. Len(p) \in Nat /\ \A i \in 1 .. Len(p) : p[i] \in Byte
    BY <1>1, LenProperties, ElementOfSeq
  <2>2. \A i \in 1 .. Len(p) : p[(Len(p) - i) + 1] \in Byte
    BY <2>1
  <2>3. QED
    BY <2>1, <2>2 DEF S!Reverse
<1>3. Number(p) \in Nat /\ Number(S!Reverse(p)) \in Nat
  BY <1>1, <1>2, NumberType
<1>4. QED
  BY <1>3 DEF p, NumberAt, LittleAt

(***************************************************************************)
(* Pictures.                                                               *)
(***************************************************************************)

(* From an offset on there are pictures, up to the end. *)
EndsWhole(s, from, header, digits) ==
  \E stops \in SUBSET (0 .. Len(s)) :
    /\ from \in stops
    /\ \A at \in stops : at # Len(s) =>
         at + header <= Len(s) /\ at + header + LittleAt(s, at, digits) \in stops

(* A picture behind a header that tells its length is found behind those that
   were there, and the stream still ends with a picture. *)
LEMMA PicturesGrow ==
  ASSUME NEW s \in Seq(Byte), NEW h \in Seq(Byte), NEW x \in Seq(Byte),
         NEW from \in Nat, NEW digits \in Nat,
         digits <= Len(h), Len(h) > 0,
         EndsWhole(s, from, Len(h), digits),
         LittleAt(h, 0, digits) = Len(x)
  PROVE  /\ EndsWhole(s \o (h \o x), from, Len(h), digits)
         /\ Pictures(s, from, Len(h), digits) \in Seq(Seq(Byte))
         /\ Pictures(s \o (h \o x), from, Len(h), digits)
              = Pictures(s, from, Len(h), digits) \o <<x>>
<1> DEFINE header == Len(h)
           z == h \o x
           t == s \o z
           end == Len(s)
           wide == Len(t)
           found == [at \in Nat |-> <<Piece(s, at + header, LittleAt(s, at, digits))>>]
           next == [at \in Nat |-> at + header + LittleAt(s, at, digits)]
           found2 == [at \in Nat |-> <<Piece(t, at + header, LittleAt(t, at, digits))>>]
           next2 == [at \in Nat |-> at + header + LittleAt(t, at, digits)]
<1>1. /\ z \in Seq(Byte) /\ Len(z) = Len(h) + Len(x)
      /\ Len(h) \in Nat /\ Len(x) \in Nat
  BY ConcatProperties, LenProperties
<1>2. t \in Seq(Byte) /\ Len(t) = Len(s) + Len(z) /\ Len(s) \in Nat
  <2>1. z \in Seq(Byte)
    BY <1>1
  <2> HIDE DEF z
  <2>2. QED
    BY <2>1, ConcatProperties, LenProperties
<1>3. end \in Nat /\ wide \in Nat /\ header \in Nat /\ header > 0 /\ wide = end + header + Len(x)
  BY <1>1, <1>2
<1>4. PICK stops \in SUBSET (0 .. Len(s)) :
        /\ from \in stops
        /\ \A at \in stops : at # Len(s) =>
         at + header <= Len(s) /\ at + header + LittleAt(s, at, digits) \in stops
  BY DEF EndsWhole
<1>5. ASSUME NEW at \in stops, at # end
      PROVE  /\ at \in Nat /\ next[at] \in stops /\ next[at] > at
             /\ found[at] \in Seq(Seq(Byte))
             /\ found2[at] = found[at] /\ next2[at] = next[at]
  <2>0. z \in Seq(Byte) /\ t \in Seq(Byte)
    BY <1>1, <1>2
  <2> DEFINE n == LittleAt(s, at, digits)
  <2>1. at \in Nat /\ at + header + n \in stops /\ at + header + n \in 0 .. end
    <3> HIDE DEF n, header
    <3>1. at \in 0 .. Len(s)
      BY <1>4
    <3>2. at + header + n \in stops
      BY <1>4, <1>5 DEF n
    <3>3. \A i \in stops : i \in 0 .. Len(s)
      BY <1>4
    <3>4. at \in Nat
      BY <3>1
    <3>5. at + header + n \in 0 .. Len(s)
      BY <3>2, <3>3
    <3>6. QED
      BY <3>2, <3>4, <3>5
  <2>2. at + digits <= Len(s)
    BY <1>3, <1>4, <1>5, <2>1
  <2>3. n \in Nat
    BY <2>1, <2>2, NumberAtType
  <2>4. LittleAt(t, at, digits) = n
    <3> HIDE DEF z
    <3>1. QED
      BY <2>0, <2>1, <2>2, NumberAtFirst
  <2> DEFINE a == at + header
  <2>5. a \in Nat /\ a + n <= Len(s)
    BY <1>3, <2>1, <2>3
  <2>6. Piece(s, a, n) \in Seq(Byte) /\ Piece(t, a, n) = Piece(s, a, n)
    <3> HIDE DEF n, a, z
    <3>1. QED
      BY <2>0, <2>3, <2>5, PieceIs, PieceFirst, SMTT(30)
  <2>7. found[at] = <<Piece(s, a, n)>> /\ found2[at] = <<Piece(t, a, n)>>
    BY <2>1, <2>4
  <2>8. next[at] = a + n /\ next2[at] = a + n
    BY <2>1, <2>4
  <2>9. a + n > at /\ a + n \in stops
    BY <1>3, <2>1, <2>3
  <2> HIDE DEF found, next, found2, next2, n, t, a
  <2>10. <<Piece(s, a, n)>> \in Seq(Seq(Byte))
    BY <2>6
  <2>11. QED
    BY <2>1, <2>6, <2>7, <2>8, <2>9, <2>10
<1>6. LittleAt(t, end, digits) = Len(x)
  <2>1. Piece(t, end + 0, digits) = Piece(z, 0, digits)
    <3>1. z \in Seq(Byte) /\ 0 + digits <= Len(z)
      BY <1>1, <1>3
    <3> HIDE DEF z
    <3>2. QED
      BY <3>1, PieceSecond
  <2>2. Piece(z, 0, digits) = Piece(h, 0, digits)
    <3>1. 0 + digits <= Len(h)
      BY <1>1
    <3>2. QED
      BY <3>1, PieceFirst
  <2>3. end + 0 = end
    BY <1>3
  <2>4. QED
    BY <2>1, <2>2, <2>3 DEF LittleAt
<1>7. Piece(t, end + header, Len(x)) = x
  <2>1. Piece(t, end + Len(h), Len(x)) = Piece(z, Len(h), Len(x))
    <3> DEFINE k == Len(h)
               m == Len(x)
    <3>1. z \in Seq(Byte) /\ k + m <= Len(z) /\ k \in Nat /\ m \in Nat
      BY <1>1
    <3> HIDE DEF z, k, m
    <3>2. Piece(s \o z, Len(s) + k, m) = Piece(z, k, m)
      BY <3>1, PieceSecond
    <3>3. QED
      BY <3>2 DEF k, m
  <2>2. Piece(z, Len(h) + 0, Len(x)) = Piece(x, 0, Len(x))
    <3>1. 0 + Len(x) <= Len(x) /\ Len(x) \in Nat
      BY <1>1
    <3>2. QED
      BY <3>1, PieceSecond
  <2>3. Len(h) + 0 = Len(h) /\ header = Len(h)
    BY <1>1
  <2>4. QED
    BY <2>1, <2>2, <2>3, PieceWhole
<1>8. found2[end] = <<x>> /\ next2[end] = wide
  BY <1>3, <1>6, <1>7
<1> DEFINE W(at) == Walk(end, at, found, next)
           W2(at) == Walk(wide, at, found2, next2)
<1>9. Pictures(s, from, header, digits) = W(from) /\ Pictures(t, from, header, digits) = W2(from)
  BY DEF Pictures
<1>10. EndsWhole(t, from, header, digits)
  <2> DEFINE stops2 == stops \cup {wide}
  <2>1. from \in stops2 /\ stops2 \in SUBSET (0 .. wide)
    <3>1. stops \subseteq 0 .. end /\ from \in stops
      BY <1>4
    <3> HIDE DEF wide, end, header
    <3>2. end <= wide /\ wide \in 0 .. wide
      BY <1>1, <1>3
    <3>3. \A i \in 0 .. end : i \in 0 .. wide
      BY <1>3, <3>2
    <3>4. QED
      BY <3>1, <3>2, <3>3
  <2>2. ASSUME NEW at \in stops2, at # wide
        PROVE  /\ at + header <= wide
               /\ at + header + LittleAt(t, at, digits) \in stops2
    <3>1. CASE at = end
      <4> HIDE DEF t, header, end, wide
      <4>1. QED
        BY <1>1, <1>3, <1>6, <3>1, SMTT(30)
    <3>2. CASE at # end
      <4>1. at \in stops /\ at + header <= end /\ next2[at] \in stops /\ at \in Nat
        BY <1>4, <1>5, <2>2, <3>2
      <4>2. next2[at] = at + header + LittleAt(t, at, digits)
        BY <4>1
      <4> HIDE DEF next2, t, header
      <4>3. QED
        BY <1>3, <4>1, <4>2
    <3>3. QED
      BY <3>1, <3>2
  <2> HIDE DEF t, header
  <2>3. QED
    BY <1>4, <2>1, <2>2 DEF EndsWhole
<1> HIDE DEF found, next, found2, next2, t, z, header, end, wide
<1>11. W2(wide) = <<>>
  <2>1. ~(wide < wide)
    BY <1>3
  <2>2. QED
    BY <1>3, <2>1, WalkStep
<1>12. W2(end) = <<x>>
  <2>1. end < wide /\ next2[end] \in end + 1 .. wide
    BY <1>1, <1>3, <1>8
  <2>2. W2(end) = found2[end] \o W2(next2[end])
    BY <1>3, <2>1, WalkStep
  <2>3. <<x>> \in Seq(Seq(Byte))
    OBVIOUS
  <2> HIDE DEF W2
  <2>4. QED
    BY <1>8, <1>11, <2>2, <2>3, ConcatEmptySeq
<1>13. \A at \in stops :
         W(at) \in Seq(Seq(Byte)) /\ W2(IF at = end THEN end ELSE at) = W(at) \o W2(end)
  <2> DEFINE V == Seq(Byte)
  <2>1. stops \subseteq 0 .. end
    BY <1>4 DEF end
  <2>2. end <= end /\ end <= wide
    BY <1>1, <1>3
  <2>3. \A at \in stops : at # end =>
           /\ next[at] \in stops /\ next[at] > at
           /\ found[at] \in Seq(V) /\ found2[at] = found[at]
           /\ next2[at] = IF next[at] = end THEN end ELSE next[at]
    BY <1>5
  <2>4. Walk(wide, end, found2, next2) \in Seq(V)
    BY <1>12
  <2>5. end \in Nat /\ wide \in Nat
    BY <1>3
  <2> HIDE DEF V
  <2>6. \A at \in stops :
          /\ Walk(end, at, found, next) \in Seq(V)
          /\ Walk(wide, IF at = end THEN end ELSE at, found2, next2)
               = Walk(end, at, found, next) \o Walk(wide, end, found2, next2)
    <3>1. Continues(V, end, found, next, wide, found2, next2, end, stops)
      BY <2>1, <2>2, <2>3, <2>4, <2>5 DEF Continues
    <3>2. QED
      BY <3>1, WalkGrows
  <2>7. QED
    BY <2>6 DEF V
<1>14. W(from) \in Seq(Seq(Byte)) /\ W2(from) = W(from) \o <<x>>
  <2>1. (IF from = end THEN end ELSE from) = from
    OBVIOUS
  <2> HIDE DEF W, W2
  <2>2. QED
    BY <1>4, <1>12, <1>13, <2>1
<1>15. QED
  BY <1>9, <1>10, <1>14 DEF t, z, header

(***************************************************************************)
(* How a sequence of bytes begins.                                         *)
(***************************************************************************)
Starts(s, h) == \E t \in Seq(Byte) : s = h \o t

(* A sequence begins with itself. *)
LEMMA StartsItself ==
  ASSUME NEW s \in Seq(Byte)
  PROVE  Starts(s, s)
<1>1. s = s \o <<>> /\ <<>> \in Seq(Byte)
  BY ConcatEmptySeq, EmptySeq
<1>2. QED
  BY <1>1 DEF Starts

(* What it begins with stays when something is appended. *)
LEMMA StartsGrows ==
  ASSUME NEW h \in Seq(Byte), NEW s, NEW t \in Seq(Byte), Starts(s, h)
  PROVE  Starts(s \o t, h)
<1>1. PICK r \in Seq(Byte) : s = h \o r
  BY DEF Starts
<1>2. s \o t = h \o (r \o t)
  BY <1>1, ConcatAssociative
<1>3. r \o t \in Seq(Byte)
  BY ConcatProperties
<1>4. QED
  BY <1>2, <1>3 DEF Starts

(* What begins with a and b begins with a, and b is found behind it. *)
LEMMA StartsLess ==
  ASSUME NEW a \in Seq(Byte), NEW b \in Seq(Byte), NEW s, Starts(s, a \o b)
  PROVE  /\ Starts(s, a)
         /\ Piece(s, Len(a), Len(b)) = b
         /\ a \o b \in Seq(Byte) /\ Len(a \o b) = Len(a) + Len(b)
         /\ Len(a) \in Nat /\ Len(b) \in Nat
<1>1. PICK t \in Seq(Byte) : s = (a \o b) \o t
  BY DEF Starts
<1>2. s = a \o (b \o t)
  BY <1>1, ConcatAssociative, SMTT(30)
<1>3. b \o t \in Seq(Byte)
  BY ConcatProperties
<1>4. Starts(s, a)
  BY <1>2, <1>3 DEF Starts
<1>5. Piece(s, Len(a), Len(b)) = b
  BY <1>1, PieceMiddle
<1>6. QED
  BY <1>4, <1>5, ConcatProperties, LenProperties

(* A number that was put behind a is read from anything that begins so. *)
LEMMA StartsNumber ==
  ASSUME NEW a \in Seq(Byte), NEW v \in Nat, NEW n \in Nat, Fits(v, n), NEW s
  PROVE  /\ Starts(s, a \o PutBE(v, n)) => NumberAt(s, Len(a), n) = v
         /\ Starts(s, a \o PutLE(v, n)) => LittleAt(s, Len(a), n) = v
<1>1. ASSUME Starts(s, a \o PutBE(v, n)) PROVE NumberAt(s, Len(a), n) = v
  <2>1. PICK c \in Seq(Byte) : s = a \o PutBE(v, n) \o c
    BY <1>1 DEF Starts
  <2>2. QED
    BY <2>1, NumberAtMiddle
<1>2. ASSUME Starts(s, a \o PutLE(v, n)) PROVE LittleAt(s, Len(a), n) = v
  <2>1. PICK c \in Seq(Byte) : s = a \o PutLE(v, n) \o c
    BY <1>2 DEF Starts
  <2>2. QED
    BY <2>1, NumberAtMiddle
<1>3. QED
  BY <1>1, <1>2

(* What is not looked at is so many bytes too. *)
LEMMA SomeType ==
  ASSUME NEW name \in Names, NEW n \in Nat
  PROVE  Some(name, n) \in Seq(Byte) /\ Len(Some(name, n)) = n
BY DEF Some, Byte

(* A header whose size is right is written as it is. *)
LEMMA WrittenIs ==
  ASSUME NEW b \in Seq(Byte), NEW n, n = Len(b)
  PROVE  Written(Header(n, b)) = b
<1> DEFINE z == [i \in 1 .. n |-> B(0)]
<1>1. n \in Nat /\ B(0) \in Byte
  BY LenProperties, NamesAssumption DEF B, Byte
<1>2. z \in Seq(Byte)
  BY <1>1
<1>3. Written(Header(n, b)) = Piece(b \o z, 0, n)
  BY DEF Written, Header
<1> HIDE DEF z
<1>4. 0 + n <= Len(b)
  BY <1>1
<1>5. Piece(b \o z, 0, n) = Piece(b, 0, n)
  BY <1>1, <1>2, <1>4, PieceFirst
<1>6. QED
  BY <1>3, <1>5, PieceWhole

(* Of no header nothing is written. *)
LEMMA WrittenNothing ==
  Written(NoHeader) = <<>>
<1>1. <<>> \in Seq(Byte) /\ Len(<<>>) = 0
  BY EmptySeq
<1>2. QED
  BY <1>1, WrittenIs DEF NoHeader

(***************************************************************************)
(* The headers of the formats that have one.                               *)
(***************************************************************************)
LEMMA RcvHeaderIs ==
  ASSUME NEW data \in Seq(Byte), Fits(Len(data), 4)
  PROVE  /\ Written(RcvHeader(data)) \in Seq(Byte)
         /\ Len(Written(RcvHeader(data))) = 32 + Len(data)
         /\ \A s : Starts(s, Written(RcvHeader(data))) =>
              /\ LittleAt(s, 4, 4) = Len(data)
              /\ Piece(s, 8, Len(data)) = data
              /\ LittleAt(s, 8 + Len(data) + 8, 4) = 12
<1> DEFINE n == Len(data)
           b1 == Some("C5", 4)
           b2 == PutLE(n, 4)
           b3 == data
           b4 == Some("height", 4)
           b5 == Some("width", 4)
           b6 == PutLE(12, 4)
           b7 == Some("first", 4)
           b8 == Some("bit_rate", 4)
           b9 == Some("frameRate", 4)
           a2 == b1 \o b2
           a3 == a2 \o b3
           a4 == a3 \o b4
           a5 == a4 \o b5
           a6 == a5 \o b6
           a7 == a6 \o b7
           a8 == a7 \o b8
           a9 == a8 \o b9
<1>1. n \in Nat /\ Fits(12, 4) /\ Fits(n, 4) /\ 12 \in Nat /\ 4 \in Nat
  BY LenProperties, ShortFits
<1>2. /\ b1 \in Seq(Byte) /\ Len(b1) = 4 /\ b4 \in Seq(Byte) /\ Len(b4) = 4
      /\ b5 \in Seq(Byte) /\ Len(b5) = 4 /\ b7 \in Seq(Byte) /\ Len(b7) = 4
      /\ b8 \in Seq(Byte) /\ Len(b8) = 4 /\ b9 \in Seq(Byte) /\ Len(b9) = 4
  BY SomeType, NamesAssumption
<1> HIDE DEF n
<1>3. /\ b2 \in Seq(Byte) /\ Len(b2) = 4 /\ b6 \in Seq(Byte) /\ Len(b6) = 4
      /\ b3 \in Seq(Byte) /\ Len(b3) = n
  BY <1>1, PutTypes DEF n
<1>4. RcvHeader(data) = Header(32 + n, a9)
  BY DEF RcvHeader, n
<1> HIDE DEF b1, b2, b3, b4, b5, b6, b7, b8, b9
<1>5. a2 \in Seq(Byte) /\ Len(a2) = 8
  <2>1. a2 \in Seq(Byte) /\ Len(a2) = Len(b1) + Len(b2)
    BY <1>2, <1>3, ConcatProperties
  <2>2. QED
    BY <1>1, <1>2, <1>3, <2>1
<1> HIDE DEF a2
<1>6. a3 \in Seq(Byte) /\ Len(a3) = 8 + n
  <2>1. a3 \in Seq(Byte) /\ Len(a3) = Len(a2) + Len(b3)
    BY <1>2, <1>3, <1>5, ConcatProperties
  <2>2. QED
    BY <1>1, <1>2, <1>3, <1>5, <2>1
<1> HIDE DEF a3
<1>7. a4 \in Seq(Byte) /\ Len(a4) = 12 + n
  <2>1. a4 \in Seq(Byte) /\ Len(a4) = Len(a3) + Len(b4)
    BY <1>2, <1>3, <1>6, ConcatProperties
  <2>2. QED
    BY <1>1, <1>2, <1>3, <1>6, <2>1
<1> HIDE DEF a4
<1>8. a5 \in Seq(Byte) /\ Len(a5) = 16 + n
  <2>1. a5 \in Seq(Byte) /\ Len(a5) = Len(a4) + Len(b5)
    BY <1>2, <1>3, <1>7, ConcatProperties
  <2>2. QED
    BY <1>1, <1>2, <1>3, <1>7, <2>1
<1> HIDE DEF a5
<1>9. a6 \in Seq(Byte) /\ Len(a6) = 20 + n
  <2>1. a6 \in Seq(Byte) /\ Len(a6) = Len(a5) + Len(b6)
    BY <1>2, <1>3, <1>8, ConcatProperties
  <2>2. QED
    BY <1>1, <1>2, <1>3, <1>8, <2>1
<1> HIDE DEF a6
<1>10. a7 \in Seq(Byte) /\ Len(a7) = 24 + n
  <2>1. a7 \in Seq(Byte) /\ Len(a7) = Len(a6) + Len(b7)
    BY <1>2, <1>3, <1>9, ConcatProperties
  <2>2. QED
    BY <1>1, <1>2, <1>3, <1>9, <2>1
<1> HIDE DEF a7
<1>11. a8 \in Seq(Byte) /\ Len(a8) = 28 + n
  <2>1. a8 \in Seq(Byte) /\ Len(a8) = Len(a7) + Len(b8)
    BY <1>2, <1>3, <1>10, ConcatProperties
  <2>2. QED
    BY <1>1, <1>2, <1>3, <1>10, <2>1
<1> HIDE DEF a8
<1>12. a9 \in Seq(Byte) /\ Len(a9) = 32 + n
  <2>1. a9 \in Seq(Byte) /\ Len(a9) = Len(a8) + Len(b9)
    BY <1>2, <1>3, <1>11, ConcatProperties
  <2>2. QED
    BY <1>1, <1>2, <1>3, <1>11, <2>1
<1>13. Written(RcvHeader(data)) = a9
  <2> HIDE DEF a9
  <2>1. QED
    BY <1>4, <1>12, WrittenIs
<1>14. ASSUME NEW s, Starts(s, a9)
       PROVE  /\ LittleAt(s, 4, 4) = n /\ Piece(s, 8, n) = data
              /\ LittleAt(s, 8 + n + 8, 4) = 12
  <2>1. Starts(s, a8)
    BY <1>2, <1>11, <1>14, StartsLess
  <2>2. Starts(s, a7)
    BY <1>2, <1>10, <2>1, StartsLess DEF a8
  <2>3. Starts(s, a6)
    BY <1>2, <1>9, <2>2, StartsLess DEF a7
  <2>4. Starts(s, a5)
    BY <1>3, <1>8, <2>3, StartsLess DEF a6
  <2>5. Starts(s, a4)
    BY <1>2, <1>7, <2>4, StartsLess DEF a5
  <2>6. Starts(s, a3)
    BY <1>2, <1>6, <2>5, StartsLess DEF a4
  <2>7. Starts(s, a2) /\ Piece(s, Len(a2), Len(b3)) = b3
    BY <1>3, <1>5, <2>6, StartsLess DEF a3
  <2>8. LittleAt(s, Len(b1), 4) = n
    BY <1>1, <1>2, <2>7, StartsNumber DEF a2, b2
  <2>9. LittleAt(s, Len(a5), 4) = 12
    BY <1>1, <1>8, <2>3, StartsNumber DEF a6, b6
  <2>10. 8 + n + 8 = 16 + n
    BY <1>1
  <2>11. Piece(s, 8, n) = data
    BY <1>3, <1>5, <2>7 DEF b3
  <2>12. QED
    BY <1>2, <1>8, <2>8, <2>9, <2>10, <2>11
<1>15. QED
  <2> HIDE DEF a9
  <2>1. QED
    BY <1>12, <1>13, <1>14 DEF n

(* The same of a number at the beginning. *)
LEMMA StartsNumberFirst ==
  ASSUME NEW v \in Nat, NEW n \in Nat, Fits(v, n), NEW s
  PROVE  /\ Starts(s, PutBE(v, n)) => NumberAt(s, 0, n) = v
         /\ Starts(s, PutLE(v, n)) => LittleAt(s, 0, n) = v
<1>1. PutBE(v, n) = <<>> \o PutBE(v, n) /\ PutLE(v, n) = <<>> \o PutLE(v, n)
  BY PutTypes, ConcatEmptySeq
<1>2. <<>> \in Seq(Byte) /\ Len(<<>>) = 0
  BY EmptySeq
<1>3. QED
  BY <1>1, <1>2, StartsNumber, ZenonT(30)

(* The header of an IVF file has 32 bytes and says so. *)
LEMMA IvfHeaderIs ==
  ASSUME NEW signature \in Names, NEW fourcc \in Names
  PROVE  LET h == Written(IvfHeader(signature, fourcc))
         IN /\ h \in Seq(Byte) /\ Len(h) = 32
            /\ \A s : Starts(s, h) => LittleAt(s, 6, 2) = 32
<1> DEFINE b1 == Some(signature, 4)
           b2 == PutLE(0, 2)
           b3 == PutLE(32, 2)
           b4 == Some(fourcc, 4)
           b5 == Some("width", 2)
           b6 == Some("height", 2)
           b7 == Some("rate", 4)
           b8 == Some("scale", 4)
           b9 == Some("entries", 4)
           b10 == PutLE(0, 4)
           a2 == b1 \o b2
           a3 == a2 \o b3
           a4 == a3 \o b4
           a5 == a4 \o b5
           a6 == a5 \o b6
           a7 == a6 \o b7
           a8 == a7 \o b8
           a9 == a8 \o b9
           a10 == a9 \o b10
<1>1. 32 \in Nat /\ 0 \in Nat /\ 2 \in Nat /\ 4 \in Nat /\ Fits(32, 2)
  BY ShortFits
<1>2. /\ b1 \in Seq(Byte) /\ Len(b1) = 4
      /\ b4 \in Seq(Byte) /\ Len(b4) = 4
      /\ b5 \in Seq(Byte) /\ Len(b5) = 2
      /\ b6 \in Seq(Byte) /\ Len(b6) = 2
      /\ b7 \in Seq(Byte) /\ Len(b7) = 4
      /\ b8 \in Seq(Byte) /\ Len(b8) = 4
      /\ b9 \in Seq(Byte) /\ Len(b9) = 4
  BY SomeType, NamesAssumption
<1>3. /\ b2 \in Seq(Byte) /\ Len(b2) = 2
      /\ b3 \in Seq(Byte) /\ Len(b3) = 2
      /\ b10 \in Seq(Byte) /\ Len(b10) = 4
  BY PutTypes
<1>4. IvfHeader(signature, fourcc) = Header(32, a10)
  BY DEF IvfHeader
<1> HIDE DEF b1, b2, b3, b4, b5, b6, b7, b8, b9, b10
<1>5. a2 \in Seq(Byte) /\ Len(a2) = 6
  <2>1. a2 \in Seq(Byte) /\ Len(a2) = Len(b1) + Len(b2)
    BY <1>2, <1>3, ConcatProperties
  <2>2. QED
    BY <1>2, <1>3, <2>1
<1> HIDE DEF a2
<1>6. a3 \in Seq(Byte) /\ Len(a3) = 8
  <2>1. a3 \in Seq(Byte) /\ Len(a3) = Len(a2) + Len(b3)
    BY <1>2, <1>3, <1>5, ConcatProperties
  <2>2. QED
    BY <1>2, <1>3, <1>5, <2>1
<1> HIDE DEF a3
<1>7. a4 \in Seq(Byte) /\ Len(a4) = 12
  <2>1. a4 \in Seq(Byte) /\ Len(a4) = Len(a3) + Len(b4)
    BY <1>2, <1>3, <1>6, ConcatProperties
  <2>2. QED
    BY <1>2, <1>3, <1>6, <2>1
<1> HIDE DEF a4
<1>8. a5 \in Seq(Byte) /\ Len(a5) = 14
  <2>1. a5 \in Seq(Byte) /\ Len(a5) = Len(a4) + Len(b5)
    BY <1>2, <1>3, <1>7, ConcatProperties
  <2>2. QED
    BY <1>2, <1>3, <1>7, <2>1
<1> HIDE DEF a5
<1>9. a6 \in Seq(Byte) /\ Len(a6) = 16
  <2>1. a6 \in Seq(Byte) /\ Len(a6) = Len(a5) + Len(b6)
    BY <1>2, <1>3, <1>8, ConcatProperties
  <2>2. QED
    BY <1>2, <1>3, <1>8, <2>1
<1> HIDE DEF a6
<1>10. a7 \in Seq(Byte) /\ Len(a7) = 20
  <2>1. a7 \in Seq(Byte) /\ Len(a7) = Len(a6) + Len(b7)
    BY <1>2, <1>3, <1>9, ConcatProperties, ZenonT(30)
  <2>2. QED
    BY <1>2, <1>3, <1>9, <2>1
<1> HIDE DEF a7
<1>11. a8 \in Seq(Byte) /\ Len(a8) = 24
  <2>1. a8 \in Seq(Byte) /\ Len(a8) = Len(a7) + Len(b8)
    BY <1>2, <1>3, <1>10, ConcatProperties, ZenonT(30)
  <2>2. QED
    BY <1>2, <1>3, <1>10, <2>1
<1> HIDE DEF a8
<1>12. a9 \in Seq(Byte) /\ Len(a9) = 28
  <2>1. a9 \in Seq(Byte) /\ Len(a9) = Len(a8) + Len(b9)
    BY <1>2, <1>3, <1>11, ConcatProperties, ZenonT(30)
  <2>2. QED
    BY <1>2, <1>3, <1>11, <2>1
<1> HIDE DEF a9
<1>13. a10 \in Seq(Byte) /\ Len(a10) = 32
  <2>1. a10 \in Seq(Byte) /\ Len(a10) = Len(a9) + Len(b10)
    BY <1>2, <1>3, <1>12, ConcatProperties, ZenonT(30)
  <2>2. QED
    BY <1>2, <1>3, <1>12, <2>1
<1>14. Written(IvfHeader(signature, fourcc)) = a10
  <2> HIDE DEF a10
  <2>1. QED
    BY <1>4, <1>13, WrittenIs
<1>15. ASSUME NEW s, Starts(s, a10) PROVE LittleAt(s, 6, 2) = 32
  <2>1. Starts(s, a9) /\ Piece(s, Len(a9), Len(b10)) = b10
    BY <1>2, <1>3, <1>12, <1>15, StartsLess
  <2>2. Starts(s, a8) /\ Piece(s, Len(a8), Len(b9)) = b9
    BY <1>2, <1>3, <1>11, <2>1, StartsLess DEF a9
  <2>3. Starts(s, a7) /\ Piece(s, Len(a7), Len(b8)) = b8
    BY <1>2, <1>3, <1>10, <2>2, StartsLess DEF a8
  <2>4. Starts(s, a6) /\ Piece(s, Len(a6), Len(b7)) = b7
    BY <1>2, <1>3, <1>9, <2>3, StartsLess DEF a7
  <2>5. Starts(s, a5) /\ Piece(s, Len(a5), Len(b6)) = b6
    BY <1>2, <1>3, <1>8, <2>4, StartsLess DEF a6
  <2>6. Starts(s, a4) /\ Piece(s, Len(a4), Len(b5)) = b5
    BY <1>2, <1>3, <1>7, <2>5, StartsLess DEF a5
  <2>7. Starts(s, a3) /\ Piece(s, Len(a3), Len(b4)) = b4
    BY <1>2, <1>3, <1>6, <2>6, StartsLess DEF a4
  <2>8. LittleAt(s, Len(a2), 2) = 32
    BY <1>1, <1>5, <2>7, StartsNumber, ZenonT(30) DEF a3, b3
  <2>9. QED
    BY <1>5, <2>8
<1>16. QED
  <2> HIDE DEF a10
  <2>1. QED
    BY <1>13, <1>14, <1>15

(* The header of a RealVideo file tells its length; the extradata end it. *)
LEMMA RvHeaderIs ==
  ASSUME NEW st, st.fourcc \in Names, st.extradata \in Seq(Byte),
         Fits(26 + Len(st.extradata), 4)
  PROVE  LET h == Written(RvHeader(st))
             n == Len(st.extradata)
         IN /\ h \in Seq(Byte) /\ n \in Nat /\ Len(h) = 26 + n
            /\ \A s : Starts(s, h) => NumberAt(s, 0, 4) = 26 + n /\ Piece(s, 26, n) = st.extradata
<1> DEFINE n == Len(st.extradata)
           b1 == PutBE(26 + n, 4)
           b2 == Some("VIDO", 4)
           b3 == Some(st.fourcc, 4)
           b4 == Some("width", 2)
           b5 == Some("height", 2)
           b6 == PutBE(12, 2)
           b7 == PutBE(0, 2)
           b8 == PutBE(0, 2)
           b9 == Some("frameRate", 4)
           b10 == st.extradata
           a2 == b1 \o b2
           a3 == a2 \o b3
           a4 == a3 \o b4
           a5 == a4 \o b5
           a6 == a5 \o b6
           a7 == a6 \o b7
           a8 == a7 \o b8
           a9 == a8 \o b9
           a10 == a9 \o b10
<1>1. n \in Nat /\ 26 + n \in Nat /\ 12 \in Nat /\ 0 \in Nat /\ 2 \in Nat /\ 4 \in Nat
  BY LenProperties
<1>2. /\ b2 \in Seq(Byte) /\ Len(b2) = 4
      /\ b3 \in Seq(Byte) /\ Len(b3) = 4
      /\ b4 \in Seq(Byte) /\ Len(b4) = 2
      /\ b5 \in Seq(Byte) /\ Len(b5) = 2
      /\ b9 \in Seq(Byte) /\ Len(b9) = 4
  BY SomeType, NamesAssumption
<1> HIDE DEF n
<1>3. /\ b1 \in Seq(Byte) /\ Len(b1) = 4
      /\ b6 \in Seq(Byte) /\ Len(b6) = 2
      /\ b7 \in Seq(Byte) /\ Len(b7) = 2
      /\ b8 \in Seq(Byte) /\ Len(b8) = 2
      /\ b10 \in Seq(Byte) /\ Len(b10) = n
  BY <1>1, PutTypes DEF n
<1>4. RvHeader(st) = Header(26 + n, a10)
  BY DEF RvHeader, n
<1> HIDE DEF b1, b2, b3, b4, b5, b6, b7, b8, b9, b10
<1>5. a2 \in Seq(Byte) /\ Len(a2) = 8
  <2>1. a2 \in Seq(Byte) /\ Len(a2) = Len(b1) + Len(b2)
    BY <1>1, <1>2, <1>3, ConcatProperties
  <2>2. QED
    BY <1>1, <1>2, <1>3, <2>1
<1> HIDE DEF a2
<1>6. a3 \in Seq(Byte) /\ Len(a3) = 12
  <2>1. a3 \in Seq(Byte) /\ Len(a3) = Len(a2) + Len(b3)
    BY <1>1, <1>2, <1>3, <1>5, ConcatProperties
  <2>2. QED
    BY <1>1, <1>2, <1>3, <1>5, <2>1
<1> HIDE DEF a3
<1>7. a4 \in Seq(Byte) /\ Len(a4) = 14
  <2>1. a4 \in Seq(Byte) /\ Len(a4) = Len(a3) + Len(b4)
    BY <1>1, <1>2, <1>3, <1>6, ConcatProperties
  <2>2. QED
    BY <1>1, <1>2, <1>3, <1>6, <2>1
<1> HIDE DEF a4
<1>8. a5 \in Seq(Byte) /\ Len(a5) = 16
  <2>1. a5 \in Seq(Byte) /\ Len(a5) = Len(a4) + Len(b5)
    BY <1>1, <1>2, <1>3, <1>7, ConcatProperties, ZenonT(30)
  <2>2. QED
    BY <1>1, <1>2, <1>3, <1>7, <2>1
<1> HIDE DEF a5
<1>9. a6 \in Seq(Byte) /\ Len(a6) = 18
  <2>1. a6 \in Seq(Byte) /\ Len(a6) = Len(a5) + Len(b6)
    BY <1>1, <1>2, <1>3, <1>8, ConcatProperties, ZenonT(30)
  <2>2. QED
    BY <1>1, <1>2, <1>3, <1>8, <2>1
<1> HIDE DEF a6
<1>10. a7 \in Seq(Byte) /\ Len(a7) = 20
  <2>1. a7 \in Seq(Byte) /\ Len(a7) = Len(a6) + Len(b7)
    BY <1>1, <1>2, <1>3, <1>9, ConcatProperties, ZenonT(30)
  <2>2. QED
    BY <1>1, <1>2, <1>3, <1>9, <2>1
<1> HIDE DEF a7
<1>11. a8 \in Seq(Byte) /\ Len(a8) = 22
  <2>1. a8 \in Seq(Byte) /\ Len(a8) = Len(a7) + Len(b8)
    BY <1>1, <1>2, <1>3, <1>10, ConcatProperties, ZenonT(30)
  <2>2. QED
    BY <1>1, <1>2, <1>3, <1>10, <2>1
<1> HIDE DEF a8
<1>12. a9 \in Seq(Byte) /\ Len(a9) = 26
  <2>1. a9 \in Seq(Byte) /\ Len(a9) = Len(a8) + Len(b9)
    BY <1>1, <1>2, <1>3, <1>11, ConcatProperties, ZenonT(30)
  <2>2. QED
    BY <1>1, <1>2, <1>3, <1>11, <2>1
<1> HIDE DEF a9
<1>13. a10 \in Seq(Byte) /\ Len(a10) = 26 + n
  <2>1. a10 \in Seq(Byte) /\ Len(a10) = Len(a9) + Len(b10)
    BY <1>1, <1>2, <1>3, <1>12, ConcatProperties, ZenonT(30)
  <2>2. QED
    BY <1>1, <1>2, <1>3, <1>12, <2>1
<1>14. Written(RvHeader(st)) = a10
  <2> HIDE DEF a10
  <2>1. QED
    BY <1>4, <1>13, WrittenIs
<1>15. ASSUME NEW s, Starts(s, a10)
       PROVE  NumberAt(s, 0, 4) = 26 + n /\ Piece(s, 26, n) = st.extradata
  <2>1. Starts(s, a9) /\ Piece(s, Len(a9), Len(b10)) = b10
    BY <1>2, <1>3, <1>12, <1>15, StartsLess
  <2>2. Starts(s, a8) /\ Piece(s, Len(a8), Len(b9)) = b9
    BY <1>2, <1>3, <1>11, <2>1, StartsLess DEF a9
  <2>3. Starts(s, a7) /\ Piece(s, Len(a7), Len(b8)) = b8
    BY <1>2, <1>3, <1>10, <2>2, StartsLess DEF a8
  <2>4. Starts(s, a6) /\ Piece(s, Len(a6), Len(b7)) = b7
    BY <1>2, <1>3, <1>9, <2>3, StartsLess DEF a7
  <2>5. Starts(s, a5) /\ Piece(s, Len(a5), Len(b6)) = b6
    BY <1>2, <1>3, <1>8, <2>4, StartsLess DEF a6
  <2>6. Starts(s, a4) /\ Piece(s, Len(a4), Len(b5)) = b5
    BY <1>2, <1>3, <1>7, <2>5, StartsLess DEF a5
  <2>7. Starts(s, a3) /\ Piece(s, Len(a3), Len(b4)) = b4
    BY <1>2, <1>3, <1>6, <2>6, StartsLess DEF a4
  <2>8. Starts(s, a2) /\ Piece(s, Len(a2), Len(b3)) = b3
    BY <1>2, <1>3, <1>5, <2>7, StartsLess DEF a3
  <2>9. Starts(s, b1) /\ Piece(s, Len(b1), Len(b2)) = b2
    BY <1>2, <1>3, <2>8, StartsLess DEF a2
  <2>10. NumberAt(s, 0, 4) = 26 + n
    BY <1>1, <2>9, StartsNumberFirst DEF b1, n
  <2>11. Piece(s, 26, n) = st.extradata
    BY <1>3, <1>12, <2>1 DEF b10
  <2>12. QED
    BY <2>10, <2>11
<1>16. QED
  <2> HIDE DEF a10
  <2>1. QED
    BY <1>1, <1>13, <1>14, <1>15 DEF n

(* The extradata of DIV3 behind their length. *)
LEMMA LengthHeaderIs ==
  ASSUME NEW data \in Seq(Byte), Fits(Len(data), 4)
  PROVE  LET h == Written(Header(4 + Len(data), PutBE(Len(data), 4) \o data))
         IN /\ h \in Seq(Byte) /\ Len(h) = 4 + Len(data)
            /\ \A s : Starts(s, h) =>
                 NumberAt(s, 0, 4) = Len(data) /\ Piece(s, 4, Len(data)) = data
<1> DEFINE n == Len(data)
           p == PutBE(n, 4)
           a == p \o data
<1>1. n \in Nat /\ 4 \in Nat
  BY LenProperties
<1> HIDE DEF n
<1>2. p \in Seq(Byte) /\ Len(p) = 4
  BY <1>1, PutTypes
<1> HIDE DEF p
<1>3. a \in Seq(Byte) /\ Len(a) = 4 + n
  <2>1. a \in Seq(Byte) /\ Len(a) = Len(p) + n
    BY <1>2, ConcatProperties DEF n
  <2>2. QED
    BY <1>1, <1>2, <2>1
<1>4. ASSUME NEW s, Starts(s, a) PROVE NumberAt(s, 0, 4) = n /\ Piece(s, 4, n) = data
  <2>1. Starts(s, p) /\ Piece(s, Len(p), Len(data)) = data
    BY <1>2, <1>4, StartsLess
  <2>2. NumberAt(s, 0, 4) = n
    BY <1>1, <2>1, StartsNumberFirst DEF p, n
  <2>3. QED
    BY <1>2, <2>1, <2>2 DEF n
<1> HIDE DEF a
<1>5. Written(Header(4 + n, a)) = a
  BY <1>3, WrittenIs
<1>6. QED
  BY <1>3, <1>4, <1>5 DEF a, p, n

(* The header of a picture of DIV3 or VP8 tells its length. *)
LEMMA FrameHeaderIs ==
  ASSUME NEW n \in Nat, Fits(n, 4)
  PROVE  LET h == Written(Header(12, PutLE(n, 4) \o PutLE(0, 4) \o PutLE(0, 4)))
         IN h \in Seq(Byte) /\ Len(h) = 12 /\ LittleAt(h, 0, 4) = n
<1> DEFINE b1 == PutLE(n, 4)
           b2 == PutLE(0, 4)
           b3 == PutLE(0, 4)
           a2 == b1 \o b2
           a3 == a2 \o b3
<1>1. /\ b1 \in Seq(Byte) /\ Len(b1) = 4
      /\ b2 \in Seq(Byte) /\ Len(b2) = 4
      /\ b3 \in Seq(Byte) /\ Len(b3) = 4
  BY PutTypes
<1>2. Header(12, PutLE(n, 4) \o PutLE(0, 4) \o PutLE(0, 4)) = Header(12, a3)
  OBVIOUS
<1> HIDE DEF b1, b2, b3
<1>3. a2 \in Seq(Byte) /\ Len(a2) = 8
  <2>1. a2 \in Seq(Byte) /\ Len(a2) = Len(b1) + Len(b2)
    BY <1>1, ConcatProperties
  <2>2. QED
    BY <1>1, <2>1
<1> HIDE DEF a2
<1>4. a3 \in Seq(Byte) /\ Len(a3) = 12
  <2>1. a3 \in Seq(Byte) /\ Len(a3) = Len(a2) + Len(b3)
    BY <1>1, <1>3, ConcatProperties
  <2>2. QED
    BY <1>1, <1>3, <2>1
<1>5. Written(Header(12, a3)) = a3
  <2> HIDE DEF a3
  <2>1. QED
    BY <1>4, WrittenIs
<1>6. LittleAt(a3, 0, 4) = n
  <2>1. Starts(a3, a2)
    <3>1. Starts(a3, a3)
      <4> HIDE DEF a3
      <4>1. QED
        BY <1>4, StartsItself
    <3>2. QED
      BY <1>1, <1>3, <3>1, StartsLess
  <2> HIDE DEF a3
  <2>2. Starts(a3, b1)
    BY <1>1, <2>1, StartsLess DEF a2
  <2>3. QED
    BY <2>2, StartsNumberFirst DEF b1
<1>7. QED
  <2> HIDE DEF a3
  <2>1. QED
    BY <1>2, <1>4, <1>5, <1>6

(* The header of a picture of VC-1 tells its length in three bytes; the mark of
   a key frame is in the fourth. *)
LEMMA RcvPicHeaderIs ==
  ASSUME NEW pkt, pkt.data \in Seq(Byte), pkt.key \in BOOLEAN, Fits(Len(pkt.data), 3)
  PROVE  LET h == Written(RcvPicHeader(pkt))
         IN h \in Seq(Byte) /\ Len(h) = 8 /\ LittleAt(h, 0, 3) = Len(pkt.data)
<1> DEFINE n == Len(pkt.data)
           p == PutLE(n, 4)
           top == p[4][2] + IF pkt.key THEN Radix ELSE 0
           e == <<"byte", top>>
           q == [p EXCEPT ![4] = e]
           r == Some("pts", 4)
           a == q \o r
<1>1. n \in Nat /\ 4 \in Nat
  BY LenProperties
<1> HIDE DEF n
<1>2. p \in Seq(Byte) /\ Len(p) = 4 /\ 4 \in 1 .. Len(p)
  <2>1. p \in Seq(Byte) /\ Len(p) = 4
    BY <1>1, PutTypes
  <2> HIDE DEF p
  <2>2. QED
    BY <2>1
<1>3. top \in Nat
  <2>1. p[4] \in Byte
    <3> HIDE DEF p
    <3>1. QED
      BY <1>2, ElementOfSeq
  <2> HIDE DEF p
  <2>2. p[4][2] \in Nat
    BY <2>1 DEF Byte
  <2>3. QED
    BY <2>2, RadixAssumption
<1>4. e \in Byte
  <2> HIDE DEF top
  <2>1. QED
    BY <1>3, NamesAssumption DEF Byte
<1>4a. q = [j \in 1 .. 4 |-> IF j = 4 THEN e ELSE p[j]]
  <2> HIDE DEF e
  <2>1. p = [j \in 1 .. 4 |-> B(Shifted(n, j - 1) % Radix)]
    BY DEF PutLE
  <2> HIDE DEF p
  <2>2. QED
    BY <2>1
<1>5. q \in Seq(Byte) /\ Len(q) = 4
  <2> HIDE DEF p, e, q
  <2>1. \A j \in 1 .. 4 : p[j] \in Byte
    BY <1>2, ElementOfSeq
  <2>2. QED
    BY <1>4, <1>4a, <2>1
<1>5a. \A j \in 1 .. 3 : q[j] = p[j]
  <2> HIDE DEF p, e, q
  <2>1. QED
    BY <1>4a
<1>6. r \in Seq(Byte) /\ Len(r) = 4
  BY SomeType, NamesAssumption
<1>7. RcvPicHeader(pkt) = Header(8, a)
  BY DEF RcvPicHeader, n
<1>8. Piece(q, 0, 3) = PutLE(n, 3)
  <2>1. 0 + 3 <= Len(q)
    BY <1>5
  <2>2. PutLE(n, 3) \in Seq(Byte) /\ Len(PutLE(n, 3)) = 3
    BY <1>1, PutTypes
  <2>3. \A i \in 1 .. 3 : PutLE(n, 3)[i] = p[i] /\ 0 + i = i
    BY DEF PutLE
  <2> HIDE DEF q, p
  <2>4. /\ Piece(q, 0, 3) \in Seq(Byte) /\ Len(Piece(q, 0, 3)) = 3
        /\ \A i \in 1 .. 3 : Piece(q, 0, 3)[i] = q[0 + i]
    <3> DEFINE f == 0
               k == 3
    <3>1. f \in Nat /\ k \in Nat /\ f + k <= Len(q)
      BY <2>1
    <3> HIDE DEF f, k
    <3>1a. q \in Seq(Byte)
      BY <1>5
    <3>2. /\ Piece(q, f, k) \in Seq(Byte) /\ Len(Piece(q, f, k)) = k
          /\ \A i \in 1 .. k : Piece(q, f, k)[i] = q[f + i]
      BY <3>1, <3>1a, PieceIs
    <3>3. QED
      BY <3>2 DEF f, k
  <2>5. \A i \in 1 .. 3 : Piece(q, 0, 3)[i] = PutLE(n, 3)[i]
    BY <1>5a, <2>3, <2>4
  <2>6. QED
    BY <2>2, <2>4, <2>5, SeqEqual
<1> HIDE DEF q, r
<1>9. a \in Seq(Byte) /\ Len(a) = 8
  <2>1. a \in Seq(Byte) /\ Len(a) = Len(q) + Len(r)
    BY <1>5, <1>6, ConcatProperties
  <2>2. QED
    BY <1>5, <1>6, <2>1
<1>10. LittleAt(a, 0, 3) = n
  <2>1. 0 + 3 <= Len(q)
    BY <1>5
  <2>2. Piece(a, 0, 3) = PutLE(n, 3)
    <3> DEFINE f == 0
               k == 3
    <3>1. f \in Nat /\ k \in Nat /\ f + k <= Len(q)
      BY <2>1
    <3> HIDE DEF f, k
    <3>1a. q \in Seq(Byte) /\ r \in Seq(Byte)
      BY <1>5, <1>6
    <3>2. Piece(a, f, k) = Piece(q, f, k)
      BY <3>1, <3>1a, PieceFirst
    <3>3. QED
      BY <1>8, <3>2 DEF f, k
  <2>3. QED
    BY <1>1, <2>2, ReverseOfPutLE, NumberOfPutBE DEF LittleAt, n
<1> HIDE DEF a
<1>11. Written(Header(8, a)) = a
  BY <1>9, WrittenIs
<1>12. QED
  BY <1>7, <1>9, <1>10, <1>11 DEF n

(***************************************************************************)
(* RealVideo.                                                              *)
(***************************************************************************)
LEMMA FlattenFours ==
  ASSUME NEW ss \in Seq(Seq(Byte)), \A i \in 1 .. Len(ss) : Len(ss[i]) = 4
  PROVE  /\ S!FlattenSeq(ss) \in Seq(Byte) /\ Len(S!FlattenSeq(ss)) = 4 * Len(ss)
         /\ \A i \in 1 .. Len(ss) : Piece(S!FlattenSeq(ss), 4 * (i - 1), 4) = ss[i]
<1> DEFINE V == Seq(Byte)
           F(x) == S!FlattenSeq(x)
           Fours(x) == \A i \in 1 .. Len(x) : Len(x[i]) = 4
           Read(x) == \A i \in 1 .. Len(x) : Piece(F(x), 4 * (i - 1), 4) = x[i]
           T == {x \in Seq(V) : Fours(x) => Len(F(x)) = 4 * Len(x) /\ Read(x)}
<1>1. <<>> \in T
  <2>1. Len(<<>>) = 0 /\ 4 * 0 = 0 /\ 1 .. 0 = {} /\ <<>> \in Seq(V)
    BY EmptySeq
  <2>2. F(<<>>) = <<>>
    BY FlattenEmpty
  <2>3. QED
    BY <2>1, <2>2
<1>2. ASSUME NEW x \in Seq(V), NEW e \in V, x \in T PROVE x \o <<e>> \in T
  <2> DEFINE y == x \o <<e>>
             n == Len(x)
             f == F(x)
  <2>1. n \in Nat /\ y \in Seq(V) /\ Len(y) = n + 1 /\ y[n + 1] = e /\ \A i \in 1 .. n : y[i] = x[i]
    <3> HIDE DEF V
    <3>1. QED
      BY LenProperties, AppendProperties, AppendIsConcat
  <2>2. f \in Seq(Byte) /\ F(y) = f \o e /\ e \in Seq(Byte)
    BY FlattenAppend
  <2>3. SUFFICES ASSUME Fours(y) PROVE Len(F(y)) = 4 * Len(y) /\ Read(y)
    BY <2>1
  <2> HIDE DEF y
  <2>4. Len(e) = 4 /\ \A i \in 1 .. n : Len(x[i]) = 4
    <3>1. \A i \in 1 .. n + 1 : Len(y[i]) = 4
      BY <2>1, <2>3
    <3>2. n + 1 \in 1 .. n + 1 /\ \A i \in 1 .. n : i \in 1 .. n + 1
      BY <2>1
    <3> HIDE DEF n
    <3>3. QED
      BY <2>1, <3>1, <3>2
  <2>5. Len(f) = 4 * n /\ \A i \in 1 .. n : Piece(f, 4 * (i - 1), 4) = x[i]
    BY <1>2, <2>4
  <2> HIDE DEF f, F
  <2>6. Len(F(y)) = 4 * (n + 1)
    <3>1. Len(f \o e) = Len(f) + Len(e)
      BY <2>2, ConcatProperties
    <3> HIDE DEF n
    <3>2. 4 * (n + 1) = (4 * n) + 4
      BY <2>1
    <3>3. QED
      BY <2>2, <2>4, <2>5, <3>1, <3>2
  <2>7. ASSUME NEW i \in 1 .. n + 1 PROVE Piece(F(y), 4 * (i - 1), 4) = y[i]
    <3> HIDE DEF n
    <3>1. CASE i \in 1 .. n
      <4> DEFINE a == 4 * (i - 1)
                 k == 4
      <4>1. a \in Nat /\ k \in Nat /\ a + k <= Len(f)
        BY <2>1, <2>5, <3>1
      <4>2. Piece(f, a, k) = x[i]
        BY <2>5, <3>1
      <4> HIDE DEF a, k
      <4>3. Piece(f \o e, a, k) = Piece(f, a, k)
        <5>1. f \in Seq(Byte) /\ e \in Seq(Byte)
          BY <2>2
        <5>2. QED
          BY <4>1, <5>1, PieceFirst
      <4>4. y[i] = x[i]
        BY <2>1, <3>1
      <4>5. QED
        BY <2>2, <4>2, <4>3, <4>4 DEF a, k
    <3>2. CASE i = n + 1
      <4>1. 4 * (i - 1) = Len(f) + 0
        BY <2>1, <2>5, <3>2
      <4>2. Piece(f \o e, Len(f) + 0, Len(e)) = Piece(e, 0, Len(e))
        <5>1. 0 + Len(e) <= Len(e) /\ Len(e) \in Nat
          BY <2>2, LenProperties
        <5>2. f \in Seq(Byte) /\ e \in Seq(Byte)
          BY <2>2
        <5>3. QED
          BY <5>1, <5>2, PieceSecond
      <4>3. Piece(e, 0, Len(e)) = e
        BY <2>2, PieceWhole
      <4>4. QED
        BY <2>1, <2>2, <2>4, <3>2, <4>1, <4>2, <4>3
    <3>3. QED
      BY <2>1, <3>1, <3>2
  <2>8. QED
    BY <2>1, <2>6, <2>7
<1>3. Seq(V) \subseteq T
  <2> HIDE DEF T, V
  <2>1. QED
    BY <1>1, <1>2, SeqInduct
<1>4. ss \in T
  BY <1>3
<1>5. QED
  BY <1>4, FlattenType

(* What a table of numbers is, one behind the other. *)
LEMMA TablePut ==
  ASSUME NEW m \in Nat, NEW table, \A i \in 1 .. m : table[i] \in Nat /\ Fits(table[i], 4)
  PROVE  LET le == S!FlattenSeq([i \in 1 .. m |-> PutLE(table[i], 4)])
             be == S!FlattenSeq([i \in 1 .. m |-> PutBE(table[i], 4)])
         IN /\ le \in Seq(Byte) /\ Len(le) = 4 * m
            /\ be \in Seq(Byte) /\ Len(be) = 4 * m
            /\ \A i \in 1 .. m : /\ Piece(le, 4 * (i - 1), 4) = PutLE(table[i], 4)
                                 /\ Piece(be, 4 * (i - 1), 4) = PutBE(table[i], 4)
<1> DEFINE L == [i \in 1 .. m |-> PutLE(table[i], 4)]
           H == [i \in 1 .. m |-> PutBE(table[i], 4)]
<1>1. \A i \in 1 .. m : /\ PutLE(table[i], 4) \in Seq(Byte) /\ Len(PutLE(table[i], 4)) = 4
                        /\ PutBE(table[i], 4) \in Seq(Byte) /\ Len(PutBE(table[i], 4)) = 4
  BY PutTypes
<1>2. /\ L \in Seq(Seq(Byte)) /\ Len(L) = m /\ \A i \in 1 .. m : L[i] = PutLE(table[i], 4)
      /\ H \in Seq(Seq(Byte)) /\ Len(H) = m /\ \A i \in 1 .. m : H[i] = PutBE(table[i], 4)
  BY <1>1
<1> HIDE DEF L, H
<1>3. (\A i \in 1 .. Len(L) : Len(L[i]) = 4) /\ (\A i \in 1 .. Len(H) : Len(H[i]) = 4)
  BY <1>1, <1>2
<1>4. /\ S!FlattenSeq(L) \in Seq(Byte) /\ Len(S!FlattenSeq(L)) = 4 * Len(L)
      /\ \A i \in 1 .. Len(L) : Piece(S!FlattenSeq(L), 4 * (i - 1), 4) = L[i]
  BY <1>2, <1>3, FlattenFours
<1>5. /\ S!FlattenSeq(H) \in Seq(Byte) /\ Len(S!FlattenSeq(H)) = 4 * Len(H)
      /\ \A i \in 1 .. Len(H) : Piece(S!FlattenSeq(H), 4 * (i - 1), 4) = H[i]
  BY <1>2, <1>3, FlattenFours
<1>6. \A i \in 1 .. m : /\ Piece(S!FlattenSeq(L), 4 * (i - 1), 4) = PutLE(table[i], 4)
                        /\ Piece(S!FlattenSeq(H), 4 * (i - 1), 4) = PutBE(table[i], 4)
  BY <1>2, <1>4, <1>5
<1>7. QED
  BY <1>2, <1>4, <1>5, <1>6 DEF L, H

(* What is put into a table, and how a packet of RealVideo is made of it. *)
RvFits(n, table) == \A i \in 1 .. 2 * n : table[i] \in Nat /\ Fits(table[i], 4)
RvBytes(n, table, d) ==
  <<B(n - 1)>> \o S!FlattenSeq([i \in 1 .. 2 * n |-> PutLE(table[i], 4)]) \o d
RvNumbers(data, n, table) ==
  \A i \in 1 .. 2 * n : LittleAt(data, 1 + 4 * (i - 1), 4) = table[i]

(* What a RealVideo packet tells of its segments, its table and its slices. *)
LEMMA RvDataIs ==
  ASSUME NEW n \in Nat, n > 0, NEW table, RvFits(n, table),
         NEW d \in Seq(Byte), NEW data, data = RvBytes(n, table, d)
  PROVE  /\ Segments(data) = n /\ SliceBytes(data) = Len(d)
         /\ Piece(data, 1 + 8 * n, Len(d)) = d
         /\ RvNumbers(data, n, table)
<1>0. /\ \A i \in 1 .. 2 * n : table[i] \in Nat /\ Fits(table[i], 4)
      /\ data = <<B(n - 1)>> \o S!FlattenSeq([i \in 1 .. 2 * n |-> PutLE(table[i], 4)]) \o d
  BY DEF RvFits, RvBytes
<1> DEFINE m == 2 * n
           c == <<B(n - 1)>>
           le == S!FlattenSeq([i \in 1 .. m |-> PutLE(table[i], 4)])
           a == c \o le
<1>1. m \in Nat /\ \A i \in 1 .. m : table[i] \in Nat /\ Fits(table[i], 4)
  BY <1>0
<1>2. data = a \o d
  BY <1>0
<1>3. c \in Seq(Byte) /\ Len(c) = 1 /\ c[1] = B(n - 1)
  <2>1. n - 1 \in Nat
    OBVIOUS
  <2>2. B(n - 1) \in Byte
    BY <2>1, NamesAssumption DEF B, Byte
  <2>3. QED
    BY <2>2
<1> HIDE DEF m
<1>4. /\ le \in Seq(Byte) /\ Len(le) = 4 * m
      /\ \A i \in 1 .. m : Piece(le, 4 * (i - 1), 4) = PutLE(table[i], 4)
  BY <1>1, TablePut
<1>5. 4 * m = 8 * n
  BY DEF m
<1> HIDE DEF c, le
<1>6. a \in Seq(Byte) /\ Len(a) = 1 + 8 * n /\ a[1] = B(n - 1)
  <2>1. a \in Seq(Byte) /\ Len(a) = Len(c) + Len(le) /\ a[1] = c[1]
    <3>1. 1 \in 1 .. Len(c)
      BY <1>3
    <3>2. c \in Seq(Byte) /\ le \in Seq(Byte)
      BY <1>3, <1>4
    <3>3. QED
      BY <3>1, <3>2, ConcatProperties
  <2>2. QED
    BY <1>3, <1>4, <1>5, <2>1
<1> HIDE DEF a
<1>7. Len(data) = (1 + 8 * n) + Len(d) /\ data[1] = B(n - 1) /\ Len(d) \in Nat
  <2>1. Len(data) = Len(a) + Len(d) /\ data[1] = a[1] /\ Len(d) \in Nat
    <3>1. 1 \in 1 .. Len(a)
      BY <1>6
    <3>2. a \in Seq(Byte) /\ d \in Seq(Byte)
      BY <1>6
    <3>3. /\ Len(a \o d) = Len(a) + Len(d) /\ (a \o d)[1] = a[1]
          /\ Len(d) \in Nat
      BY ONLY <3>1, <3>2, ConcatProperties, LenProperties
    <3>4. QED
      BY <1>2, <3>3
  <2>2. QED
    BY <1>6, <2>1
<1>8. Segments(data) = n
  <2>1. data[1][2] = n - 1
    BY <1>7 DEF B
  <2>2. Segments(data) = (n - 1) + 1
    BY <2>1 DEF Segments
  <2>3. QED
    BY <2>2
<1>9. SliceBytes(data) = Len(d)
  <2>1. SliceBytes(data) = (Len(data) - 1) - 8 * n
    BY <1>8 DEF SliceBytes
  <2>2. n \in Nat
    OBVIOUS
  <2>3. ((1 + 8 * n) + Len(d) - 1) - 8 * n = Len(d)
    BY ONLY <1>7, <2>2
  <2>4. QED
    BY ONLY <1>7, <2>1, <2>3
<1>10. Piece(data, 1 + 8 * n, Len(d)) = d
  <2>1. Piece(a \o d, Len(a) + 0, Len(d)) = Piece(d, 0, Len(d))
    <3>1. 0 + Len(d) <= Len(d)
      BY <1>7
    <3>2. a \in Seq(Byte)
      BY <1>6
    <3>3. Len(d) \in Nat
      BY <1>7
    <3>4. QED
      BY <3>1, <3>2, <3>3, PieceSecond
  <2>2. Len(a) + 0 = 1 + 8 * n
    BY <1>6
  <2>3. QED
    BY <1>2, <2>1, <2>2, PieceWhole
<1>11. ASSUME NEW i \in 1 .. m PROVE LittleAt(data, 1 + 4 * (i - 1), 4) = table[i]
  <2> DEFINE x == 4 * (i - 1)
             y == 1 + x
             k == 4
  <2>1. x \in Nat /\ y \in Nat /\ k \in Nat /\ x + k <= Len(le) /\ y + k <= Len(a) /\ y = Len(c) + x
    BY <1>1, <1>3, <1>4, <1>5, <1>6
  <2>2. Piece(le, x, k) = PutLE(table[i], k)
    BY <1>4
  <2>2a. table[i] \in Nat /\ Fits(table[i], k)
    BY <1>1
  <2> HIDE DEF x, y, k
  <2>3. a \in Seq(Byte) /\ c \in Seq(Byte) /\ le \in Seq(Byte)
    BY <1>3, <1>4, <1>6
  <2>4. Piece(a \o d, y, k) = Piece(a, y, k)
    BY <2>1, <2>3, PieceFirst
  <2>5. Piece(c \o le, Len(c) + x, k) = Piece(le, x, k)
    BY <2>1, <2>3, PieceSecond
  <2>6. Piece(data, y, k) = PutLE(table[i], k)
    BY <1>2, <2>1, <2>2, <2>4, <2>5 DEF a
  <2>7. LittleAt(data, y, k) = table[i]
    BY <2>1, <2>2a, <2>6, ReverseOfPutLE, NumberOfPutBE DEF LittleAt
  <2>8. QED
    BY <2>7 DEF x, y, k
<1>12. QED
  BY <1>8, <1>9, <1>10, <1>11 DEF m, RvNumbers

(* The header of a RealVideo picture repeats the table of the packet, the big
   end first, and tells the length of the slices. *)
LEMMA RvPicHeaderIs ==
  ASSUME NEW n \in Nat, n > 0, Fits(n, 4), NEW table, RvFits(n, table),
         NEW l \in Nat, Fits(l, 4), NEW data,
         Segments(data) = n, SliceBytes(data) = l, RvNumbers(data, n, table)
  PROVE  LET h == Written(RvPicHeader(data))
         IN /\ h \in Seq(Byte) /\ Len(h) = 20 + 8 * n
            /\ NumberAt(h, 0, 4) = l /\ NumberAt(h, 16, 4) = n
            /\ \A i \in 1 .. 2 * n : NumberAt(h, 16 + 4 * i, 4) = table[i]
<1>0. /\ \A i \in 1 .. 2 * n : table[i] \in Nat /\ Fits(table[i], 4)
      /\ \A i \in 1 .. 2 * n : LittleAt(data, 1 + 4 * (i - 1), 4) = table[i]
  BY DEF RvFits, RvNumbers
<1> DEFINE m == 2 * n
           b1 == PutBE(l, 4)
           b2 == Some("pts", 4)
           b3 == Some("frame_number", 2)
           b4 == PutBE(2, 2)
           b5 == PutBE(0, 4)
           b6 == PutBE(n, 4)
           b7 == S!FlattenSeq([i \in 1 .. m |-> PutBE(table[i], 4)])
           a2 == b1 \o b2
           a3 == a2 \o b3
           a4 == a3 \o b4
           a5 == a4 \o b5
           a6 == a5 \o b6
           a7 == a6 \o b7
<1>1. m \in Nat /\ (\A i \in 1 .. m : table[i] \in Nat /\ Fits(table[i], 4)) /\ 4 * m = 8 * n
  BY <1>0
<1>2. /\ b2 \in Seq(Byte) /\ Len(b2) = 4
      /\ b3 \in Seq(Byte) /\ Len(b3) = 2
  BY SomeType, NamesAssumption
<1>3. /\ b1 \in Seq(Byte) /\ Len(b1) = 4
      /\ b4 \in Seq(Byte) /\ Len(b4) = 2
      /\ b5 \in Seq(Byte) /\ Len(b5) = 4
      /\ b6 \in Seq(Byte) /\ Len(b6) = 4
  BY PutTypes
<1>3a. RvPicHeader(data) = Header(20 + 8 * n, a7)
  <2>1. [i \in 1 .. 2 * Segments(data) |-> PutBE(LittleAt(data, 1 + 4 * (i - 1), 4), 4)]
          = [i \in 1 .. m |-> PutBE(table[i], 4)]
    BY <1>0
  <2>2. QED
    BY <2>1 DEF RvPicHeader
<1> HIDE DEF m
<1>4. /\ b7 \in Seq(Byte) /\ Len(b7) = 4 * m
      /\ \A i \in 1 .. m : Piece(b7, 4 * (i - 1), 4) = PutBE(table[i], 4)
  BY <1>1, TablePut, ZenonT(30)
<1>5. Len(b7) = 8 * n /\ 8 * n \in Nat
  BY <1>1, <1>4
<1> HIDE DEF b1, b2, b3, b4, b5, b6, b7
<1>6. a2 \in Seq(Byte) /\ Len(a2) = 8
  <2>1. a2 \in Seq(Byte) /\ Len(a2) = Len(b1) + Len(b2)
    BY <1>2, <1>3, <1>4, <1>5, ConcatProperties
  <2>2. QED
    BY <1>2, <1>3, <1>4, <1>5, <2>1
<1> HIDE DEF a2
<1>7. a3 \in Seq(Byte) /\ Len(a3) = 10
  <2>1. a3 \in Seq(Byte) /\ Len(a3) = Len(a2) + Len(b3)
    BY <1>2, <1>3, <1>4, <1>5, <1>6, ConcatProperties
  <2>2. QED
    BY <1>2, <1>3, <1>4, <1>5, <1>6, <2>1
<1> HIDE DEF a3
<1>8. a4 \in Seq(Byte) /\ Len(a4) = 12
  <2>1. a4 \in Seq(Byte) /\ Len(a4) = Len(a3) + Len(b4)
    BY <1>2, <1>3, <1>4, <1>5, <1>7, ConcatProperties
  <2>2. QED
    BY <1>2, <1>3, <1>4, <1>5, <1>7, <2>1
<1> HIDE DEF a4
<1>9. a5 \in Seq(Byte) /\ Len(a5) = 16
  <2>1. a5 \in Seq(Byte) /\ Len(a5) = Len(a4) + Len(b5)
    BY <1>2, <1>3, <1>4, <1>5, <1>8, ConcatProperties
  <2>2. QED
    BY <1>2, <1>3, <1>4, <1>5, <1>8, <2>1
<1> HIDE DEF a5
<1>10. a6 \in Seq(Byte) /\ Len(a6) = 20
  <2>1. a6 \in Seq(Byte) /\ Len(a6) = Len(a5) + Len(b6)
    BY <1>2, <1>3, <1>4, <1>5, <1>9, ConcatProperties
  <2>2. QED
    BY <1>2, <1>3, <1>4, <1>5, <1>9, <2>1
<1> HIDE DEF a6
<1>11. a7 \in Seq(Byte) /\ Len(a7) = 20 + 8 * n
  <2>1. a7 \in Seq(Byte) /\ Len(a7) = Len(a6) + Len(b7)
    BY <1>2, <1>3, <1>4, <1>5, <1>10, ConcatProperties
  <2>2. QED
    BY <1>2, <1>3, <1>4, <1>5, <1>10, <2>1
<1>12. Written(Header(20 + 8 * n, a7)) = a7
  <2> HIDE DEF a7
  <2>1. QED
    BY <1>11, WrittenIs
<1>13. Starts(a7, a7)
  <2> HIDE DEF a7
  <2>1. QED
    BY <1>11, StartsItself
<1>14. ASSUME NEW w, Starts(w, a7)
       PROVE  NumberAt(w, 0, 4) = l /\ NumberAt(w, 16, 4) = n
  <2>1. Starts(w, a6) /\ Piece(w, Len(a6), Len(b7)) = b7
    BY <1>2, <1>3, <1>4, <1>10, <1>14, StartsLess
  <2>2. Starts(w, a5) /\ Piece(w, Len(a5), Len(b6)) = b6
    BY <1>2, <1>3, <1>4, <1>9, <2>1, StartsLess DEF a6
  <2>3. Starts(w, a4) /\ Piece(w, Len(a4), Len(b5)) = b5
    BY <1>2, <1>3, <1>4, <1>8, <2>2, StartsLess DEF a5
  <2>4. Starts(w, a3) /\ Piece(w, Len(a3), Len(b4)) = b4
    BY <1>2, <1>3, <1>4, <1>7, <2>3, StartsLess DEF a4
  <2>5. Starts(w, a2) /\ Piece(w, Len(a2), Len(b3)) = b3
    BY <1>2, <1>3, <1>4, <1>6, <2>4, StartsLess DEF a3
  <2>6. Starts(w, b1) /\ Piece(w, Len(b1), Len(b2)) = b2
    BY <1>2, <1>3, <1>4, <2>5, StartsLess DEF a2
  <2>7. NumberAt(w, 0, 4) = l
    BY <2>6, StartsNumberFirst DEF b1
  <2>8. NumberAt(w, 16, 4) = n
    <3>1. Starts(w, a5 \o PutBE(n, 4))
      BY <2>1 DEF a6, b6
    <3> DEFINE k == 4
    <3>2. a5 \in Seq(Byte) /\ Len(a5) = 16 /\ k \in Nat /\ n \in Nat /\ Fits(n, k)
      BY <1>9
    <3>3. Starts(w, a5 \o PutBE(n, k))
      BY <3>1
    <3> HIDE DEF k
    <3>4. NumberAt(w, Len(a5), k) = n
      BY ONLY <3>2, <3>3, StartsNumber
    <3>5. QED
      BY <3>2, <3>4 DEF k
  <2>9. QED
    BY <2>7, <2>8
<1>15. ASSUME NEW i \in 1 .. m PROVE NumberAt(a7, 16 + 4 * i, 4) = table[i]
  <2> DEFINE x == 4 * (i - 1)
             k == 4
  <2>1. x \in Nat /\ k \in Nat /\ x + k <= Len(b7) /\ Len(a6) + x = 16 + 4 * i
    BY <1>1, <1>4, <1>10
  <2>2. Piece(b7, x, k) = PutBE(table[i], k)
    BY <1>4
  <2>3. table[i] \in Nat /\ Fits(table[i], k)
    BY <1>1
  <2>4. a6 \in Seq(Byte) /\ b7 \in Seq(Byte)
    BY <1>4, <1>10
  <2> HIDE DEF x, k
  <2>5. Piece(a6 \o b7, Len(a6) + x, k) = Piece(b7, x, k)
    BY <2>1, <2>4, PieceSecond
  <2>6. NumberAt(a7, 16 + 4 * i, k) = table[i]
    BY <2>1, <2>2, <2>3, <2>5, NumberOfPutBE DEF NumberAt
  <2>7. QED
    BY <2>6 DEF k
<1>16. NumberAt(a7, 0, 4) = l /\ NumberAt(a7, 16, 4) = n
  <2> HIDE DEF a7
  <2>1. QED
    BY <1>13, <1>14
<1>17. QED
  <2> HIDE DEF a7
  <2>1. QED
    BY <1>3a, <1>11, <1>12, <1>15, <1>16 DEF m

(* A number of h is found in h behind s. *)
LEMMA NumberAtBehind ==
  ASSUME NEW s \in Seq(Byte), NEW h \in Seq(Byte), NEW x \in Seq(Byte),
         NEW at \in Nat, NEW n \in Nat, at + n <= Len(h)
  PROVE  NumberAt(s \o (h \o x), Len(s) + at, n) = NumberAt(h, at, n)
<1> DEFINE z == h \o x
<1>1. z \in Seq(Byte) /\ Len(z) = Len(h) + Len(x) /\ Len(h) \in Nat /\ Len(x) \in Nat
  BY ConcatProperties, LenProperties
<1>2. Piece(z, at, n) = Piece(h, at, n)
  BY PieceFirst
<1> HIDE DEF z
<1>3. at + n <= Len(z)
  BY <1>1
<1>4. Piece(s \o z, Len(s) + at, n) = Piece(z, at, n)
  BY <1>1, <1>3, PieceSecond
<1>5. QED
  BY <1>2, <1>4 DEF NumberAt, z

(* Where a picture of RealVideo has its slices, its table and its end. *)
RvBody(s, at) == at + 20 + 4 * (2 * NumberAt(s, at + 16, 4))
RvTable(s, at) ==
  [i \in 1 .. 2 * NumberAt(s, at + 16, 4) |-> NumberAt(s, at + 16 + 4 * i, 4)]
RvPicture(s, at) ==
  [table |-> RvTable(s, at), data |-> Piece(s, RvBody(s, at), NumberAt(s, at, 4))]
RvEnd(s, at) == RvBody(s, at) + NumberAt(s, at, 4)

(* RvPictures by these names. *)
LEMMA RvPicturesIs ==
  ASSUME NEW s, NEW from
  PROVE  RvPictures(s, from) = Walk(Len(s), from, [at \in Nat |-> <<RvPicture(s, at)>>],
                                    [at \in Nat |-> RvEnd(s, at)])
BY DEF RvPictures, RvPicture, RvEnd, RvTable, RvBody

(* From an offset on there are pictures, up to the end. *)
RvEndsWhole(s, from) ==
  \E stops \in SUBSET (0 .. Len(s)) :
    /\ from \in stops
    /\ \A at \in stops : at # Len(s) =>
         /\ at + 20 <= Len(s) /\ RvBody(s, at) <= Len(s)
         /\ RvEnd(s, at) \in stops

(* A picture that s holds whole is the same when something follows s. *)
LEMMA RvSame ==
  ASSUME NEW s \in Seq(Byte), NEW z \in Seq(Byte), NEW at \in Nat,
         at + 20 <= Len(s), RvBody(s, at) <= Len(s), RvEnd(s, at) <= Len(s)
  PROVE  /\ RvEnd(s, at) \in Nat /\ RvEnd(s, at) > at
         /\ RvBody(s \o z, at) = RvBody(s, at) /\ RvEnd(s \o z, at) = RvEnd(s, at)
         /\ RvPicture(s \o z, at) = RvPicture(s, at)
<1> DEFINE t == s \o z
           n == NumberAt(s, at + 16, 4)
           l == NumberAt(s, at, 4)
<1>1. Len(s) \in Nat /\ at + 16 \in Nat /\ at + 4 <= Len(s) /\ (at + 16) + 4 <= Len(s) /\ 4 \in Nat
  BY LenProperties
<1>2. /\ n \in Nat /\ l \in Nat
      /\ NumberAt(t, at + 16, 4) = n /\ NumberAt(t, at, 4) = l
  <2> DEFINE a == at + 16
             k == 4
  <2>1. a \in Nat /\ k \in Nat /\ a + k <= Len(s) /\ at + k <= Len(s)
    BY <1>1
  <2> HIDE DEF a, k
  <2>2. NumberAt(s, a, k) \in Nat /\ NumberAt(s, at, k) \in Nat
    BY <2>1, NumberAtType
  <2>3. NumberAt(t, a, k) = NumberAt(s, a, k) /\ NumberAt(t, at, k) = NumberAt(s, at, k)
    BY <2>1, NumberAtFirst
  <2>4. QED
    BY <2>2, <2>3 DEF a, k
<1>3. RvBody(s, at) = at + 20 + 4 * (2 * n) /\ RvBody(t, at) = RvBody(s, at)
  BY <1>2 DEF RvBody
<1>4. RvEnd(s, at) = RvBody(s, at) + l /\ RvEnd(t, at) = RvEnd(s, at)
  BY <1>2, <1>3 DEF RvEnd
<1> HIDE DEF n, l
<1>5. /\ RvBody(s, at) \in Nat /\ RvEnd(s, at) \in Nat /\ RvEnd(s, at) > at
      /\ RvBody(s, at) + l <= Len(s)
  BY <1>2, <1>3, <1>4
<1>6. ASSUME NEW i \in 1 .. 2 * n PROVE NumberAt(t, at + 16 + 4 * i, 4) = NumberAt(s, at + 16 + 4 * i, 4)
  <2> DEFINE a == at + 16 + 4 * i
             k == 4
  <2>1. i \in Nat /\ i <= 2 * n
    BY <1>2
  <2>2. a \in Nat /\ k \in Nat /\ a + k <= Len(s)
    BY <1>1, <1>2, <1>3, <2>1
  <2> HIDE DEF a, k
  <2>3. NumberAt(t, a, k) = NumberAt(s, a, k)
    BY <2>2, NumberAtFirst
  <2>4. QED
    BY <2>3 DEF a, k
<1>7. RvTable(t, at) = RvTable(s, at)
  BY <1>2, <1>6 DEF RvTable, n
<1>8. Piece(t, RvBody(s, at), l) = Piece(s, RvBody(s, at), l)
  BY <1>2, <1>5, PieceFirst
<1>9. RvPicture(t, at) = RvPicture(s, at)
  BY <1>2, <1>3, <1>7, <1>8 DEF RvPicture, l
<1>10. QED
  BY <1>3, <1>4, <1>5, <1>9

(* The header of a picture of so many bytes and segments. *)
RvHeads(h, l, n, table) ==
  /\ n \in Nat
  /\ Len(h) = 20 + 8 * n /\ NumberAt(h, 0, 4) = l /\ NumberAt(h, 16, 4) = n
  /\ table = [i \in 1 .. 2 * n |-> table[i]]
  /\ \A i \in 1 .. 2 * n : NumberAt(h, 16 + 4 * i, 4) = table[i]

(* A picture behind s is found there. *)
LEMMA RvNew ==
  ASSUME NEW s \in Seq(Byte), NEW h \in Seq(Byte), NEW x \in Seq(Byte), NEW n,
         NEW table, RvHeads(h, Len(x), n, table)
  PROVE  LET t == s \o (h \o x)
         IN /\ t \in Seq(Byte) /\ Len(t) = Len(s) + (20 + 8 * n) + Len(x)
            /\ Len(s) \in Nat /\ Len(x) \in Nat
            /\ RvBody(t, Len(s)) = Len(s) + (20 + 8 * n) /\ RvEnd(t, Len(s)) = Len(t)
            /\ RvPicture(t, Len(s)) = [table |-> table, data |-> x]
<1> DEFINE z == h \o x
           t == s \o z
           e == Len(s)
<1>0. /\ n \in Nat
      /\ Len(h) = 20 + 8 * n /\ NumberAt(h, 0, 4) = Len(x) /\ NumberAt(h, 16, 4) = n
      /\ table = [i \in 1 .. 2 * n |-> table[i]]
      /\ \A i \in 1 .. 2 * n : NumberAt(h, 16 + 4 * i, 4) = table[i]
  BY DEF RvHeads
<1> USE <1>0
<1>1. z \in Seq(Byte) /\ Len(z) = Len(h) + Len(x) /\ Len(h) \in Nat /\ Len(x) \in Nat
  BY ConcatProperties, LenProperties
<1>2. t \in Seq(Byte) /\ Len(t) = Len(s) + Len(z) /\ e \in Nat
  <2> HIDE DEF z
  <2>1. QED
    BY <1>1, ConcatProperties, LenProperties
<1>2a. Len(t) = e + (20 + 8 * n) + Len(x)
  <2> HIDE DEF z, t
  <2>1. QED
    BY <1>1, <1>2, SMTT(30)
<1>3. ASSUME NEW at \in Nat, at + 4 <= 20 + 8 * n PROVE NumberAt(t, e + at, 4) = NumberAt(h, at, 4)
  <2> DEFINE k == 4
  <2>1. k \in Nat /\ at + k <= Len(h)
    BY <1>1, <1>3
  <2> HIDE DEF k
  <2>2. NumberAt(s \o (h \o x), Len(s) + at, k) = NumberAt(h, at, k)
    BY <2>1, NumberAtBehind, SMTT(30)
  <2>3. QED
    BY <2>2 DEF k
<1> HIDE DEF t, z
<1>4. NumberAt(t, e, 4) = Len(x)
  <2>1. e + 0 = e /\ 0 \in Nat /\ 0 + 4 <= 20 + 8 * n
    BY <1>2
  <2>2. NumberAt(t, e + 0, 4) = NumberAt(h, 0, 4)
    BY <1>3, <2>1
  <2>3. QED
    BY <2>1, <2>2
<1>5. NumberAt(t, e + 16, 4) = n
  <2>1. 16 \in Nat /\ 16 + 4 <= 20 + 8 * n
    OBVIOUS
  <2>2. QED
    BY <1>3, <2>1
<1>6. RvBody(t, e) = e + (20 + 8 * n)
  <2>1. RvBody(t, e) = e + 20 + 4 * (2 * n)
    BY <1>5 DEF RvBody
  <2>2. n \in Nat /\ e \in Nat
    BY <1>2
  <2> HIDE DEF e
  <2>3. e + 20 + 4 * (2 * n) = e + (20 + 8 * n)
    BY ONLY <2>2
  <2>4. QED
    BY <2>1, <2>3
<1>7. RvEnd(t, e) = Len(t)
  BY <1>2a, <1>4, <1>6 DEF RvEnd
<1>8. RvTable(t, e) = table
  <2>1. ASSUME NEW i \in 1 .. 2 * n PROVE NumberAt(t, e + 16 + 4 * i, 4) = table[i]
    <3> DEFINE at == 16 + 4 * i
    <3>1. at \in Nat /\ at + 4 <= 20 + 8 * n /\ e + at = e + 16 + 4 * i
      <4>1. n \in Nat /\ e \in Nat /\ i \in 1 .. 2 * n
        BY <1>2
      <4> HIDE DEF e
      <4>2. QED
        BY ONLY <4>1
    <3>2. NumberAt(h, at, 4) = table[i]
      OBVIOUS
    <3> HIDE DEF at
    <3>3. NumberAt(t, e + at, 4) = NumberAt(h, at, 4)
      BY <1>3, <3>1
    <3>4. QED
      BY <3>1, <3>2, <3>3
  <2>2. RvTable(t, e) = [i \in 1 .. 2 * n |-> NumberAt(t, e + 16 + 4 * i, 4)]
    BY <1>5 DEF RvTable
  <2>3. RvTable(t, e) = [i \in 1 .. 2 * n |-> table[i]]
    BY <2>1, <2>2
  <2>4. QED
    BY <2>3
<1>9. Piece(t, e + (20 + 8 * n), Len(x)) = x
  <2> DEFINE k == 20 + 8 * n
  <2>1. Piece(z, Len(h) + 0, Len(x)) = Piece(x, 0, Len(x))
    <3>1. 0 + Len(x) <= Len(x) /\ Len(x) \in Nat
      BY <1>1
    <3>2. h \in Seq(Byte) /\ x \in Seq(Byte)
      OBVIOUS
    <3>3. Piece(h \o x, Len(h) + 0, Len(x)) = Piece(x, 0, Len(x))
      BY ONLY <3>1, <3>2, PieceSecond
    <3>4. QED
      BY <3>3 DEF z
  <2>2. Len(h) + 0 = k /\ k \in Nat /\ k + Len(x) <= Len(z)
    BY <1>1, SMTT(30)
  <2>3. Piece(z, k, Len(x)) = x
    <3> HIDE DEF k
    <3>1. QED
      BY <2>1, <2>2, PieceWhole
  <2> HIDE DEF k
  <2>4. Piece(s \o z, Len(s) + k, Len(x)) = Piece(z, k, Len(x))
    <3>1. z \in Seq(Byte) /\ Len(x) \in Nat
      BY <1>1
    <3>2. QED
      BY <2>2, <3>1, PieceSecond, SMTT(30)
  <2>5. QED
    BY <2>3, <2>4 DEF k, t
<1>10. RvPicture(t, e) = [table |-> table, data |-> x]
  BY <1>4, <1>6, <1>8, <1>9 DEF RvPicture
<1>11. QED
  BY <1>1, <1>2, <1>2a, <1>6, <1>7, <1>10 DEF t, z

(* A RealVideo picture is found behind those that were there, and the stream
   still ends with a picture. *)
LEMMA RvPicturesGrow ==
  ASSUME NEW s \in Seq(Byte), NEW h \in Seq(Byte), NEW x \in Seq(Byte), NEW n,
         NEW table, RvHeads(h, Len(x), n, table),
         NEW from \in Nat, RvEndsWhole(s, from)
  PROVE  /\ RvEndsWhole(s \o (h \o x), from)
         /\ RvPictures(s \o (h \o x), from)
              = RvPictures(s, from) \o <<[table |-> table, data |-> x]>>
<1> DEFINE z == h \o x
           t == s \o z
           end == Len(s)
           wide == Len(t)
           new == [table |-> table, data |-> x]
           found == [at \in Nat |-> <<RvPicture(s, at)>>]
           next == [at \in Nat |-> RvEnd(s, at)]
           found2 == [at \in Nat |-> <<RvPicture(t, at)>>]
           next2 == [at \in Nat |-> RvEnd(t, at)]
           V == {RvPicture(t, at) : at \in Nat}
<1>0. n \in Nat
  BY DEF RvHeads
<1>1. /\ t \in Seq(Byte) /\ wide = end + (20 + 8 * n) + Len(x)
      /\ end \in Nat /\ Len(x) \in Nat
      /\ RvBody(t, end) = end + (20 + 8 * n) /\ RvEnd(t, end) = wide
      /\ RvPicture(t, end) = new
  BY RvNew
<1>2. z \in Seq(Byte)
  BY ConcatProperties
<1>3. PICK stops \in SUBSET (0 .. Len(s)) :
        /\ from \in stops
        /\ \A at \in stops : at # Len(s) =>
             /\ at + 20 <= Len(s) /\ RvBody(s, at) <= Len(s)
             /\ RvEnd(s, at) \in stops
  BY DEF RvEndsWhole
<1>4. wide \in Nat /\ end < wide /\ end + 20 <= wide /\ end + (20 + 8 * n) <= wide
  <2>1. wide = end + (20 + 8 * n) + Len(x) /\ end \in Nat /\ Len(x) \in Nat
    BY <1>1
  <2> HIDE DEF end, wide
  <2>2. QED
    BY ONLY <1>0, <2>1
<1> HIDE DEF z
<1>5. ASSUME NEW at \in stops, at # end
      PROVE  /\ at \in Nat /\ at + 20 <= end /\ RvBody(s, at) <= end
             /\ RvEnd(s, at) \in stops /\ RvEnd(s, at) > at /\ RvEnd(s, at) \in Nat
             /\ RvBody(t, at) = RvBody(s, at) /\ RvEnd(t, at) = RvEnd(s, at)
             /\ RvPicture(t, at) = RvPicture(s, at)
  <2>1. at \in 0 .. Len(s) /\ RvEnd(s, at) \in 0 .. Len(s) /\ RvEnd(s, at) \in stops
    BY <1>3, <1>5
  <2>2. at \in Nat /\ RvEnd(s, at) <= Len(s)
    BY <1>1, <2>1
  <2>3. at + 20 <= Len(s) /\ RvBody(s, at) <= Len(s)
    BY <1>3, <1>5
  <2>4. QED
    BY <1>2, <2>1, <2>2, <2>3, RvSame
<1> HIDE DEF t, end, wide, new
<1>6. RvEndsWhole(t, from)
  <2> DEFINE stops2 == stops \cup {wide}
  <2>1. from \in stops2 /\ stops2 \in SUBSET (0 .. wide)
    <3>1. \A i \in stops : i \in 0 .. end
      BY <1>3 DEF end
    <3>2. \A i \in 0 .. end : i \in 0 .. wide
      <4>1. end \in Nat
        BY <1>1
      <4>2. QED
        BY ONLY <1>4, <4>1
    <3>3. wide \in 0 .. wide
      BY <1>4
    <3>4. QED
      BY <1>3, <3>1, <3>2, <3>3
  <2>2. ASSUME NEW at \in stops2, at # wide
        PROVE  /\ at + 20 <= wide /\ RvBody(t, at) <= wide /\ RvEnd(t, at) \in stops2
    <3>1. CASE at = end
      <4>1. QED
        BY <1>1, <1>4, <3>1
    <3>2. CASE at # end
      <4>1. at \in stops
        BY <2>2
      <4>2. /\ at \in Nat /\ at + 20 <= end /\ RvBody(s, at) <= end
            /\ RvEnd(s, at) \in stops
            /\ RvBody(t, at) = RvBody(s, at) /\ RvEnd(t, at) = RvEnd(s, at)
        BY <1>5, <3>2, <4>1
      <4>3. NumberAt(s, at + 16, 4) \in Nat
        <5>1. at + 16 \in Nat /\ 4 \in Nat /\ (at + 16) + 4 <= Len(s)
          BY <4>2 DEF end
        <5>2. QED
          BY <5>1, NumberAtType
      <4>4. RvBody(s, at) \in Int
        <5> DEFINE m == NumberAt(s, at + 16, 4)
        <5>1. m \in Nat /\ at \in Nat /\ RvBody(s, at) = at + 20 + 4 * (2 * m)
          BY <4>2, <4>3 DEF RvBody
        <5> HIDE DEF m
        <5>2. QED
          BY ONLY <5>1
      <4>5. at + 20 <= wide /\ RvBody(s, at) <= wide
        <5>1. end \in Nat /\ at \in Nat /\ at + 20 <= end /\ RvBody(s, at) <= end
          BY <1>1, <4>2
        <5>2. QED
          BY ONLY <1>4, <4>4, <5>1
      <4>6. QED
        BY <4>2, <4>5
    <3>3. QED
      BY <3>1, <3>2
  <2> HIDE DEF stops2
  <2>3. QED
    BY <2>1, <2>2 DEF RvEndsWhole, wide
<1> DEFINE W(at) == Walk(end, at, found, next)
           W2(at) == Walk(wide, at, found2, next2)
<1>7. RvPictures(s, from) = W(from) /\ RvPictures(t, from) = W2(from)
  BY RvPicturesIs DEF end, wide
<1>8. found2[end] = <<new>> /\ next2[end] = wide /\ new \in V
  BY <1>1
<1>9. \A at \in stops : at # end =>
        /\ next[at] \in stops /\ next[at] > at
        /\ found[at] \in Seq(V) /\ found2[at] = found[at] /\ next2[at] = next[at]
  <2> SUFFICES ASSUME NEW at \in stops, at # end
               PROVE  /\ next[at] \in stops /\ next[at] > at
                      /\ found[at] \in Seq(V) /\ found2[at] = found[at]
                      /\ next2[at] = next[at]
    OBVIOUS
  <2>1. /\ at \in Nat /\ RvEnd(s, at) \in stops /\ RvEnd(s, at) > at
        /\ RvEnd(t, at) = RvEnd(s, at) /\ RvPicture(t, at) = RvPicture(s, at)
    BY <1>5
  <2>2. next[at] = RvEnd(s, at) /\ next2[at] = RvEnd(t, at)
    BY <2>1
  <2>3. found[at] = <<RvPicture(s, at)>> /\ found2[at] = <<RvPicture(t, at)>> /\ RvPicture(t, at) \in V
    BY <2>1
  <2> HIDE DEF next, next2, found, found2, V
  <2>4. <<RvPicture(t, at)>> \in Seq(V)
    BY <2>3
  <2>5. QED
    BY <2>1, <2>2, <2>3, <2>4
<1> HIDE DEF found, next, found2, next2, V
<1>10. W2(wide) = <<>>
  <2>1. ~(wide < wide)
    BY <1>4
  <2>2. QED
    BY <1>4, <2>1, WalkStep
<1>11. W2(end) = <<new>> /\ W2(end) \in Seq(V)
  <2>0. end \in Nat
    BY <1>1
  <2>1. end < wide /\ next2[end] \in end + 1 .. wide
    BY ONLY <1>4, <1>8, <2>0
  <2>2. W2(end) = found2[end] \o W2(next2[end])
    BY <1>1, <1>4, <2>1, WalkStep
  <2>3. <<new>> \in Seq(V)
    BY <1>8
  <2> HIDE DEF W2
  <2>4. QED
    BY <1>8, <1>10, <2>2, <2>3, ConcatEmptySeq
<1>12. \A at \in stops : W(at) \in Seq(V) /\ W2(IF at = end THEN end ELSE at) = W(at) \o W2(end)
  <2>1. stops \subseteq 0 .. end
    BY <1>3 DEF end
  <2>2. end \in Nat /\ wide \in Nat /\ end \in end .. wide
    <3>1. end \in Nat
      BY <1>1
    <3>2. QED
      BY ONLY <1>4, <3>1
  <2>3. Walk(wide, end, found2, next2) \in Seq(V)
    BY <1>11
  <2>4. Continues(V, end, found, next, wide, found2, next2, end, stops)
    BY <1>9, <2>1, <2>2, <2>3 DEF Continues
  <2>5. QED
    BY <2>4, WalkGrows
<1>13. W2(from) = W(from) \o <<new>>
  <2>1. (IF from = end THEN end ELSE from) = from
    OBVIOUS
  <2> HIDE DEF W, W2
  <2>2. QED
    BY <1>3, <1>11, <1>12, <2>1
<1>14. QED
  BY <1>6, <1>7, <1>13 DEF t, z, new

(***************************************************************************)
(* Units between start codes.                                              *)
(***************************************************************************)
LEMMA BytesDiffer == B(0) \in Byte /\ B(1) \in Byte /\ B(0) # B(1)
BY NamesAssumption DEF B, Byte

(* 0 0 1, byte by byte. *)
LEMMA PrefixType ==
  /\ Prefix \in Seq(Byte) /\ Len(Prefix) = 3
  /\ Prefix[1] = B(0) /\ Prefix[2] = B(0) /\ Prefix[3] = B(1)
BY BytesDiffer DEF Prefix

(* A start code, byte by byte. *)
LEMMA CodeAtIs ==
  ASSUME NEW s \in Seq(Byte), NEW i \in Nat
  PROVE  CodeAt(s, i) <=> /\ i + 3 <= Len(s)
                          /\ s[i + 1] = B(0) /\ s[i + 2] = B(0) /\ s[i + 3] = B(1)
<1>1. SUFFICES ASSUME i + 3 <= Len(s)
               PROVE  (Piece(s, i, 3) = Prefix)
                        <=> (s[i + 1] = B(0) /\ s[i + 2] = B(0) /\ s[i + 3] = B(1))
  BY DEF CodeAt
<1> DEFINE k == 3
<1>2. k \in Nat /\ i + k <= Len(s)
  BY <1>1
<1> HIDE DEF k
<1>3. /\ Piece(s, i, k) \in Seq(Byte) /\ Len(Piece(s, i, k)) = k
      /\ \A j \in 1 .. k : Piece(s, i, k)[j] = s[i + j]
  BY <1>2, PieceIs
<1> DEFINE p == Piece(s, i, 3)
<1>4. /\ p \in Seq(Byte) /\ Len(p) = 3
      /\ p[1] = s[i + 1] /\ p[2] = s[i + 2] /\ p[3] = s[i + 3]
  BY <1>3 DEF k
<1> HIDE DEF p
<1>5. p = Prefix <=> (p[1] = B(0) /\ p[2] = B(0) /\ p[3] = B(1))
  <2>1. ASSUME p[1] = B(0), p[2] = B(0), p[3] = B(1) PROVE p = Prefix
    <3>1. \A j \in 1 .. 3 : p[j] = Prefix[j]
      BY <2>1, PrefixType
    <3>2. QED
      BY <1>4, <3>1, PrefixType, SeqEqual
  <2>2. QED
    BY <2>1, PrefixType
<1>6. QED
  BY <1>4, <1>5 DEF p

(* How many bytes there are before the zeros at the end. *)
IsLast(s, n) ==
  /\ n \in 0 .. Len(s)
  /\ n = 0 \/ s[n] # B(0)
  /\ \A i \in n + 1 .. Len(s) : s[i] = B(0)

(* Stripped chooses the only end there is. *)
LEMMA StrippedIs ==
  ASSUME NEW s \in Seq(Byte), NEW n, IsLast(s, n)
  PROVE  Stripped(s) = SubSeq(s, 1, n)
<1> DEFINE P(m) == m \in 0 .. Len(s) /\ (m = 0 \/ s[m] # B(0))
                     /\ \A i \in m + 1 .. Len(s) : s[i] = B(0)
           last == CHOOSE m \in 0 .. Len(s) :
                     /\ m = 0 \/ s[m] # B(0)
                     /\ \A i \in m + 1 .. Len(s) : s[i] = B(0)
<1>1. P(n) /\ Len(s) \in Nat
  BY LenProperties DEF IsLast
<1>2. P(last)
  BY <1>1
<1>3. Stripped(s) = SubSeq(s, 1, last)
  BY DEF Stripped
<1> HIDE DEF last
<1>4. last = n
  <2>1. last \in Nat /\ n \in Nat /\ last <= Len(s) /\ n <= Len(s)
    BY <1>1, <1>2
  <2>2. ~(last < n)
    <3>1. SUFFICES ASSUME last < n PROVE FALSE
      OBVIOUS
    <3>2. n \in last + 1 .. Len(s) /\ n # 0
      BY <1>1, <2>1, <3>1
    <3>3. QED
      BY <1>1, <1>2, <3>2
  <2>3. ~(n < last)
    <3>1. SUFFICES ASSUME n < last PROVE FALSE
      OBVIOUS
    <3>2. last \in n + 1 .. Len(s) /\ last # 0
      BY <1>1, <2>1, <3>1
    <3>3. QED
      BY <1>1, <1>2, <3>2
  <2>4. QED
    BY <2>1, <2>2, <2>3
<1>5. QED
  BY <1>3, <1>4

(* There is one. *)
LEMMA LastExists ==
  ASSUME NEW s \in Seq(Byte)
  PROVE  \E n : IsLast(s, n)
<1> DEFINE T == {x \in Seq(Byte) : \E n : IsLast(x, n)}
<1>1. <<>> \in T
  <2>1. Len(<<>>) = 0 /\ <<>> \in Seq(Byte)
    BY EmptySeq
  <2>2. IsLast(<<>>, 0)
    BY <2>1 DEF IsLast
  <2>3. QED
    BY <2>1, <2>2
<1>2. ASSUME NEW x \in Seq(Byte), NEW e \in Byte, x \in T PROVE x \o <<e>> \in T
  <2> DEFINE y == x \o <<e>>
             l == Len(x)
  <2>1. l \in Nat /\ y \in Seq(Byte) /\ Len(y) = l + 1 /\ y[l + 1] = e /\ \A i \in 1 .. l : y[i] = x[i]
    BY LenProperties, AppendProperties, AppendIsConcat
  <2>2. PICK n : IsLast(x, n)
    BY <1>2
  <2>3. n \in 0 .. l /\ (n = 0 \/ x[n] # B(0)) /\ \A i \in n + 1 .. l : x[i] = B(0)
    BY <2>2 DEF IsLast
  <2> HIDE DEF y, l
  <2>4. CASE e = B(0)
    <3>1. n \in 0 .. l + 1 /\ (n = 0 \/ y[n] # B(0))
      BY <2>1, <2>3
    <3>2. ASSUME NEW i \in n + 1 .. l + 1 PROVE y[i] = B(0)
      <4>1. i \in n + 1 .. l \/ i = l + 1
        BY <2>1
      <4>2. i \in n + 1 .. l => i \in 1 .. l
        BY <2>1, <2>3
      <4>3. QED
        BY <2>1, <2>3, <2>4, <4>1, <4>2
    <3>3. IsLast(y, n)
      BY <2>1, <3>1, <3>2 DEF IsLast
    <3>4. QED
      BY <2>1, <3>3 DEF y
  <2>5. CASE e # B(0)
    <3>1. IsLast(y, l + 1)
      BY <2>1, <2>5 DEF IsLast
    <3>2. QED
      BY <2>1, <3>1 DEF y
  <2>6. QED
    BY <2>4, <2>5
<1>3. Seq(Byte) \subseteq T
  <2> HIDE DEF T
  <2>1. QED
    BY <1>1, <1>2, SeqInduct
<1>4. QED
  BY <1>3

(* Nothing is stripped of what does not end with a zero. *)
LEMMA StrippedFull ==
  ASSUME NEW s \in Seq(Byte), s # <<>>, s[Len(s)] # B(0)
  PROVE  Stripped(s) = s
<1>1. Len(s) \in Nat /\ Len(s) # 0
  BY LenProperties, EmptySeq
<1>2. IsLast(s, Len(s))
  BY <1>1 DEF IsLast
<1>3. QED
  BY <1>2, StrippedIs, SubSeqFull

(* A zero at the end makes no difference. *)
LEMMA StrippedZero ==
  ASSUME NEW s \in Seq(Byte)
  PROVE  Stripped(s \o <<B(0)>>) = Stripped(s)
<1> DEFINE t == s \o <<B(0)>>
           l == Len(s)
<1>1. /\ l \in Nat /\ t \in Seq(Byte) /\ Len(t) = l + 1 /\ t[l + 1] = B(0)
      /\ \A i \in 1 .. l : t[i] = s[i]
  BY LenProperties, AppendProperties, AppendIsConcat, BytesDiffer
<1>2. PICK n : IsLast(s, n)
  BY LastExists
<1>3. n \in 0 .. l /\ (n = 0 \/ s[n] # B(0)) /\ \A i \in n + 1 .. l : s[i] = B(0)
  BY <1>2 DEF IsLast
<1>4. SubSeq(t, 1, n) = SubSeq(s, 1, n)
  <2>1. n \in Nat /\ 0 \in Nat /\ 0 + n <= Len(s)
    BY <1>1, <1>3
  <2>2. <<B(0)>> \in Seq(Byte)
    BY BytesDiffer
  <2> DEFINE u == <<B(0)>>
  <2>2a. u \in Seq(Byte)
    BY <2>2
  <2> HIDE DEF u
  <2>3. Piece(s \o u, 0, n) = Piece(s, 0, n)
    BY <2>1, <2>2a, PieceFirst
  <2>4. 0 + 1 = 1 /\ 0 + n = n
    BY <2>1
  <2>5. QED
    BY <2>3, <2>4 DEF Piece, u
<1> HIDE DEF t, l
<1>5. IsLast(t, n)
  <2>1. n \in 0 .. l + 1 /\ (n = 0 \/ t[n] # B(0))
    BY <1>1, <1>3
  <2>2. ASSUME NEW i \in n + 1 .. l + 1 PROVE t[i] = B(0)
    <3>1. i \in n + 1 .. l \/ i = l + 1
      BY <1>1
    <3>2. i \in n + 1 .. l => i \in 1 .. l
      BY <1>1, <1>3
    <3>3. QED
      BY <1>1, <1>3, <3>1, <3>2
  <2>3. QED
    BY <1>1, <2>1, <2>2 DEF IsLast
<1>6. Stripped(t) = SubSeq(t, 1, n) /\ Stripped(s) = SubSeq(s, 1, n)
  BY <1>1, <1>2, <1>5, StrippedIs
<1>7. QED
  BY <1>4, <1>6 DEF t

(* Where the first code is from an offset on. *)
IsFrom(s, at, e) ==
  /\ e \in at .. Len(s)
  /\ e = Len(s) \/ CodeAt(s, e)
  /\ \A j \in at .. e - 1 : ~CodeAt(s, j)

(* There is a first code, or none up to the end. *)
LEMMA FromExists ==
  ASSUME NEW s \in Seq(Byte), NEW at \in 0 .. Len(s)
  PROVE  \E e : IsFrom(s, at, e)
<1> DEFINE l == Len(s)
           T == {k \in Nat : \A i \in 0 .. l : l - i <= k => \E e : IsFrom(s, i, e)}
<1>1. l \in Nat
  BY LenProperties
<1>2. 0 \in T
  <2>1. IsFrom(s, l, l)
    BY <1>1 DEF IsFrom
  <2>2. \A i \in 0 .. l : l - i <= 0 => i = l
    BY <1>1
  <2> HIDE DEF l
  <2>3. QED
    BY <2>1, <2>2
<1>3. ASSUME NEW k \in Nat, k \in T PROVE k + 1 \in T
  <2>1. SUFFICES ASSUME NEW i \in 0 .. l, l - i <= k + 1 PROVE \E e : IsFrom(s, i, e)
    OBVIOUS
  <2>2. CASE i = l \/ CodeAt(s, i)
    <3>1. IsFrom(s, i, i)
      BY <1>1, <2>2 DEF IsFrom
    <3>2. QED
      BY <3>1
  <2>3. CASE i # l /\ ~CodeAt(s, i)
    <3>1. i + 1 \in 0 .. l /\ l - (i + 1) <= k
      BY <1>1, <2>1, <2>3
    <3>2. PICK e : IsFrom(s, i + 1, e)
      BY <1>3, <3>1
    <3>3. /\ e \in i + 1 .. l /\ (e = l \/ CodeAt(s, e))
          /\ \A j \in i + 1 .. e - 1 : ~CodeAt(s, j)
      BY <3>2 DEF IsFrom
    <3>4. ASSUME NEW j \in i .. e - 1 PROVE ~CodeAt(s, j)
      <4>1. j = i \/ j \in i + 1 .. e - 1
        BY <1>1, <3>3
      <4>2. QED
        BY <2>3, <3>3, <4>1
    <3>5. e \in i .. l
      BY <1>1, <3>3
    <3>6. IsFrom(s, i, e)
      BY <3>3, <3>4, <3>5 DEF IsFrom
    <3>7. QED
      BY <3>6
  <2>4. QED
    BY <2>2, <2>3
<1>4. l \in T
  <2> HIDE DEF T
  <2>1. QED
    BY <1>1, <1>2, <1>3, NatInduct
<1>5. QED
  BY <1>1, <1>4

(* CodeFrom chooses the only such place there is. *)
LEMMA CodeFromIs ==
  ASSUME NEW s \in Seq(Byte), NEW at \in Nat, NEW e, IsFrom(s, at, e)
  PROVE  CodeFrom(s, at) = e
<1> DEFINE P(x) == /\ x \in at .. Len(s)
                   /\ x = Len(s) \/ CodeAt(s, x)
                   /\ \A j \in at .. x - 1 : ~CodeAt(s, j)
           f == CHOOSE x \in at .. Len(s) :
                  /\ x = Len(s) \/ CodeAt(s, x)
                  /\ \A j \in at .. x - 1 : ~CodeAt(s, j)
<1>1. P(e) /\ Len(s) \in Nat
  BY LenProperties DEF IsFrom
<1>2. P(f)
  BY <1>1
<1>3. CodeFrom(s, at) = f
  BY DEF CodeFrom
<1> HIDE DEF f
<1>4. f \in Nat /\ e \in Nat /\ f <= Len(s) /\ e <= Len(s) /\ at <= f /\ at <= e
  BY <1>1, <1>2
<1>5. ~(f < e)
  <2>1. SUFFICES ASSUME f < e PROVE FALSE
    OBVIOUS
  <2>2. f \in at .. e - 1 /\ f # Len(s)
    BY <1>1, <1>4, <2>1
  <2>3. QED
    BY <1>1, <1>2, <2>2
<1>6. ~(e < f)
  <2>1. SUFFICES ASSUME e < f PROVE FALSE
    OBVIOUS
  <2>2. e \in at .. f - 1 /\ e # Len(s)
    BY <1>1, <1>4, <2>1
  <2>3. QED
    BY <1>1, <1>2, <2>2
<1>7. QED
  BY <1>3, <1>4, <1>5, <1>6

(* What one may put a start code behind. *)
Closed(s) == s = <<>> \/ s[Len(s)] # B(0)

(* A start code is zeros and a one. *)
LEMMA CodeIs ==
  ASSUME NEW code \in {Prefix, StartCode}
  PROVE  /\ code \in Seq(Byte) /\ Len(code) \in {3, 4}
         /\ (Len(code) = 3 <=> code = Prefix)
         /\ code[Len(code)] = B(1) /\ \A j \in 1 .. Len(code) - 1 : code[j] = B(0)
<1>1. CASE code = Prefix
  BY <1>1, PrefixType
<1>2. CASE code = StartCode
  <2> DEFINE z == <<B(0)>>
  <2>1. z \in Seq(Byte) /\ Len(z) = 1 /\ z[1] = B(0)
    BY BytesDiffer
  <2>2. StartCode = z \o Prefix
    BY DEF StartCode
  <2> HIDE DEF z
  <2>3. /\ StartCode \in Seq(Byte) /\ Len(StartCode) = 4
        /\ StartCode[1] = B(0) /\ StartCode[2] = Prefix[1]
        /\ StartCode[3] = Prefix[2] /\ StartCode[4] = Prefix[3]
    <3>1. /\ z \o Prefix \in Seq(Byte)
          /\ Len(z \o Prefix) = Len(z) + Len(Prefix)
          /\ \A i \in 1 .. Len(z) + Len(Prefix) :
               (z \o Prefix)[i] = IF i <= Len(z) THEN z[i] ELSE Prefix[i - Len(z)]
      BY <2>1, PrefixType, ConcatProperties
    <3>2. QED
      BY <2>1, <2>2, <3>1, PrefixType
  <2>4. Len(StartCode) # 3 /\ \A j \in 1 .. 3 : StartCode[j] = B(0)
    BY <2>3, PrefixType
  <2>5. StartCode # Prefix
    <3>1. Len(StartCode) = 4 /\ Len(Prefix) = 3
      BY <2>3, PrefixType
    <3>2. Len(StartCode) # Len(Prefix)
      BY ONLY <3>1
    <3>3. QED
      BY ONLY <3>2
  <2>6. QED
    BY <1>2, <2>3, <2>4, <2>5, PrefixType
<1>3. QED
  BY <1>1, <1>2

(* What s, a start code and a unit make, place by place. *)
LEMMA CodedIs ==
  ASSUME NEW s \in Seq(Byte), NEW code \in {Prefix, StartCode}, NEW u \in Seq(Byte)
  PROVE  LET t == s \o (code \o u)
             e == Len(s)
             c == Len(code)
         IN /\ t \in Seq(Byte) /\ Len(t) = e + c + Len(u)
            /\ e \in Nat /\ c \in {3, 4} /\ Len(u) \in Nat
            /\ \A i \in 1 .. e : t[i] = s[i]
            /\ \A i \in 1 .. c - 1 : t[e + i] = B(0)
            /\ t[e + c] = B(1)
            /\ \A i \in 1 .. Len(u) : t[(e + c) + i] = u[i]
<1> DEFINE z == code \o u
           t == s \o z
           e == Len(s)
           c == Len(code)
<1>1. /\ code \in Seq(Byte) /\ c \in {3, 4}
      /\ code[c] = B(1) /\ \A j \in 1 .. c - 1 : code[j] = B(0)
  BY CodeIs
<1>2. e \in Nat /\ Len(u) \in Nat
  BY LenProperties
<1>3. /\ z \in Seq(Byte) /\ Len(z) = c + Len(u)
      /\ \A i \in 1 .. c + Len(u) : z[i] = IF i <= c THEN code[i] ELSE u[i - c]
  BY <1>1, ConcatProperties
<1> HIDE DEF z
<1>4. /\ t \in Seq(Byte) /\ Len(t) = e + Len(z)
      /\ \A i \in 1 .. e + Len(z) : t[i] = IF i <= e THEN s[i] ELSE z[i - e]
  <2>1. s \in Seq(Byte) /\ z \in Seq(Byte)
    BY <1>3
  <2>2. QED
    BY ONLY <2>1, ConcatProperties
<1> HIDE DEF t, e, c
<1>5. Len(t) = e + c + Len(u)
  BY <1>1, <1>2, <1>3, <1>4
<1>6. \A i \in 1 .. e : t[i] = s[i]
  BY <1>1, <1>2, <1>3, <1>4
<1>7. ASSUME NEW i \in 1 .. c + Len(u) PROVE t[e + i] = z[i]
  <2>1. e + i \in 1 .. e + Len(z) /\ ~(e + i <= e) /\ (e + i) - e = i
    BY <1>1, <1>2, <1>3
  <2>2. QED
    BY <1>4, <2>1
<1>8. ASSUME NEW i \in 1 .. c - 1 PROVE t[e + i] = B(0)
  <2>1. i \in 1 .. c + Len(u) /\ i <= c
    BY <1>1, <1>2
  <2>2. QED
    BY <1>1, <1>3, <1>7, <2>1
<1>9. t[e + c] = B(1)
  <2>1. c \in 1 .. c + Len(u) /\ c <= c
    BY <1>1, <1>2
  <2>2. QED
    BY <1>1, <1>3, <1>7, <2>1
<1>10. ASSUME NEW i \in 1 .. Len(u) PROVE t[(e + c) + i] = u[i]
  <2>1. c + i \in 1 .. c + Len(u) /\ ~(c + i <= c) /\ (c + i) - c = i /\ (e + c) + i = e + (c + i)
    BY <1>1, <1>2
  <2>2. z[c + i] = u[i]
    BY <1>3, <2>1
  <2>3. t[e + (c + i)] = z[c + i]
    BY <1>7, <2>1
  <2>4. QED
    BY <2>1, <2>2, <2>3
<1>11. QED
  BY <1>1, <1>2, <1>4, <1>5, <1>6, <1>8, <1>9, <1>10 DEF t, z, e, c

(* A unit behind what is closed brings one code, at d. *)
LEMMA CodesGrow ==
  ASSUME NEW s \in Seq(Byte), Closed(s), NEW code \in {Prefix, StartCode}, NEW u, IsUnit(u)
  PROVE  LET t == s \o (code \o u)
             d == Len(s) + Len(code) - 3
         IN /\ Closed(t) /\ t # <<>>
            /\ \A i \in Nat : CodeAt(t, i) <=> (CodeAt(s, i) \/ i = d)
<1> DEFINE t == s \o (code \o u)
           e == Len(s)
           c == Len(code)
           d == e + c - 3
<1>1. /\ u \in Seq(Byte) /\ u # <<>> /\ u[Len(u)] # B(0)
      /\ \A j \in 0 .. Len(u) : ~CodeAt(u, j)
  BY DEF IsUnit
<1>2. /\ t \in Seq(Byte) /\ Len(t) = e + c + Len(u)
      /\ e \in Nat /\ c \in {3, 4} /\ Len(u) \in Nat
      /\ \A i \in 1 .. e : t[i] = s[i]
      /\ \A i \in 1 .. c - 1 : t[e + i] = B(0)
      /\ t[e + c] = B(1)
      /\ \A i \in 1 .. Len(u) : t[(e + c) + i] = u[i]
  BY <1>1, CodedIs
<1>3. Len(u) > 0
  BY <1>1, <1>2, EmptySeq
<1>4. \A i \in Nat :
        CodeAt(t, i) <=> i + 3 <= Len(t) /\ t[i + 1] = B(0) /\ t[i + 2] = B(0) /\ t[i + 3] = B(1)
  BY <1>2, CodeAtIs
<1>5. \A i \in Nat :
        CodeAt(s, i) <=> i + 3 <= e /\ s[i + 1] = B(0) /\ s[i + 2] = B(0) /\ s[i + 3] = B(1)
  BY CodeAtIs
<1>6. e > 0 => s[e] # B(0)
  <2>1. e > 0 => s # <<>>
    BY EmptySeq
  <2>2. QED
    BY <2>1 DEF Closed
<1> HIDE DEF t, e, c
<1>7. d \in Nat /\ d >= e /\ d + 3 = e + c
  BY <1>2
<1>8. Closed(t) /\ t # <<>>
  <2>1. Len(t) = (e + c) + Len(u) /\ Len(u) \in 1 .. Len(u)
    BY <1>2, <1>3
  <2>2. t[Len(t)] = u[Len(u)]
    BY <1>2, <2>1
  <2>3. Len(t) # 0
    BY <1>2, <1>3, <2>1
  <2>4. t # <<>>
    <3>1. Len(<<>>) = 0
      BY EmptySeq
    <3>2. QED
      BY ONLY <2>3, <3>1
  <2>5. QED
    BY <1>1, <2>2, <2>4 DEF Closed
<1>9. ASSUME NEW i \in Nat, i + 3 <= e PROVE CodeAt(t, i) <=> CodeAt(s, i)
  <2>1. i + 1 \in 1 .. e /\ i + 2 \in 1 .. e /\ i + 3 \in 1 .. e /\ i + 3 <= Len(t)
    BY <1>2, <1>9
  <2>2. t[i + 1] = s[i + 1] /\ t[i + 2] = s[i + 2] /\ t[i + 3] = s[i + 3]
    BY <1>2, <2>1
  <2>3. QED
    BY <1>4, <1>5, <1>9, <2>1, <2>2
<1>10. CodeAt(t, d)
  <2>1. c - 2 \in 1 .. c - 1 /\ c - 1 \in 1 .. c - 1 /\ d + 3 <= Len(t)
        /\ e + (c - 2) = d + 1 /\ e + (c - 1) = d + 2 /\ e + c = d + 3
    BY <1>2
  <2>2. t[e + (c - 2)] = B(0) /\ t[e + (c - 1)] = B(0)
    BY <1>2, <2>1
  <2>3. t[d + 1] = B(0) /\ t[d + 2] = B(0) /\ t[d + 3] = B(1)
    BY <1>2, <2>1, <2>2
  <2> HIDE DEF d
  <2>4. QED
    BY <1>4, <1>7, <2>1, <2>3
<1>11. ASSUME NEW i \in Nat, i + 3 > e, i < d PROVE ~CodeAt(t, i)
  <2>1. CASE i < e
    <3>1. (e = i + 1 \/ e = i + 2) /\ e > 0 /\ e \in 1 .. e
      BY <1>2, <1>11, <2>1
    <3>2. t[e] = s[e] /\ s[e] # B(0)
      BY <1>2, <1>6, <3>1
    <3>3. QED
      BY <1>4, <3>1, <3>2
  <2>2. CASE i >= e
    <3>1. i = e /\ c = 4 /\ 3 \in 1 .. c - 1
      BY <1>2, <1>11, <2>2
    <3>2. t[e + 3] = B(0)
      BY <1>2, <3>1
    <3>3. QED
      BY <1>4, <3>1, <3>2, BytesDiffer
  <2>3. QED
    BY <1>2, <2>1, <2>2
<1>12. ASSUME NEW i \in Nat, i > d PROVE ~CodeAt(t, i)
  <2>1. t[d + 3] = B(1)
    BY <1>2, <1>7
  <2>2. CASE i = d + 1
    <3>1. i + 2 = d + 3
      BY <1>7, <2>2
    <3>2. QED
      BY <1>4, <2>1, <3>1, BytesDiffer
  <2>3. CASE i = d + 2
    <3>1. i + 1 = d + 3
      BY <1>7, <2>3
    <3>2. QED
      BY <1>4, <2>1, <3>1, BytesDiffer
  <2>4. CASE i >= d + 3
    <3>1. SUFFICES ASSUME CodeAt(t, i) PROVE FALSE
      OBVIOUS
    <3>2. i + 3 <= Len(t) /\ t[i + 1] = B(0) /\ t[i + 2] = B(0) /\ t[i + 3] = B(1)
      BY <1>4, <3>1
    <3> DEFINE j == i - (d + 3)
    <3>3. j \in Nat /\ j \in 0 .. Len(u) /\ j + 3 <= Len(u)
      BY <1>2, <1>7, <2>4, <3>2
    <3>4. i + 1 = (e + c) + (j + 1) /\ i + 2 = (e + c) + (j + 2) /\ i + 3 = (e + c) + (j + 3)
      BY <1>2, <1>7, <3>3
    <3> HIDE DEF j
    <3>5. j + 1 \in 1 .. Len(u) /\ j + 2 \in 1 .. Len(u) /\ j + 3 \in 1 .. Len(u)
      BY <1>2, <3>3
    <3>6. u[j + 1] = B(0) /\ u[j + 2] = B(0) /\ u[j + 3] = B(1)
      BY <1>2, <3>2, <3>4, <3>5
    <3>7. CodeAt(u, j)
      BY <1>1, <3>3, <3>6, CodeAtIs
    <3>8. QED
      BY <1>1, <3>3, <3>7
  <2>5. QED
    BY <1>7, <1>12, <2>2, <2>3, <2>4
<1>13. ASSUME NEW i \in Nat PROVE CodeAt(t, i) <=> (CodeAt(s, i) \/ i = d)
  <2>1. CASE i + 3 <= e
    <3>1. i # d
      BY <1>2, <1>7, <2>1
    <3>2. QED
      BY <1>9, <2>1, <3>1
  <2>2. CASE i + 3 > e
    <3>1. ~CodeAt(s, i)
      <4>1. ~(i + 3 <= e)
        BY <1>2, <2>2
      <4>2. QED
        BY <1>5, <4>1
    <3>2. i < d \/ i = d \/ i > d
      BY <1>7
    <3> HIDE DEF d
    <3>3. QED
      BY <1>10, <1>11, <1>12, <2>2, <3>1, <3>2
  <2>3. QED
    BY <1>2, <2>1, <2>2
<1>14. QED
  BY <1>8, <1>13 DEF t, e, c

(* Where a search ended at the end, it now ends at the new code. *)
LEMMA CodeFromGrows ==
  ASSUME NEW s \in Seq(Byte), NEW t \in Seq(Byte), NEW d \in Nat,
         Len(s) <= d, d < Len(t),
         \A i \in Nat : CodeAt(t, i) <=> (CodeAt(s, i) \/ i = d)
  PROVE  /\ \A at \in 0 .. Len(s) :
              /\ CodeFrom(s, at) \in at .. Len(s)
              /\ CodeFrom(s, at) # Len(s) => CodeAt(s, CodeFrom(s, at))
              /\ CodeFrom(t, at) = IF CodeFrom(s, at) = Len(s) THEN d ELSE CodeFrom(s, at)
         /\ CodeFrom(t, d + 1) = Len(t)
<1>1. Len(s) \in Nat /\ Len(t) \in Nat
  BY LenProperties
<1>2. \A i \in Nat : CodeAt(s, i) => i < Len(s)
  <2> TAKE i \in Nat
  <2>1. CodeAt(s, i) => i + 3 <= Len(s)
    BY DEF CodeAt
  <2>2. QED
    BY <1>1, <2>1
<1>3. ASSUME NEW at \in 0 .. Len(s)
      PROVE  /\ CodeFrom(s, at) \in at .. Len(s)
             /\ CodeFrom(s, at) # Len(s) => CodeAt(s, CodeFrom(s, at))
             /\ CodeFrom(t, at) = IF CodeFrom(s, at) = Len(s) THEN d ELSE CodeFrom(s, at)
  <2>1. PICK e : IsFrom(s, at, e)
    BY FromExists
  <2>2. CodeFrom(s, at) = e
    BY <2>1, CodeFromIs
  <2>3. /\ e \in at .. Len(s) /\ (e = Len(s) \/ CodeAt(s, e))
        /\ \A j \in at .. e - 1 : ~CodeAt(s, j)
    BY <2>1 DEF IsFrom
  <2> DEFINE f == IF e = Len(s) THEN d ELSE e
  <2>4. f \in at .. Len(t) /\ e \in Nat /\ e <= Len(s)
    BY <1>1, <2>3
  <2>5. CodeAt(t, f)
    <3>1. f = d \/ (f = e /\ CodeAt(s, e))
      BY <2>3
    <3> HIDE DEF f
    <3>2. QED
      BY <2>4, <3>1
  <2>6. ASSUME NEW j \in at .. f - 1 PROVE ~CodeAt(t, j)
    <3>1. j \in Nat /\ j # d
      BY <1>1, <2>3
    <3>2. ~CodeAt(s, j)
      <4>1. CASE j < e
        <5>1. j \in at .. e - 1
          BY <2>4, <3>1, <4>1
        <5>2. QED
          BY <2>3, <5>1
      <4>2. CASE j >= e
        <5>1. e = Len(s)
          BY <2>4, <3>1, <4>2
        <5>2. ~(j < Len(s))
          BY <1>1, <3>1, <4>2, <5>1
        <5>3. QED
          BY <1>2, <3>1, <5>2
      <4>3. QED
        BY <2>4, <3>1, <4>1, <4>2
    <3>3. QED
      BY <3>1, <3>2
  <2>7. IsFrom(t, at, f)
    <3> HIDE DEF f
    <3>1. QED
      BY <2>4, <2>5, <2>6 DEF IsFrom
  <2>8. CodeFrom(t, at) = f
    <3> HIDE DEF f
    <3>1. at \in Nat
      BY <1>1
    <3>2. QED
      BY <2>7, <3>1, CodeFromIs
  <2>9. QED
    BY <2>2, <2>3, <2>8
<1>4. CodeFrom(t, d + 1) = Len(t)
  <2>1. ASSUME NEW j \in d + 1 .. Len(t) - 1 PROVE ~CodeAt(t, j)
    <3>1. j \in Nat /\ j # d /\ ~(j < Len(s))
      BY <1>1
    <3>2. QED
      BY <1>2, <3>1
  <2>2. Len(t) \in d + 1 .. Len(t) /\ d + 1 \in Nat
    BY <1>1
  <2>3. IsFrom(t, d + 1, Len(t))
    BY <2>1, <2>2 DEF IsFrom
  <2>4. QED
    BY <2>2, <2>3, CodeFromIs
<1>5. QED
  BY <1>3, <1>4

(* What lies between two places depends on nothing else. *)
LEMMA SubSeqSame ==
  ASSUME NEW V, NEW s \in Seq(V), NEW t, NEW m \in Nat, NEW n \in Nat,
         m > 0, n <= Len(s), \A i \in 1 .. n : t[i] = s[i]
  PROVE  SubSeq(s, m, n) \in Seq(V) /\ SubSeq(t, m, n) = SubSeq(s, m, n)
<1>1. Len(s) \in Nat /\ \A i \in 1 .. Len(s) : s[i] \in V
  BY LenProperties, ElementOfSeq
<1>2. m \in Int /\ n \in Int /\ \A i \in m .. n : s[i] \in V /\ t[i] \in V
  <2>1. \A i \in m .. n : i \in 1 .. n /\ i \in 1 .. Len(s)
    BY <1>1
  <2>2. QED
    BY <1>1, <2>1
<1>3. /\ SubSeq(s, m, n) \in Seq(V)
      /\ Len(SubSeq(s, m, n)) = IF m <= n THEN (n - m) + 1 ELSE 0
      /\ \A i \in 1 .. (n - m) + 1 : SubSeq(s, m, n)[i] = s[(m + i) - 1]
  <2>1. \A i \in m .. n : s[i] \in V
    BY <1>2
  <2>2. QED
    BY <1>2, <2>1, SubSeqProperties
<1>4. /\ SubSeq(t, m, n) \in Seq(V)
      /\ Len(SubSeq(t, m, n)) = IF m <= n THEN (n - m) + 1 ELSE 0
      /\ \A i \in 1 .. (n - m) + 1 : SubSeq(t, m, n)[i] = t[(m + i) - 1]
  <2>1. \A i \in m .. n : t[i] \in V
    BY <1>2
  <2>2. QED
    BY <1>2, <2>1, SubSeqProperties
<1>5. \A i \in 1 .. Len(SubSeq(s, m, n)) : SubSeq(t, m, n)[i] = SubSeq(s, m, n)[i]
  <2> TAKE i \in 1 .. Len(SubSeq(s, m, n))
  <2>1. m <= n /\ i \in 1 .. (n - m) + 1
    BY <1>3
  <2>2. (m + i) - 1 \in 1 .. n
    BY <2>1
  <2>3. QED
    BY <1>3, <1>4, <2>1, <2>2
<1> DEFINE x == SubSeq(s, m, n)
           y == SubSeq(t, m, n)
<1>6. x \in Seq(V) /\ y \in Seq(V) /\ Len(x) = Len(y) /\ \A i \in 1 .. Len(x) : y[i] = x[i]
  BY <1>3, <1>4, <1>5
<1> HIDE DEF x, y
<1>7. x = y
  BY <1>6, SeqEqual
<1>8. QED
  BY <1>6, <1>7 DEF x, y

(* What is left are bytes. *)
LEMMA StrippedType ==
  ASSUME NEW s \in Seq(Byte)
  PROVE  Stripped(s) \in Seq(Byte)
<1>1. PICK n : IsLast(s, n)
  BY LastExists
<1>2. n \in 0 .. Len(s)
  BY <1>1 DEF IsLast
<1>3. SubSeq(s, 1, n) \in Seq(Byte)
  BY <1>2, Prefixes
<1>4. QED
  BY <1>1, <1>3, StrippedIs

(* Behind the new code there is the unit. *)
LEMMA UnitBehind ==
  ASSUME NEW s \in Seq(Byte), NEW code \in {Prefix, StartCode}, NEW u \in Seq(Byte)
  PROVE  LET t == s \o (code \o u)
             d == Len(s) + Len(code) - 3
         IN SubSeq(t, d + 4, Len(t)) = u
<1> DEFINE t == s \o (code \o u)
           f == Len(s) + Len(code)
           n == Len(u)
<1>1. /\ t \in Seq(Byte) /\ Len(t) = f + n
      /\ Len(s) \in Nat /\ Len(code) \in {3, 4} /\ n \in Nat
      /\ \A i \in 1 .. n : t[f + i] = u[i]
  BY CodedIs
<1>2. f \in Nat /\ f + n <= Len(t) /\ f + 1 = (f - 3) + 4
  BY <1>1
<1> HIDE DEF t, f, n
<1>3. t \in Seq(Byte) /\ n \in Nat
  BY <1>1
<1>4. /\ Piece(t, f, n) \in Seq(Byte) /\ Len(Piece(t, f, n)) = n
      /\ \A i \in 1 .. n : Piece(t, f, n)[i] = t[f + i]
  BY <1>2, <1>3, PieceIs
<1>5. \A i \in 1 .. n : Piece(t, f, n)[i] = u[i]
  BY <1>1, <1>4
<1>6. Piece(t, f, n) = u
  BY <1>4, <1>5, SeqEqual DEF n
<1>7. Piece(t, f, n) = SubSeq(t, (f - 3) + 4, Len(t))
  BY <1>1, <1>2 DEF Piece
<1>8. QED
  BY <1>6, <1>7 DEF t, f

(* What was found between two places of s is found between the same, or
   their like, with the unit behind. *)
Behind(s, code, n) == IF n = Len(s) THEN Len(s) + Len(code) - 3 ELSE n

LEMMA FoundBetween ==
  ASSUME NEW s \in Seq(Byte), NEW code \in {Prefix, StartCode}, NEW u \in Seq(Byte),
         NEW at \in Nat, NEW n \in Nat, at + 3 <= Len(s), n <= Len(s)
  PROVE  /\ Stripped(SubSeq(s, at + 4, n)) \in Seq(Byte)
         /\ Stripped(SubSeq(s \o (code \o u), at + 4, Behind(s, code, n)))
              = Stripped(SubSeq(s, at + 4, n))
<1> DEFINE t == s \o (code \o u)
           e == Len(s)
           c == Len(code)
           d == e + c - 3
           m == at + 4
           to == Behind(s, code, n)
<1>1. /\ t \in Seq(Byte) /\ Len(t) = e + c + Len(u)
      /\ e \in Nat /\ c \in {3, 4} /\ Len(u) \in Nat
      /\ \A i \in 1 .. e : t[i] = s[i]
      /\ \A i \in 1 .. c - 1 : t[e + i] = B(0)
  BY CodedIs, SMTT(30)
<1> HIDE DEF t
<1>2. SubSeq(s, m, n) \in Seq(Byte) /\ SubSeq(t, m, n) = SubSeq(s, m, n)
  <2>1. \A i \in 1 .. n : t[i] = s[i]
    BY <1>1
  <2>2. m \in Nat /\ m > 0
    OBVIOUS
  <2> HIDE DEF m
  <2>3. QED
    BY <2>1, <2>2, SubSeqSame
<1>3. Stripped(SubSeq(s, m, n)) \in Seq(Byte)
  <2> HIDE DEF m
  <2>1. QED
    BY <1>2, StrippedType
<1>3a. to = IF n = e THEN d ELSE n
  BY DEF Behind
<1> HIDE DEF to
<1>4. CASE n = e /\ c = 4
  <2>1. d = e + 1 /\ d \in Nat
    BY <1>1, <1>4
  <2>2. t[d] = B(0)
    <3>1. 1 \in 1 .. c - 1
      BY <1>4
    <3>2. t[e + 1] = B(0)
      BY <1>1, <3>1
    <3>3. QED
      BY <2>1, <3>2
  <2>3. m \in 1 .. Len(t) /\ d \in m .. Len(t) /\ d - 1 = e
    <3>1. at + 3 <= e
      OBVIOUS
    <3> HIDE DEF e
    <3>2. m <= d /\ d <= Len(t)
      BY <1>1, <1>4, <2>1, <3>1
    <3>3. QED
      BY <1>1, <2>1, <3>2
  <2> HIDE DEF d, m, e
  <2>4. SubSeq(t, m, d) = SubSeq(t, m, d - 1) \o <<t[d]>>
    <3>1. t \in Seq(Byte)
      BY <1>1
    <3>2. QED
      BY <2>3, <3>1, SubSeqRecursiveSecond
  <2>5. SubSeq(t, m, d) = SubSeq(s, m, n) \o <<B(0)>>
    BY <1>2, <1>4, <2>2, <2>3, <2>4
  <2>6. Stripped(SubSeq(t, m, d)) = Stripped(SubSeq(s, m, n))
    BY <1>2, <2>5, StrippedZero
  <2>7. QED
    BY <1>3, <1>3a, <1>4, <2>6 DEF t, m, to
<1>5. CASE n # e \/ c = 3
  <2>1. to = n
    <3>1. e \in Nat
      BY <1>1
    <3> HIDE DEF e, c
    <3>2. c = 3 => d = e
      BY ONLY <3>1
    <3>3. QED
      BY <1>3a, <1>5, <3>2
  <2>2. QED
    BY <1>2, <1>3, <2>1 DEF t, to
<1>6. QED
  BY <1>1, <1>4, <1>5

(* There are no units in nothing. *)
LEMMA UnitsOfNothing == Units(<<>>) = <<>>
<1>1. <<>> \in Seq(Byte) /\ Len(<<>>) = 0 /\ 0 \in 0 .. 0 /\ 0 .. 0 - 1 = {}
  BY EmptySeq
<1>2. IsFrom(<<>>, 0, 0)
  BY <1>1 DEF IsFrom
<1>3. CodeFrom(<<>>, 0) = 0
  BY <1>1, <1>2, CodeFromIs
<1> DEFINE next == [at \in Nat |-> CodeFrom(<<>>, at + 1)]
           found == [at \in Nat |-> <<Stripped(SubSeq(<<>>, at + 4, next[at]))>>]
<1>4. Units(<<>>) = Walk(0, 0, found, next)
  BY <1>1, <1>3 DEF Units
<1> HIDE DEF next, found
<1>5. ~(0 < 0) /\ 0 \in Nat
  OBVIOUS
<1>6. QED
  BY <1>4, <1>5, WalkStep

(* A unit behind a start code is found behind those that were there. *)
LEMMA UnitsGrow ==
  ASSUME NEW s \in Seq(Byte), Closed(s), NEW code \in {Prefix, StartCode}, NEW u, IsUnit(u)
  PROVE  /\ s \o (code \o u) \in Seq(Byte) /\ Closed(s \o (code \o u))
         /\ Units(s) \in Seq(Seq(Byte))
         /\ Units(s \o (code \o u)) = Units(s) \o <<u>>
<1> DEFINE t == s \o (code \o u)
           end == Len(s)
           wide == Len(t)
           d == Len(s) + Len(code) - 3
           next == [at \in Nat |-> CodeFrom(s, at + 1)]
           found == [at \in Nat |-> <<Stripped(SubSeq(s, at + 4, next[at]))>>]
           next2 == [at \in Nat |-> CodeFrom(t, at + 1)]
           found2 == [at \in Nat |-> <<Stripped(SubSeq(t, at + 4, next2[at]))>>]
           stops == {at \in 0 .. end : at = end \/ CodeAt(s, at)}
           V == Seq(Byte)
<1>1. u \in Seq(Byte) /\ u # <<>> /\ u[Len(u)] # B(0)
  BY DEF IsUnit
<1>2. /\ t \in Seq(Byte) /\ wide = end + Len(code) + Len(u)
      /\ end \in Nat /\ Len(code) \in {3, 4} /\ Len(u) \in Nat
  BY <1>1, CodedIs
<1>3. Closed(t) /\ \A i \in Nat : CodeAt(t, i) <=> (CodeAt(s, i) \/ i = d)
  BY CodesGrow
<1>4. SubSeq(t, d + 4, wide) = u
  BY <1>1, UnitBehind
<1> HIDE DEF t
<1>5. d \in Nat /\ end <= d /\ d < wide /\ wide \in Nat
  <2> DEFINE c == Len(code)
             l == Len(u)
  <2>1. wide = end + c + l /\ end \in Nat /\ c \in {3, 4} /\ l \in Nat /\ d = end + c - 3
    BY <1>2
  <2> HIDE DEF c, l, wide, end, d
  <2>2. QED
    BY ONLY <2>1
<1>6. /\ \A at \in 0 .. end :
           /\ CodeFrom(s, at) \in at .. end
           /\ CodeFrom(s, at) # end => CodeAt(s, CodeFrom(s, at))
           /\ CodeFrom(t, at) = IF CodeFrom(s, at) = end THEN d ELSE CodeFrom(s, at)
      /\ CodeFrom(t, d + 1) = wide
  <2>1. t \in Seq(Byte)
    BY <1>2
  <2> HIDE DEF d
  <2>2. QED
    BY <1>3, <1>5, <2>1, CodeFromGrows
<1>7. found2[d] = <<u>> /\ next2[d] = wide
  <2>1. next2[d] = wide
    BY <1>5, <1>6
  <2>2. Stripped(u) = u
    BY <1>1, StrippedFull
  <2> HIDE DEF next2, wide, d
  <2>3. QED
    BY <1>4, <1>5, <2>1, <2>2
<1>8. ASSUME NEW at \in stops, at # end
      PROVE  /\ next[at] \in stops /\ next[at] > at
             /\ found[at] \in Seq(V) /\ found2[at] = found[at]
             /\ next2[at] = IF next[at] = end THEN d ELSE next[at]
  <2> DEFINE n == CodeFrom(s, at + 1)
  <2>1. at \in Nat /\ at + 3 <= end
    BY <1>2, <1>8 DEF CodeAt
  <2>2. at + 1 \in 0 .. end
    BY <1>2, <2>1
  <2>3. /\ n \in at + 1 .. end /\ (n # end => CodeAt(s, n))
        /\ CodeFrom(t, at + 1) = IF n = end THEN d ELSE n
    BY <1>6, <2>2
  <2>4. next[at] = n /\ next2[at] = IF n = end THEN d ELSE n
    BY <2>1, <2>3
  <2>5. found[at] = <<Stripped(SubSeq(s, at + 4, n))>>
    BY <2>1, <2>4
  <2>6. found2[at] = <<Stripped(SubSeq(t, at + 4, IF n = end THEN d ELSE n))>>
    BY <2>1, <2>4
  <2>7. n \in Nat /\ n <= end /\ n > at /\ n \in 0 .. end
    BY <1>2, <2>1, <2>3
  <2>8. n \in stops
    BY <2>3, <2>7
  <2> HIDE DEF n, found, next, found2, next2, stops, d
  <2>9. /\ Stripped(SubSeq(s, at + 4, n)) \in Seq(Byte)
        /\ Stripped(SubSeq(t, at + 4, IF n = end THEN d ELSE n)) = Stripped(SubSeq(s, at + 4, n))
    <3>1. at \in Nat /\ n \in Nat /\ at + 3 <= Len(s) /\ n <= Len(s)
      BY <2>1, <2>7
    <3>2. u \in Seq(Byte)
      BY <1>1
    <3>3. /\ Stripped(SubSeq(s, at + 4, n)) \in Seq(Byte)
          /\ Stripped(SubSeq(s \o (code \o u), at + 4, Behind(s, code, n)))
               = Stripped(SubSeq(s, at + 4, n))
      BY <3>1, <3>2, FoundBetween
    <3>4. QED
      BY <3>3 DEF t, d, Behind
  <2>10. found[at] \in Seq(V)
    BY <2>5, <2>9
  <2>11. QED
    BY <2>4, <2>5, <2>6, <2>7, <2>8, <2>9, <2>10
<1> DEFINE W(at) == Walk(end, at, found, next)
           W2(at) == Walk(wide, at, found2, next2)
           from == CodeFrom(s, 0)
<1>9. from \in stops /\ CodeFrom(t, 0) = IF from = end THEN d ELSE from
  <2>1. 0 \in 0 .. end
    BY <1>2
  <2>2. QED
    BY <1>6, <2>1
<1>10. Units(s) = W(from) /\ Units(t) = W2(IF from = end THEN d ELSE from)
  <2>1. Units(s) = W(from) /\ Units(t) = W2(CodeFrom(t, 0))
    BY DEF Units
  <2> HIDE DEF W, W2, d, from
  <2>2. QED
    BY <1>9, <2>1
<1>10a. stops \subseteq 0 .. end
  OBVIOUS
<1> HIDE DEF found, next, found2, next2, stops, V, d, wide, end, from
<1>11. W2(wide) = <<>>
  <2>1. ~(wide < wide)
    BY <1>5
  <2>2. QED
    BY <1>5, <2>1, WalkStep
<1>12. W2(d) = <<u>> /\ W2(d) \in Seq(V)
  <2>1. next2[d] \in d + 1 .. wide
    BY <1>5, <1>7
  <2>2. W2(d) = found2[d] \o W2(next2[d])
    BY <1>5, <2>1, WalkStep
  <2>3. <<u>> \in Seq(V)
    BY <1>1 DEF V
  <2> HIDE DEF W2
  <2>4. QED
    BY <1>7, <1>11, <2>2, <2>3, ConcatEmptySeq
<1>13. \A at \in stops : W(at) \in Seq(V) /\ W2(IF at = end THEN d ELSE at) = W(at) \o W2(d)
  <2>1. end \in Nat /\ wide \in Nat /\ d \in end .. wide
    <3>1. end \in Nat
      BY <1>2
    <3>2. QED
      BY ONLY <1>5, <3>1
  <2>2. Walk(wide, d, found2, next2) \in Seq(V)
    BY <1>12
  <2>3. Continues(V, end, found, next, wide, found2, next2, d, stops)
    BY <1>8, <1>10a, <2>1, <2>2 DEF Continues
  <2>4. QED
    BY <2>3, WalkGrows
<1>14. W(from) \in Seq(V) /\ W2(IF from = end THEN d ELSE from) = W(from) \o <<u>>
  <2> HIDE DEF W, W2
  <2>1. QED
    BY <1>9, <1>12, <1>13
<1>15. QED
  <2> HIDE DEF W, W2
  <2>1. QED
    BY <1>2, <1>3, <1>10, <1>14 DEF t, V

(* A sequence that goes on by one element. *)
LEMMA AppendIs ==
  ASSUME NEW V, NEW a \in Seq(V), NEW e \in V, NEW b \in Seq(V),
         Len(b) = Len(a) + 1, b[Len(a) + 1] = e, \A i \in 1 .. Len(a) : b[i] = a[i]
  PROVE  b = a \o <<e>>
<1> DEFINE c == a \o <<e>>
           n == Len(a)
<1>1. n \in Nat
  BY LenProperties
<1>2. c \in Seq(V) /\ Len(c) = n + 1 /\ c[n + 1] = e /\ \A i \in 1 .. n : c[i] = a[i]
  BY AppendProperties, AppendIsConcat
<1> HIDE DEF c
<1>3. \A i \in 1 .. n + 1 : b[i] = c[i]
  <2> TAKE i \in 1 .. n + 1
  <2>1. i \in 1 .. n \/ i = n + 1
    BY <1>1
  <2>2. QED
    BY <1>2, <2>1
<1>4. b = c
  BY <1>2, <1>3, SeqEqual
<1>5. QED
  BY <1>4 DEF c

(* One more unit behind a start code. *)
LEMMA CodedAppend ==
  ASSUME NEW code \in Seq(Byte), NEW us \in Seq(Seq(Byte)), NEW u \in Seq(Byte)
  PROVE  /\ Coded(us, code) \in Seq(Byte)
         /\ Coded(us \o <<u>>, code) = Coded(us, code) \o (code \o u)
<1> DEFINE V == Seq(Byte)
           vs == us \o <<u>>
           n == Len(us)
           a == [i \in 1 .. Len(us) |-> code \o us[i]]
           b == [i \in 1 .. Len(vs) |-> code \o vs[i]]
           e == code \o u
<1>1. \A x \in V : code \o x \in V
  BY ConcatProperties
<1>2. /\ n \in Nat /\ vs \in Seq(V) /\ Len(vs) = n + 1 /\ vs[n + 1] = u
      /\ \A i \in 1 .. n : vs[i] = us[i] /\ us[i] \in V
  <2>1. us \in Seq(V) /\ u \in V
    OBVIOUS
  <2> HIDE DEF V
  <2>2. QED
    BY <2>1, LenProperties, ElementOfSeq, AppendProperties, AppendIsConcat
<1>3. u \in V
  OBVIOUS
<1> HIDE DEF V, vs, n
<1>4. a \in Seq(V) /\ Len(a) = n /\ \A i \in 1 .. n : a[i] = code \o us[i]
  BY <1>1, <1>2, SMTT(30) DEF n
<1>5. b \in Seq(V) /\ Len(b) = n + 1 /\ \A i \in 1 .. n + 1 : b[i] = code \o vs[i]
  <2>1. \A i \in 1 .. n + 1 : vs[i] \in V
    BY <1>2, ElementOfSeq
  <2>2. QED
    BY <1>1, <1>2, <2>1
<1>6. Coded(us, code) = S!FlattenSeq(a) /\ Coded(vs, code) = S!FlattenSeq(b)
  BY DEF Coded
<1> HIDE DEF a, b
<1>7. b = a \o <<e>>
  <2>1. e \in V
    BY <1>1, <1>3
  <2>2. b[n + 1] = e /\ \A i \in 1 .. n : b[i] = a[i]
    <3>1. n + 1 \in 1 .. n + 1 /\ \A i \in 1 .. n : i \in 1 .. n + 1
      BY <1>2
    <3>2. QED
      BY <1>2, <1>4, <1>5, <3>1
  <2> HIDE DEF e
  <2>3. QED
    BY <1>4, <1>5, <2>1, <2>2, AppendIs
<1>8. /\ S!FlattenSeq(a) \in Seq(Byte)
      /\ S!FlattenSeq(a \o <<e>>) = S!FlattenSeq(a) \o e
  <2>1. a \in Seq(Seq(Byte)) /\ e \in Seq(Byte)
    BY <1>1, <1>3, <1>4 DEF V
  <2> HIDE DEF e
  <2>2. QED
    BY <2>1, FlattenAppend
<1>9. QED
  BY <1>6, <1>7, <1>8 DEF vs

(* No units, no bytes. *)
LEMMA CodedEmpty == ASSUME NEW code PROVE Coded(<<>>, code) = <<>>
<1>1. Len(<<>>) = 0 /\ 1 .. 0 = {}
  BY EmptySeq
<1>2. [i \in 1 .. Len(<<>>) |-> code \o <<>>[i]] = <<>>
  BY <1>1
<1>3. QED
  BY <1>2, FlattenEmpty DEF Coded

(* A sequence of units, with one more. *)
LEMMA AppendUnits ==
  ASSUME NEW us \in Seq(Seq(Byte)), NEW u \in Seq(Byte)
  PROVE  /\ us \o <<u>> \in Seq(Seq(Byte)) /\ Len(us \o <<u>>) = Len(us) + 1
         /\ (us \o <<u>>)[Len(us) + 1] = u /\ Len(us) \in Nat
         /\ \A i \in 1 .. Len(us) : (us \o <<u>>)[i] = us[i] /\ us[i] \in Seq(Byte)
<1> DEFINE V == Seq(Byte)
<1>1. us \in Seq(V) /\ u \in V
  OBVIOUS
<1> HIDE DEF V
<1>2. /\ us \o <<u>> \in Seq(V) /\ Len(us \o <<u>>) = Len(us) + 1
      /\ (us \o <<u>>)[Len(us) + 1] = u /\ Len(us) \in Nat
      /\ \A i \in 1 .. Len(us) : (us \o <<u>>)[i] = us[i] /\ us[i] \in V
  BY <1>1, LenProperties, ElementOfSeq, AppendProperties, AppendIsConcat
<1>3. QED
  BY <1>2 DEF V

(* The last of several units, and those before it. *)
LEMMA UnitsBefore ==
  ASSUME NEW us \in Seq(Seq(Byte)), NEW u \in Seq(Byte), AreUnits(us \o <<u>>)
  PROVE  AreUnits(us) /\ IsUnit(u)
<1> DEFINE vs == us \o <<u>>
           n == Len(us)
<1>1. /\ n \in Nat /\ Len(vs) = n + 1 /\ vs[n + 1] = u
      /\ \A i \in 1 .. n : vs[i] = us[i]
  BY AppendUnits
<1>2. \A i \in 1 .. Len(vs) : IsUnit(vs[i])
  BY DEF AreUnits
<1> HIDE DEF vs
<1>3. \A i \in 1 .. n : IsUnit(us[i])
  <2> TAKE i \in 1 .. n
  <2>1. i \in 1 .. Len(vs)
    BY <1>1
  <2>2. IsUnit(vs[i]) /\ vs[i] = us[i]
    BY <1>1, <1>2, <2>1
  <2>3. QED
    BY <2>2
<1>4. IsUnit(u)
  <2>1. n + 1 \in 1 .. Len(vs)
    BY <1>1
  <2>2. IsUnit(vs[n + 1])
    BY <1>2, <2>1
  <2>3. QED
    BY <1>1, <2>2
<1>5. QED
  BY <1>3, <1>4 DEF AreUnits

(* What is found in something that one may put a start code behind. *)
UnitsHeld(s, us) ==
  s \in Seq(Byte) /\ Closed(s) /\ us \in Seq(Seq(Byte)) /\ Units(s) = us

(* There are no units in nothing, and one may begin behind it. *)
LEMMA NothingHeld == UnitsHeld(<<>>, <<>>)
BY UnitsOfNothing, EmptySeq DEF UnitsHeld, Closed

(* Concatenation is associative. *)
LEMMA Regroup ==
  ASSUME NEW V, NEW a \in Seq(V), NEW b \in Seq(V), NEW c \in Seq(V)
  PROVE  (a \o b) \o c = a \o (b \o c) /\ a \o b \in Seq(V) /\ b \o c \in Seq(V)
<1>1. a \in Seq(V) /\ b \in Seq(V) /\ c \in Seq(V)
  OBVIOUS
<1>2. a \o (b \o c) = (a \o b) \o c
  BY ONLY <1>1, ConcatAssociative, SMTT(30)
<1>3. QED
  BY <1>2, ConcatProperties

(* Units behind start codes are found behind those that were there, by induction
   on how many there are. *)
LEMMA UnitsGrowAll ==
  ASSUME NEW s, NEW have, UnitsHeld(s, have), NEW code \in {Prefix, StartCode},
         NEW us, AreUnits(us)
  PROVE  UnitsHeld(s \o Coded(us, code), have \o us)
<1> DEFINE V == Seq(Byte)
           C(x) == Coded(x, code)
           T == {x \in Seq(V) : AreUnits(x) => UnitsHeld(s \o C(x), have \o x)}
<1>1. s \in Seq(Byte) /\ have \in Seq(V) /\ us \in Seq(V) /\ code \in Seq(Byte)
  BY CodeIs DEF UnitsHeld, AreUnits
<1>2. <<>> \in T
  <2>1. C(<<>>) = <<>>
    BY CodedEmpty
  <2>2. s \o <<>> = s /\ have \o <<>> = have
    <3> HIDE DEF V
    <3>1. QED
      BY <1>1, ConcatEmptySeq
  <2>3. <<>> \in Seq(V)
    BY EmptySeq
  <2> HIDE DEF V, C
  <2>4. QED
    BY <2>1, <2>2, <2>3
<1>3. ASSUME NEW x \in Seq(V), NEW u \in V, x \in T PROVE x \o <<u>> \in T
  <2> DEFINE y == x \o <<u>>
  <2>1. y \in Seq(V)
    BY AppendUnits
  <2>2. SUFFICES ASSUME AreUnits(y) PROVE UnitsHeld(s \o C(y), have \o y)
    BY <2>1
  <2>3. AreUnits(x) /\ IsUnit(u)
    BY <2>2, UnitsBefore
  <2>4. UnitsHeld(s \o C(x), have \o x)
    BY <1>3, <2>3
  <2> DEFINE w == s \o C(x)
             z == code \o u
  <2>5. w \in Seq(Byte) /\ Closed(w) /\ Units(w) = have \o x
    BY <2>4 DEF UnitsHeld
  <2>6. /\ w \o z \in Seq(Byte) /\ Closed(w \o z)
        /\ Units(w) \in Seq(V) /\ Units(w \o z) = Units(w) \o <<u>>
    <3> HIDE DEF w
    <3>1. QED
      BY <2>3, <2>5, UnitsGrow
  <2>7. C(x) \in Seq(Byte) /\ C(y) = C(x) \o z /\ z \in Seq(Byte)
    <3>1. x \in Seq(Seq(Byte)) /\ u \in Seq(Byte)
      OBVIOUS
    <3>2. QED
      BY <1>1, <3>1, CodedAppend, ConcatProperties
  <2> HIDE DEF C, z
  <2>8. s \o C(y) = w \o z
    <3>1. s \in Seq(Byte) /\ C(x) \in Seq(Byte) /\ z \in Seq(Byte)
      BY <1>1, <2>7
    <3>2. (s \o C(x)) \o z = s \o (C(x) \o z)
      BY ONLY <3>1, Regroup
    <3>3. QED
      BY <2>7, <3>2
  <2>9. (have \o x) \o <<u>> = have \o y /\ have \o y \in Seq(V)
    <3> DEFINE e == <<u>>
    <3>1. e \in Seq(V) /\ x \in Seq(V)
      OBVIOUS
    <3> HIDE DEF V, e
    <3>2. (have \o x) \o e = have \o (x \o e) /\ x \o e \in Seq(V)
      BY <1>1, <3>1, Regroup, SMTT(30)
    <3>3. have \o (x \o e) \in Seq(V)
      BY <1>1, <3>2, ConcatProperties
    <3>4. QED
      BY <3>2, <3>3 DEF e
  <2> HIDE DEF w, y
  <2>10. QED
    BY <2>5, <2>6, <2>8, <2>9 DEF UnitsHeld
<1>4. Seq(V) \subseteq T
  <2> HIDE DEF T, V
  <2>1. QED
    BY <1>2, <1>3, SeqInduct
<1>5. QED
  BY <1>1, <1>4

(***************************************************************************)
(* Lengths replaced by start codes.                                        *)
(***************************************************************************)
RNext(data, o) ==
  LET after == o + 4 + NumberAt(Padded(data), o, 4)
  IN IF after > Len(data) THEN Len(data) ELSE after
RFound(data, o) ==
  Piece(StartCode \o SubSeq(data, o + 5 + 0, RNext(data, o)), 0, RNext(data, o) - o)

(* Recoded by these names. *)
LEMMA RecodedIs ==
  ASSUME NEW data
  PROVE  Recoded(data, StartCode, 0) =
           Walk(Len(data), 0, [o \in Nat |-> RFound(data, o)], [o \in Nat |-> RNext(data, o)])
BY DEF Recoded, RFound, RNext

(* 0 0 0 1, four bytes like the length it replaces. *)
LEMMA StartCodeType == StartCode \in Seq(Byte) /\ Len(StartCode) = 4
<1>1. StartCode \in {Prefix, StartCode}
  OBVIOUS
<1>2. StartCode # Prefix
  <2>1. Len(Prefix) = 3 /\ StartCode = <<B(0)>> \o Prefix
    BY PrefixType DEF StartCode
  <2>2. Len(StartCode) = 4
    <3> DEFINE z == <<B(0)>>
    <3>1. z \in Seq(Byte) /\ Len(z) = 1 /\ Prefix \in Seq(Byte)
      BY BytesDiffer, PrefixType
    <3> HIDE DEF z
    <3>2. Len(z \o Prefix) = Len(z) + Len(Prefix)
      BY <3>1, ConcatProperties
    <3>3. QED
      BY <2>1, <3>1, <3>2 DEF z
  <2>3. Len(StartCode) # Len(Prefix)
    BY ONLY <2>1, <2>2
  <2>4. QED
    BY ONLY <2>3
<1>3. QED
  BY <1>1, <1>2, CodeIs

(* A unit behind its length. *)
LEMMA RecodedStep ==
  ASSUME NEW data \in Seq(Byte), NEW o \in Nat, NEW n \in Nat,
         o + 4 + n <= Len(data), NumberAt(data, o, 4) = n
  PROVE  /\ RNext(data, o) = o + 4 + n
         /\ RFound(data, o) = StartCode \o Piece(data, o + 4, n)
         /\ Piece(data, o + 4, n) \in Seq(Byte) /\ RFound(data, o) \in Seq(Byte)
<1>1. Len(data) \in Nat /\ o + 4 <= Len(data) /\ 4 \in Nat /\ 0 \in Nat
  BY LenProperties
<1>2. NumberAt(Padded(data), o, 4) = n
  <2> DEFINE k == 4
             z == PutBE(0, 4)
  <2>1. k \in Nat /\ o + k <= Len(data) /\ z \in Seq(Byte)
    BY <1>1, PutTypes
  <2> HIDE DEF k, z
  <2>2. NumberAt(data \o z, o, k) = NumberAt(data, o, k)
    BY <2>1, NumberAtFirst
  <2>3. QED
    BY <2>2 DEF k, z, Padded
<1>3. RNext(data, o) = o + 4 + n
  BY <1>1, <1>2 DEF RNext
<1> DEFINE p == Piece(data, o + 4, n)
<1>4. p \in Seq(Byte) /\ Len(p) = n
  <2> DEFINE f == o + 4
  <2>1. f \in Nat /\ f + n <= Len(data)
    BY <1>1
  <2> HIDE DEF f
  <2>2. Piece(data, f, n) \in Seq(Byte) /\ Len(Piece(data, f, n)) = n
    BY <2>1, PieceIs
  <2>3. QED
    BY <2>2 DEF f
<1>5. SubSeq(data, o + 5 + 0, o + 4 + n) = p
  <2>1. o + 5 + 0 = (o + 4) + 1 /\ o + 4 + n = (o + 4) + n
    OBVIOUS
  <2>2. QED
    BY <2>1 DEF Piece
<1> HIDE DEF p
<1> DEFINE q == StartCode \o p
<1>6. q \in Seq(Byte) /\ Len(q) = 4 + n
  <2>1. StartCode \in Seq(Byte) /\ p \in Seq(Byte)
    BY <1>4, StartCodeType
  <2>2. q \in Seq(Byte) /\ Len(q) = Len(StartCode) + Len(p)
    BY ONLY <2>1, ConcatProperties
  <2>3. QED
    BY <1>4, <2>2, StartCodeType
<1>7. RFound(data, o) = Piece(q, 0, (o + 4 + n) - o)
  BY <1>3, <1>5 DEF RFound
<1> HIDE DEF q
<1>8. (o + 4 + n) - o = Len(q)
  BY <1>6
<1>9. RFound(data, o) = q
  BY <1>6, <1>7, <1>8, PieceWhole
<1>10. QED
  BY <1>3, <1>4, <1>6, <1>9 DEF p, q

(* What is behind a header is found at its offset. *)
LEMMA PieceBehind ==
  ASSUME NEW s \in Seq(Byte), NEW h \in Seq(Byte), NEW x \in Seq(Byte)
  PROVE  /\ s \o (h \o x) \in Seq(Byte)
         /\ Len(s \o (h \o x)) = (Len(s) + Len(h)) + Len(x)
         /\ Len(s) \in Nat /\ Len(h) \in Nat /\ Len(x) \in Nat
         /\ Piece(s \o (h \o x), Len(s) + Len(h), Len(x)) = x
<1> DEFINE g == s \o h
           t == g \o x
<1>1. g \in Seq(Byte) /\ Len(g) = Len(s) + Len(h) /\ t = s \o (h \o x)
  BY Regroup, ConcatProperties
<1>2. Len(s) \in Nat /\ Len(h) \in Nat /\ Len(x) \in Nat
  BY LenProperties
<1> HIDE DEF g
<1>3. t \in Seq(Byte) /\ Len(t) = Len(g) + Len(x)
  BY <1>1, ConcatProperties
<1>4. Piece(t, Len(g) + 0, Len(x)) = Piece(x, 0, Len(x))
  <2>1. 0 + Len(x) <= Len(x) /\ 0 \in Nat /\ g \in Seq(Byte) /\ x \in Seq(Byte) /\ Len(x) \in Nat
    BY <1>1, <1>2
  <2>2. QED
    BY ONLY <2>1, PieceSecond
<1>5. Len(g) + 0 = Len(s) + Len(h)
  BY <1>1, <1>2
<1>6. Piece(x, 0, Len(x)) = x
  BY PieceWhole
<1> HIDE DEF t
<1>7. QED
  BY <1>1, <1>2, <1>3, <1>4, <1>5, <1>6

(* From the beginning on there are units behind their lengths, up to the
   end. *)
SizedEnds(s) ==
  \E stops \in SUBSET (0 .. Len(s)) :
    /\ 0 \in stops
    /\ \A at \in stops : at # Len(s) =>
         at + 4 <= Len(s) /\ at + 4 + NumberAt(s, at, 4) \in stops

(* A unit behind its length goes behind the others, and becomes a unit behind a
   start code. *)
LEMMA RecodedGrows ==
  ASSUME NEW s \in Seq(Byte), SizedEnds(s), NEW u \in Seq(Byte), Fits(Len(u), 4)
  PROVE  LET t == s \o (PutBE(Len(u), 4) \o u)
         IN /\ t \in Seq(Byte) /\ SizedEnds(t)
            /\ Recoded(s, StartCode, 0) \in Seq(Byte)
            /\ Recoded(t, StartCode, 0) = Recoded(s, StartCode, 0) \o (StartCode \o u)
<1> DEFINE h == PutBE(Len(u), 4)
           t == s \o (h \o u)
           end == Len(s)
           wide == Len(t)
           found == [o \in Nat |-> RFound(s, o)]
           next == [o \in Nat |-> RNext(s, o)]
           found2 == [o \in Nat |-> RFound(t, o)]
           next2 == [o \in Nat |-> RNext(t, o)]
           V == Byte
           l == Len(u)
<1>1. l \in Nat /\ h \in Seq(Byte) /\ Len(h) = 4
  BY LenProperties, PutTypes
<1>2. /\ t \in Seq(Byte) /\ wide = (end + 4) + l /\ end \in Nat
      /\ Piece(t, end + 4, l) = u
  <2>1. /\ s \o (h \o u) \in Seq(Byte)
        /\ Len(s \o (h \o u)) = (Len(s) + Len(h)) + Len(u)
        /\ Len(s) \in Nat
        /\ Piece(s \o (h \o u), Len(s) + Len(h), Len(u)) = u
    <3>1. h \in Seq(Byte)
      BY <1>1
    <3> HIDE DEF h
    <3>2. QED
      BY <3>1, PieceBehind
  <2> HIDE DEF h
  <2>2. QED
    BY <1>1, <2>1
<1>3. NumberAt(t, end, 4) = l
  <2> DEFINE k == 4
  <2>1. h \in Seq(Byte) /\ 0 \in Nat /\ k \in Nat /\ 0 + k <= Len(h)
    <3>1. h \in Seq(Byte) /\ Len(h) = 4
      BY <1>1
    <3> HIDE DEF h
    <3>2. QED
      BY <3>1
  <2>2. NumberAt(h, 0, 4) = l
    <3>1. Piece(h, 0, 4) = h
      <4> HIDE DEF h
      <4>1. QED
        BY <1>1, PieceWhole
    <3>2. Number(h) = l
      BY <1>1, NumberOfPutBE
    <3> HIDE DEF h
    <3>3. QED
      BY <3>1, <3>2 DEF NumberAt
  <2> HIDE DEF h, k
  <2>3. NumberAt(s \o (h \o u), Len(s) + 0, k) = NumberAt(h, 0, k)
    BY <2>1, NumberAtBehind
  <2>4. Len(s) + 0 = end
    BY <1>2
  <2>5. QED
    BY <2>2, <2>3, <2>4 DEF k
<1>4. PICK stops \in SUBSET (0 .. Len(s)) :
        /\ 0 \in stops
        /\ \A at \in stops : at # Len(s) =>
             at + 4 <= Len(s) /\ at + 4 + NumberAt(s, at, 4) \in stops
  BY DEF SizedEnds
<1>5. ASSUME NEW at \in stops, at # end
      PROVE  /\ at \in Nat /\ at + 4 <= end /\ next[at] \in stops /\ next[at] > at
             /\ next[at] = at + 4 + NumberAt(t, at, 4)
             /\ found[at] \in Seq(V) /\ found2[at] = found[at] /\ next2[at] = next[at]
  <2> DEFINE n == NumberAt(s, at, 4)
             k == 4
             z == h \o u
  <2>1. at + 4 <= Len(s) /\ at + 4 + n \in stops
    BY <1>4, <1>5
  <2>2. at \in Nat /\ at + 4 + n <= Len(s)
    <3>1. at \in 0 .. Len(s) /\ at + 4 + n \in 0 .. Len(s)
      BY <1>4, <2>1
    <3> HIDE DEF n
    <3>2. QED
      BY <1>2, <3>1
  <2>3. k \in Nat /\ at + k <= Len(s)
    BY <2>1
  <2>4. z \in Seq(Byte) /\ t = s \o z
    <3> HIDE DEF h
    <3>1. QED
      BY <1>1, ConcatProperties
  <2> HIDE DEF k, z, t
  <2>5. NumberAt(s, at, k) \in Nat /\ NumberAt(s \o z, at, k) = NumberAt(s, at, k)
    BY <2>2, <2>3, <2>4, NumberAtType, NumberAtFirst
  <2>6. n \in Nat /\ NumberAt(t, at, 4) = n
    BY <2>4, <2>5 DEF k
  <2> HIDE DEF n, h
  <2>7. /\ RNext(s, at) = at + 4 + n /\ RFound(s, at) = StartCode \o Piece(s, at + 4, n)
        /\ RFound(s, at) \in Seq(Byte)
    BY <2>2, <2>6, RecodedStep DEF n
  <2>8. /\ RNext(t, at) = at + 4 + n /\ RFound(t, at) = StartCode \o Piece(t, at + 4, n)
    <3>1. t \in Seq(Byte) /\ at + 4 + n <= Len(t)
      <4>1. at + 4 + n <= end
        BY <2>2
      <4>2. wide \in Nat /\ end <= wide
        <5>1. end \in Nat /\ l \in Nat /\ wide = (end + 4) + l
          BY <1>1, <1>2
        <5> HIDE DEF end, l, wide
        <5>2. QED
          BY ONLY <5>1
      <4> HIDE DEF end, wide
      <4>3. at + 4 + n <= wide
        BY <1>2, <2>2, <2>6, <4>1, <4>2
      <4>4. QED
        BY <1>2, <4>3 DEF wide
    <3>2. QED
      BY <2>2, <2>6, <3>1, RecodedStep
  <2>9. Piece(t, at + 4, n) = Piece(s, at + 4, n)
    <3> DEFINE f == at + 4
    <3>1. f \in Nat /\ f + n <= Len(s)
      BY <2>2
    <3> HIDE DEF f
    <3>2. Piece(s \o z, f, n) = Piece(s, f, n)
      BY <2>4, <2>6, <3>1, PieceFirst
    <3>3. QED
      BY <2>4, <3>2 DEF f
  <2>10. at + 4 + n > at
    BY <2>2, <2>6
  <2>11. found[at] = RFound(s, at) /\ next[at] = RNext(s, at)
         /\ found2[at] = RFound(t, at) /\ next2[at] = RNext(t, at)
    BY <2>2
  <2> HIDE DEF found, next, found2, next2
  <2>12. QED
    BY <2>1, <2>2, <2>6, <2>7, <2>8, <2>9, <2>10, <2>11 DEF n
<1>6. found2[end] = StartCode \o u /\ next2[end] = wide
  <2>1. (end + 4) + l <= Len(t) /\ (end + 4) + l = end + 4 + l
    BY <1>1, <1>2
  <2> HIDE DEF t, l, end
  <2>2. RNext(t, end) = end + 4 + l /\ RFound(t, end) = StartCode \o Piece(t, end + 4, l)
    <3>1. t \in Seq(Byte) /\ end \in Nat /\ l \in Nat
      BY <1>1, <1>2
    <3>2. (end + 4) + l = end + 4 + l /\ end + 4 + l <= Len(t)
      BY ONLY <2>1
    <3>. QED
      BY ONLY <1>2, <1>3, <3>1, <3>2, RecodedStep
  <2>3. QED
    BY <1>2, <2>1, <2>2
<1> HIDE DEF h
<1>7. Recoded(s, StartCode, 0) = Walk(end, 0, found, next) /\ Recoded(t, StartCode, 0) = Walk(wide, 0, found2, next2)
  BY RecodedIs
<1>8. end < wide /\ end + 4 <= wide /\ wide \in Nat /\ end \in Nat
  <2>1. end \in Nat /\ l \in Nat /\ wide = (end + 4) + l
    BY <1>1, <1>2
  <2> HIDE DEF end, l, wide
  <2>2. QED
    BY ONLY <2>1
<1>9. SizedEnds(t)
  <2> DEFINE stops2 == stops \cup {wide}
  <2> HIDE DEF wide, end, l
  <2>1. 0 \in stops2 /\ stops2 \in SUBSET (0 .. wide)
    <3>1. \A i \in stops : i \in 0 .. end
      BY <1>4 DEF end
    <3>2. \A i \in 0 .. end : i \in 0 .. wide
      BY ONLY <1>8
    <3>3. wide \in 0 .. wide
      BY ONLY <1>8
    <3>4. QED
      BY <1>4, <3>1, <3>2, <3>3
  <2>2. ASSUME NEW at \in stops2, at # wide
        PROVE  at + 4 <= wide /\ at + 4 + NumberAt(t, at, 4) \in stops2
    <3> HIDE DEF t
    <3>1. CASE at = end
      BY <1>2, <1>3, <1>8, <3>1
    <3>2. CASE at # end
      <4>1. at \in stops
        BY <2>2
      <4>2. /\ at \in Nat /\ at + 4 <= end /\ next[at] \in stops
            /\ next[at] = at + 4 + NumberAt(t, at, 4)
        BY <1>5, <3>2, <4>1
      <4> HIDE DEF next
      <4>3. at + 4 <= wide
        BY <1>8, <4>2
      <4>4. QED
        BY <4>2, <4>3
    <3>3. QED
      BY <3>1, <3>2
  <2> HIDE DEF stops2, t
  <2>3. QED
    BY <2>1, <2>2 DEF SizedEnds, wide
<1>10. stops \subseteq 0 .. end
  BY <1>4 DEF end
<1> DEFINE W(at) == Walk(end, at, found, next)
           W2(at) == Walk(wide, at, found2, next2)
<1> HIDE DEF found, next, found2, next2, V, wide, end, t
<1>11. W2(wide) = <<>>
  <2>1. ~(wide < wide)
    BY <1>8
  <2>2. QED
    BY <1>8, <2>1, WalkStep
<1>12. W2(end) = StartCode \o u /\ W2(end) \in Seq(V)
  <2>1. next2[end] \in end + 1 .. wide
    BY <1>6, <1>8
  <2>2. W2(end) = found2[end] \o W2(next2[end])
    BY <1>8, <2>1, WalkStep
  <2> DEFINE x == StartCode \o u
  <2>3. x \in Seq(V)
    BY StartCodeType, ConcatProperties DEF V
  <2> HIDE DEF W2, x
  <2>4. x \o <<>> = x
    BY <2>3, ConcatEmptySeq
  <2>5. QED
    BY <1>6, <1>11, <2>2, <2>3, <2>4 DEF x
<1>13. \A at \in stops : W(at) \in Seq(V) /\ W2(IF at = end THEN end ELSE at) = W(at) \o W2(end)
  <2>1. end \in Nat /\ wide \in Nat /\ end \in end .. wide
    BY ONLY <1>8
  <2>2. Walk(wide, end, found2, next2) \in Seq(V)
    BY <1>12
  <2>3. Continues(V, end, found, next, wide, found2, next2, end, stops)
    BY <1>5, <1>10, <2>1, <2>2 DEF Continues
  <2>4. QED
    BY <2>3, WalkGrows
<1>14. W(0) \in Seq(V) /\ W2(0) = W(0) \o (StartCode \o u)
  <2>1. (IF 0 = end THEN end ELSE 0) = 0
    OBVIOUS
  <2> HIDE DEF W, W2
  <2>2. QED
    BY <1>4, <1>12, <1>13, <2>1
<1>15. QED
  <2> HIDE DEF W, W2
  <2>1. Recoded(s, StartCode, 0) = W(0) /\ Recoded(t, StartCode, 0) = W2(0)
    BY <1>7 DEF W, W2
  <2>2. QED
    BY <1>2, <1>9, <1>14, <2>1 DEF t, h, V

(* Each length fits so many bytes. *)
AllFit(us, n) == \A i \in 1 .. Len(us) : Fits(Len(us[i]), n)

(* What fits of several units fits of the last, and of those before it. *)
LEMMA FitBefore ==
  ASSUME NEW us \in Seq(Seq(Byte)), NEW u \in Seq(Byte), NEW n, AllFit(us \o <<u>>, n)
  PROVE  AllFit(us, n) /\ Fits(Len(u), n)
<1> DEFINE vs == us \o <<u>>
           k == Len(us)
<1>1. /\ k \in Nat /\ Len(vs) = k + 1 /\ vs[k + 1] = u
      /\ \A i \in 1 .. k : vs[i] = us[i]
  BY AppendUnits
<1>2. \A i \in 1 .. Len(vs) : Fits(Len(vs[i]), n)
  BY DEF AllFit
<1> HIDE DEF vs
<1>3. \A i \in 1 .. k : Fits(Len(us[i]), n)
  <2> TAKE i \in 1 .. k
  <2>1. i \in 1 .. Len(vs)
    BY <1>1
  <2>2. Fits(Len(vs[i]), n) /\ vs[i] = us[i]
    BY <1>1, <1>2, <2>1
  <2>3. QED
    BY <2>2
<1>4. Fits(Len(u), n)
  <2>1. k + 1 \in 1 .. Len(vs)
    BY <1>1
  <2>2. Fits(Len(vs[k + 1]), n)
    BY <1>2, <2>1
  <2>3. QED
    BY <1>1, <2>2
<1>5. QED
  BY <1>3, <1>4 DEF AllFit

(* No units, no bytes. *)
LEMMA SizedEmpty == ASSUME NEW n PROVE Sized(<<>>, n) = <<>>
<1>1. Len(<<>>) = 0 /\ 1 .. 0 = {}
  BY EmptySeq
<1>2. [i \in 1 .. Len(<<>>) |-> PutBE(Len(<<>>[i]), n) \o <<>>[i]] = <<>>
  BY <1>1
<1>3. QED
  BY <1>2, FlattenEmpty DEF Sized

(* One more unit behind its length. *)
LEMMA SizedAppend ==
  ASSUME NEW n \in Nat, NEW us \in Seq(Seq(Byte)), NEW u \in Seq(Byte)
  PROVE  /\ Sized(us, n) \in Seq(Byte)
         /\ Sized(us \o <<u>>, n) = Sized(us, n) \o (PutBE(Len(u), n) \o u)
<1> DEFINE V == Seq(Byte)
           vs == us \o <<u>>
           k == Len(us)
           Sz(x) == PutBE(Len(x), n) \o x
           a == [i \in 1 .. Len(us) |-> Sz(us[i])]
           b == [i \in 1 .. Len(vs) |-> Sz(vs[i])]
           e == Sz(u)
<1>1. \A x \in V : Sz(x) \in V
  <2> TAKE x \in V
  <2>1. Len(x) \in Nat
    BY LenProperties
  <2>2. PutBE(Len(x), n) \in Seq(Byte)
    BY <2>1, PutTypes
  <2>3. QED
    BY <2>2, ConcatProperties
<1>2. /\ k \in Nat /\ vs \in Seq(V) /\ Len(vs) = k + 1 /\ vs[k + 1] = u
      /\ \A i \in 1 .. k : vs[i] = us[i] /\ us[i] \in V
  BY AppendUnits
<1>3. u \in V
  OBVIOUS
<1>4. Sized(us, n) = S!FlattenSeq(a) /\ Sized(vs, n) = S!FlattenSeq(b)
  BY DEF Sized
<1> HIDE DEF V, vs, k, Sz
<1>5. a \in Seq(V) /\ Len(a) = k /\ \A i \in 1 .. k : a[i] = Sz(us[i])
  BY <1>1, <1>2 DEF k
<1>6. b \in Seq(V) /\ Len(b) = k + 1 /\ \A i \in 1 .. k + 1 : b[i] = Sz(vs[i])
  <2>1. \A i \in 1 .. k + 1 : vs[i] \in V
    BY <1>2, ElementOfSeq
  <2>2. QED
    BY <1>1, <1>2, <2>1
<1> HIDE DEF a, b
<1>7. b = a \o <<e>>
  <2>1. e \in V
    BY <1>1, <1>3
  <2>2. b[k + 1] = e /\ \A i \in 1 .. k : b[i] = a[i]
    <3>1. k + 1 \in 1 .. k + 1 /\ \A i \in 1 .. k : i \in 1 .. k + 1
      BY <1>2
    <3>2. QED
      BY <1>2, <1>5, <1>6, <3>1
  <2> HIDE DEF e
  <2>3. QED
    BY <1>5, <1>6, <2>1, <2>2, AppendIs
<1>8. /\ S!FlattenSeq(a) \in Seq(Byte)
      /\ S!FlattenSeq(a \o <<e>>) = S!FlattenSeq(a) \o e
  <2>1. a \in Seq(Seq(Byte)) /\ e \in Seq(Byte)
    BY <1>1, <1>3, <1>5 DEF V
  <2> HIDE DEF e
  <2>2. QED
    BY <2>1, FlattenAppend
<1>9. QED
  BY <1>4, <1>7, <1>8 DEF vs, Sz

(* The lengths of an mp4 file's packet become start codes. *)
LEMMA RecodedOfSized ==
  ASSUME NEW us \in Seq(Seq(Byte)), AllFit(us, 4)
  PROVE  Recoded(Sized(us, 4), StartCode, 0) = Coded(us, StartCode)
<1> DEFINE V == Seq(Byte)
           Sz(x) == Sized(x, 4)
           R(x) == Recoded(x, StartCode, 0)
           C(x) == Coded(x, StartCode)
           T == {x \in Seq(V) : AllFit(x, 4) => SizedEnds(Sz(x)) /\ R(Sz(x)) = C(x)}
<1>1. <<>> \in T
  <2>1. Sz(<<>>) = <<>> /\ C(<<>>) = <<>>
    BY SizedEmpty, CodedEmpty
  <2>2. SizedEnds(<<>>)
    <3>1. Len(<<>>) = 0 /\ {0} \in SUBSET (0 .. 0) /\ 0 \in {0}
      BY EmptySeq
    <3>2. QED
      BY <3>1 DEF SizedEnds
  <2>3. R(<<>>) = <<>>
    <3> DEFINE found == [o \in Nat |-> RFound(<<>>, o)]
               next == [o \in Nat |-> RNext(<<>>, o)]
    <3>1. R(<<>>) = Walk(0, 0, found, next)
      <4>1. Len(<<>>) = 0
        BY EmptySeq
      <4>2. QED
        BY <4>1, RecodedIs
    <3>2. ~(0 < 0) /\ 0 \in Nat
      OBVIOUS
    <3> HIDE DEF found, next
    <3>3. QED
      BY <3>1, <3>2, WalkStep
  <2>4. <<>> \in Seq(V)
    BY EmptySeq
  <2> HIDE DEF Sz, R, C, V
  <2>5. QED
    BY <2>1, <2>2, <2>3, <2>4
<1>2. ASSUME NEW x \in Seq(V), NEW u \in V, x \in T PROVE x \o <<u>> \in T
  <2> DEFINE y == x \o <<u>>
             z == PutBE(Len(u), 4) \o u
  <2>1. y \in Seq(V)
    BY AppendUnits
  <2>2. SUFFICES ASSUME AllFit(y, 4) PROVE SizedEnds(Sz(y)) /\ R(Sz(y)) = C(y)
    BY <2>1
  <2>3. AllFit(x, 4) /\ Fits(Len(u), 4)
    BY <2>2, FitBefore
  <2>4. SizedEnds(Sz(x)) /\ R(Sz(x)) = C(x)
    BY <1>2, <2>3
  <2>5. Sz(x) \in Seq(Byte) /\ Sz(y) = Sz(x) \o z
    BY SizedAppend
  <2>6. C(y) = C(x) \o (StartCode \o u)
    BY StartCodeType, CodedAppend
  <2> HIDE DEF y, Sz
  <2>7. SizedEnds(Sz(x) \o z) /\ R(Sz(x) \o z) = R(Sz(x)) \o (StartCode \o u)
    <3>1. Sz(x) \in Seq(Byte) /\ u \in Seq(Byte)
      BY <2>5
    <3>2. QED
      BY <2>3, <2>4, <3>1, RecodedGrows
  <2> HIDE DEF z, R, C
  <2>8. QED
    BY <2>4, <2>5, <2>6, <2>7
<1>3. Seq(V) \subseteq T
  <2> HIDE DEF T, V
  <2>1. QED
    BY <1>1, <1>2, SeqInduct
<1>4. QED
  BY <1>3

(***************************************************************************)
(* The parameter sets of an mp4 file.                                      *)
(***************************************************************************)
NextSet(data, r) ==
  LET nal == NumberAt(data, r.at, 2)
  IN [at |-> r.at + 2 + nal, out |-> r.out \o (StartCode \o Piece(data, r.at + 2, nal))]

(* The recursion of ParameterSets: a set begins where the one before ended. *)
LEMMA ParameterSetsIs ==
  ASSUME NEW data, NEW from
  PROVE  /\ ParameterSets(data, from, 0) = [at |-> from, out |-> <<>>]
         /\ \A n \in Nat : ParameterSets(data, from, n + 1)
                             = NextSet(data, ParameterSets(data, from, n))
<1> DEFINE first == [at |-> from, out |-> <<>>]
           Step(f, i) == NextSet(data, f[i - 1])
           Level(f, i) == IF i = 0 THEN first ELSE Step(f, i)
           Is(f, n) == f = [i \in 0 .. n |-> Level(f, i)]
           After(n) == CHOOSE f : Is(f, n)
<1>1. ASSUME NEW n \in Nat PROVE \E f : Is(f, n)
  <2> DEFINE T == {m \in Nat : \E f : f = [i \in 0 .. m |-> Level(f, i)]}
  <2>1. 0 \in T
    <3> DEFINE f == [i \in 0 .. 0 |-> first]
    <3>1. f = [i \in 0 .. 0 |-> Level(f, i)]
      <4> HIDE DEF Step, first
      <4>1. QED
        OBVIOUS
    <3> HIDE DEF f
    <3>2. QED
      BY <3>1
  <2>2. ASSUME NEW m \in Nat, m \in T PROVE m + 1 \in T
    <3>1. PICK f : f = [i \in 0 .. m |-> Level(f, i)]
      BY <2>2
    <3> DEFINE g == [i \in 0 .. m + 1 |-> Level(f, i)]
    <3> HIDE DEF Level
    <3>2. \A i \in 0 .. m : g[i] = f[i]
      BY <3>1
    <3>3. ASSUME NEW i \in 0 .. m + 1 PROVE g[i] = Level(g, i)
      <4>1. i # 0 => i - 1 \in 0 .. m
        OBVIOUS
      <4>2. g[i] = Level(f, i)
        OBVIOUS
      <4> HIDE DEF g, first
      <4>3. QED
        BY <3>2, <4>1, <4>2 DEF Level
    <3>4. g = [i \in 0 .. m + 1 |-> Level(g, i)]
      <4>1. g = [i \in 0 .. m + 1 |-> g[i]]
        OBVIOUS
      <4> HIDE DEF g
      <4>2. QED
        BY <3>3, <4>1
    <3> HIDE DEF g
    <3>5. QED
      BY <3>4
  <2>3. n \in T
    <3> HIDE DEF T
    <3>1. QED
      BY <2>1, <2>2, NatInduct
  <2>4. QED
    BY <2>3
<1>2. ASSUME NEW n \in Nat PROVE Is(After(n), n)
  BY <1>1
<1>3. \A n \in Nat : ParameterSets(data, from, n) = After(n)[n]
  BY DEF ParameterSets, NextSet
<1> HIDE DEF After, first
<1>4. \A n \in Nat : After(n)[0] = first /\ \A i \in 1 .. n : After(n)[i] = NextSet(data, After(n)[i - 1])
  <2> TAKE n \in Nat
  <2>1. \A i \in 0 .. n : After(n)[i] = Level(After(n), i)
    <3> HIDE DEF Level
    <3>1. QED
      BY <1>2
  <2>2. 0 \in 0 .. n /\ \A i \in 1 .. n : i \in 0 .. n /\ i # 0
    OBVIOUS
  <2>3. QED
    BY <2>1, <2>2
<1>5. ASSUME NEW n \in Nat, NEW m \in n .. n + 1 PROVE \A i \in 0 .. n : After(m)[i] = After(n)[i]
  <2> DEFINE T == {i \in Nat : i <= n => After(m)[i] = After(n)[i]}
  <2>1. 0 \in T
    BY <1>4
  <2>2. ASSUME NEW i \in Nat, i \in T PROVE i + 1 \in T
    <3>1. SUFFICES ASSUME i + 1 <= n PROVE After(m)[i + 1] = After(n)[i + 1]
      OBVIOUS
    <3>2. After(m)[i] = After(n)[i]
      BY <2>2, <3>1
    <3>3. i + 1 \in 1 .. n /\ i + 1 \in 1 .. m /\ (i + 1) - 1 = i /\ m \in Nat
      BY <3>1
    <3>4. After(m)[i + 1] = NextSet(data, After(m)[i]) /\ After(n)[i + 1] = NextSet(data, After(n)[i])
      BY <1>4, <3>3
    <3>5. QED
      BY <3>2, <3>4
  <2>3. Nat \subseteq T
    <3> HIDE DEF T
    <3>1. QED
      BY <2>1, <2>2, NatInduct
  <2>4. QED
    BY <2>3
<1>6. ParameterSets(data, from, 0) = first
  BY <1>3, <1>4
<1>7. ASSUME NEW n \in Nat
      PROVE  ParameterSets(data, from, n + 1) = NextSet(data, ParameterSets(data, from, n))
  <2>1. After(n + 1)[n] = After(n)[n]
    BY <1>5
  <2>2. n + 1 \in Nat /\ n + 1 \in 1 .. n + 1 /\ (n + 1) - 1 = n
    OBVIOUS
  <2>3. After(n + 1)[n + 1] = NextSet(data, After(n + 1)[n])
    BY <1>4, <2>2
  <2>4. QED
    BY <1>3, <2>1, <2>2, <2>3
<1>8. QED
  BY <1>6, <1>7 DEF first

(* The sets that are there are the sets that are found. *)
LEMMA ParameterSetsFound ==
  ASSUME NEW a \in Seq(Byte), NEW us \in Seq(Seq(Byte)), AllFit(us, 2)
  PROVE  \A b \in Seq(Byte) :
           ParameterSets(a \o (Sized(us, 2) \o b), Len(a), Len(us))
             = [at |-> Len(a) + Len(Sized(us, 2)), out |-> Coded(us, StartCode)]
<1> DEFINE V == Seq(Byte)
           Sz(x) == Sized(x, 2)
           C(x) == Coded(x, StartCode)
           Good(x) == \A b \in Seq(Byte) :
                        ParameterSets(a \o (Sz(x) \o b), Len(a), Len(x))
                          = [at |-> Len(a) + Len(Sz(x)), out |-> C(x)]
           T == {x \in Seq(V) : AllFit(x, 2) => Good(x)}
<1>1. <<>> \in T
  <2>1. Sz(<<>>) = <<>> /\ C(<<>>) = <<>> /\ Len(<<>>) = 0
    BY SizedEmpty, CodedEmpty, EmptySeq
  <2>2. Len(a) + 0 = Len(a)
    BY LenProperties
  <2>3. \A d : ParameterSets(d, Len(a), 0) = [at |-> Len(a), out |-> <<>>]
    BY ParameterSetsIs
  <2>4. <<>> \in Seq(V)
    BY EmptySeq
  <2> HIDE DEF Sz, C, V
  <2>5. Good(<<>>)
    BY <2>1, <2>2, <2>3
  <2>6. QED
    BY <2>4, <2>5
<1>2. ASSUME NEW x \in Seq(V), NEW u \in V, x \in T PROVE x \o <<u>> \in T
  <2> DEFINE y == x \o <<u>>
             h == PutBE(Len(u), 2)
             z == h \o u
             n == Len(x)
  <2>1. y \in Seq(V) /\ Len(y) = n + 1 /\ n \in Nat
    BY AppendUnits
  <2>2. SUFFICES ASSUME AllFit(y, 2), NEW b \in Seq(Byte)
                 PROVE  ParameterSets(a \o (Sz(y) \o b), Len(a), Len(y))
                          = [at |-> Len(a) + Len(Sz(y)), out |-> C(y)]
    BY <2>1
  <2>3. AllFit(x, 2) /\ Fits(Len(u), 2)
    BY <2>2, FitBefore
  <2>4. Good(x)
    BY <1>2, <2>3
  <2>5. Sz(x) \in Seq(Byte) /\ Sz(y) = Sz(x) \o z
    BY SizedAppend
  <2>6. C(y) = C(x) \o (StartCode \o u)
    BY StartCodeType, CodedAppend
  <2>7. h \in Seq(Byte) /\ Len(h) = 2 /\ Len(u) \in Nat /\ u \in Seq(Byte) /\ Number(h) = Len(u)
    BY <2>3, LenProperties, PutTypes, NumberOfPutBE
  <2> HIDE DEF y, h, n, Sz, C, V
  <2>8. z \in Seq(Byte) /\ Len(z) = 2 + Len(u)
    <3>1. z \in Seq(Byte) /\ Len(z) = Len(h) + Len(u)
      BY <2>7, ConcatProperties
    <3>2. QED
      BY <2>7, <3>1
  <2> DEFINE q == Sz(x)
             p == a \o q
             e == Len(p)
             data == p \o (z \o b)
  <2>9. q \in Seq(Byte)
    BY <2>5
  <2> HIDE DEF q
  <2>10. p \in Seq(Byte) /\ e = Len(a) + Len(q) /\ e \in Nat /\ Len(a) \in Nat /\ Len(q) \in Nat
    BY <2>9, ConcatProperties, LenProperties
  <2> HIDE DEF p, e, z
  <2>11. z \o b \in Seq(Byte)
    BY <2>8, ConcatProperties
  <2>12. a \o (Sz(y) \o b) = data /\ a \o (q \o (z \o b)) = data
    <3>1. (q \o z) \o b = q \o (z \o b)
      <4>1. q \in Seq(Byte) /\ z \in Seq(Byte) /\ b \in Seq(Byte)
        BY <2>8, <2>9
      <4>2. QED
        BY ONLY <4>1, Regroup, SMTT(30)
    <3> DEFINE w == z \o b
    <3>2. w \in Seq(Byte)
      BY <2>11
    <3> HIDE DEF w
    <3>3. (a \o q) \o w = a \o (q \o w)
      BY <2>9, <3>2, Regroup, SMTT(30)
    <3>4. QED
      BY <2>5, <3>1, <3>3 DEF w, p, q
  <2>13. ParameterSets(data, Len(a), n) = [at |-> e, out |-> C(x)]
    <3>1. ParameterSets(a \o (q \o (z \o b)), Len(a), n) = [at |-> Len(a) + Len(q), out |-> C(x)]
      BY <2>4, <2>11 DEF q, n
    <3>2. QED
      BY <2>10, <2>12, <3>1
  <2>14. NumberAt(data, e, 2) = Len(u)
    <3> DEFINE k == 2
               w == u \o b
    <3>1. w \in Seq(Byte) /\ z \o b = h \o w
      <4>1. h \in Seq(Byte) /\ u \in Seq(Byte) /\ b \in Seq(Byte)
        BY <2>7
      <4>2. (h \o u) \o b = h \o (u \o b) /\ u \o b \in Seq(Byte)
        BY ONLY <4>1, Regroup, SMTT(30)
      <4>3. QED
        BY <4>2 DEF z
    <3>2. k \in Nat /\ 0 \in Nat /\ 0 + k <= Len(h)
      BY <2>7
    <3> HIDE DEF k, w
    <3>3. NumberAt(p \o (h \o w), Len(p) + 0, k) = NumberAt(h, 0, k)
      <4>1. p \in Seq(Byte) /\ h \in Seq(Byte) /\ w \in Seq(Byte)
        BY <2>7, <2>10, <3>1
      <4>2. QED
        BY ONLY <3>2, <4>1, NumberAtBehind
    <3>4. NumberAt(h, 0, k) = Len(u)
      <4>1. Piece(h, 0, Len(h)) = h /\ Len(h) = k
        BY <2>7, PieceWhole DEF k
      <4>2. QED
        BY <2>7, <4>1 DEF NumberAt
    <3>5. Len(p) + 0 = e
      BY <2>10 DEF e
    <3>6. QED
      BY <3>1, <3>3, <3>4, <3>5 DEF k
  <2>15. Piece(data, e + 2, Len(u)) = u
    <3> DEFINE k == 2
               m == Len(u)
    <3>1. k \in Nat /\ m \in Nat /\ k + m <= Len(z)
      BY <2>7, <2>8
    <3>2. Piece(z, k, m) = u
      <4>1. Piece(h \o u, Len(h) + 0, Len(u)) = Piece(u, 0, Len(u))
        <5>1. 0 \in Nat /\ 0 + Len(u) <= Len(u) /\ h \in Seq(Byte) /\ u \in Seq(Byte) /\ Len(u) \in Nat
          BY <2>7
        <5>2. QED
          BY ONLY <5>1, PieceSecond
      <4>2. Piece(u, 0, Len(u)) = u
        BY <2>7, PieceWhole
      <4>3. Len(h) + 0 = k
        BY <2>7
      <4>4. QED
        BY <4>1, <4>2, <4>3 DEF z
    <3>3. k + m <= Len(z \o b)
      <4>1. Len(z \o b) = Len(z) + Len(b) /\ Len(b) \in Nat /\ Len(z) \in Nat
        BY <2>8, ConcatProperties, LenProperties
      <4>2. QED
        BY <3>1, <4>1
    <3> HIDE DEF k, m
    <3>4. Piece(z \o b, k, m) = Piece(z, k, m)
      <4>1. z \in Seq(Byte) /\ b \in Seq(Byte)
        BY <2>8
      <4>2. QED
        BY <3>1, <4>1, PieceFirst
    <3> DEFINE w == z \o b
    <3>5. w \in Seq(Byte) /\ k + m <= Len(w) /\ p \in Seq(Byte)
      BY <2>10, <2>11, <3>3
    <3> HIDE DEF w
    <3>6. Piece(p \o w, Len(p) + k, m) = Piece(w, k, m)
      BY <3>1, <3>5, PieceSecond
    <3>7. QED
      BY <3>2, <3>4, <3>6 DEF k, m, w, e
  <2> HIDE DEF data
  <2>16. ParameterSets(data, Len(a), n + 1) = [at |-> e + 2 + Len(u), out |-> C(x) \o (StartCode \o u)]
    <3>1. ParameterSets(data, Len(a), n + 1) = NextSet(data, ParameterSets(data, Len(a), n))
      BY <2>1, ParameterSetsIs
    <3> DEFINE r == ParameterSets(data, Len(a), n)
               l == Len(u)
    <3>2. r.at = e /\ r.out = C(x)
      BY <2>13
    <3>3. NextSet(data, r) =
            LET nal == NumberAt(data, r.at, 2)
            IN [at |-> r.at + 2 + nal, out |-> r.out \o (StartCode \o Piece(data, r.at + 2, nal))]
      BY DEF NextSet
    <3> HIDE DEF r, l
    <3>4. NextSet(data, r) = [at |-> e + 2 + l, out |-> C(x) \o (StartCode \o Piece(data, e + 2, l))]
      BY ONLY <2>14, <3>2, <3>3 DEF l
    <3>5. QED
      BY <2>15, <3>1, <3>4 DEF r, l
  <2>17. e + 2 + Len(u) = Len(a) + Len(Sz(y))
    <3>1. Len(Sz(y)) = Len(q) + Len(z)
      BY <2>5, <2>8, <2>9, ConcatProperties DEF q
    <3>2. QED
      BY <2>7, <2>8, <2>10, <3>1
  <2>18. QED
    BY <2>1, <2>6, <2>12, <2>16, <2>17
<1>3. Seq(V) \subseteq T
  <2> HIDE DEF T, V
  <2>1. QED
    BY <1>1, <1>2, SeqInduct
<1>4. QED
  BY <1>3

(* A number of one byte. *)
LEMMA ByteType ==
  ASSUME NEW v \in Nat
  PROVE  <<B(v)>> \in Seq(Byte) /\ Len(<<B(v)>>) = 1 /\ <<B(v)>>[1][2] = v
<1>1. "byte" \in Names
  BY NamesAssumption
<1>2. B(v) \in Byte /\ B(v)[2] = v
  BY <1>1 DEF B, Byte
<1>. QED
  BY <1>2

(* A number of one digit. *)
LEMMA NumberOfByte ==
  ASSUME NEW v \in Nat
  PROVE  Number(<<B(v)>>) = v
<1>1. Len(<<B(v)>>) = 1 /\ <<B(v)>>[1][2] = v
  BY ByteType
<1>. DEFINE b == <<B(v)>>
<1>2. Len(b) = 1 /\ b[1][2] = v
  BY <1>1
<1>. HIDE DEF b
<1>3. Len(b) \in Nat
  BY <1>2
<1>4. PICK f : /\ f[0] = 0
               /\ \A i \in 1 .. Len(b) : f[i] = (f[i - 1] * Radix) + b[i][2]
               /\ Number(b) = f[Len(b)]
  BY <1>3, NumberIs
<1>5. f[1] = (f[1 - 1] * Radix) + b[1][2]
  <2>1. 1 \in 1 .. Len(b)
    BY <1>2
  <2>. QED
    BY <2>1, <1>4
<1>6. f[1 - 1] = 0
  BY <1>4
<1>7. 0 * Radix = 0
  BY RadixAssumption
<1>8. f[1] = v
  BY <1>5, <1>6, <1>7, <1>2
<1>9. Number(b) = v
  BY <1>4, <1>8, <1>2
<1>. QED
  BY <1>9 DEF b

(* Read where it was put. *)
LEMMA NumberOfByteAt ==
  ASSUME NEW a \in Seq(Byte), NEW c \in Seq(Byte), NEW v \in Nat
  PROVE  NumberAt(a \o <<B(v)>> \o c, Len(a), 1) = v
<1>. DEFINE b == <<B(v)>>
<1>1. b \in Seq(Byte) /\ Len(b) = 1
  BY ByteType
<1>2. Number(b) = v
  BY NumberOfByte
<1>. HIDE DEF b
<1>3. Piece(a \o b \o c, Len(a), Len(b)) = b
  BY <1>1, PieceMiddle
<1>4. NumberAt(a \o b \o c, Len(a), 1) = v
  BY <1>1, <1>2, <1>3 DEF NumberAt
<1>. QED
  BY <1>4 DEF b

(* Concatenation, for the provers an operator they do not look into. *)
Cat(a, b) == a \o b
(* What is used of it. *)
Sequences(T) ==
  /\ \A p, q \in T : Cat(p, q) \in T /\ Len(Cat(p, q)) = Len(p) + Len(q)
  /\ \A p, q, r \in T : Cat(Cat(p, q), r) = Cat(p, Cat(q, r))

(* It is one. *)
LEMMA AreSequences ==
  ASSUME NEW V
  PROVE  Sequences(Seq(V))
<1>. DEFINE T == Seq(V)
<1>1. \A p, q \in T : Cat(p, q) \in T /\ Len(Cat(p, q)) = Len(p) + Len(q)
  BY ConcatProperties DEF Cat
<1>2. \A p, q, r \in T : Cat(Cat(p, q), r) = Cat(p, Cat(q, r))
  BY Regroup, SMTT(30) DEF Cat
<1>. HIDE DEF T
<1>3. Sequences(T)
  BY ONLY <1>1, <1>2 DEF Sequences
<1>. QED
  BY <1>3 DEF T

(* Of the extradata of an mp4 file the header keeps the parameter sets, each
   behind a start code. *)
LEMMA AvcHeaderIs ==
  ASSUME NEW a, a \in Seq(Byte), Len(a) = 6,
         NEW sps, NEW pps, sps \in Seq(Seq(Byte)), pps \in Seq(Seq(Byte)),
         AllFit(sps, 2), AllFit(pps, 2),
         NEW data, data = a \o Sized(sps, 2) \o <<B(Len(pps))>> \o Sized(pps, 2),
         data[6][2] % Radix = Len(sps)
  PROVE  Written(AvcHeader(data)) = Coded(sps, StartCode) \o Coded(pps, StartCode)
<1>. DEFINE x == Sized(sps, 2)
            y == Sized(pps, 2)
            m == Len(pps)
            c == <<B(m)>>
<1>1. x \in Seq(Byte) /\ y \in Seq(Byte)
  BY SizedAppend, EmptySeq
<1>2. m \in Nat
  OBVIOUS
<1>3. c \in Seq(Byte) /\ Len(c) = 1
  BY <1>2, ByteType
<1>4. \A s, t \in Seq(Byte) : NumberAt(s \o c \o t, Len(s), 1) = m
  BY <1>2, NumberOfByteAt
<1>5. ParameterSets(a \o (x \o (c \o y)), Len(a), Len(sps))
        = [at |-> Len(a) + Len(x), out |-> Coded(sps, StartCode)]
  <2>1. c \o y \in Seq(Byte)
    BY <1>1, <1>3, ConcatProperties
  <2>. QED
    BY <2>1, ParameterSetsFound
<1>6. \A s \in Seq(Byte) : ParameterSets(s \o (y \o <<>>), Len(s), Len(pps))
        = [at |-> Len(s) + Len(y), out |-> Coded(pps, StartCode)]
  <2>1. <<>> \in Seq(Byte)
    OBVIOUS
  <2>. QED
    BY <2>1, ParameterSetsFound
<1>7. data = a \o x \o c \o y
  OBVIOUS
<1>. HIDE DEF x, y, c
<1>8. /\ data = a \o (x \o (c \o y)) /\ data = (a \o x) \o c \o y
      /\ data = ((a \o x) \o c) \o (y \o <<>>)
      /\ a \o x \in Seq(Byte) /\ (a \o x) \o c \in Seq(Byte)
      /\ Len(a \o x) = Len(a) + Len(x) /\ Len((a \o x) \o c) = (Len(a) + Len(x)) + 1
  <2>0. a \in Seq(Byte) /\ x \in Seq(Byte) /\ c \in Seq(Byte) /\ y \in Seq(Byte)
    BY <1>1, <1>3
  <2>. DEFINE T == Seq(Byte)
  <2>1. Sequences(T)
    BY ONLY AreSequences
  <2>2. a \in T /\ x \in T /\ c \in T /\ y \in T
    BY <2>0
  <2>3. Cat(y, <<>>) = y
    BY <1>1 DEF Cat
  <2>. HIDE DEF T
  <2>4. /\ \A p, q \in T : Cat(p, q) \in T /\ Len(Cat(p, q)) = Len(p) + Len(q)
        /\ \A p, q, r \in T : Cat(Cat(p, q), r) = Cat(p, Cat(q, r))
    BY ONLY <2>1 DEF Sequences
  <2>5. /\ Cat(Cat(Cat(a, x), c), y) = Cat(a, Cat(x, Cat(c, y)))
        /\ Cat(a, x) \in T /\ Len(Cat(a, x)) = Len(a) + Len(x)
        /\ Cat(Cat(a, x), c) \in T /\ Len(Cat(Cat(a, x), c)) = (Len(a) + Len(x)) + Len(c)
    <3>1. /\ Cat(a, x) \in T /\ Len(Cat(a, x)) = Len(a) + Len(x)
          /\ Cat(c, y) \in T
      BY ONLY <2>4, <2>2
    <3>2. /\ Cat(Cat(a, x), c) \in T /\ Len(Cat(Cat(a, x), c)) = Len(Cat(a, x)) + Len(c)
      BY ONLY <2>4, <2>2, <3>1
    <3>3. Cat(Cat(Cat(a, x), c), y) = Cat(Cat(a, x), Cat(c, y))
      BY ONLY <2>4, <2>2, <3>1
    <3>4. Cat(Cat(a, x), Cat(c, y)) = Cat(a, Cat(x, Cat(c, y)))
      BY ONLY <2>4, <2>2, <3>1
    <3>. QED
      BY ONLY <3>1, <3>2, <3>3, <3>4
  <2>6. data = Cat(Cat(Cat(a, x), c), y)
    BY ONLY <1>7 DEF Cat
  <2>7. /\ data = Cat(a, Cat(x, Cat(c, y))) /\ data = Cat(Cat(Cat(a, x), c), Cat(y, <<>>))
        /\ Cat(a, x) \in T /\ Cat(Cat(a, x), c) \in T
        /\ Len(Cat(a, x)) = Len(a) + Len(x)
        /\ Len(Cat(Cat(a, x), c)) = (Len(a) + Len(x)) + 1
    BY ONLY <2>5, <2>6, <2>3, <1>3
  <2>. QED
    BY ONLY <2>6, <2>7 DEF T, Cat
<1>9. NumberAt(data, Len(a) + Len(x), 1) = m
  BY ONLY <1>8, <1>4, <1>1
<1>10. ParameterSets(data, 6, data[6][2] % Radix)
         = [at |-> Len(a) + Len(x), out |-> Coded(sps, StartCode)]
  BY <1>5, <1>8
<1>11. ParameterSets(data, (Len(a) + Len(x)) + 1, m)
         = [at |-> ((Len(a) + Len(x)) + 1) + Len(y), out |-> Coded(pps, StartCode)]
  BY ONLY <1>6, <1>8, m = Len(pps)
<1>. DEFINE p == Coded(sps, StartCode)
            q == Coded(pps, StartCode)
<1>12. AvcHeader(data) = Header(Len(p) + Len(q), p \o q)
  <2>. DEFINE s1 == ParameterSets(data, 6, data[6][2] % Radix)
              s2 == ParameterSets(data, s1.at + 1, NumberAt(data, s1.at, 1))
  <2>1. s1.at = Len(a) + Len(x) /\ s1.out = p
    BY ONLY <1>10
  <2>2. s2.out = q
    <3>. HIDE DEF s1, m
    <3>1. NumberAt(data, s1.at, 1) = m /\ s1.at + 1 = (Len(a) + Len(x)) + 1
      BY ONLY <2>1, <1>9
    <3>2. s2 = [at |-> ((Len(a) + Len(x)) + 1) + Len(y), out |-> q]
      BY ONLY <3>1, <1>11
    <3>. QED
      BY ONLY <3>2
  <2>3. AvcHeader(data) = Header(Len(s1.out) + Len(s2.out), s1.out \o s2.out)
    BY DEF AvcHeader
  <2>. QED
    BY ONLY <2>1, <2>2, <2>3
<1>13. p \in Seq(Byte) /\ q \in Seq(Byte)
  <2>1. <<>> \in Seq(Byte)
    OBVIOUS
  <2>. QED
    BY <2>1, CodedAppend, StartCodeType
<1>. HIDE DEF p, q
<1>14. p \o q \in Seq(Byte) /\ Len(p \o q) = Len(p) + Len(q)
  BY ONLY <1>13, ConcatProperties
<1>15. Written(Header(Len(p) + Len(q), p \o q)) = p \o q
  BY ONLY <1>14, WrittenIs
<1>. QED
  BY <1>12, <1>15 DEF p, q

(* The content of the first packets. *)
Upto(film, k) == S!FlattenSeq(SubSeq(film.content, 1, k))
(* What is said of the packets of every film. *)
HasContent(film) ==
  /\ film.packets \in Seq(Packet)
  /\ Len(film.content) = Len(film.packets)
  /\ film.content = [k \in 1 .. Len(film.packets) |-> film.content[k]]
Holds(film, V) == \A k \in 1 .. Len(film.packets) : film.content[k] \in V

(* The contents of the packets, as a sequence of sequences. *)
LEMMA ContentType ==
  ASSUME NEW V, NEW film, HasContent(film), Holds(film, Seq(V))
  PROVE  film.content \in Seq(Seq(V)) /\ Len(film.packets) \in Nat
<1>. DEFINE n == Len(film.packets)
            W == Seq(V)
<1>1. n \in Nat
  BY DEF HasContent
<1>2. film.content = [k \in 1 .. n |-> film.content[k]]
  BY DEF HasContent
<1>3. \A k \in 1 .. n : film.content[k] \in W
  BY DEF Holds
<1>. HIDE DEF n, W
<1>4. film.content \in [1 .. n -> W]
  BY ONLY <1>2, <1>3
<1>5. film.content \in Seq(W)
  BY ONLY <1>1, <1>4, IsASeq
<1>. QED
  BY <1>1, <1>5 DEF n, W

(* The content of one packet more. *)
LEMMA UptoGrows ==
  ASSUME NEW V, NEW film, HasContent(film), Holds(film, Seq(V))
  PROVE  /\ Upto(film, 0) = <<>>
         /\ \A k \in 0 .. Len(film.packets) : Upto(film, k) \in Seq(V)
         /\ \A k \in 0 .. Len(film.packets) - 1 :
              Upto(film, k + 1) = Upto(film, k) \o film.content[k + 1]
<1>. DEFINE c == film.content
            W == Seq(V)
<1>1. c \in Seq(W) /\ Len(film.packets) \in Nat
  BY ContentType
<1>2. Len(film.packets) = Len(c)
  BY DEF HasContent
<1>3. /\ SubSeq(c, 1, 0) = <<>>
      /\ \A k \in 0 .. Len(c) : SubSeq(c, 1, k) \in Seq(W)
      /\ \A k \in 0 .. Len(c) - 1 : SubSeq(c, 1, k + 1) = SubSeq(c, 1, k) \o <<c[k + 1]>>
  <2>. HIDE DEF c, W
  <2>. QED
    BY <1>1, Prefixes
<1>4. Upto(film, 0) = <<>>
  BY <1>3, FlattenEmpty DEF Upto
<1>5. ASSUME NEW k \in 0 .. Len(c)
      PROVE  Upto(film, k) \in Seq(V)
  <2>1. SubSeq(c, 1, k) \in Seq(W)
    BY <1>3
  <2>2. S!FlattenSeq(SubSeq(c, 1, k)) \in Seq(V)
    BY <2>1, FlattenType
  <2>. QED
    BY <2>2 DEF Upto
<1>6. ASSUME NEW k \in 0 .. Len(c) - 1
      PROVE  Upto(film, k + 1) = Upto(film, k) \o c[k + 1]
  <2>. DEFINE p == SubSeq(c, 1, k)
              x == c[k + 1]
  <2>1. p \in Seq(W) /\ SubSeq(c, 1, k + 1) = p \o <<x>>
    BY <1>1, <1>2, <1>3
  <2>2. x \in W
    BY <1>1, <1>2
  <2>3. Upto(film, k + 1) = S!FlattenSeq(p \o <<x>>)
    BY <2>1 DEF Upto
  <2>4. Upto(film, k) = S!FlattenSeq(p)
    BY DEF Upto
  <2>. HIDE DEF p, x
  <2>5. S!FlattenSeq(p \o <<x>>) = S!FlattenSeq(p) \o x
    BY <2>1, <2>2, FlattenAppend
  <2>. QED
    BY <2>3, <2>4, <2>5 DEF x
<1>. QED
  BY <1>2, <1>4, <1>5, <1>6

(* What a packet adds to units. *)
LEMMA UnitsStep ==
  ASSUME NEW film, HasContent(film), Holds(film, Seq(Seq(Byte))),
         film.head \in Seq(Seq(Byte)),
         NEW k, k \in Nat, k < Len(film.packets),
         NEW s, UnitsHeld(s, film.head \o Upto(film, k)),
         NEW code \in {Prefix, StartCode}, AreUnits(film.content[k + 1]),
         NEW pic, NEW data, pic \in Seq(Byte), data \in Seq(Byte),
         pic \o data = Coded(film.content[k + 1], code)
  PROVE  UnitsHeld((s \o pic) \o data, film.head \o Upto(film, k + 1))
<1>. DEFINE V == Seq(Byte)
            h == film.head
            u == Upto(film, k)
            c == film.content[k + 1]
<1>1. u \in Seq(V) /\ Upto(film, k + 1) = u \o c
  <2>1. k \in 0 .. Len(film.packets) /\ k \in 0 .. Len(film.packets) - 1
    BY DEF HasContent
  <2>. HIDE DEF c
  <2>. QED
    BY <2>1, UptoGrows DEF c
<1>2. s \in Seq(Byte) /\ c \in Seq(V) /\ h \in Seq(V)
  BY DEF UnitsHeld, AreUnits
<1>3. UnitsHeld(s \o Coded(c, code), (h \o u) \o c)
  BY UnitsGrowAll
<1>. HIDE DEF V, h, u, c
<1>4. (h \o u) \o c = h \o (u \o c)
  BY ONLY <1>1, <1>2, Regroup, SMTT(30)
<1>5. (s \o pic) \o data = s \o (pic \o data)
  <2>1. s \in Seq(Byte) /\ pic \in Seq(Byte) /\ data \in Seq(Byte)
    BY <1>2
  <2>. QED
    BY ONLY <2>1, Regroup, SMTT(30)
<1>6. pic \o data = Coded(c, code)
  BY DEF c
<1>7. UnitsHeld((s \o pic) \o data, h \o (u \o c))
  <2>1. UnitsHeld(s \o (pic \o data), (h \o u) \o c)
    BY ONLY <1>3, <1>6
  <2>. QED
    BY ONLY <2>1, <1>4, <1>5
<1>. QED
  BY ONLY <1>1, <1>7 DEF h, u, c

(* What a packet adds to pictures behind a header each.  The bitstream begins
   with hd, and the pictures at the offset from. *)
PicturesHeld(film, s, k, hd, from, header, digits) ==
  /\ s \in Seq(Byte) /\ Starts(s, hd)
  /\ EndsWhole(s, from, header, digits)
  /\ Pictures(s, from, header, digits) = Upto(film, k)

(* What HoldsPictures says of each packet. *)
LEMMA ArePictures ==
  ASSUME NEW film, HasContent(film), NEW digits, HoldsPictures(film, digits)
  PROVE  /\ Holds(film, Seq(Seq(Byte))) /\ Len(film.packets) \in Nat
         /\ \A k \in 1 .. Len(film.packets) :
              /\ film.packets[k].data \in Seq(Byte) /\ film.packets[k].key \in BOOLEAN
              /\ film.content[k] = <<film.packets[k].data>>
              /\ Fits(Len(film.packets[k].data), digits)
<1>1. \A k \in 1 .. Len(film.packets) :
         /\ film.content[k] = <<film.packets[k].data>>
         /\ Fits(Len(film.packets[k].data), digits)
  BY DEF HoldsPictures
<1>2. film.packets \in Seq(Packet)
  BY DEF HasContent
<1>3. \A k \in 1 .. Len(film.packets) : film.packets[k] \in Packet
  BY ONLY <1>2, ElementOfSeq
<1>4. \A p \in Packet : p.data \in Seq(Byte) /\ p.key \in BOOLEAN
  BY DEF Packet
<1>5. Len(film.packets) \in Nat
  BY ONLY <1>2, LenProperties
<1>6. \A x \in Seq(Byte) : <<x>> \in Seq(Seq(Byte))
  OBVIOUS
<1>7. Holds(film, Seq(Seq(Byte)))
  BY ONLY <1>1, <1>3, <1>4, <1>6 DEF Holds
<1>. QED
  BY ONLY <1>1, <1>3, <1>4, <1>5, <1>7

(* Before the first packet there is the header alone. *)
LEMMA PicturesBegin ==
  ASSUME NEW film, HasContent(film), Holds(film, Seq(Seq(Byte))),
         NEW hd \in Seq(Byte), NEW from, from = Len(hd), NEW header, NEW digits
  PROVE  PicturesHeld(film, hd, 0, hd, from, header, digits)
<1>1. Starts(hd, hd)
  BY StartsItself
<1>2. from \in Nat
  OBVIOUS
<1>3. EndsWhole(hd, from, header, digits)
  <2>1. {from} \in SUBSET (0 .. Len(hd))
    BY <1>2
  <2>. QED
    BY <2>1 DEF EndsWhole
<1>4. Pictures(hd, from, header, digits) = <<>>
  <2>1. ~(from < Len(hd))
    BY <1>2
  <2>2. \A found, next : Walk(Len(hd), from, found, next) = <<>>
    BY <1>2, <2>1, WalkStep
  <2>. QED
    BY <2>2 DEF Pictures
<1>5. Upto(film, 0) = <<>>
  BY UptoGrows
<1>. QED
  BY <1>1, <1>3, <1>4, <1>5 DEF PicturesHeld

(* A packet later there is one picture more. *)
LEMMA PicturesStep ==
  ASSUME NEW film, HasContent(film), NEW header, NEW digits, NEW hd \in Seq(Byte), NEW from,
         from \in Nat, digits \in Nat, digits <= header, header > 0,
         HoldsPictures(film, digits),
         NEW k, k \in Nat, k < Len(film.packets),
         NEW s, PicturesHeld(film, s, k, hd, from, header, digits),
         NEW pic, NEW data, pic \in Seq(Byte), Len(pic) = header,
         data = film.packets[k + 1].data, LittleAt(pic, 0, digits) = Len(data)
  PROVE  PicturesHeld(film, (s \o pic) \o data, k + 1, hd, from, header, digits)
<1>1. /\ k + 1 \in 1 .. Len(film.packets) /\ k \in 0 .. Len(film.packets)
      /\ k \in 0 .. Len(film.packets) - 1
  BY DEF HasContent
<1>2. data \in Seq(Byte) /\ film.content[k + 1] = <<data>>
  BY <1>1, ArePictures
<1>3. Upto(film, k + 1) = Upto(film, k) \o <<data>>
  <2>1. Holds(film, Seq(Seq(Byte)))
    BY ArePictures
  <2>2. Upto(film, k + 1) = Upto(film, k) \o film.content[k + 1]
    BY <1>1, <2>1, UptoGrows
  <2>. QED
    BY ONLY <2>2, <1>2
<1>4. /\ s \in Seq(Byte) /\ Starts(s, hd) /\ EndsWhole(s, from, Len(pic), digits)
      /\ Pictures(s, from, Len(pic), digits) = Upto(film, k)
  BY DEF PicturesHeld
<1>5. (s \o pic) \o data = s \o (pic \o data) /\ pic \o data \in Seq(Byte)
  <2>1. s \in Seq(Byte) /\ pic \in Seq(Byte) /\ data \in Seq(Byte)
    BY <1>2, <1>4
  <2>. QED
    BY ONLY <2>1, Regroup
<1>. DEFINE t == s \o (pic \o data)
<1>6. t \in Seq(Byte) /\ Starts(t, hd)
  BY <1>4, <1>5, StartsGrows, ConcatProperties
<1>7. /\ EndsWhole(t, from, Len(pic), digits)
      /\ Pictures(t, from, Len(pic), digits) = Pictures(s, from, Len(pic), digits) \o <<data>>
  <2>1. digits <= Len(pic) /\ Len(pic) > 0 /\ from \in Nat /\ digits \in Nat
    OBVIOUS
  <2>2. /\ s \in Seq(Byte) /\ EndsWhole(s, from, Len(pic), digits) /\ data \in Seq(Byte)
        /\ pic \in Seq(Byte) /\ LittleAt(pic, 0, digits) = Len(data)
    BY <1>2, <1>4
  <2>. QED
    BY ONLY <2>1, <2>2, PicturesGrow, SMTT(30)
<1>. HIDE DEF t
<1>8. PicturesHeld(film, t, k + 1, hd, from, header, digits)
  BY ONLY <1>3, <1>4, <1>6, <1>7, Len(pic) = header DEF PicturesHeld
<1>. QED
  BY ONLY <1>5, <1>8 DEF t

(* What a packet adds to RealVideo pictures. *)
RvHeld(film, s, k, hd, from) ==
  /\ s \in Seq(Byte) /\ Starts(s, hd)
  /\ RvEndsWhole(s, from) /\ RvPictures(s, from) = Upto(film, k)

(* The k-th packet of a RealVideo file. *)
RvPacket(film, k, n, table, d) ==
  LET data == film.packets[k].data
  IN /\ n \in Nat /\ n > 0 /\ Fits(n, 4)
     /\ table \in Seq(Nat) /\ Len(table) = 2 * n
     /\ \A i \in 1 .. 2 * n : Fits(table[i], 4)
     /\ d \in Seq(Byte) /\ Fits(Len(d), 4)
     /\ film.content[k] = <<[table |-> table, data |-> d]>>
     /\ data = RvBytes(n, table, d)

(* Each packet of a RealVideo film has its segments, a table and slices. *)
LEMMA RealPackets ==
  ASSUME NEW film, HasContent(film), IsReal(film), NEW k \in 1 .. Len(film.packets)
  PROVE  \E n, table, d : RvPacket(film, k, n, table, d)
<1>. DEFINE picture == film.content[k][1]
            data    == film.packets[k].data
            n       == data[1][2] + 1
            table   == picture.table
            d       == picture.data
<1>1. /\ film.content[k] = <<[table |-> table, data |-> d]>>
      /\ data # <<>>
      /\ table \in Seq(Nat) /\ Len(table) = 2 * n
      /\ \A i \in 1 .. 2 * n : Fits(table[i], 4)
      /\ d \in Seq(Byte)
      /\ Fits(n, 4) /\ Fits(Len(d), 4)
      /\ data = <<B(n - 1)>> \o S!FlattenSeq([i \in 1 .. 2 * n |-> PutLE(table[i], 4)]) \o d
  BY DEF IsReal
<1>2. film.packets[k] \in Packet
  <2>1. film.packets \in Seq(Packet)
    BY DEF HasContent
  <2>. QED
    BY ONLY <2>1, k \in 1 .. Len(film.packets), ElementOfSeq
<1>3. data \in Seq(Byte)
  BY <1>2 DEF Packet
<1>4. data[1] \in Byte
  <2>1. data # <<>>
    BY <1>1
  <2>. HIDE DEF data
  <2>. QED
    BY ONLY <2>1, <1>3
<1>5. n \in Nat /\ n > 0
  <2>. DEFINE v == data[1][2]
  <2>1. v \in Nat
    BY ONLY <1>4 DEF Byte
  <2>2. n = v + 1
    OBVIOUS
  <2>. HIDE DEF v, n
  <2>. QED
    BY ONLY <2>1, <2>2
<1>. HIDE DEF n, table, d
<1>6. RvPacket(film, k, n, table, d)
  BY ONLY <1>1, <1>5 DEF RvPacket, RvBytes
<1>. QED
  BY ONLY <1>6

(* What is written of it: a header that tells both, and the slices. *)
LEMMA RvPacketIs ==
  ASSUME NEW film, NEW k, NEW n, NEW table, NEW d, RvPacket(film, k, n, table, d)
  PROVE  LET data == film.packets[k].data
         IN /\ d \in Seq(Byte) /\ n \in Nat /\ n > 0
            /\ film.content[k] = <<[table |-> table, data |-> d]>>
            /\ Written(RvPicHeader(data)) \in Seq(Byte)
            /\ RvHeads(Written(RvPicHeader(data)), Len(d), n, table)
            /\ Piece(data, 1 + 8 * Segments(data), SliceBytes(data)) = d
<1>. DEFINE data == film.packets[k].data
            h    == Written(RvPicHeader(data))
<1>1. /\ n \in Nat /\ n > 0 /\ Fits(n, 4) /\ table \in Seq(Nat) /\ Len(table) = 2 * n
      /\ d \in Seq(Byte) /\ Fits(Len(d), 4)
      /\ film.content[k] = <<[table |-> table, data |-> d]>>
  BY DEF RvPacket
<1>2. RvFits(n, table)
  <2>1. \A i \in 1 .. 2 * n : Fits(table[i], 4)
    BY DEF RvPacket
  <2>. QED
    BY <1>1, <2>1 DEF RvFits
<1>3. data = RvBytes(n, table, d)
  BY DEF RvPacket
<1>. HIDE DEF data
<1>4. /\ Segments(data) = n /\ SliceBytes(data) = Len(d)
      /\ Piece(data, 1 + 8 * n, Len(d)) = d
      /\ RvNumbers(data, n, table)
  BY ONLY <1>1, <1>2, <1>3, RvDataIs
<1>5. /\ h \in Seq(Byte) /\ Len(h) = 20 + 8 * n
      /\ NumberAt(h, 0, 4) = Len(d) /\ NumberAt(h, 16, 4) = n
      /\ \A i \in 1 .. 2 * n : NumberAt(h, 16 + 4 * i, 4) = table[i]
  <2>1. Len(d) \in Nat
    BY <1>1
  <2>. QED
    BY ONLY <1>1, <1>2, <1>4, <2>1, RvPicHeaderIs, SMTT(30)
<1>6. table = [i \in 1 .. 2 * n |-> table[i]]
  BY <1>1
<1>7. RvHeads(h, Len(d), n, table)
  BY ONLY <1>1, <1>5, <1>6 DEF RvHeads
<1>. QED
  BY <1>1, <1>4, <1>5, <1>7 DEF data

(* The pictures of a RealVideo film. *)
RvPicturesOf(film) == {film.content[k][1] : k \in 1 .. Len(film.packets)}

(* The content of such a packet is one picture. *)
LEMMA RealContent ==
  ASSUME NEW film, HasContent(film), IsReal(film)
  PROVE  Holds(film, Seq(RvPicturesOf(film)))
<1>. DEFINE V == RvPicturesOf(film)
<1>1. ASSUME NEW k \in 1 .. Len(film.packets)
      PROVE  film.content[k] \in Seq(V)
  <2>1. PICK n, table, d : RvPacket(film, k, n, table, d)
    BY RealPackets
  <2>. DEFINE r == [table |-> table, data |-> d]
  <2>2. film.content[k] = <<r>>
    BY <2>1 DEF RvPacket
  <2>3. film.content[k][1] \in V
    BY DEF RvPicturesOf
  <2>. HIDE DEF r, V
  <2>4. r \in V
    BY <2>2, <2>3
  <2>. QED
    BY <2>2, <2>4
<1>. QED
  BY <1>1 DEF Holds

(* Before the first packet there is the header alone. *)
LEMMA RvBegin ==
  ASSUME NEW film, HasContent(film), IsReal(film),
         NEW hd \in Seq(Byte), NEW from, from = Len(hd)
  PROVE  RvHeld(film, hd, 0, hd, from)
<1>1. Starts(hd, hd)
  BY StartsItself
<1>2. from \in Nat
  OBVIOUS
<1>3. RvEndsWhole(hd, from)
  <2>1. {from} \in SUBSET (0 .. Len(hd))
    BY <1>2
  <2>. QED
    BY <2>1 DEF RvEndsWhole
<1>4. RvPictures(hd, from) = <<>>
  <2>1. ~(from < Len(hd))
    BY <1>2
  <2>2. \A found, next : Walk(Len(hd), from, found, next) = <<>>
    BY <1>2, <2>1, WalkStep
  <2>. QED
    BY <2>2, RvPicturesIs
<1>5. Upto(film, 0) = <<>>
  BY RealContent, UptoGrows
<1>. QED
  BY <1>1, <1>3, <1>4, <1>5 DEF RvHeld

(* A packet later there is one picture more. *)
LEMMA RvStep ==
  ASSUME NEW film, HasContent(film), IsReal(film), NEW hd \in Seq(Byte),
         NEW from, from \in Nat,
         NEW k, k \in Nat, k < Len(film.packets),
         NEW s, RvHeld(film, s, k, hd, from),
         NEW pic, NEW data, NEW pkt, pkt = film.packets[k + 1],
         pic = Written(RvPicHeader(pkt.data)),
         data = Piece(pkt.data, 1 + 8 * Segments(pkt.data), SliceBytes(pkt.data))
  PROVE  RvHeld(film, (s \o pic) \o data, k + 1, hd, from)
<1>1. /\ k + 1 \in 1 .. Len(film.packets) /\ k \in 0 .. Len(film.packets)
      /\ k \in 0 .. Len(film.packets) - 1
  BY DEF HasContent
<1>2. PICK n, table, d : RvPacket(film, k + 1, n, table, d)
  BY <1>1, RealPackets
<1>3. /\ d \in Seq(Byte) /\ n \in Nat /\ n > 0
      /\ film.content[k + 1] = <<[table |-> table, data |-> d]>>
      /\ pic \in Seq(Byte) /\ RvHeads(pic, Len(d), n, table) /\ data = d
  BY <1>2, RvPacketIs
<1>4. Upto(film, k + 1) = Upto(film, k) \o <<[table |-> table, data |-> d]>>
  <2>1. Upto(film, k + 1) = Upto(film, k) \o film.content[k + 1]
    BY <1>1, RealContent, UptoGrows
  <2>. QED
    BY ONLY <2>1, <1>3
<1>5. /\ s \in Seq(Byte) /\ Starts(s, hd) /\ RvEndsWhole(s, from)
      /\ RvPictures(s, from) = Upto(film, k)
  BY DEF RvHeld
<1>6. (s \o pic) \o d = s \o (pic \o d) /\ pic \o d \in Seq(Byte)
  <2>1. s \in Seq(Byte) /\ pic \in Seq(Byte) /\ d \in Seq(Byte)
    BY <1>3, <1>5
  <2>. QED
    BY ONLY <2>1, Regroup
<1>. DEFINE t == s \o (pic \o d)
<1>7. t \in Seq(Byte) /\ Starts(t, hd)
  BY <1>5, <1>6, StartsGrows, ConcatProperties
<1>8. /\ RvEndsWhole(t, from)
      /\ RvPictures(t, from) = RvPictures(s, from) \o <<[table |-> table, data |-> d]>>
  <2>1. /\ s \in Seq(Byte) /\ pic \in Seq(Byte) /\ d \in Seq(Byte)
        /\ RvHeads(pic, Len(d), n, table) /\ from \in Nat /\ RvEndsWhole(s, from)
    BY <1>3, <1>5
  <2>. QED
    BY ONLY <2>1, RvPicturesGrow
<1>. HIDE DEF t
<1>9. RvHeld(film, t, k + 1, hd, from)
  BY ONLY <1>4, <1>5, <1>7, <1>8 DEF RvHeld
<1>10. (s \o pic) \o data = t
  BY ONLY <1>3, <1>6 DEF t
<1>. QED
  BY ONLY <1>9, <1>10

(* Units behind start codes are found in what these make. *)
LEMMA UnitsAlone ==
  ASSUME NEW us, AreUnits(us), NEW code \in {Prefix, StartCode}
  PROVE  UnitsHeld(Coded(us, code), us)
<1>1. UnitsHeld(<<>> \o Coded(us, code), <<>> \o us)
  BY NothingHeld, UnitsGrowAll
<1>2. us \in Seq(Seq(Byte)) /\ code \in Seq(Byte)
  BY CodeIs DEF AreUnits
<1>3. Coded(us, code) \in Seq(Byte)
  <2>1. <<>> \in Seq(Byte)
    OBVIOUS
  <2>. QED
    BY <1>2, <2>1, CodedAppend
<1>4. <<>> \o us = us
  BY ONLY <1>2, ConcatEmptySeq
<1>5. <<>> \o Coded(us, code) = Coded(us, code)
  BY ONLY <1>3, ConcatEmptySeq
<1>. QED
  BY ONLY <1>1, <1>4, <1>5

(* Some units are a last one and those before it. *)
LEMMA UnitsLast ==
  ASSUME NEW us, AreUnits(us), us # <<>>
  PROVE  \E x, u : /\ x \in Seq(Seq(Byte)) /\ u \in Seq(Byte) /\ Len(u) > 0
                   /\ AreUnits(x) /\ IsUnit(u) /\ us = x \o <<u>>
<1>. DEFINE V == Seq(Byte)
            n == Len(us)
            x == SubSeq(us, 1, n - 1)
            u == us[n]
<1>1. us \in Seq(V)
  BY DEF AreUnits
<1>2. n \in Nat /\ n > 0
  <2>. HIDE DEF V
  <2>. QED
    BY <1>1, LenProperties, EmptySeq
<1>3. n - 1 \in 0 .. Len(us) - 1 /\ n - 1 \in 0 .. Len(us) /\ (n - 1) + 1 = n
  BY <1>2
<1>4. x \in Seq(V) /\ us = x \o <<u>>
  <2>. HIDE DEF V
  <2>1. /\ SubSeq(us, 1, Len(us)) = us
        /\ SubSeq(us, 1, n - 1) \in Seq(V)
        /\ SubSeq(us, 1, (n - 1) + 1) = SubSeq(us, 1, n - 1) \o <<us[(n - 1) + 1]>>
    BY <1>1, <1>3, Prefixes
  <2>. QED
    BY <1>3, <2>1
<1>5. IsUnit(u)
  BY <1>2 DEF AreUnits
<1>6. u \in Seq(Byte) /\ Len(u) > 0
  <2>. HIDE DEF u
  <2>. QED
    BY <1>5 DEF IsUnit
<1>. HIDE DEF x, u, V, n
<1>7. AreUnits(x)
  <2>1. AreUnits(x \o <<u>>)
    BY ONLY <1>4, AreUnits(us)
  <2>2. x \in Seq(Seq(Byte))
    BY <1>4 DEF V
  <2>. QED
    BY ONLY <2>1, <2>2, <1>6, UnitsBefore
<1>. QED
  BY <1>4, <1>5, <1>6, <1>7 DEF V

(* Units behind start codes are more than a start code. *)
LEMMA CodedLong ==
  ASSUME NEW us, AreUnits(us), NEW code \in {Prefix, StartCode}
  PROVE  /\ Coded(us, code) \in Seq(Byte)
         /\ IF us = <<>> THEN Coded(us, code) = <<>> ELSE Len(Coded(us, code)) > 3
<1>1. code \in Seq(Byte) /\ Len(code) \in {3, 4}
  BY CodeIs
<1>2. us \in Seq(Seq(Byte))
  BY DEF AreUnits
<1>3. Coded(us, code) \in Seq(Byte)
  <2>1. <<>> \in Seq(Byte)
    OBVIOUS
  <2>. QED
    BY <1>1, <1>2, <2>1, CodedAppend
<1>4. ASSUME us # <<>> PROVE Len(Coded(us, code)) > 3
  <2>1. PICK x, u : /\ x \in Seq(Seq(Byte)) /\ u \in Seq(Byte) /\ Len(u) > 0
                    /\ us = x \o <<u>>
    BY <1>4, UnitsLast
  <2>. DEFINE c == Coded(x, code)
  <2>2. c \in Seq(Byte) /\ Coded(us, code) = c \o (code \o u)
    BY <1>1, <2>1, CodedAppend
  <2>. HIDE DEF c
  <2>3. /\ Len(c \o (code \o u)) = Len(c) + (Len(code) + Len(u))
        /\ Len(c) \in Nat /\ Len(code) \in Nat /\ Len(u) \in Nat
    <3>1. c \in Seq(Byte) /\ code \in Seq(Byte) /\ u \in Seq(Byte)
      BY <1>1, <2>1, <2>2
    <3>. QED
      BY ONLY <3>1
  <2>. QED
    <3>1. Len(Coded(us, code)) = Len(c) + (Len(code) + Len(u))
      BY ONLY <2>2, <2>3
    <3>2. Len(code) >= 3
      <4>1. Len(code) \in {3, 4}
        BY <1>1
      <4>. QED
        BY ONLY <4>1
    <3>3. Len(u) > 0
      BY ONLY <2>1
    <3>. QED
      BY ONLY <3>1, <3>2, <3>3, <2>3
<1>. QED
  BY ONLY <1>3, <1>4, CodedEmpty

(* Units behind their lengths are more than four bytes. *)
LEMMA SizedLong ==
  ASSUME NEW us, AreUnits(us)
  PROVE  /\ Sized(us, 4) \in Seq(Byte)
         /\ IF us = <<>> THEN Sized(us, 4) = <<>> ELSE Len(Sized(us, 4)) > 4
<1>2. us \in Seq(Seq(Byte))
  BY DEF AreUnits
<1>3. Sized(us, 4) \in Seq(Byte)
  <2>1. <<>> \in Seq(Byte)
    OBVIOUS
  <2>. QED
    BY <1>2, <2>1, SizedAppend
<1>4. ASSUME us # <<>> PROVE Len(Sized(us, 4)) > 4
  <2>1. PICK x, u : /\ x \in Seq(Seq(Byte)) /\ u \in Seq(Byte) /\ Len(u) > 0
                    /\ us = x \o <<u>>
    BY <1>4, UnitsLast
  <2>. DEFINE c == Sized(x, 4)
              h == PutBE(Len(u), 4)
  <2>2. c \in Seq(Byte) /\ Sized(us, 4) = c \o (h \o u)
    BY <2>1, SizedAppend
  <2>3. h \in Seq(Byte) /\ Len(h) = 4
    BY <2>1, PutTypes, LenProperties
  <2>. HIDE DEF c, h
  <2>4. /\ Len(c \o (h \o u)) = Len(c) + (Len(h) + Len(u))
        /\ Len(c) \in Nat /\ Len(u) \in Nat
    <3>1. c \in Seq(Byte) /\ h \in Seq(Byte) /\ u \in Seq(Byte)
      BY <2>1, <2>2, <2>3
    <3>. QED
      BY ONLY <3>1
  <2>. QED
    BY ONLY <2>1, <2>2, <2>3, <2>4, SMTT(30)
<1>. QED
  BY ONLY <1>3, <1>4, SizedEmpty

(* Coded units begin with a start code. *)
LEMMA CodedStarts ==
  ASSUME NEW us, us \in Seq(Seq(Byte)), us # <<>>, NEW code, code \in {Prefix, StartCode}
  PROVE  Starts(Coded(us, code), code)
<1>. DEFINE V == Seq(Byte)
            C(x) == Coded(x, code)
            T == {x \in Seq(V) : x = <<>> \/ Starts(C(x), code)}
<1>1. code \in Seq(Byte)
  BY CodeIs
<1>2. <<>> \in T
  OBVIOUS
<1>3. ASSUME NEW x \in Seq(V), NEW u \in V, x \in T PROVE x \o <<u>> \in T
  <2>1. C(x) \in Seq(Byte) /\ C(x \o <<u>>) = C(x) \o (code \o u)
    BY <1>1, CodedAppend
  <2>2. u \in Seq(Byte) /\ code \o u \in Seq(Byte)
    BY <1>1, ConcatProperties
  <2>3. x \o <<u>> \in Seq(V)
    BY AppendUnits
  <2>4. CASE x = <<>>
    <3>1. C(x) = <<>>
      BY <2>4, CodedEmpty
    <3>2. <<>> \o (code \o u) = code \o u
      BY ONLY <2>2, ConcatEmptySeq
    <3>3. C(x \o <<u>>) = code \o u
      BY ONLY <2>1, <3>1, <3>2
    <3>4. Starts(C(x \o <<u>>), code)
      BY ONLY <3>3, <2>2 DEF Starts
    <3>. QED
      BY <2>3, <3>4
  <2>5. CASE x # <<>>
    <3>1. Starts(C(x), code)
      BY <1>3, <2>5
    <3>. HIDE DEF C
    <3>2. Starts(C(x) \o (code \o u), code)
      BY ONLY <1>1, <2>2, <3>1, StartsGrows
    <3>. QED
      BY <2>1, <2>3, <3>2
  <2>. QED
    BY <2>4, <2>5
<1>. HIDE DEF T, V
<1>4. Seq(V) \subseteq T
  BY ONLY <1>2, <1>3, SeqInduct
<1>. QED
  BY <1>4 DEF T, V

(* What is written of a film of units. *)
UnitsPacket(film, k) ==
  LET pic  == Written(BuildPicHeader(film, film.packets[k]))
      data == PacketData(film, film.packets[k])
  IN /\ pic \in Seq(Byte) /\ data \in Seq(Byte)
     /\ \E code \in {Prefix, StartCode} : pic \o data = Coded(film.content[k], code)
(* And of the whole film. *)
UnitsWritten(film) ==
  /\ HoldsUnits(film)
  /\ UnitsHeld(Written(BuildSeqHeader(film)), film.head)
  /\ \A k \in 1 .. Len(film.packets) : UnitsPacket(film, k)

(* What a packet is. *)
LEMMA PacketType ==
  ASSUME NEW film, HasContent(film), NEW k \in 1 .. Len(film.packets)
  PROVE  /\ film.packets[k].data \in Seq(Byte) /\ film.packets[k].align \in 0 .. 3
         /\ film.packets[k].key \in BOOLEAN
<1>1. film.packets \in Seq(Packet)
  BY DEF HasContent
<1>2. film.packets[k] \in Packet
  BY ONLY <1>1, k \in 1 .. Len(film.packets), ElementOfSeq
<1>. QED
  BY ONLY <1>2 DEF Packet

(* Data that are coded units and go without a header. *)
LEMMA BareUnits ==
  ASSUME NEW film, NEW k, NEW code \in {Prefix, StartCode},
         AreUnits(film.content[k]),
         BuildPicHeader(film, film.packets[k]) = NoHeader,
         PacketData(film, film.packets[k]) = Coded(film.content[k], code)
  PROVE  UnitsPacket(film, k)
<1>. DEFINE pic  == Written(BuildPicHeader(film, film.packets[k]))
            data == PacketData(film, film.packets[k])
<1>1. pic = <<>>
  BY WrittenNothing
<1>2. data \in Seq(Byte)
  BY CodedLong
<1>3. data = Coded(film.content[k], code)
  OBVIOUS
<1>. HIDE DEF pic, data
<1>4. <<>> \o data = data
  BY ONLY <1>2, ConcatEmptySeq
<1>5. pic \in Seq(Byte)
  BY <1>1
<1>6. pic \o data = Coded(film.content[k], code)
  BY ONLY <1>1, <1>3, <1>4
<1>. QED
  BY <1>2, <1>5, <1>6 DEF pic, data, UnitsPacket

(* An mp4 file. *)
LEMMA Mp4Sets ==
  ASSUME NEW film, film.extradata \in Seq(Byte), IsMp4(film)
  PROVE  UnitsHeld(Written(BuildSeqHeader(film)), film.head)
<1>. DEFINE e == film.extradata
            h == film.head
            V == Seq(Byte)
<1>1. AreUnits(h) /\ IsAvcConfig(e) /\ Len(e) > 6 /\ film.format = "AVC"
  BY DEF IsMp4, HoldsUnits
<1>2. PICK n \in 0 .. Len(h) :
        LET sps == SubSeq(h, 1, n)
            pps == SubSeq(h, n + 1, Len(h))
        IN /\ e[6][2] % Radix = n
           /\ e = SubSeq(e, 1, 6) \o Sized(sps, 2) \o <<B(Len(pps))>> \o Sized(pps, 2)
  BY DEF IsMp4
<1>3. \A i \in 1 .. Len(h) : Fits(Len(h[i]), 2)
  BY DEF IsMp4
<1>. DEFINE sps == SubSeq(h, 1, n)
            pps == SubSeq(h, n + 1, Len(h))
            a   == SubSeq(e, 1, 6)
<1>4. h \in Seq(V) /\ Len(h) \in Nat /\ \A i \in 1 .. Len(h) : IsUnit(h[i])
  BY <1>1 DEF AreUnits
<1>5. e[6][2] % Radix = n
  BY <1>2
<1>6. e = a \o Sized(sps, 2) \o <<B(Len(pps))>> \o Sized(pps, 2)
  BY <1>2
<1>7. a \in Seq(Byte) /\ Len(a) = 6
  <2>1. e \in Seq(Byte)
    OBVIOUS
  <2>2. 6 \in 0 .. Len(e)
    BY <1>1, <2>1
  <2>. HIDE DEF e
  <2>. QED
    BY <2>1, <2>2, Prefixes
<1>. HIDE DEF a, V, e, h
<1>8. /\ sps \in Seq(V) /\ Len(sps) = n /\ \A i \in 1 .. n : sps[i] = h[i]
      /\ pps \in Seq(V) /\ Len(pps) = Len(h) - n
      /\ \A i \in 1 .. Len(h) - n : pps[i] = h[n + i]
  BY <1>4, <1>2
<1>9. h = sps \o pps
  <2>1. 1 \in 1 .. Len(h) + 1 /\ n \in 1 - 1 .. Len(h) /\ Len(h) \in n .. Len(h)
    BY <1>4, <1>2
  <2>2. h \in Seq(V)
    BY <1>4
  <2>3. SubSeq(h, 1, n) \o SubSeq(h, n + 1, Len(h)) = SubSeq(h, 1, Len(h))
    BY ONLY <2>1, <2>2, ConcatAdjacentSubSeq
  <2>4. SubSeq(h, 1, Len(h)) = h
    BY ONLY <2>2, SubSeqFull
  <2>. QED
    BY ONLY <2>3, <2>4
<1>. HIDE DEF sps, pps
<1>10. AreUnits(sps) /\ AreUnits(pps) /\ AllFit(sps, 2) /\ AllFit(pps, 2)
  <2>1. \A i \in 1 .. Len(sps) : sps[i] = h[i] /\ i \in 1 .. Len(h)
    BY <1>4, <1>8
  <2>2. \A i \in 1 .. Len(pps) : pps[i] = h[n + i] /\ n + i \in 1 .. Len(h)
    BY <1>4, <1>8, <1>2
  <2>. QED
    BY <1>3, <1>4, <1>8, <2>1, <2>2 DEF AreUnits, AllFit, V
<1>11. Written(AvcHeader(e)) = Coded(sps, StartCode) \o Coded(pps, StartCode)
  <2>1. sps \in Seq(Seq(Byte)) /\ pps \in Seq(Seq(Byte)) /\ e[6][2] % Radix = Len(sps)
    BY <1>5, <1>8 DEF V
  <2>. QED
    BY ONLY <1>6, <1>7, <1>10, <2>1, AvcHeaderIs
<1>12. BuildSeqHeader(film) = AvcHeader(e)
  BY <1>1 DEF BuildSeqHeader, e
<1>13. UnitsHeld(Coded(sps, StartCode) \o Coded(pps, StartCode), sps \o pps)
  <2>1. StartCode \in {Prefix, StartCode}
    OBVIOUS
  <2>2. UnitsHeld(Coded(sps, StartCode), sps)
    BY ONLY <1>10, <2>1, UnitsAlone
  <2>. QED
    BY ONLY <1>10, <2>1, <2>2, UnitsGrowAll
<1>. QED
  BY <1>9, <1>11, <1>12, <1>13 DEF h

(* Of each packet of an mp4 file units are written. *)
LEMMA Mp4Packets ==
  ASSUME NEW film, HasContent(film), IsMp4(film), NEW k \in 1 .. Len(film.packets)
  PROVE  UnitsPacket(film, k)
<1>. DEFINE pkt == film.packets[k]
            us  == film.content[k]
<1>1. AreUnits(us) /\ film.format = "AVC" /\ IsAvcConfig(film.extradata) /\ ~IsAdvanced(film)
  BY DEF IsMp4, HoldsUnits
<1>2. pkt.data = Sized(us, 4) /\ \A i \in 1 .. Len(us) : Fits(Len(us[i]), 4)
  BY DEF IsMp4
<1>3. us \in Seq(Seq(Byte)) /\ AllFit(us, 4)
  BY <1>1, <1>2 DEF AreUnits, AllFit
<1>4. BuildPicHeader(film, pkt) = NoHeader
  BY <1>1 DEF BuildPicHeader
<1>5. PacketData(film, pkt) = Coded(us, StartCode)
  <2>. HIDE DEF us, pkt
  <2>1. CASE us = <<>>
    <3>1. pkt.data = <<>> /\ Coded(us, StartCode) = <<>>
      BY <1>2, <2>1, SizedEmpty, CodedEmpty
    <3>2. Len(pkt.data) < 5
      BY ONLY <3>1
    <3>3. PacketData(film, pkt) = pkt.data
      BY ONLY <3>2 DEF PacketData
    <3>. QED
      BY ONLY <3>1, <3>3
  <2>2. CASE us # <<>>
    <3>1. Len(pkt.data) > 4 /\ pkt.data \in Seq(Byte)
      BY <1>1, <1>2, <2>2, SizedLong
    <3>2. ~(Len(pkt.data) < 5)
      BY <3>1
    <3>3. PacketData(film, pkt) = Recoded(pkt.data, StartCode, 0)
      BY ONLY <1>1, <3>2 DEF PacketData
    <3>4. Recoded(Sized(us, 4), StartCode, 0) = Coded(us, StartCode)
      BY ONLY <1>3, RecodedOfSized
    <3>. QED
      BY ONLY <1>2, <3>3, <3>4
  <2>. QED
    BY <2>1, <2>2
<1>. QED
  <2>1. StartCode \in {Prefix, StartCode}
    OBVIOUS
  <2>. QED
    BY <1>1, <1>4, <1>5, <2>1, BareUnits

(* And so of the film. *)
LEMMA Mp4Written ==
  ASSUME NEW film, HasContent(film), film.extradata \in Seq(Byte), IsMp4(film)
  PROVE  UnitsWritten(film)
BY Mp4Sets, Mp4Packets DEF UnitsWritten, IsMp4

(* Where a start code is looked for in data that begin with one. *)
LEMMA CodeBegins ==
  ASSUME NEW data, NEW code, code \in {Prefix, StartCode}, Starts(data, code)
  PROVE  /\ data[1] = B(0)
         /\ PrefixAt(data, IF code = Prefix THEN 0 ELSE 1)
<1>1. PICK t \in Seq(Byte) : data = code \o t
  BY DEF Starts
<1>2. /\ code \in Seq(Byte) /\ Len(code) \in {3, 4} /\ (Len(code) = 3 <=> code = Prefix)
      /\ \A j \in 1 .. Len(code) - 1 : code[j] = B(0)
  BY CodeIs
<1>3. data[1] = B(0)
  <2>1. 1 \in 1 .. Len(code) /\ 1 \in 1 .. Len(code) - 1
    <3>. DEFINE n == Len(code)
    <3>1. n = 3 \/ n = 4
      BY <1>2
    <3>. HIDE DEF n
    <3>2. 1 \in 1 .. n /\ 1 \in 1 .. n - 1
      BY ONLY <3>1
    <3>. QED
      BY <3>2 DEF n
  <2>2. (code \o t)[1] = code[1]
    BY <1>1, <1>2, <2>1, ConcatProperties
  <2>. QED
    BY ONLY <1>1, <1>2, <2>1, <2>2
<1>. DEFINE z == t \o PutBE(0, 4)
<1>4. z \in Seq(Byte) /\ Padded(data) = code \o z
  <2>. DEFINE p == PutBE(0, 4)
  <2>1. p \in Seq(Byte)
    BY PutTypes
  <2>2. Padded(data) = (code \o t) \o p
    BY <1>1 DEF Padded
  <2>. HIDE DEF p
  <2>3. t \in Seq(Byte) /\ code \in Seq(Byte) /\ p \in Seq(Byte)
    BY <1>1, <1>2, <2>1
  <2>4. (code \o t) \o p = code \o (t \o p) /\ t \o p \in Seq(Byte)
    BY ONLY <2>3, Regroup
  <2>. QED
    BY ONLY <2>2, <2>4 DEF p
<1>. HIDE DEF z
<1>5. Prefix \in Seq(Byte) /\ Len(Prefix) = 3
  BY PrefixType
<1>6. CASE code = Prefix
  <2>1. Piece(Prefix \o z, 0, 3) = Piece(Prefix, 0, 3)
    <3>1. Prefix \in Seq(Byte) /\ z \in Seq(Byte) /\ 0 \in Nat /\ 3 \in Nat /\ 0 + 3 <= Len(Prefix)
      BY <1>4, <1>5
    <3>. QED
      BY ONLY <3>1, PieceFirst
  <2>2. Piece(Prefix, 0, Len(Prefix)) = Prefix
    BY ONLY <1>5, PieceWhole
  <2>. QED
    BY ONLY <1>3, <1>4, <1>5, <1>6, <2>1, <2>2 DEF PrefixAt
<1>7. CASE code = StartCode
  <2>. DEFINE c == <<B(0)>>
  <2>1. c \in Seq(Byte) /\ Len(c) = 1
    BY BytesDiffer
  <2>2. StartCode = c \o Prefix
    BY DEF StartCode
  <2>. HIDE DEF c
  <2>3. Piece(c \o Prefix \o z, Len(c), Len(Prefix)) = Prefix
    BY ONLY <1>4, <1>5, <2>1, PieceMiddle
  <2>4. PrefixAt(data, 1)
    BY ONLY <1>4, <1>5, <1>7, <2>1, <2>2, <2>3 DEF PrefixAt
  <2>5. code # Prefix
    <3>1. Len(code) = 4
      BY <1>7, StartCodeType
    <3>. QED
      BY ONLY <3>1, <1>2
  <2>. QED
    BY ONLY <1>3, <2>4, <2>5
<1>. QED
  BY <1>6, <1>7

(* A broadcast. *)
LEMMA NotConfig ==
  ASSUME NEW us, AreUnits(us), NEW code, code \in {Prefix, StartCode}
  PROVE  /\ ~IsAvcConfig(Coded(us, code))
         /\ us # <<>> => /\ Coded(us, code)[1] # B(1)
                         /\ PrefixAt(Coded(us, code), IF code = Prefix THEN 0 ELSE 1)
<1>1. CASE us = <<>>
  <2>1. Coded(us, code) = <<>>
    BY <1>1, CodedEmpty
  <2>2. ~(Len(<<>>) > 1)
    OBVIOUS
  <2>. QED
    BY ONLY <1>1, <2>1, <2>2 DEF IsAvcConfig
<1>2. CASE us # <<>>
  <2>1. us \in Seq(Seq(Byte))
    BY DEF AreUnits
  <2>2. Starts(Coded(us, code), code)
    BY <1>2, <2>1, CodedStarts
  <2>. DEFINE c == Coded(us, code)
  <2>3. c[1] = B(0) /\ PrefixAt(c, IF code = Prefix THEN 0 ELSE 1)
    <3>. HIDE DEF c
    <3>. QED
      BY <2>2, CodeBegins DEF c
  <2>4. c[1] # B(1)
    BY ONLY <2>3, BytesDiffer
  <2>. QED
    BY ONLY <1>2, <2>3, <2>4 DEF IsAvcConfig
<1>. QED
  BY <1>1, <1>2

(* The parameter sets of a broadcast go as they are. *)
LEMMA BroadcastSets ==
  ASSUME NEW film, IsBroadcast(film)
  PROVE  UnitsHeld(Written(BuildSeqHeader(film)), film.head)
<1>. DEFINE e == film.extradata
            h == film.head
<1>1. AreUnits(h) /\ film.format \in {"AVC", "AVS"}
  BY DEF IsBroadcast, HoldsUnits
<1>2. PICK code \in {Prefix, StartCode} : e = Coded(h, code)
  BY DEF IsBroadcast
<1>3. ~IsAvcConfig(e)
  BY <1>1, <1>2, NotConfig
<1>4. e \in Seq(Byte) /\ IF h = <<>> THEN e = <<>> ELSE Len(e) > 3
  BY <1>1, <1>2, CodedLong
<1>5. BuildSeqHeader(film) =
        IF Len(e) > 3 /\ HasStartCode(e, 0) THEN Header(Len(e), e) ELSE NoHeader
  BY <1>1, <1>3 DEF BuildSeqHeader
<1>. HIDE DEF e, h
<1>6. UnitsHeld(e, h)
  BY <1>1, <1>2, UnitsAlone
<1>7. CASE h = <<>>
  <2>1. e = <<>> /\ ~(Len(<<>>) > 3)
    BY <1>4, <1>7
  <2>2. BuildSeqHeader(film) = NoHeader
    BY ONLY <1>5, <2>1
  <2>. QED
    BY <1>6, <2>1, <2>2, WrittenNothing DEF h
<1>8. CASE h # <<>>
  <2>1. PrefixAt(e, IF code = Prefix THEN 0 ELSE 1)
    BY <1>1, <1>2, <1>8, NotConfig
  <2>2. HasStartCode(e, 0)
    BY ONLY <2>1 DEF HasStartCode
  <2>3. Len(e) > 3
    BY ONLY <1>4, <1>8
  <2>4. BuildSeqHeader(film) = Header(Len(e), e)
    BY ONLY <1>5, <2>2, <2>3
  <2>5. Written(Header(Len(e), e)) = e
    BY ONLY <1>4, WrittenIs
  <2>. QED
    BY <1>6, <2>4, <2>5 DEF h
<1>. QED
  BY <1>7, <1>8

(* So do its packets. *)
LEMMA BroadcastPackets ==
  ASSUME NEW film, HasContent(film), IsBroadcast(film), NEW k \in 1 .. Len(film.packets)
  PROVE  UnitsPacket(film, k)
<1>. DEFINE pkt == film.packets[k]
            us  == film.content[k]
            e   == film.extradata
<1>1. /\ AreUnits(us) /\ AreUnits(film.head)
      /\ film.format \in {"AVC", "AVS"} /\ ~IsAdvanced(film)
  BY DEF IsBroadcast, HoldsUnits
<1>2. PICK code \in {Prefix, StartCode} :
        /\ e = Coded(film.head, code)
        /\ pkt.data = Coded(us, code)
        /\ \/ film.format = "AVC" /\ film.head # <<>>
           \/ pkt.align < Len(Prefix) \/ code = Prefix
  BY DEF IsBroadcast
<1>3. pkt.align \in 0 .. 3
  BY PacketType
<1>4. BuildPicHeader(film, pkt) = NoHeader
  BY <1>1 DEF BuildPicHeader
<1>5. /\ ~IsAvcConfig(e)
      /\ film.head # <<>> => e[1] # B(1)
  BY <1>1, <1>2, NotConfig
<1>6. PacketData(film, pkt) = pkt.data
  <2>. HIDE DEF us, pkt
  <2>1. CASE us = <<>>
    <3>1. pkt.data = <<>>
      BY <1>2, <2>1, CodedEmpty
    <3>2. Len(pkt.data) < 5
      BY ONLY <3>1
    <3>. QED
      BY ONLY <3>2 DEF PacketData
  <2>2. CASE us # <<>> /\ film.format = "AVC" /\ film.head # <<>>
    <3>1. e[1] # B(1) /\ ~IsAvcConfig(e) /\ film.format = "AVC"
      BY <1>5, <2>2
    <3>. QED
      BY ONLY <3>1 DEF PacketData
  <2>3. CASE us # <<>> /\ ~(film.format = "AVC" /\ film.head # <<>>)
    <3>1. PrefixAt(pkt.data, IF code = Prefix THEN 0 ELSE 1)
      BY <1>1, <1>2, <2>3, NotConfig
    <3>2. pkt.align < 3 \/ code = Prefix
      BY <1>2, <2>3, PrefixType
    <3>3. (IF code = Prefix THEN 0 ELSE 1) \in 0 .. 3 - pkt.align
      BY ONLY <1>3, <3>2
    <3>4. HasStartCode(pkt.data, pkt.align)
      BY ONLY <3>1, <3>3 DEF HasStartCode
    <3>. QED
      BY ONLY <1>5, <3>4 DEF PacketData
  <2>. QED
    BY ONLY <2>1, <2>2, <2>3
<1>. QED
  BY <1>1, <1>2, <1>4, <1>6, BareUnits

(* And so of the film. *)
LEMMA BroadcastWritten ==
  ASSUME NEW film, HasContent(film), IsBroadcast(film)
  PROVE  UnitsWritten(film)
BY BroadcastSets, BroadcastPackets DEF UnitsWritten, IsBroadcast

(* VC-1 of the advanced profile. *)
LEMMA CodedOne ==
  ASSUME NEW u, u \in Seq(Byte), NEW code, code \in Seq(Byte)
  PROVE  Coded(<<u>>, code) = code \o u
<1>1. <<>> \in Seq(Seq(Byte)) /\ code \o u \in Seq(Byte)
  BY ConcatProperties
<1>2. Coded(<<>> \o <<u>>, code) = Coded(<<>>, code) \o (code \o u)
  BY <1>1, CodedAppend
<1>3. <<>> \o <<u>> = <<u>>
  OBVIOUS
<1>4. Coded(<<>>, code) = <<>>
  BY CodedEmpty
<1>5. <<>> \o (code \o u) = code \o u
  BY ONLY <1>1, ConcatEmptySeq
<1>. QED
  BY ONLY <1>2, <1>3, <1>4, <1>5

(* A packet of VC-1 has its start code or gets one. *)
LEMMA AdvancedPackets ==
  ASSUME NEW film, HasContent(film), IsAdvancedVc1(film), NEW k \in 1 .. Len(film.packets)
  PROVE  UnitsPacket(film, k)
<1>. DEFINE pkt == film.packets[k]
            us  == film.content[k]
            o   == <<"0D", 1>>
<1>1. AreUnits(us) /\ film.format = "VC1" /\ IsAdvanced(film)
  BY DEF IsAdvancedVc1, HoldsUnits
<1>2. \/ pkt.data = Coded(us, Prefix) /\ Len(us) = 1
      \/ ~PrefixAt(pkt.data, 0) /\ us = <<<<o>> \o pkt.data>>
  BY DEF IsAdvancedVc1
<1>3. PacketData(film, pkt) = pkt.data
  BY <1>1 DEF PacketData
<1>4. BuildPicHeader(film, pkt) =
        IF PrefixAt(pkt.data, 0) THEN NoHeader ELSE Header(4, Prefix \o <<o>>)
  BY <1>1 DEF BuildPicHeader
<1>5. Prefix \in {Prefix, StartCode}
  OBVIOUS
<1>6. CASE pkt.data = Coded(us, Prefix) /\ Len(us) = 1
  <2>1. us # <<>>
    <3>. HIDE DEF us
    <3>1. Len(us) = 1
      BY <1>6
    <3>. QED
      BY ONLY <3>1
  <2>2. PrefixAt(pkt.data, 0)
    <3>1. PrefixAt(Coded(us, Prefix), IF Prefix = Prefix THEN 0 ELSE 1)
      BY <1>1, <2>1, <1>5, NotConfig
    <3>. QED
      BY ONLY <1>6, <3>1
  <2>. QED
    BY <1>1, <1>3, <1>4, <1>5, <1>6, <2>2, BareUnits
<1>7. CASE ~PrefixAt(pkt.data, 0) /\ us = <<<<o>> \o pkt.data>>
  <2>. DEFINE d == pkt.data
              c == <<o>>
              b == Prefix \o c
  <2>1. d \in Seq(Byte)
    BY PacketType
  <2>2. c \in Seq(Byte) /\ Len(c) = 1
    BY NamesAssumption DEF Byte
  <2>3. Prefix \in Seq(Byte) /\ Len(Prefix) = 3
    BY PrefixType
  <2>. HIDE DEF c
  <2>4. b \in Seq(Byte) /\ Len(b) = 4
    <3>1. Len(b) = Len(Prefix) + Len(c) /\ b \in Seq(Byte)
      BY <2>2, <2>3, ConcatProperties
    <3>. QED
      BY ONLY <2>2, <2>3, <3>1
  <2>5. Written(Header(4, b)) = b
    <3>. HIDE DEF b
    <3>. QED
      BY <2>4, WrittenIs
  <2>6. Written(BuildPicHeader(film, pkt)) = b
    BY <1>4, <1>7, <2>5 DEF c
  <2>. HIDE DEF d
  <2>7. b \o d = Prefix \o (c \o d) /\ c \o d \in Seq(Byte)
    <3>1. b = Prefix \o c
      OBVIOUS
    <3>. HIDE DEF b
    <3>2. (Prefix \o c) \o d = Prefix \o (c \o d) /\ c \o d \in Seq(Byte)
      BY ONLY <2>1, <2>2, <2>3, Regroup, SMTT(30)
    <3>. QED
      BY ONLY <3>1, <3>2
  <2>8. Coded(<<c \o d>>, Prefix) = Prefix \o (c \o d)
    BY ONLY <2>3, <2>7, CodedOne
  <2>9. us = <<c \o d>>
    BY <1>7 DEF c, d
  <2>. HIDE DEF b
  <2>10. Written(BuildPicHeader(film, pkt)) \o PacketData(film, pkt) = Coded(us, Prefix)
    BY <1>3, <2>6, <2>7, <2>8, <2>9 DEF d
  <2>. QED
    BY <1>3, <1>5, <2>1, <2>4, <2>6, <2>10 DEF UnitsPacket, d
<1>. QED
  BY <1>2, <1>6, <1>7

(* And so of the film. *)
LEMMA AdvancedWritten ==
  ASSUME NEW film, HasContent(film), IsAdvancedVc1(film)
  PROVE  UnitsWritten(film)
<1>. DEFINE e == film.extradata
            h == film.head
<1>1. /\ HoldsUnits(film) /\ AreUnits(h) /\ e = Coded(h, Prefix)
      /\ film.format = "VC1" /\ IsAdvanced(film)
  BY DEF IsAdvancedVc1, HoldsUnits
<1>2. Prefix \in {Prefix, StartCode}
  OBVIOUS
<1>3. e \in Seq(Byte) /\ UnitsHeld(e, h)
  BY <1>1, <1>2, CodedLong, UnitsAlone
<1>4. BuildSeqHeader(film) = Header(Len(e), e)
  BY <1>1 DEF BuildSeqHeader
<1>5. Written(Header(Len(e), e)) = e
  <2>. HIDE DEF e
  <2>. QED
    BY <1>3, WrittenIs
<1>6. UnitsHeld(Written(BuildSeqHeader(film)), h)
  BY ONLY <1>3, <1>4, <1>5
<1>. QED
  BY <1>1, <1>6, AdvancedPackets DEF UnitsWritten

(* What is in the bitstream before the first packet, what a packet makes of
   it, and what the format has to do with it. *)
Opening(film) ==
  IF film.format \in {"THO", "VP3"} THEN <<>> ELSE Written(BuildSeqHeader(film))
Grown(film, s, k) ==
  LET pkt   == film.packets[k]
      data  == PacketData(film, pkt)
      chunk == IF film.format = "RV"
               THEN Piece(data, 1 + 8 * Segments(data), SliceBytes(data)) ELSE data
  IN IF film.format \in {"THO", "VP3"} THEN s
     ELSE (s \o Written(BuildPicHeader(film, pkt))) \o chunk

ReadsUnits(film, s, k) ==
  /\ IsMp4(film) \/ IsBroadcast(film) \/ IsAdvancedVc1(film)
  /\ UnitsHeld(s, film.head \o Upto(film, k))
ReadsSimple(film, s, k) ==
  /\ IsSimpleVc1(film)
  /\ PicturesHeld(film, s, k, Opening(film), 32 + Len(film.extradata), 8, 3)
ReadsDivx3(film, s, k) ==
  /\ IsDivx3(film) /\ film.extradata # <<>>
  /\ PicturesHeld(film, s, k, Opening(film), 4 + Len(film.extradata), 12, 4)
ReadsIvf(film, s, k) ==
  /\ IsVp8(film) \/ (IsDivx3(film) /\ film.extradata = <<>>)
  /\ PicturesHeld(film, s, k, Opening(film), 32, 12, 4)
ReadsReal(film, s, k) ==
  /\ IsReal(film)
  /\ RvHeld(film, s, k, Opening(film), 26 + Len(film.extradata))
ReadsPlain(film, s, k) ==
  /\ IsPlain(film) /\ Upto(film, k) \in Seq(Byte) /\ s = film.head \o Upto(film, k)
ReadsNothing(film, s, k) ==
  IsUnwritten(film) /\ s = <<>> /\ Upto(film, k) = <<>>
Reads(film, s, k) ==
  \/ ReadsUnits(film, s, k) \/ ReadsSimple(film, s, k) \/ ReadsDivx3(film, s, k)
  \/ ReadsIvf(film, s, k) \/ ReadsReal(film, s, k) \/ ReadsPlain(film, s, k)
  \/ ReadsNothing(film, s, k)

(* Units. *)
LEMMA AllUnits ==
  ASSUME NEW film, HasContent(film), film.extradata \in Seq(Byte),
         IsMp4(film) \/ IsBroadcast(film) \/ IsAdvancedVc1(film)
  PROVE  /\ UnitsWritten(film) /\ Holds(film, Seq(Seq(Byte)))
         /\ film.head \in Seq(Seq(Byte))
         /\ film.format \in {"AVC", "AVS", "VC1"}
         /\ film.format = "VC1" => IsAdvanced(film)
<1>1. UnitsWritten(film)
  BY Mp4Written, BroadcastWritten, AdvancedWritten
<1>2. HoldsUnits(film)
  BY <1>1 DEF UnitsWritten
<1>3. Holds(film, Seq(Seq(Byte))) /\ film.head \in Seq(Seq(Byte))
  BY ONLY <1>2 DEF HoldsUnits, Holds, AreUnits
<1>4. film.format \in {"AVC", "AVS", "VC1"} /\ (film.format = "VC1" => IsAdvanced(film))
  BY DEF IsMp4, IsBroadcast, IsAdvancedVc1
<1>. QED
  BY <1>1, <1>3, <1>4

(* The header of such a film holds its parameter sets. *)
LEMMA UnitsRead ==
  ASSUME NEW film, HasContent(film), film.extradata \in Seq(Byte),
         IsMp4(film) \/ IsBroadcast(film) \/ IsAdvancedVc1(film)
  PROVE  ReadsUnits(film, Opening(film), 0)
<1>1. /\ UnitsWritten(film) /\ Holds(film, Seq(Seq(Byte)))
      /\ film.head \in Seq(Seq(Byte)) /\ film.format \in {"AVC", "AVS", "VC1"}
  BY AllUnits
<1>2. UnitsHeld(Opening(film), film.head)
  BY <1>1 DEF UnitsWritten, Opening
<1>3. Upto(film, 0) = <<>>
  BY <1>1, UptoGrows
<1>4. film.head \o <<>> = film.head
  BY ONLY <1>1, ConcatEmptySeq
<1>5. UnitsHeld(Opening(film), film.head \o Upto(film, 0))
  BY ONLY <1>2, <1>3, <1>4
<1>. QED
  BY <1>5 DEF ReadsUnits

(* A packet later there are its units too. *)
LEMMA UnitsReadOn ==
  ASSUME NEW film, HasContent(film), film.extradata \in Seq(Byte),
         NEW s, NEW k \in Nat, k < Len(film.packets), ReadsUnits(film, s, k)
  PROVE  ReadsUnits(film, Grown(film, s, k + 1), k + 1)
<1>1. /\ UnitsWritten(film) /\ Holds(film, Seq(Seq(Byte)))
      /\ film.head \in Seq(Seq(Byte)) /\ film.format \in {"AVC", "AVS", "VC1"}
  BY AllUnits DEF ReadsUnits
<1>. DEFINE pic  == Written(BuildPicHeader(film, film.packets[k + 1]))
            data == PacketData(film, film.packets[k + 1])
<1>2. k + 1 \in 1 .. Len(film.packets)
  BY DEF HasContent
<1>3. AreUnits(film.content[k + 1]) /\ UnitsPacket(film, k + 1)
  BY <1>1, <1>2 DEF UnitsWritten, HoldsUnits
<1>4. PICK code \in {Prefix, StartCode} : pic \o data = Coded(film.content[k + 1], code)
  BY <1>3 DEF UnitsPacket
<1>5. pic \in Seq(Byte) /\ data \in Seq(Byte)
  BY <1>3 DEF UnitsPacket
<1>6. Grown(film, s, k + 1) = (s \o pic) \o data
  BY <1>1 DEF Grown
<1>7. UnitsHeld(s, film.head \o Upto(film, k))
  BY DEF ReadsUnits
<1>. HIDE DEF pic, data
<1>8. UnitsHeld((s \o pic) \o data, film.head \o Upto(film, k + 1))
  BY <1>1, <1>3, <1>4, <1>5, <1>7, UnitsStep
<1>. QED
  BY <1>6, <1>8 DEF ReadsUnits

(* And that is what a decoder finds. *)
LEMMA UnitsTold ==
  ASSUME NEW film, HasContent(film), film.extradata \in Seq(Byte),
         NEW s, NEW k, ReadsUnits(film, s, k)
  PROVE  s \in Seq(Byte) /\ Found(film, s) = film.head \o Upto(film, k)
<1>1. /\ film.format \in {"AVC", "AVS", "VC1"} /\ (film.format = "VC1" => IsAdvanced(film))
  BY AllUnits DEF ReadsUnits
<1>2. s \in Seq(Byte) /\ Units(s) = film.head \o Upto(film, k)
  BY DEF ReadsUnits, UnitsHeld
<1>3. Found(film, s) = Units(s)
  BY <1>1 DEF Found
<1>. QED
  BY <1>2, <1>3

(* Pictures behind a header each: what their formats have in common. *)
LEMMA PicturesReadOn ==
  ASSUME NEW film, HasContent(film), NEW digits, HoldsPictures(film, digits),
         film.format \in {"VC1", "DIV3", "VP8"},
         NEW header, NEW hd \in Seq(Byte), NEW from,
         from \in Nat, digits \in Nat, digits <= header, header > 0,
         NEW k \in Nat, k < Len(film.packets),
         NEW s, PicturesHeld(film, s, k, hd, from, header, digits),
         NEW pic, pic = Written(BuildPicHeader(film, film.packets[k + 1])),
         pic \in Seq(Byte), Len(pic) = header,
         LittleAt(pic, 0, digits) = Len(film.packets[k + 1].data)
  PROVE  PicturesHeld(film, Grown(film, s, k + 1), k + 1, hd, from, header, digits)
<1>. DEFINE data == film.packets[k + 1].data
<1>1. PacketData(film, film.packets[k + 1]) = data
  BY DEF PacketData
<1>2. Grown(film, s, k + 1) = (s \o pic) \o data
  BY <1>1 DEF Grown
<1>3. data = film.packets[k + 1].data /\ LittleAt(pic, 0, digits) = Len(data)
  OBVIOUS
<1>. HIDE DEF data
<1>4. PicturesHeld(film, (s \o pic) \o data, k + 1, hd, from, header, digits)
  BY <1>3, PicturesStep
<1>. QED
  BY ONLY <1>2, <1>4

(* The pictures are those of the packets handed over. *)
LEMMA PicturesTold ==
  ASSUME NEW film, NEW s, NEW k, NEW hd, NEW from, NEW header, NEW digits,
         PicturesHeld(film, s, k, hd, from, header, digits)
  PROVE  /\ s \in Seq(Byte) /\ Starts(s, hd)
         /\ Pictures(s, from, header, digits) = Upto(film, k)
BY DEF PicturesHeld

(* VC-1 of the simple and the main profile. *)
LEMMA SimpleOpens ==
  ASSUME NEW film, film.extradata \in Seq(Byte), IsSimpleVc1(film)
  PROVE  /\ Opening(film) \in Seq(Byte) /\ Len(film.extradata) \in Nat
         /\ Len(Opening(film)) = 32 + Len(film.extradata)
         /\ \A s : Starts(s, Opening(film)) =>
              /\ LittleAt(s, 4, 4) = Len(film.extradata)
              /\ Piece(s, 8, Len(film.extradata)) = film.extradata
              /\ LittleAt(s, 8 + Len(film.extradata) + 8, 4) = 12
<1>. DEFINE e == film.extradata
<1>1. film.format = "VC1" /\ ~IsAdvanced(film) /\ Fits(Len(e), 4)
  BY DEF IsSimpleVc1
<1>2. Opening(film) = Written(RcvHeader(e))
  BY <1>1 DEF Opening, BuildSeqHeader
<1>3. e \in Seq(Byte) /\ Len(e) \in Nat
  OBVIOUS
<1>. HIDE DEF e
<1>4. /\ Written(RcvHeader(e)) \in Seq(Byte)
      /\ Len(Written(RcvHeader(e))) = 32 + Len(e)
      /\ \A s : Starts(s, Written(RcvHeader(e))) =>
           /\ LittleAt(s, 4, 4) = Len(e)
           /\ Piece(s, 8, Len(e)) = e
           /\ LittleAt(s, 8 + Len(e) + 8, 4) = 12
  BY <1>1, <1>3, RcvHeaderIs
<1>. QED
  BY ONLY <1>2, <1>3, <1>4 DEF e

(* Before the first packet. *)
LEMMA SimpleRead ==
  ASSUME NEW film, HasContent(film), film.extradata \in Seq(Byte), IsSimpleVc1(film)
  PROVE  ReadsSimple(film, Opening(film), 0)
<1>1. Opening(film) \in Seq(Byte) /\ Len(Opening(film)) = 32 + Len(film.extradata)
  BY SimpleOpens
<1>2. HoldsPictures(film, 3)
  BY DEF IsSimpleVc1
<1>3. Holds(film, Seq(Seq(Byte)))
  BY <1>2, ArePictures
<1>4. PicturesHeld(film, Opening(film), 0, Opening(film), 32 + Len(film.extradata), 8, 3)
  BY <1>1, <1>3, PicturesBegin
<1>. QED
  BY <1>4 DEF ReadsSimple

(* A packet later. *)
LEMMA SimpleReadOn ==
  ASSUME NEW film, HasContent(film), film.extradata \in Seq(Byte),
         NEW s, NEW k \in Nat, k < Len(film.packets), ReadsSimple(film, s, k)
  PROVE  ReadsSimple(film, Grown(film, s, k + 1), k + 1)
<1>. DEFINE pkt  == film.packets[k + 1]
            pic  == Written(BuildPicHeader(film, pkt))
            hd   == Opening(film)
            from == 32 + Len(film.extradata)
            d    == 3
            w    == 8
<1>1. IsSimpleVc1(film) /\ PicturesHeld(film, s, k, hd, from, w, d)
  BY DEF ReadsSimple
<1>2. /\ film.format = "VC1" /\ ~IsAdvanced(film) /\ HoldsPictures(film, d)
      /\ film.format \in {"VC1", "DIV3", "VP8"}
  BY <1>1 DEF IsSimpleVc1
<1>3. hd \in Seq(Byte) /\ from \in Nat
  BY <1>1, SimpleOpens
<1>4. pkt.data \in Seq(Byte) /\ pkt.key \in BOOLEAN /\ Fits(Len(pkt.data), 3)
  <2>1. k + 1 \in 1 .. Len(film.packets)
    BY DEF HasContent
  <2>. QED
    BY <1>2, <2>1, ArePictures
<1>5. pic = Written(RcvPicHeader(pkt))
  BY <1>2 DEF BuildPicHeader
<1>6. pic \in Seq(Byte) /\ Len(pic) = w /\ LittleAt(pic, 0, d) = Len(pkt.data)
  <2>. HIDE DEF pkt
  <2>. QED
    BY <1>4, <1>5, RcvPicHeaderIs
<1>7. d \in Nat /\ d <= w /\ w > 0
  OBVIOUS
<1>8. pic = Written(BuildPicHeader(film, film.packets[k + 1]))
      /\ LittleAt(pic, 0, d) = Len(film.packets[k + 1].data)
  BY <1>6
<1>. HIDE DEF pkt, pic, hd, from, d, w
<1>9. PicturesHeld(film, Grown(film, s, k + 1), k + 1, hd, from, w, d)
  BY <1>1, <1>2, <1>3, <1>6, <1>7, <1>8, PicturesReadOn
<1>. QED
  BY <1>1, <1>9 DEF ReadsSimple, hd, from, d, w

(* What a decoder finds. *)
LEMMA SimpleTold ==
  ASSUME NEW film, HasContent(film), film.extradata \in Seq(Byte),
         NEW s, NEW k, ReadsSimple(film, s, k)
  PROVE  s \in Seq(Byte) /\ Found(film, s) = film.head \o Upto(film, k)
<1>. DEFINE e == film.extradata
            n == Len(e)
<1>1. IsSimpleVc1(film) /\ PicturesHeld(film, s, k, Opening(film), 32 + n, 8, 3)
  BY DEF ReadsSimple
<1>2. film.format = "VC1" /\ ~IsAdvanced(film) /\ film.head = <<e>>
  BY <1>1 DEF IsSimpleVc1
<1>3. /\ s \in Seq(Byte) /\ Starts(s, Opening(film))
      /\ Pictures(s, 32 + n, 8, 3) = Upto(film, k)
  BY <1>1, PicturesTold
<1>4. n \in Nat /\ LittleAt(s, 4, 4) = n /\ Piece(s, 8, n) = e
      /\ LittleAt(s, 8 + n + 8, 4) = 12
  BY <1>1, <1>3, SimpleOpens
<1>. HIDE DEF n
<1>5. 8 + n + 12 + 12 = 32 + n
  BY ONLY <1>4
<1>6. Found(film, s) =
        LET m == LittleAt(s, 4, 4)
            b == LittleAt(s, 8 + m + 8, 4)
        IN <<Piece(s, 8, m)>> \o Pictures(s, 8 + m + 12 + b, 8, 3)
  BY <1>2 DEF Found
<1>7. Found(film, s) = <<e>> \o Pictures(s, 32 + n, 8, 3)
  BY ONLY <1>4, <1>5, <1>6
<1>. QED
  BY ONLY <1>2, <1>3, <1>7

(* The header that DIV3 and VP8 have in front of each picture. *)
LEMMA FramesReadOn ==
  ASSUME NEW film, HasContent(film), HoldsPictures(film, 4), film.format \in {"DIV3", "VP8"},
         NEW hd \in Seq(Byte), NEW from, from \in Nat,
         NEW k \in Nat, k < Len(film.packets),
         NEW s, PicturesHeld(film, s, k, hd, from, 12, 4)
  PROVE  PicturesHeld(film, Grown(film, s, k + 1), k + 1, hd, from, 12, 4)
<1>. DEFINE pkt  == film.packets[k + 1]
            pic  == Written(BuildPicHeader(film, pkt))
            n    == Len(pkt.data)
            d    == 4
            w    == 12
<1>1. pkt.data \in Seq(Byte) /\ Fits(n, 4)
  <2>1. k + 1 \in 1 .. Len(film.packets)
    BY DEF HasContent
  <2>. QED
    BY <2>1, ArePictures
<1>2. n \in Nat
  <2>. HIDE DEF pkt
  <2>. QED
    BY <1>1
<1>3. pic = Written(Header(12, PutLE(n, 4) \o PutLE(0, 4) \o PutLE(0, 4)))
  BY DEF BuildPicHeader
<1>4. pic \in Seq(Byte) /\ Len(pic) = w /\ LittleAt(pic, 0, d) = n
  <2>. HIDE DEF pkt, n
  <2>. QED
    BY <1>1, <1>2, <1>3, FrameHeaderIs
<1>5. d \in Nat /\ d <= w /\ w > 0
  OBVIOUS
<1>6. /\ pic = Written(BuildPicHeader(film, film.packets[k + 1]))
      /\ LittleAt(pic, 0, d) = Len(film.packets[k + 1].data)
  BY <1>4
<1>7. HoldsPictures(film, d) /\ PicturesHeld(film, s, k, hd, from, w, d)
      /\ film.format \in {"VC1", "DIV3", "VP8"}
  OBVIOUS
<1>. HIDE DEF pkt, pic, d, w, n
<1>8. PicturesHeld(film, Grown(film, s, k + 1), k + 1, hd, from, w, d)
  BY <1>4, <1>5, <1>6, <1>7, PicturesReadOn
<1>. QED
  BY <1>8 DEF d, w

(* DIV3 with extradata. *)
LEMMA Divx3Opens ==
  ASSUME NEW film, film.extradata \in Seq(Byte), IsDivx3(film), film.extradata # <<>>
  PROVE  /\ Opening(film) \in Seq(Byte) /\ Len(film.extradata) \in Nat
         /\ Len(Opening(film)) = 4 + Len(film.extradata)
         /\ \A s : Starts(s, Opening(film)) =>
              /\ NumberAt(s, 0, 4) = Len(film.extradata)
              /\ Piece(s, 4, Len(film.extradata)) = film.extradata
<1>. DEFINE e == film.extradata
            h == Written(Header(4 + Len(e), PutBE(Len(e), 4) \o e))
<1>1. film.format = "DIV3" /\ Fits(Len(e), 4)
  BY DEF IsDivx3
<1>2. Opening(film) = h
  BY <1>1 DEF Opening, BuildSeqHeader
<1>3. e \in Seq(Byte) /\ Len(e) \in Nat
  OBVIOUS
<1>. HIDE DEF e
<1>4. /\ h \in Seq(Byte) /\ Len(h) = 4 + Len(e)
      /\ \A s : Starts(s, h) => NumberAt(s, 0, 4) = Len(e) /\ Piece(s, 4, Len(e)) = e
  BY <1>1, <1>3, LengthHeaderIs
<1>. QED
  BY ONLY <1>2, <1>3, <1>4 DEF e

(* Before the first packet. *)
LEMMA Divx3Read ==
  ASSUME NEW film, HasContent(film), film.extradata \in Seq(Byte), IsDivx3(film),
         film.extradata # <<>>
  PROVE  ReadsDivx3(film, Opening(film), 0)
<1>1. Opening(film) \in Seq(Byte) /\ Len(Opening(film)) = 4 + Len(film.extradata)
  BY Divx3Opens
<1>2. HoldsPictures(film, 4)
  BY DEF IsDivx3
<1>3. Holds(film, Seq(Seq(Byte)))
  BY <1>2, ArePictures
<1>4. PicturesHeld(film, Opening(film), 0, Opening(film), 4 + Len(film.extradata), 12, 4)
  BY <1>1, <1>3, PicturesBegin
<1>. QED
  BY <1>4 DEF ReadsDivx3

(* A packet later. *)
LEMMA Divx3ReadOn ==
  ASSUME NEW film, HasContent(film), film.extradata \in Seq(Byte),
         NEW s, NEW k \in Nat, k < Len(film.packets), ReadsDivx3(film, s, k)
  PROVE  ReadsDivx3(film, Grown(film, s, k + 1), k + 1)
<1>. DEFINE hd   == Opening(film)
            from == 4 + Len(film.extradata)
<1>1. /\ IsDivx3(film) /\ film.extradata # <<>>
      /\ PicturesHeld(film, s, k, hd, from, 12, 4)
  BY DEF ReadsDivx3
<1>2. HoldsPictures(film, 4) /\ film.format \in {"DIV3", "VP8"}
  BY <1>1 DEF IsDivx3
<1>3. hd \in Seq(Byte) /\ from \in Nat
  BY <1>1, Divx3Opens
<1>. HIDE DEF hd, from
<1>4. PicturesHeld(film, Grown(film, s, k + 1), k + 1, hd, from, 12, 4)
  BY <1>1, <1>2, <1>3, FramesReadOn
<1>. QED
  BY <1>1, <1>4 DEF ReadsDivx3, hd, from

(* What a decoder finds. *)
LEMMA Divx3Told ==
  ASSUME NEW film, film.extradata \in Seq(Byte),
         NEW s, NEW k, ReadsDivx3(film, s, k)
  PROVE  s \in Seq(Byte) /\ Found(film, s) = film.head \o Upto(film, k)
<1>. DEFINE e == film.extradata
            n == Len(e)
<1>1. /\ IsDivx3(film) /\ e # <<>>
      /\ PicturesHeld(film, s, k, Opening(film), 4 + n, 12, 4)
  BY DEF ReadsDivx3
<1>2. film.format = "DIV3" /\ ~IsAdvanced(film) /\ film.head = <<e>>
  BY <1>1 DEF IsDivx3
<1>3. /\ s \in Seq(Byte) /\ Starts(s, Opening(film))
      /\ Pictures(s, 4 + n, 12, 4) = Upto(film, k)
  BY <1>1, PicturesTold
<1>4. NumberAt(s, 0, 4) = n /\ Piece(s, 4, n) = e
  BY <1>1, <1>3, Divx3Opens
<1>. HIDE DEF n
<1>5. Found(film, s) =
        LET m == NumberAt(s, 0, 4)
        IN <<Piece(s, 4, m)>> \o Pictures(s, 4 + m, 12, 4)
  BY <1>1, <1>2 DEF Found
<1>6. Found(film, s) = <<e>> \o Pictures(s, 4 + n, 12, 4)
  BY ONLY <1>4, <1>5
<1>. QED
  BY ONLY <1>2, <1>3, <1>6

(* VP8, and DIV3 without extradata. *)
LEMMA IvfOpens ==
  ASSUME NEW film, IsVp8(film) \/ (IsDivx3(film) /\ film.extradata = <<>>)
  PROVE  /\ Opening(film) \in Seq(Byte) /\ Len(Opening(film)) = 32
         /\ \A s : Starts(s, Opening(film)) => LittleAt(s, 6, 2) = 32
         /\ HoldsPictures(film, 4) /\ film.head = <<>>
<1>1. \A signature, fourcc \in Names :
        LET h == Written(IvfHeader(signature, fourcc))
        IN h \in Seq(Byte) /\ Len(h) = 32 /\ \A s : Starts(s, h) => LittleAt(s, 6, 2) = 32
  BY IvfHeaderIs
<1>2. "CNMV" \in Names /\ "DIV3" \in Names /\ "DKIF" \in Names /\ "VP80" \in Names
  BY NamesAssumption
<1>3. CASE IsVp8(film)
  <2>1. film.format = "VP8" /\ HoldsPictures(film, 4) /\ film.head = <<>>
    BY <1>3 DEF IsVp8
  <2>2. Opening(film) = Written(IvfHeader("DKIF", "VP80"))
    BY <2>1 DEF Opening, BuildSeqHeader
  <2>. QED
    BY ONLY <1>1, <1>2, <2>1, <2>2
<1>4. CASE IsDivx3(film) /\ film.extradata = <<>>
  <2>1. film.format = "DIV3" /\ HoldsPictures(film, 4) /\ film.head = <<>>
    BY <1>4 DEF IsDivx3
  <2>2. Opening(film) = Written(IvfHeader("CNMV", "DIV3"))
    BY <1>4, <2>1 DEF Opening, BuildSeqHeader
  <2>. QED
    BY ONLY <1>1, <1>2, <2>1, <2>2
<1>. QED
  BY <1>3, <1>4

(* Before the first packet. *)
LEMMA IvfRead ==
  ASSUME NEW film, HasContent(film),
         IsVp8(film) \/ (IsDivx3(film) /\ film.extradata = <<>>)
  PROVE  ReadsIvf(film, Opening(film), 0)
<1>1. Opening(film) \in Seq(Byte) /\ Len(Opening(film)) = 32 /\ HoldsPictures(film, 4)
  BY IvfOpens
<1>3. Holds(film, Seq(Seq(Byte)))
  BY <1>1, ArePictures
<1>4. PicturesHeld(film, Opening(film), 0, Opening(film), 32, 12, 4)
  BY <1>1, <1>3, PicturesBegin
<1>. QED
  BY <1>4 DEF ReadsIvf

(* A packet later. *)
LEMMA IvfReadOn ==
  ASSUME NEW film, HasContent(film),
         NEW s, NEW k \in Nat, k < Len(film.packets), ReadsIvf(film, s, k)
  PROVE  ReadsIvf(film, Grown(film, s, k + 1), k + 1)
<1>. DEFINE hd   == Opening(film)
            from == 32
<1>1. /\ IsVp8(film) \/ (IsDivx3(film) /\ film.extradata = <<>>)
      /\ PicturesHeld(film, s, k, hd, from, 12, 4)
  BY DEF ReadsIvf
<1>2. HoldsPictures(film, 4) /\ hd \in Seq(Byte) /\ from \in Nat
  BY <1>1, IvfOpens
<1>3. film.format \in {"DIV3", "VP8"}
  BY <1>1 DEF IsVp8, IsDivx3
<1>. HIDE DEF hd, from
<1>4. PicturesHeld(film, Grown(film, s, k + 1), k + 1, hd, from, 12, 4)
  BY <1>1, <1>2, <1>3, FramesReadOn
<1>. QED
  BY <1>1, <1>4 DEF ReadsIvf, hd, from

(* What a decoder finds. *)
LEMMA IvfTold ==
  ASSUME NEW film, NEW s, NEW k, ReadsIvf(film, s, k)
  PROVE  s \in Seq(Byte) /\ Found(film, s) = film.head \o Upto(film, k)
<1>1. /\ IsVp8(film) \/ (IsDivx3(film) /\ film.extradata = <<>>)
      /\ PicturesHeld(film, s, k, Opening(film), 32, 12, 4)
  BY DEF ReadsIvf
<1>2. /\ ~IsAdvanced(film)
      /\ film.format = "VP8" \/ (film.format = "DIV3" /\ film.extradata = <<>>)
  BY <1>1 DEF IsVp8, IsDivx3
<1>3. /\ s \in Seq(Byte) /\ Starts(s, Opening(film))
      /\ Pictures(s, 32, 12, 4) = Upto(film, k)
  BY <1>1, PicturesTold
<1>4. LittleAt(s, 6, 2) = 32 /\ film.head = <<>>
  BY <1>1, <1>3, IvfOpens
<1>5. Found(film, s) = Pictures(s, LittleAt(s, 6, 2), 12, 4)
  BY <1>2 DEF Found
<1>6. Found(film, s) = Upto(film, k)
  BY ONLY <1>3, <1>4, <1>5
<1>. QED
  BY <1>3, <1>4, <1>6

(* RealVideo. *)
LEMMA RealOpens ==
  ASSUME NEW film, film.extradata \in Seq(Byte), IsReal(film)
  PROVE  /\ Opening(film) \in Seq(Byte) /\ Len(film.extradata) \in Nat
         /\ Len(Opening(film)) = 26 + Len(film.extradata)
         /\ \A s : Starts(s, Opening(film)) =>
              /\ NumberAt(s, 0, 4) = 26 + Len(film.extradata)
              /\ Piece(s, 26, Len(film.extradata)) = film.extradata
<1>1. /\ film.format = "RV" /\ IsRealVideo(film) /\ film.fourcc \in Names
      /\ Fits(26 + Len(film.extradata), 4)
  BY DEF IsReal
<1>2. Opening(film) = Written(RvHeader(film))
  BY <1>1 DEF Opening, BuildSeqHeader
<1>3. /\ Written(RvHeader(film)) \in Seq(Byte) /\ Len(film.extradata) \in Nat
      /\ Len(Written(RvHeader(film))) = 26 + Len(film.extradata)
      /\ \A s : Starts(s, Written(RvHeader(film))) =>
           /\ NumberAt(s, 0, 4) = 26 + Len(film.extradata)
           /\ Piece(s, 26, Len(film.extradata)) = film.extradata
  BY <1>1, RvHeaderIs
<1>. QED
  BY ONLY <1>2, <1>3

(* Before the first packet. *)
LEMMA RealRead ==
  ASSUME NEW film, HasContent(film), film.extradata \in Seq(Byte), IsReal(film)
  PROVE  ReadsReal(film, Opening(film), 0)
<1>1. Opening(film) \in Seq(Byte) /\ Len(Opening(film)) = 26 + Len(film.extradata)
  BY RealOpens
<1>2. RvHeld(film, Opening(film), 0, Opening(film), 26 + Len(film.extradata))
  BY <1>1, RvBegin
<1>. QED
  BY <1>2 DEF ReadsReal

(* A packet later. *)
LEMMA RealReadOn ==
  ASSUME NEW film, HasContent(film), film.extradata \in Seq(Byte),
         NEW s, NEW k \in Nat, k < Len(film.packets), ReadsReal(film, s, k)
  PROVE  ReadsReal(film, Grown(film, s, k + 1), k + 1)
<1>. DEFINE pkt  == film.packets[k + 1]
            pic  == Written(RvPicHeader(pkt.data))
            data == Piece(pkt.data, 1 + 8 * Segments(pkt.data), SliceBytes(pkt.data))
            hd   == Opening(film)
            from == 26 + Len(film.extradata)
<1>1. IsReal(film) /\ RvHeld(film, s, k, hd, from)
  BY DEF ReadsReal
<1>2. film.format = "RV" /\ IsRealVideo(film)
  BY <1>1 DEF IsReal
<1>3. hd \in Seq(Byte) /\ from \in Nat
  BY <1>1, RealOpens
<1>4. BuildPicHeader(film, pkt) = RvPicHeader(pkt.data) /\ PacketData(film, pkt) = pkt.data
  BY <1>2 DEF BuildPicHeader, PacketData
<1>5. Grown(film, s, k + 1) = (s \o pic) \o data
  BY <1>2, <1>4 DEF Grown
<1>6. /\ pkt = film.packets[k + 1] /\ pic = Written(RvPicHeader(pkt.data))
      /\ data = Piece(pkt.data, 1 + 8 * Segments(pkt.data), SliceBytes(pkt.data))
  OBVIOUS
<1>. HIDE DEF pkt, pic, data, hd, from
<1>7. RvHeld(film, (s \o pic) \o data, k + 1, hd, from)
  BY <1>1, <1>3, <1>6, RvStep
<1>. QED
  BY <1>1, <1>5, <1>7 DEF ReadsReal, hd, from

(* What a decoder finds. *)
LEMMA RealTold ==
  ASSUME NEW film, film.extradata \in Seq(Byte), NEW s, NEW k, ReadsReal(film, s, k)
  PROVE  s \in Seq(Byte) /\ Found(film, s) = film.head \o Upto(film, k)
<1>. DEFINE e == film.extradata
            n == Len(e)
<1>1. IsReal(film) /\ RvHeld(film, s, k, Opening(film), 26 + n)
  BY DEF ReadsReal
<1>2. film.format = "RV" /\ ~IsAdvanced(film) /\ film.head = <<e>>
  BY <1>1 DEF IsReal, IsRealVideo, IsAdvanced
<1>3. s \in Seq(Byte) /\ Starts(s, Opening(film)) /\ RvPictures(s, 26 + n) = Upto(film, k)
  BY <1>1 DEF RvHeld
<1>4. n \in Nat /\ NumberAt(s, 0, 4) = 26 + n /\ Piece(s, 26, n) = e
  BY <1>1, <1>3, RealOpens
<1>. HIDE DEF n
<1>5. (26 + n) - 26 = n
  BY ONLY <1>4
<1>6. Found(film, s) =
        LET m == NumberAt(s, 0, 4)
        IN <<Piece(s, 26, m - 26)>> \o RvPictures(s, m)
  BY <1>2 DEF Found
<1>7. Found(film, s) = <<e>> \o RvPictures(s, 26 + n)
  BY ONLY <1>4, <1>5, <1>6
<1>. QED
  BY ONLY <1>2, <1>3, <1>7

(* What is taken as it is. *)
LEMMA PlainIs ==
  ASSUME NEW film, HasContent(film), film.extradata \in Seq(Byte), IsPlain(film)
  PROVE  /\ film.format \notin {"AVC", "AVS", "VC1", "RV", "DIV3", "VP8", "THO", "VP3"}
         /\ ~IsAdvanced(film) /\ film.head \in Seq(Byte)
         /\ Holds(film, Seq(Byte)) /\ Opening(film) = film.head
         /\ \A k \in 1 .. Len(film.packets) :
              film.content[k] \in Seq(Byte) /\ film.content[k] = film.packets[k].data
<1>. DEFINE e == film.extradata
<1>1. /\ film.format \notin {"AVC", "AVS", "VC1", "RV", "DIV3", "VP8", "THO", "VP3"}
      /\ ~IsAdvanced(film) /\ film.head = e
      /\ \A k \in 1 .. Len(film.packets) : film.content[k] = film.packets[k].data
  BY DEF IsPlain
<1>2. Opening(film) = Written(Header(Len(e), e))
  BY <1>1 DEF Opening, BuildSeqHeader
<1>3. e \in Seq(Byte)
  OBVIOUS
<1>4. \A k \in 1 .. Len(film.packets) : film.packets[k].data \in Seq(Byte)
  BY PacketType
<1>5. Holds(film, Seq(Byte))
  BY ONLY <1>1, <1>4 DEF Holds
<1>. HIDE DEF e
<1>6. Written(Header(Len(e), e)) = e
  BY ONLY <1>3, WrittenIs
<1>. QED
  BY ONLY <1>1, <1>2, <1>3, <1>4, <1>5, <1>6

(* Before the first packet. *)
LEMMA PlainRead ==
  ASSUME NEW film, HasContent(film), film.extradata \in Seq(Byte), IsPlain(film)
  PROVE  ReadsPlain(film, Opening(film), 0)
<1>1. film.head \in Seq(Byte) /\ Holds(film, Seq(Byte)) /\ Opening(film) = film.head
  BY PlainIs
<1>2. Upto(film, 0) = <<>>
  BY <1>1, UptoGrows
<1>3. film.head \o <<>> = film.head
  BY ONLY <1>1, ConcatEmptySeq
<1>4. <<>> \in Seq(Byte)
  OBVIOUS
<1>5. Upto(film, 0) \in Seq(Byte) /\ Opening(film) = film.head \o Upto(film, 0)
  BY ONLY <1>1, <1>2, <1>3, <1>4
<1>. QED
  BY <1>5 DEF ReadsPlain

(* A packet later. *)
LEMMA PlainReadOn ==
  ASSUME NEW film, HasContent(film), film.extradata \in Seq(Byte),
         NEW s, NEW k \in Nat, k < Len(film.packets), ReadsPlain(film, s, k)
  PROVE  ReadsPlain(film, Grown(film, s, k + 1), k + 1)
<1>. DEFINE h == film.head
            u == Upto(film, k)
            c == film.content[k + 1]
            pkt == film.packets[k + 1]
<1>1. IsPlain(film) /\ u \in Seq(Byte) /\ s = h \o u
  BY DEF ReadsPlain
<1>2. k + 1 \in 1 .. Len(film.packets) /\ k \in 0 .. Len(film.packets) - 1
  BY DEF HasContent
<1>3. /\ film.format \notin {"AVC", "AVS", "VC1", "RV", "DIV3", "VP8", "THO", "VP3"}
      /\ h \in Seq(Byte) /\ Holds(film, Seq(Byte)) /\ c \in Seq(Byte) /\ c = pkt.data
  BY <1>1, <1>2, PlainIs
<1>4. Upto(film, k + 1) = u \o c
  BY <1>2, <1>3, UptoGrows
<1>5. BuildPicHeader(film, pkt) = NoHeader /\ PacketData(film, pkt) = pkt.data
  BY <1>3 DEF BuildPicHeader, PacketData
<1>6. Grown(film, s, k + 1) = (s \o <<>>) \o c
  BY <1>3, <1>5, WrittenNothing DEF Grown
<1>. HIDE DEF h, u, c, pkt
<1>7. s \in Seq(Byte) /\ u \o c \in Seq(Byte)
  BY ONLY <1>1, <1>3, ConcatProperties
<1>8. s \o <<>> = s
  BY ONLY <1>7, ConcatEmptySeq
<1>9. (h \o u) \o c = h \o (u \o c)
  <2>1. h \in Seq(Byte) /\ u \in Seq(Byte) /\ c \in Seq(Byte)
    BY <1>1, <1>3
  <2>. QED
    BY ONLY <2>1, Regroup
<1>10. Grown(film, s, k + 1) = h \o Upto(film, k + 1) /\ Upto(film, k + 1) \in Seq(Byte)
  BY ONLY <1>1, <1>4, <1>6, <1>7, <1>8, <1>9
<1>. QED
  BY <1>1, <1>10 DEF ReadsPlain, h

(* What a decoder finds. *)
LEMMA PlainTold ==
  ASSUME NEW film, HasContent(film), film.extradata \in Seq(Byte),
         NEW s, NEW k, ReadsPlain(film, s, k)
  PROVE  s \in Seq(Byte) /\ Found(film, s) = film.head \o Upto(film, k)
<1>1. IsPlain(film) /\ Upto(film, k) \in Seq(Byte) /\ s = film.head \o Upto(film, k)
  BY DEF ReadsPlain
<1>2. /\ film.format \notin {"AVC", "AVS", "VC1", "RV", "DIV3", "VP8", "THO", "VP3"}
      /\ ~IsAdvanced(film) /\ film.head \in Seq(Byte)
  BY <1>1, PlainIs
<1>3. Found(film, s) = s
  BY <1>2 DEF Found
<1>4. s \in Seq(Byte)
  BY ONLY <1>1, <1>2, ConcatProperties
<1>. QED
  BY <1>1, <1>3, <1>4

(* THO and VP3. *)
LEMMA NothingIs ==
  ASSUME NEW film, HasContent(film), IsUnwritten(film)
  PROVE  /\ film.format \in {"THO", "VP3"} /\ ~IsAdvanced(film) /\ film.head = <<>>
         /\ Holds(film, Seq({}))
         /\ \A k \in 1 .. Len(film.packets) : film.content[k] = <<>>
<1>1. \A k \in 1 .. Len(film.packets) : film.content[k] = <<>>
  BY DEF IsUnwritten
<1>2. <<>> \in Seq({})
  OBVIOUS
<1>3. Holds(film, Seq({}))
  BY ONLY <1>1, <1>2 DEF Holds
<1>. QED
  BY <1>1, <1>3 DEF IsUnwritten

(* Before the first packet. *)
LEMMA NothingRead ==
  ASSUME NEW film, HasContent(film), IsUnwritten(film)
  PROVE  ReadsNothing(film, Opening(film), 0)
<1>1. film.format \in {"THO", "VP3"} /\ Holds(film, Seq({}))
  BY NothingIs
<1>2. Upto(film, 0) = <<>>
  BY <1>1, UptoGrows
<1>. QED
  BY <1>1, <1>2 DEF ReadsNothing, Opening

(* A packet later. *)
LEMMA NothingReadOn ==
  ASSUME NEW film, HasContent(film),
         NEW s, NEW k \in Nat, k < Len(film.packets), ReadsNothing(film, s, k)
  PROVE  ReadsNothing(film, Grown(film, s, k + 1), k + 1)
<1>1. IsUnwritten(film) /\ s = <<>> /\ Upto(film, k) = <<>>
  BY DEF ReadsNothing
<1>2. k + 1 \in 1 .. Len(film.packets) /\ k \in 0 .. Len(film.packets) - 1
  BY DEF HasContent
<1>3. film.format \in {"THO", "VP3"} /\ Holds(film, Seq({})) /\ film.content[k + 1] = <<>>
  BY <1>1, <1>2, NothingIs
<1>4. Upto(film, k + 1) = Upto(film, k) \o film.content[k + 1]
  BY <1>2, <1>3, UptoGrows
<1>5. <<>> \o <<>> = <<>>
  OBVIOUS
<1>6. Upto(film, k + 1) = <<>>
  BY ONLY <1>1, <1>3, <1>4, <1>5
<1>7. Grown(film, s, k + 1) = <<>>
  BY <1>1, <1>3 DEF Grown
<1>. QED
  BY <1>1, <1>6, <1>7 DEF ReadsNothing

(* What a decoder finds. *)
LEMMA NothingTold ==
  ASSUME NEW film, HasContent(film), NEW s, NEW k, ReadsNothing(film, s, k)
  PROVE  s \in Seq(Byte) /\ Found(film, s) = film.head \o Upto(film, k)
<1>1. IsUnwritten(film) /\ s = <<>> /\ Upto(film, k) = <<>>
  BY DEF ReadsNothing
<1>2. film.format \in {"THO", "VP3"} /\ ~IsAdvanced(film) /\ film.head = <<>>
  BY <1>1, NothingIs
<1>3. Found(film, s) = s
  BY <1>2 DEF Found
<1>4. <<>> \o <<>> = <<>> /\ <<>> \in Seq(Byte)
  OBVIOUS
<1>. QED
  BY ONLY <1>1, <1>2, <1>3, <1>4

(* What a film is. *)
LEMMA FilmIs ==
  ASSUME NEW film, IsFilm(film)
  PROVE  /\ HasContent(film) /\ film.extradata \in Seq(Byte) /\ film # NoFilm
         /\ Len(film.packets) \in Nat
         /\ \/ IsMp4(film) \/ IsBroadcast(film) \/ IsAdvancedVc1(film)
            \/ IsSimpleVc1(film) \/ IsDivx3(film) \/ IsVp8(film) \/ IsReal(film)
            \/ IsPlain(film) \/ IsUnwritten(film)
<1>1. HasContent(film)
  BY DEF IsFilm, HasContent
<1>2. film # NoFilm
  BY DEF IsFilm, NoFilm
<1>3. Len(film.packets) \in Nat
  <2>1. film.packets \in Seq(Packet)
    BY DEF IsFilm
  <2>. QED
    BY ONLY <2>1, LenProperties
<1>. QED
  BY <1>1, <1>2, <1>3 DEF IsFilm

(* Before the first packet. *)
LEMMA ReadsOpening ==
  ASSUME NEW film, IsFilm(film)
  PROVE  Reads(film, Opening(film), 0)
<1>1. HasContent(film) /\ film.extradata \in Seq(Byte)
  BY FilmIs
<1>2. CASE IsMp4(film) \/ IsBroadcast(film) \/ IsAdvancedVc1(film)
  BY <1>1, <1>2, UnitsRead DEF Reads
<1>3. CASE IsSimpleVc1(film)
  BY <1>1, <1>3, SimpleRead DEF Reads
<1>4. CASE IsDivx3(film) /\ film.extradata # <<>>
  BY <1>1, <1>4, Divx3Read DEF Reads
<1>5. CASE IsVp8(film) \/ (IsDivx3(film) /\ film.extradata = <<>>)
  BY <1>1, <1>5, IvfRead DEF Reads
<1>6. CASE IsReal(film)
  BY <1>1, <1>6, RealRead DEF Reads
<1>7. CASE IsPlain(film)
  BY <1>1, <1>7, PlainRead DEF Reads
<1>8. CASE IsUnwritten(film)
  BY <1>1, <1>8, NothingRead DEF Reads
<1>. QED
  BY ONLY FilmIs, IsFilm(film), <1>2, <1>3, <1>4, <1>5, <1>6, <1>7, <1>8

(* A packet later. *)
LEMMA ReadsOn ==
  ASSUME NEW film, IsFilm(film), NEW s, NEW k \in Nat, k < Len(film.packets),
         Reads(film, s, k)
  PROVE  Reads(film, Grown(film, s, k + 1), k + 1)
<1>1. HasContent(film) /\ film.extradata \in Seq(Byte)
  BY FilmIs
<1>2. CASE ReadsUnits(film, s, k)
  BY <1>1, <1>2, UnitsReadOn DEF Reads
<1>3. CASE ReadsSimple(film, s, k)
  BY <1>1, <1>3, SimpleReadOn DEF Reads
<1>4. CASE ReadsDivx3(film, s, k)
  BY <1>1, <1>4, Divx3ReadOn DEF Reads
<1>5. CASE ReadsIvf(film, s, k)
  BY <1>1, <1>5, IvfReadOn DEF Reads
<1>6. CASE ReadsReal(film, s, k)
  BY <1>1, <1>6, RealReadOn DEF Reads
<1>7. CASE ReadsPlain(film, s, k)
  BY <1>1, <1>7, PlainReadOn DEF Reads
<1>8. CASE ReadsNothing(film, s, k)
  BY <1>1, <1>8, NothingReadOn DEF Reads
<1>. QED
  BY ONLY Reads(film, s, k), <1>2, <1>3, <1>4, <1>5, <1>6, <1>7, <1>8 DEF Reads

(* What a decoder finds. *)
LEMMA ReadsTold ==
  ASSUME NEW film, IsFilm(film), NEW s, NEW k, Reads(film, s, k)
  PROVE  s \in Seq(Byte) /\ Found(film, s) = film.head \o Upto(film, k)
<1>1. HasContent(film) /\ film.extradata \in Seq(Byte)
  BY FilmIs
<1>2. CASE ReadsUnits(film, s, k)
  BY ONLY <1>1, <1>2, UnitsTold
<1>3. CASE ReadsSimple(film, s, k)
  BY ONLY <1>1, <1>3, SimpleTold
<1>4. CASE ReadsDivx3(film, s, k)
  BY ONLY <1>1, <1>4, Divx3Told
<1>5. CASE ReadsIvf(film, s, k)
  BY ONLY <1>1, <1>5, IvfTold
<1>6. CASE ReadsReal(film, s, k)
  BY ONLY <1>1, <1>6, RealTold
<1>7. CASE ReadsPlain(film, s, k)
  BY ONLY <1>1, <1>7, PlainTold
<1>8. CASE ReadsNothing(film, s, k)
  BY ONLY <1>1, <1>8, NothingTold
<1>. QED
  BY ONLY Reads(film, s, k), <1>2, <1>3, <1>4, <1>5, <1>6, <1>7, <1>8 DEF Reads

(* The header is written with the first packet. *)
StreamInv ==
  \/ videoSt = NoFilm /\ seqFilled = FALSE /\ fed = 0 /\ sent = <<>>
  \/ /\ videoSt \in Films
     /\ seqFilled \in BOOLEAN
     /\ fed \in Nat /\ fed <= Len(videoSt.packets)
     /\ IF seqFilled THEN Reads(videoSt, sent, fed) ELSE fed = 0 /\ sent = <<>>

(* A step of buildVideoPacket keeps it, with the header and without. *)
LEMMA PacketWrites ==
  ASSUME StreamInv, videoSt # NoFilm, fed < Len(videoSt.packets),
         BuildVideoPacket(videoSt.packets[fed + 1])
  PROVE  StreamInv'
<1>. DEFINE base == IF seqFilled THEN sent ELSE Opening(videoSt)
            pkt  == videoSt.packets[fed + 1]
            pic  == Written(BuildPicHeader(videoSt, pkt))
            data == PacketData(videoSt, pkt)
            chunk == IF videoSt.format = "RV"
                     THEN Piece(data, 1 + 8 * Segments(data), SliceBytes(data)) ELSE data
<1>1. /\ videoSt \in Films /\ seqFilled \in BOOLEAN
      /\ fed \in Nat
      /\ IF seqFilled THEN Reads(videoSt, sent, fed) ELSE fed = 0 /\ sent = <<>>
  BY DEF StreamInv
<1>2. IsFilm(videoSt)
  BY <1>1, FilmsAssumption
<1>3. Reads(videoSt, base, fed)
  <2>1. Reads(videoSt, Opening(videoSt), 0)
    BY ONLY <1>2, ReadsOpening
  <2>. QED
    BY ONLY <1>1, <2>1
<1>4. Reads(videoSt, Grown(videoSt, base, fed + 1), fed + 1)
  <2>. HIDE DEF base
  <2>. QED
    BY <1>1, <1>2, <1>3, ReadsOn
<1>5. videoSt' = videoSt /\ seqFilled' = TRUE /\ fed' = fed + 1
  BY DEF BuildVideoPacket
<1>6. sent' = Grown(videoSt, base, fed + 1)
  <2>1. base \in Seq(Byte)
    <3>. HIDE DEF base
    <3>. QED
      BY ONLY <1>2, <1>3, ReadsTold
  <2>2. CASE videoSt.format \in {"THO", "VP3"}
    <3>1. sent' = sent
      BY <2>2 DEF BuildVideoPacket
    <3>2. Grown(videoSt, base, fed + 1) = base
      BY <2>2 DEF Grown
    <3>3. base = sent
      BY <1>1, <2>2 DEF Opening
    <3>. QED
      BY ONLY <3>1, <3>2, <3>3
  <2>3. CASE videoSt.format \notin {"THO", "VP3"}
    <3>. DEFINE first == IF seqFilled THEN <<>> ELSE Written(BuildSeqHeader(videoSt))
    <3>1. sent' = ((sent \o first) \o pic) \o chunk
      BY <2>3 DEF BuildVideoPacket
    <3>2. Grown(videoSt, base, fed + 1) = (base \o pic) \o chunk
      BY <2>3 DEF Grown
    <3>3. sent \o first = base
      <4>1. CASE seqFilled
        <5>1. base = sent /\ first = <<>>
          BY <4>1
        <5>2. base \o <<>> = base
          BY ONLY <2>1, ConcatEmptySeq
        <5>. QED
          BY ONLY <5>1, <5>2
      <4>2. CASE ~seqFilled
        <5>1. sent = <<>> /\ first = base
          BY <1>1, <2>3, <4>2 DEF Opening
        <5>2. <<>> \o base = base
          BY ONLY <2>1, ConcatEmptySeq
        <5>. QED
          BY ONLY <5>1, <5>2
      <4>. QED
        BY ONLY <4>1, <4>2
    <3>. HIDE DEF first, base, pic, chunk
    <3>. QED
      BY ONLY <3>1, <3>2, <3>3
  <2>. QED
    BY ONLY <2>2, <2>3
<1>7. fed' \in Nat /\ fed' <= Len(videoSt'.packets)
  <2>1. Len(videoSt.packets) \in Nat
    BY <1>2, FilmIs
  <2>2. fed < Len(videoSt.packets)
    OBVIOUS
  <2>. QED
    BY ONLY <1>1, <1>5, <2>1, <2>2
<1>8. Reads(videoSt', sent', fed')
  <2>. HIDE DEF base
  <2>. QED
    BY ONLY <1>4, <1>5, <1>6
<1>. QED
  BY ONLY <1>1, <1>5, <1>7, <1>8 DEF StreamInv

(* Whatever was written of a film, it can be read as that film's format is
   read up to the last packet handed over, and ends where a picture or a unit
   may follow: what buildVideoPacket keeps true. *)
THEOREM StreamKept == StreamSpec => []StreamInv
<1>1. StreamInit => StreamInv
  BY DEF StreamInit, StreamInv
<1>2. StreamInv /\ [StreamNext]_streamVars => StreamInv'
  <2>. SUFFICES ASSUME StreamInv, [StreamNext]_streamVars PROVE StreamInv'
    OBVIOUS
  <2>1. ASSUME NEW film \in Films, OpenStream(film) PROVE StreamInv'
    <3>1. videoSt = NoFilm /\ videoSt' = film /\ UNCHANGED <<seqFilled, fed, sent>>
      BY <2>1 DEF OpenStream
    <3>2. IsFilm(film)
      BY FilmsAssumption
    <3>3. Len(film.packets) \in Nat
      BY <3>2, FilmIs
    <3>4. seqFilled = FALSE /\ fed = 0 /\ sent = <<>>
      <4>1. CASE videoSt \in Films
        BY <3>1, <4>1, FilmIs, FilmsAssumption
      <4>2. CASE videoSt \notin Films
        BY <4>2 DEF StreamInv
      <4>. QED
        BY <4>1, <4>2
    <3>5. /\ videoSt' \in Films /\ seqFilled' = FALSE /\ fed' = 0 /\ sent' = <<>>
          /\ Len(videoSt'.packets) \in Nat
      BY ONLY <2>1, <3>1, <3>3, <3>4, film \in Films
    <3>6. fed' \in Nat /\ fed' <= Len(videoSt'.packets)
      BY ONLY <3>5
    <3>. QED
      BY ONLY <3>5, <3>6 DEF StreamInv
  <2>2. ASSUME videoSt # NoFilm, fed < Len(videoSt.packets),
               BuildVideoPacket(videoSt.packets[fed + 1])
        PROVE  StreamInv'
    BY <2>2, PacketWrites
  <2>3. CASE UNCHANGED streamVars
    BY <2>3 DEF StreamInv, streamVars
  <2>. QED
    BY ONLY [StreamNext]_streamVars, <2>1, <2>2, <2>3 DEF StreamNext
<1>. QED
  BY <1>1, <1>2, PTL DEF StreamSpec

(* For every film, of any format, size and number of packets: in what
   buildVideoPacket has written a decoder that keeps the rules of the format
   finds the parameter sets or the extradata and then the contents of the
   packets so far, each once and in order, and nothing else. *)
THEOREM DecoderFindsTheFilm == StreamSpec => []StreamTells
<1>1. StreamInv => StreamTells
  <2>. SUFFICES ASSUME StreamInv, fed > 0
               PROVE  Found(videoSt, sent) = videoSt.head
                        \o S!FlattenSeq(SubSeq(videoSt.content, 1, fed))
    BY DEF StreamTells
  <2>1. IsFilm(videoSt) /\ Reads(videoSt, sent, fed)
    BY FilmsAssumption DEF StreamInv
  <2>2. Found(videoSt, sent) = videoSt.head \o Upto(videoSt, fed)
    BY <2>1, ReadsTold
  <2>. QED
    BY ONLY <2>2 DEF Upto
<1>. QED
  BY <1>1, StreamKept, PTL

==============================================================================
