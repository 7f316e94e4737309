----------------------------- MODULE FrameProofs -----------------------------
(***************************************************************************)
(* Theorems about the frame buffers of an encoder, for every size that the *)
(* call lets pass up to the largest picture, any number of frames it has   *)
(* room for and wherever their memory begins: no block of one plane shares *)
(* an address with another, unless the map cannot lay out the size.        *)
(*                                                                         *)
(* A position becomes an address through tables of bits.  The argument     *)
(* goes from the bits up: the bits of an address tell those of row, bank   *)
(* and column (or of macroblock and column); these tell the bits of the    *)
(* position that the tables pick; and the bits that are not picked are     *)
(* told by the row, in which planes, fields and frames lie one after the   *)
(* other.  Most lemmas exist once for each platform, Fpga and Board, and   *)
(* for each family of maps.                                                *)
(***************************************************************************)
EXTENDS FrameMaps, FiniteSetTheorems, WellFoundedInduction, TLAPS

(* Induction over the natural numbers, as well-foundedness gives it. *)
LEMMA NatInduct ==
  ASSUME NEW S, 0 \in S, \A n \in Nat : n \in S => n + 1 \in S
  PROVE  Nat \subseteq S
<1>1. SUFFICES ASSUME Nat \ S # {} PROVE FALSE
  OBVIOUS
<1> DEFINE R == OpToRel(<, Nat)
<1>2. /\ \A x, y \in Nat : y < x => <<y, x>> \in R
      /\ IsWellFoundedOn(R, Nat)
  BY NatLessThanWellFounded DEF OpToRel
<1> HIDE DEF R
<1>3. PICK x \in Nat \ S : \A y \in Nat \ S : ~(<<y, x>> \in R)
  BY <1>1, <1>2, WFMin
<1>4. x \in Nat /\ x # 0
  BY <1>3
<1>5. x - 1 \in Nat /\ x - 1 < x
  BY <1>4
<1>6. x - 1 \in S
  BY <1>2, <1>3, <1>5
<1>7. QED
  BY <1>3, <1>5, <1>6

(* The value of the n highest bits, by that of one less. *)
Shifted(bits, length, f, n) == IF n = 0 THEN 0 ELSE bits[length + 1 - n] + 2 * f[n - 1]

(* The recursive function of Value is there: the least counterexample to
   its first n values has none before it. *)
LEMMA HighestExists ==
  ASSUME NEW bits, NEW length \in Nat
  PROVE  \E f : f = [n \in 0 .. length |-> Shifted(bits, length, f, n)]
<1> DEFINE Is(m, f) == f = [n \in 0 .. m |-> Shifted(bits, length, f, n)]
           S == {m \in Nat : \E f : Is(m, f)}
<1>1. 0 \in S
  <2> DEFINE f == [n \in 0 .. 0 |-> 0]
  <2>1. Is(0, f)
    BY DEF Shifted
  <2> QED
    BY <2>1
<1>2. ASSUME NEW m \in Nat, m \in S PROVE m + 1 \in S
  <2>1. PICK f : Is(m, f)
    BY <1>2
  <2> DEFINE g == [n \in 0 .. m + 1 |-> Shifted(bits, length, f, n)]
  <2>2. \A n \in 0 .. m : n \in 0 .. m + 1 /\ g[n] = f[n]
    BY <2>1
  <2>3. \A n \in 0 .. m + 1 : n # 0 => n - 1 \in 0 .. m
    OBVIOUS
  <2>4. \A n \in 0 .. m + 1 : g[n] = Shifted(bits, length, g, n)
    BY <2>2, <2>3 DEF Shifted
  <2>5. Is(m + 1, g)
    <3>1. g = [n \in 0 .. m + 1 |-> g[n]]
      OBVIOUS
    <3> HIDE DEF g
    <3> QED
      BY <2>4, <3>1
  <2> HIDE DEF g
  <2> QED
    BY <2>5
<1>3. length \in S
  <2> HIDE DEF S
  <2> QED
    BY <1>1, <1>2, NatInduct
<1> QED
  BY <1>3

(* So Value is computed bit by bit, the highest first. *)
LEMMA ValueIs ==
  ASSUME NEW bits, NEW length \in Nat, Len(bits) = length
  PROVE  \E f : /\ f[0] = 0 /\ Value(bits) = f[length]
                /\ \A n \in 1 .. length : f[n] = bits[length + 1 - n] + 2 * f[n - 1]
<1> DEFINE f == CHOOSE f : f = [n \in 0 .. length |-> Shifted(bits, length, f, n)]
<1>1. f = [n \in 0 .. length |-> Shifted(bits, length, f, n)]
  BY HighestExists
<1>2. Value(bits) = f[length]
  BY DEF Value, Shifted
<1> HIDE DEF f
<1>3. f[0] = 0 /\ \A n \in 1 .. length : f[n] = bits[length + 1 - n] + 2 * f[n - 1]
  BY <1>1 DEF Shifted
<1> QED
  BY <1>2, <1>3

IsBits(b, n) == Len(b) = n /\ \A i \in 1 .. n : b[i] \in {0, 1}

(* f[k] is the number made of the k highest bits of b. *)
AreHighest(f, b, n) ==
  /\ f[0] = 0 /\ f[n] = Value(b)
  /\ \A k \in 0 .. n : f[k] \in Nat
  /\ \A k \in 1 .. n : f[k] = b[n + 1 - k] + 2 * f[k - 1]
  /\ \A k \in 4 .. n :
       f[k] = b[n + 1 - k] + 2 * b[n + 2 - k] + 4 * b[n + 3 - k] + 8 * b[n + 4 - k]
                + 16 * f[k - 4]

(* What Value goes through on its way, for a list of bits. *)
LEMMA HighestBits ==
  ASSUME NEW n \in Nat, NEW b, IsBits(b, n)
  PROVE  \E f : AreHighest(f, b, n)
<1>1. PICK f : /\ f[0] = 0 /\ Value(b) = f[n]
               /\ \A k \in 1 .. n : f[k] = b[n + 1 - k] + 2 * f[k - 1]
  <2>1. Len(b) = n
    BY DEF IsBits
  <2> QED
    BY <2>1, ValueIs
<1>2. \A i \in 1 .. n : b[i] \in Nat
  BY DEF IsBits
<1> DEFINE S == {k \in Nat : k <= n => f[k] \in Nat}
<1>3. ASSUME NEW k \in Nat, k \in S PROVE k + 1 \in S
  <2>1. SUFFICES ASSUME k + 1 <= n PROVE f[k + 1] \in Nat
    OBVIOUS
  <2>2. k + 1 \in 1 .. n /\ n + 1 - (k + 1) \in 1 .. n /\ f[k] \in Nat
    BY <1>3, <2>1
  <2>3. f[k + 1] = b[n + 1 - (k + 1)] + 2 * f[k]
    BY <1>1, <2>2
  <2> QED
    BY <1>2, <2>2, <2>3
<1>4. \A k \in 0 .. n : f[k] \in Nat
  <2>1. 0 \in S
    BY <1>1
  <2> HIDE DEF S
  <2>2. Nat \subseteq S
    BY <1>3, <2>1, NatInduct
  <2> QED
    BY <2>2 DEF S
<1>5. ASSUME NEW k \in 4 .. n
      PROVE  f[k] = b[n + 1 - k] + 2 * b[n + 2 - k] + 4 * b[n + 3 - k] + 8 * b[n + 4 - k]
                      + 16 * f[k - 4]
  <2>1. k \in 1 .. n /\ k - 1 \in 1 .. n /\ k - 2 \in 1 .. n /\ k - 3 \in 1 .. n
    OBVIOUS
  <2>2. /\ f[k] = b[n + 1 - k] + 2 * f[k - 1]
        /\ f[k - 1] = b[n + 2 - k] + 2 * f[k - 2]
        /\ f[k - 2] = b[n + 3 - k] + 2 * f[k - 3]
        /\ f[k - 3] = b[n + 4 - k] + 2 * f[k - 4]
    BY <1>1, <2>1
  <2>3. /\ b[n + 1 - k] \in Nat /\ b[n + 2 - k] \in Nat /\ b[n + 3 - k] \in Nat
        /\ b[n + 4 - k] \in Nat /\ f[k - 4] \in Nat
    BY <1>2, <1>4
  <2> QED
    BY <2>2, <2>3
<1> QED
  BY <1>1, <1>4, <1>5 DEF AreHighest

(* Four bits more are a digit of sixteen. *)
LEMMA HighestBounds ==
  ASSUME NEW n \in Nat, NEW b, IsBits(b, n), NEW f, AreHighest(f, b, n),
         NEW k \in 4 .. n
  PROVE  f[k - 4] \in Nat /\ 16 * f[k - 4] <= f[k] /\ f[k] <= 16 * f[k - 4] + 15
<1> DEFINE p == b[n + 1 - k]
           q == b[n + 2 - k]
           r == b[n + 3 - k]
           s == b[n + 4 - k]
<1>1. p \in {0, 1} /\ q \in {0, 1} /\ r \in {0, 1} /\ s \in {0, 1}
  BY DEF IsBits
<1>2. f[k] = p + 2 * q + 4 * r + 8 * s + 16 * f[k - 4] /\ f[k - 4] \in Nat
  BY DEF AreHighest
<1> HIDE DEF p, q, r, s
<1> QED
  BY <1>1, <1>2

(* The value of four bits. *)
LEMMA Nibble ==
  ASSUME NEW b, IsBits(b, 4) PROVE Value(b) = b[1] + 2 * b[2] + 4 * b[3] + 8 * b[4]
<1>1. PICK f : AreHighest(f, b, 4)
  BY HighestBits
<1>2. 4 \in 4 .. 4 /\ f[0] = 0 /\ f[4] = Value(b)
  BY <1>1 DEF AreHighest
<1>3. f[4] = b[4 + 1 - 4] + 2 * b[4 + 2 - 4] + 4 * b[4 + 3 - 4] + 8 * b[4 + 4 - 4]
               + 16 * f[4 - 4]
  BY <1>1, <1>2 DEF AreHighest
<1>4. b[1] \in Nat /\ b[2] \in Nat /\ b[3] \in Nat /\ b[4] \in Nat
  BY DEF IsBits
<1> QED
  BY <1>2, <1>3, <1>4

(* The bits of a number, four at a time. *)
LEMMA NumberIs ==
  ASSUME NEW v \in Nat
  PROVE  /\ v % 16 = Bit(v, 0) + 2 * Bit(v, 1) + 4 * Bit(v, 2) + 8 * Bit(v, 3)
         /\ (v \div 16) % 16 = Bit(v, 4) + 2 * Bit(v, 5) + 4 * Bit(v, 6) + 8 * Bit(v, 7)
         /\ (v \div 256) % 16 = Bit(v, 8) + 2 * Bit(v, 9) + 4 * Bit(v, 10) + 8 * Bit(v, 11)
         /\ (v \div 4096) % 16 = Bit(v, 12) + 2 * Bit(v, 13) + 4 * Bit(v, 14) + 8 * Bit(v, 15)
<1>1. \A w \in Nat : w % 16 = (w % 2) + 2 * ((w \div 2) % 2) + 4 * ((w \div 4) % 2)
                                + 8 * ((w \div 8) % 2)
  OBVIOUS
<1>2. v % 16 = Bit(v, 0) + 2 * Bit(v, 1) + 4 * Bit(v, 2) + 8 * Bit(v, 3)
  BY <1>1 DEF Bit
<1>3. (v \div 16) % 16 = Bit(v, 4) + 2 * Bit(v, 5) + 4 * Bit(v, 6) + 8 * Bit(v, 7)
  <2>1. v \div 16 \in Nat /\ (v \div 16) \div 2 = v \div 32 /\ (v \div 16) \div 4 = v \div 64
        /\ (v \div 16) \div 8 = v \div 128
    OBVIOUS
  <2> QED
    BY <1>1, <2>1 DEF Bit
<1>4. (v \div 256) % 16 = Bit(v, 8) + 2 * Bit(v, 9) + 4 * Bit(v, 10) + 8 * Bit(v, 11)
  <2>1. v \div 256 \in Nat /\ (v \div 256) \div 2 = v \div 512 /\ (v \div 256) \div 4 = v \div 1024
        /\ (v \div 256) \div 8 = v \div 2048
    OBVIOUS
  <2> QED
    BY <1>1, <2>1 DEF Bit
<1>5. (v \div 4096) % 16 = Bit(v, 12) + 2 * Bit(v, 13) + 4 * Bit(v, 14) + 8 * Bit(v, 15)
  <2>1. v \div 4096 \in Nat /\ (v \div 4096) \div 2 = v \div 8192
        /\ (v \div 4096) \div 4 = v \div 16384 /\ (v \div 4096) \div 8 = v \div 32768
    OBVIOUS
  <2> QED
    BY <1>1, <2>1 DEF Bit
<1> QED
  BY <1>2, <1>3, <1>4, <1>5

(* A number is made of its digits. *)
LEMMA Halves ==
  ASSUME NEW v \in Nat
  PROVE  /\ v % 65536 = (v % 16) + 16 * ((v \div 16) % 16) + 256 * ((v \div 256) % 16)
                          + 4096 * ((v \div 4096) % 16)
         /\ v % 512 = (v % 16) + 16 * ((v \div 16) % 16) + 256 * ((v \div 256) % 2)
         /\ v % 4 = (v % 2) + 2 * ((v \div 2) % 2)
<1>1. v % 65536 = (v % 256) + 256 * ((v \div 256) % 256)
  OBVIOUS
<1>2. v % 256 = (v % 16) + 16 * ((v \div 16) % 16)
  OBVIOUS
<1>3. (v \div 256) % 256 = ((v \div 256) % 16) + 16 * ((v \div 4096) % 16)
  OBVIOUS
<1>4. v % 512 = (v % 256) + 256 * ((v \div 256) % 2)
  OBVIOUS
<1>5. v % 4 = (v % 2) + 2 * ((v \div 2) % 2)
  OBVIOUS
<1> QED
  BY <1>1, <1>2, <1>3, <1>4, <1>5

(* A bit is 0 or 1. *)
LEMMA BitsAre ==
  ASSUME NEW v \in Nat, NEW k \in 0 .. 15
  PROVE  Bit(v, k) \in {0, 1}
<1>1. /\ Bit(v, 0) \in {0, 1} /\ Bit(v, 1) \in {0, 1} /\ Bit(v, 2) \in {0, 1}
      /\ Bit(v, 3) \in {0, 1} /\ Bit(v, 4) \in {0, 1} /\ Bit(v, 5) \in {0, 1}
      /\ Bit(v, 6) \in {0, 1} /\ Bit(v, 7) \in {0, 1} /\ Bit(v, 8) \in {0, 1}
      /\ Bit(v, 9) \in {0, 1} /\ Bit(v, 10) \in {0, 1} /\ Bit(v, 11) \in {0, 1}
      /\ Bit(v, 12) \in {0, 1} /\ Bit(v, 13) \in {0, 1} /\ Bit(v, 14) \in {0, 1}
      /\ Bit(v, 15) \in {0, 1}
  BY DEF Bit
<1>2. k \in {0, 1, 2, 3, 4, 5, 6, 7, 8, 9, 10, 11, 12, 13, 14, 15}
  OBVIOUS
<1> QED
  BY <1>1, <1>2

(* A value tells its bits. *)
LEMMA BitOfValue ==
  ASSUME NEW n \in 1 .. 10, NEW b, IsBits(b, n)
  PROVE  \A k \in 0 .. n - 1 : Bit(Value(b), k) = b[k + 1]
<1>1. PICK f : AreHighest(f, b, n)
  BY HighestBits
<1>2. \A j \in 0 .. n : f[j] \in Nat
  BY <1>1 DEF AreHighest
<1>3. \A j \in 1 .. n : f[j - 1] = f[j] \div 2 /\ f[j] % 2 = b[n + 1 - j]
  <2>1. SUFFICES ASSUME NEW j \in 1 .. n
                 PROVE  f[j - 1] = f[j] \div 2 /\ f[j] % 2 = b[n + 1 - j]
    OBVIOUS
  <2>2. f[j] = b[n + 1 - j] + 2 * f[j - 1]
    BY <1>1 DEF AreHighest
  <2>3. f[j - 1] \in Nat /\ b[n + 1 - j] \in {0, 1}
    BY <1>2 DEF IsBits
  <2> QED
    BY <2>2, <2>3
<1> DEFINE v == Value(b)
<1>4. v \in Nat /\ v = f[n]
  BY <1>1, <1>2 DEF AreHighest
<1> HIDE DEF v
<1>5. \A k \in 0 .. n - 1 : f[n - k] % 2 = b[k + 1]
  <2>1. SUFFICES ASSUME NEW k \in 0 .. n - 1 PROVE f[n - k] % 2 = b[k + 1]
    OBVIOUS
  <2>2. n - k \in 1 .. n /\ n + 1 - (n - k) = k + 1
    OBVIOUS
  <2> QED
    BY <1>3, <2>2
<1>6. /\ v \div 1 = v
      /\ v \div 4 = (v \div 2) \div 2 /\ v \div 8 = (v \div 4) \div 2
      /\ v \div 16 = (v \div 8) \div 2 /\ v \div 32 = (v \div 16) \div 2
      /\ v \div 64 = (v \div 32) \div 2 /\ v \div 128 = (v \div 64) \div 2
      /\ v \div 256 = (v \div 128) \div 2 /\ v \div 512 = (v \div 256) \div 2
  BY <1>4
<1>7. \A k \in 0 .. n - 1 : Bit(v, k) = b[k + 1]
  <2>1. \A j \in 1 .. n : j - 1 \in 0 .. n
    OBVIOUS
  <2>2. \A j \in 1 .. n, m \in 0 .. n : j = m + 1 => f[m] = f[j] \div 2
    BY <1>3, <2>1
  <2>3. v \div 1 = f[n - 0]
    BY <1>4, <1>6
  <2>4. 1 <= n - 1 => v \div 2 = f[n - 1]
    BY <1>4, <1>6, <2>2, <2>3
  <2>5. 2 <= n - 1 => v \div 4 = f[n - 2]
    BY <1>4, <1>6, <2>2, <2>4
  <2>6. 3 <= n - 1 => v \div 8 = f[n - 3]
    BY <1>4, <1>6, <2>2, <2>5
  <2>7. 4 <= n - 1 => v \div 16 = f[n - 4]
    BY <1>4, <1>6, <2>2, <2>6
  <2>8. 5 <= n - 1 => v \div 32 = f[n - 5]
    BY <1>4, <1>6, <2>2, <2>7
  <2>9. 6 <= n - 1 => v \div 64 = f[n - 6]
    BY <1>4, <1>6, <2>2, <2>8
  <2>10. 7 <= n - 1 => v \div 128 = f[n - 7]
    BY <1>4, <1>6, <2>2, <2>9
  <2>11. 8 <= n - 1 => v \div 256 = f[n - 8]
    BY <1>4, <1>6, <2>2, <2>10
  <2>12. 9 <= n - 1 => v \div 512 = f[n - 9]
    BY <1>4, <1>6, <2>2, <2>11
  <2>13. Bit(v, 0) = b[0 + 1]
    BY <1>4, <1>5, <2>3 DEF Bit
  <2>14. 1 <= n - 1 => Bit(v, 1) = b[1 + 1]
    <3>1. 1 <= n - 1 => f[n - 1] % 2 = b[1 + 1]
      BY <1>5
    <3> QED
      BY <1>4, <2>4, <3>1 DEF Bit
  <2>15. 2 <= n - 1 => Bit(v, 2) = b[2 + 1]
    <3>1. 2 <= n - 1 => f[n - 2] % 2 = b[2 + 1]
      BY <1>5
    <3> QED
      BY <1>4, <2>5, <3>1 DEF Bit
  <2>16. 3 <= n - 1 => Bit(v, 3) = b[3 + 1]
    <3>1. 3 <= n - 1 => f[n - 3] % 2 = b[3 + 1]
      BY <1>5
    <3> QED
      BY <1>4, <2>6, <3>1 DEF Bit
  <2>17. 4 <= n - 1 => Bit(v, 4) = b[4 + 1]
    <3>1. 4 <= n - 1 => f[n - 4] % 2 = b[4 + 1]
      BY <1>5
    <3> QED
      BY <1>4, <2>7, <3>1 DEF Bit
  <2>18. 5 <= n - 1 => Bit(v, 5) = b[5 + 1]
    <3>1. 5 <= n - 1 => f[n - 5] % 2 = b[5 + 1]
      BY <1>5
    <3> QED
      BY <1>4, <2>8, <3>1 DEF Bit
  <2>19. 6 <= n - 1 => Bit(v, 6) = b[6 + 1]
    <3>1. 6 <= n - 1 => f[n - 6] % 2 = b[6 + 1]
      BY <1>5
    <3> QED
      BY <1>4, <2>9, <3>1 DEF Bit
  <2>20. 7 <= n - 1 => Bit(v, 7) = b[7 + 1]
    <3>1. 7 <= n - 1 => f[n - 7] % 2 = b[7 + 1]
      BY <1>5
    <3> QED
      BY <1>4, <2>10, <3>1 DEF Bit
  <2>21. 8 <= n - 1 => Bit(v, 8) = b[8 + 1]
    <3>1. 8 <= n - 1 => f[n - 8] % 2 = b[8 + 1]
      BY <1>5
    <3> QED
      BY <1>4, <2>11, <3>1 DEF Bit
  <2>22. 9 <= n - 1 => Bit(v, 9) = b[9 + 1]
    <3>1. 9 <= n - 1 => f[n - 9] % 2 = b[9 + 1]
      BY <1>5
    <3> QED
      BY <1>4, <2>12, <3>1 DEF Bit
  <2>23. SUFFICES ASSUME NEW k \in 0 .. n - 1 PROVE Bit(v, k) = b[k + 1]
    OBVIOUS
  <2>24. k \in {0, 1, 2, 3, 4, 5, 6, 7, 8, 9}
    OBVIOUS
  <2> QED
    BY <2>13, <2>14, <2>15, <2>16, <2>17, <2>18, <2>19, <2>20, <2>21, <2>22, <2>24
<1> QED
  BY <1>7 DEF v

(* And different bits make different values. *)
LEMMA SameBits ==
  ASSUME NEW n \in Nat, NEW b, NEW c, IsBits(b, n), IsBits(c, n), Value(b) = Value(c)
  PROVE  \A i \in 1 .. n : b[i] = c[i]
<1>1. PICK f : AreHighest(f, b, n)
  BY HighestBits
<1>2. PICK g : AreHighest(g, c, n)
  BY HighestBits
<1>3. f[n] = g[n]
  BY <1>1, <1>2 DEF AreHighest
<1>4. \A k \in 1 .. n : f[k] = g[k] => f[k - 1] = g[k - 1] /\ b[n + 1 - k] = c[n + 1 - k]
  <2>1. SUFFICES ASSUME NEW k \in 1 .. n, f[k] = g[k]
                 PROVE  f[k - 1] = g[k - 1] /\ b[n + 1 - k] = c[n + 1 - k]
    OBVIOUS
  <2>2. k - 1 \in 0 .. n /\ n + 1 - k \in 1 .. n
    OBVIOUS
  <2>3. f[k] = b[n + 1 - k] + 2 * f[k - 1] /\ g[k] = c[n + 1 - k] + 2 * g[k - 1]
    BY <1>1, <1>2 DEF AreHighest
  <2>4. f[k - 1] \in Nat /\ g[k - 1] \in Nat
    BY <1>1, <1>2, <2>2 DEF AreHighest
  <2>5. b[n + 1 - k] \in {0, 1} /\ c[n + 1 - k] \in {0, 1}
    BY <2>2 DEF IsBits
  <2> DEFINE p == f[k - 1]
             q == g[k - 1]
             r == b[n + 1 - k]
             t == c[n + 1 - k]
  <2>6. p \in Nat /\ q \in Nat /\ r \in {0, 1} /\ t \in {0, 1} /\ r + 2 * p = t + 2 * q
    BY <2>1, <2>3, <2>4, <2>5
  <2> HIDE DEF p, q, r, t
  <2>7. p = q /\ r = t
    BY <2>6
  <2> QED
    BY <2>7 DEF p, q, r, t
<1> DEFINE S == {d \in Nat : d <= n => f[n - d] = g[n - d]}
<1>5. 0 \in S
  BY <1>3
<1>6. ASSUME NEW d \in Nat, d \in S PROVE d + 1 \in S
  <2>1. SUFFICES ASSUME d + 1 <= n PROVE f[n - (d + 1)] = g[n - (d + 1)]
    OBVIOUS
  <2>2. n - d \in 1 .. n /\ (n - d) - 1 = n - (d + 1) /\ f[n - d] = g[n - d]
    BY <1>6, <2>1
  <2> QED
    BY <1>4, <2>2
<1>7. Nat \subseteq S
  <2> HIDE DEF S
  <2> QED
    BY <1>5, <1>6, NatInduct
<1>8. SUFFICES ASSUME NEW i \in 1 .. n PROVE b[i] = c[i]
  OBVIOUS
<1>9. i - 1 \in S /\ i - 1 <= n /\ n - (i - 1) \in 1 .. n /\ n + 1 - (n - (i - 1)) = i
  BY <1>7
<1> QED
  BY <1>4, <1>9

(***************************************************************************)
(* What the entries of the tables pick.                                    *)
(***************************************************************************)
Sides == {1, 2}
Fields == {0, 1}
TableSizes == 1 .. 10

(* What XyBit makes of each entry that occurs in a table. *)
LEMMA XyBits ==
  ASSUME NEW x \in Nat, NEW y \in Nat, NEW tb \in Fields
  PROVE  /\ XyBit(3, x, y, tb) = Bit(x, 3) /\ XyBit(4, x, y, tb) = Bit(x, 4)
         /\ XyBit(5, x, y, tb) = Bit(x, 5) /\ XyBit(6, x, y, tb) = Bit(x, 6)
         /\ XyBit(7, x, y, tb) = Bit(x, 7) /\ XyBit(8, x, y, tb) = Bit(x, 8)
         /\ XyBit(9, x, y, tb) = Bit(x, 9) /\ XyBit(10, x, y, tb) = Bit(x, 10)
         /\ XyBit(16, x, y, tb) = Bit(y, 0) /\ XyBit(17, x, y, tb) = Bit(y, 1)
         /\ XyBit(18, x, y, tb) = Bit(y, 2) /\ XyBit(19, x, y, tb) = Bit(y, 3)
         /\ XyBit(20, x, y, tb) = Bit(y, 4) /\ XyBit(21, x, y, tb) = Bit(y, 5)
         /\ XyBit(22, x, y, tb) = Bit(y, 6) /\ XyBit(23, x, y, tb) = Bit(y, 7)
         /\ XyBit(24, x, y, tb) = Bit(y, 8) /\ XyBit(25, x, y, tb) = Bit(y, 9)
         /\ XyBit(26, x, y, tb) = Bit(y, 10) /\ XyBit(27, x, y, tb) = Bit(y, 11)
         /\ XyBit(28, x, y, tb) = Bit(y, 12) /\ XyBit(29, x, y, tb) = Bit(y, 13)
         /\ XyBit(30, x, y, tb) = Bit(y, 14) /\ XyBit(31, x, y, tb) = Bit(y, 15)
         /\ XyBit(48, x, y, tb) = (Bit(y, 0) + tb) % 2
         /\ XyBit(53, x, y, tb) = (Bit(y, 5) + tb) % 2
         /\ XyBit(64, x, y, tb) = 0
         /\ XyBit(135, x, y, tb) = 1 - Bit(x, 7)
         /\ XyBit(136, x, y, tb) = 1 - Bit(x, 8)
         /\ XyBit(148, x, y, tb) = 1 - Bit(y, 4)
         /\ XyBit(149, x, y, tb) = 1 - Bit(y, 5)
         /\ XyBit(180, x, y, tb) = 1 - ((Bit(y, 4) + tb) % 2)
BY DEF XyBit, Bit, Fields

(* Whatever the entry, XyBit is a bit. *)
LEMMA XyBitIs ==
  ASSUME NEW x \in Nat, NEW y \in Nat, NEW tb \in Fields, NEW entry \in Nat
  PROVE  XyBit(entry, x, y, tb) \in {0, 1}
<1> DEFINE pos    == IF Bit(entry, 4) = 1 THEN y ELSE x
           bit    == Bit(pos, entry % 16)
           xored  == IF Bit(entry, 5) = 1 THEN (bit + tb) % 2 ELSE bit
           zeroed == IF Bit(entry, 6) = 1 THEN 0 ELSE xored
<1>1. XyBit(entry, x, y, tb) = IF Bit(entry, 7) = 1 THEN 1 - zeroed ELSE zeroed
  BY DEF XyBit
<1>2. pos \in Nat /\ entry % 16 \in 0 .. 15
  OBVIOUS
<1>3. bit \in {0, 1}
  BY <1>2, BitsAre
<1> HIDE DEF bit
<1>4. xored \in {0, 1}
  BY <1>3 DEF Fields
<1> HIDE DEF xored
<1>5. zeroed \in {0, 1}
  BY <1>4
<1> HIDE DEF zeroed
<1> QED
  BY <1>1, <1>5

IsTable(t, n) == /\ Len(t) = n
                 /\ \A i \in 1 .. n : t[i][1] \in Nat /\ t[i][2] \in Nat

(* The bits a table picks of a position. *)
Picked(t, n, side, x, y, tb) == [i \in 1 .. n |-> XyBit(t[i][side], x, y, tb)]

(* Following a table is the value of the bits its entries pick. *)
LEMMA ConvertedIs ==
  ASSUME NEW n \in Nat, NEW t, IsTable(t, n), NEW side \in Sides,
         NEW x \in Nat, NEW y \in Nat, NEW tb \in Fields
  PROVE  /\ Converted(t, side, x, y, tb) = Value(Picked(t, n, side, x, y, tb))
         /\ IsBits(Picked(t, n, side, x, y, tb), n)
<1>1. Converted(t, side, x, y, tb) = Value(Picked(t, n, side, x, y, tb))
  BY DEF Converted, IsTable, Picked
<1>2. \A i \in 1 .. n : t[i][side] \in Nat
  BY DEF IsTable, Sides
<1>3. \A i \in 1 .. n : Picked(t, n, side, x, y, tb)[i] \in {0, 1}
  BY <1>2, XyBitIs DEF Picked
<1>4. Len(Picked(t, n, side, x, y, tb)) = n
  BY DEF Picked
<1> QED
  BY <1>1, <1>3, <1>4 DEF IsBits

IsConverted(t, n, side, x, y, tb) ==
  LET v == Converted(t, side, x, y, tb)
  IN v \in Nat /\ \A k \in 0 .. n - 1 : Bit(v, k) = XyBit(t[k + 1][side], x, y, tb)

(* And the bits of the result are those bits. *)
LEMMA ConvertedBits ==
  ASSUME NEW n \in TableSizes, NEW t, IsTable(t, n), NEW side \in Sides,
         NEW x \in Nat, NEW y \in Nat, NEW tb \in Fields
  PROVE  IsConverted(t, n, side, x, y, tb)
<1> DEFINE b == Picked(t, n, side, x, y, tb)
<1>1. n \in Nat /\ n \in 1 .. 10
  BY DEF TableSizes
<1>2. Converted(t, side, x, y, tb) = Value(b) /\ IsBits(b, n)
  BY <1>1, ConvertedIs
<1>3. \A k \in 0 .. n - 1 : b[k + 1] = XyBit(t[k + 1][side], x, y, tb)
  BY <1>1 DEF Picked
<1> HIDE DEF b
<1>4. \A k \in 0 .. n - 1 : Bit(Value(b), k) = b[k + 1]
  BY <1>1, <1>2, BitOfValue
<1>5. Value(b) \in Nat
  BY <1>1, <1>2, HighestBits DEF AreHighest
<1> QED
  BY <1>2, <1>3, <1>4, <1>5 DEF IsConverted

(* The tables of the rows, entry by entry. *)
LEMMA CasFrameV ==
  ASSUME NEW map \in {"FRAME_V", "FIELD_V"}
  PROVE  LET t == CasMap(map, Fpga)
         IN /\ IsTable(t, 9)
            /\ t[1] = <<16, 16>> /\ t[2] = <<17, 17>> /\ t[3] = <<18, 18>>
            /\ t[4] = <<19, 19>> /\ t[5] = <<3, 3>> /\ t[6] = <<4, 4>> /\ t[7] = <<5, 5>>
            /\ t[8] = <<6, 6>> /\ t[9] = <<20, 21>>
<1> DEFINE t == YsThenXs \o <<<<20, 21>>>>
<1>1. CasMap(map, Fpga) = t
  <2>1. CASE map = "FRAME_V"
    BY <2>1 DEF CasMap, RowMaps, MbMaps, Fpga, Board
  <2>2. CASE map = "FIELD_V"
    BY <2>2 DEF CasMap, RowMaps, MbMaps, Fpga, Board
  <2> QED
    BY <2>1, <2>2
<1>2. Len(t) = 9
  BY DEF YsThenXs, Xs, Ys, ZSel
<1>3. /\ t[1] = <<16, 16>> /\ t[2] = <<17, 17>> /\ t[3] = <<18, 18>>
     /\ t[4] = <<19, 19>> /\ t[5] = <<3, 3>> /\ t[6] = <<4, 4>> /\ t[7] = <<5, 5>>
     /\ t[8] = <<6, 6>> /\ t[9] = <<20, 21>>
  BY DEF YsThenXs, Xs, Ys, ZSel
<1> HIDE DEF t
<1>4. IsTable(t, 9)
  BY <1>2, <1>3 DEF IsTable
<1> QED
  BY <1>1, <1>3, <1>4

(* The table of columns of FRAME_H. *)
LEMMA CasFrameH ==
  ASSUME NEW map \in {"FRAME_H"}
  PROVE  LET t == CasMap(map, Fpga)
         IN /\ IsTable(t, 9)
            /\ t[1] = <<3, 3>> /\ t[2] = <<4, 4>> /\ t[3] = <<5, 5>> /\ t[4] = <<6, 6>>
            /\ t[5] = <<16, 16>> /\ t[6] = <<17, 17>> /\ t[7] = <<18, 18>>
            /\ t[8] = <<19, 19>> /\ t[9] = <<20, 21>>
<1> DEFINE t == XsThenYs \o <<<<20, 21>>>>
<1>1. CasMap(map, Fpga) = t
  BY DEF CasMap, RowMaps, MbMaps, Fpga, Board
<1>2. Len(t) = 9
  BY DEF XsThenYs, Xs, Ys, ZSel
<1>3. /\ t[1] = <<3, 3>> /\ t[2] = <<4, 4>> /\ t[3] = <<5, 5>> /\ t[4] = <<6, 6>>
     /\ t[5] = <<16, 16>> /\ t[6] = <<17, 17>> /\ t[7] = <<18, 18>>
     /\ t[8] = <<19, 19>> /\ t[9] = <<20, 21>>
  BY DEF XsThenYs, Xs, Ys, ZSel
<1> HIDE DEF t
<1>4. IsTable(t, 9)
  BY <1>2, <1>3 DEF IsTable
<1> QED
  BY <1>1, <1>3, <1>4

(* That of MIXED_V. *)
LEMMA CasMixedV ==
  ASSUME NEW map \in {"MIXED_V"}
  PROVE  LET t == CasMap(map, Fpga)
         IN /\ IsTable(t, 9)
            /\ t[1] = <<17, 17>> /\ t[2] = <<18, 18>> /\ t[3] = <<19, 19>>
            /\ t[4] = <<16, 16>> /\ t[5] = <<3, 3>> /\ t[6] = <<4, 4>> /\ t[7] = <<5, 5>>
            /\ t[8] = <<6, 6>> /\ t[9] = <<20, 21>>
<1> DEFINE t == FirstLineLast \o <<<<20, 21>>>>
<1>1. CasMap(map, Fpga) = t
  BY DEF CasMap, RowMaps, MbMaps, Fpga, Board
<1>2. Len(t) = 9
  BY DEF FirstLineLast, Xs, Ys, ZSel
<1>3. /\ t[1] = <<17, 17>> /\ t[2] = <<18, 18>> /\ t[3] = <<19, 19>>
     /\ t[4] = <<16, 16>> /\ t[5] = <<3, 3>> /\ t[6] = <<4, 4>> /\ t[7] = <<5, 5>>
     /\ t[8] = <<6, 6>> /\ t[9] = <<20, 21>>
  BY DEF FirstLineLast, Xs, Ys, ZSel
<1> HIDE DEF t
<1>4. IsTable(t, 9)
  BY <1>2, <1>3 DEF IsTable
<1> QED
  BY <1>1, <1>3, <1>4

(* The same tables of the board.  FIELD_V has none worth proving about:
   it is the crooked one. *)
LEMMA CasFrameVBoard ==
  ASSUME NEW map \in {"FRAME_V"}
  PROVE  LET t == CasMap(map, Board)
         IN /\ IsTable(t, 10)
            /\ t[1] = <<48, 48>> /\ t[2] = <<16, 16>> /\ t[3] = <<17, 17>>
            /\ t[4] = <<18, 18>> /\ t[5] = <<19, 19>> /\ t[6] = <<3, 3>> /\ t[7] = <<4, 4>>
            /\ t[8] = <<5, 5>> /\ t[9] = <<6, 6>> /\ t[10] = <<20, 20>>
<1> DEFINE t == ZSel \o YsThenXs \o Ys(4, 4)
<1>1. CasMap(map, Board) = t
  BY DEF CasMap, RowMaps, MbMaps, Fpga, Board
<1>2. Len(t) = 10
  BY DEF YsThenXs, Xs, Ys, ZSel
<1>3. /\ t[1] = <<48, 48>> /\ t[2] = <<16, 16>> /\ t[3] = <<17, 17>>
     /\ t[4] = <<18, 18>> /\ t[5] = <<19, 19>> /\ t[6] = <<3, 3>> /\ t[7] = <<4, 4>>
     /\ t[8] = <<5, 5>> /\ t[9] = <<6, 6>> /\ t[10] = <<20, 20>>
  BY DEF YsThenXs, Xs, Ys, ZSel
<1> HIDE DEF t
<1>4. IsTable(t, 10)
  BY <1>2, <1>3 DEF IsTable
<1> QED
  BY <1>1, <1>3, <1>4

(* The table of columns of FRAME_H on the board. *)
LEMMA CasFrameHBoard ==
  ASSUME NEW map \in {"FRAME_H"}
  PROVE  LET t == CasMap(map, Board)
         IN /\ IsTable(t, 10)
            /\ t[1] = <<48, 48>> /\ t[2] = <<3, 3>> /\ t[3] = <<4, 4>> /\ t[4] = <<5, 5>>
            /\ t[5] = <<6, 6>> /\ t[6] = <<16, 16>> /\ t[7] = <<17, 17>>
            /\ t[8] = <<18, 18>> /\ t[9] = <<19, 19>> /\ t[10] = <<20, 20>>
<1> DEFINE t == ZSel \o XsThenYs \o Ys(4, 4)
<1>1. CasMap(map, Board) = t
  BY DEF CasMap, RowMaps, MbMaps, Fpga, Board
<1>2. Len(t) = 10
  BY DEF XsThenYs, Xs, Ys, ZSel
<1>3. /\ t[1] = <<48, 48>> /\ t[2] = <<3, 3>> /\ t[3] = <<4, 4>> /\ t[4] = <<5, 5>>
     /\ t[5] = <<6, 6>> /\ t[6] = <<16, 16>> /\ t[7] = <<17, 17>>
     /\ t[8] = <<18, 18>> /\ t[9] = <<19, 19>> /\ t[10] = <<20, 20>>
  BY DEF XsThenYs, Xs, Ys, ZSel
<1> HIDE DEF t
<1>4. IsTable(t, 10)
  BY <1>2, <1>3 DEF IsTable
<1> QED
  BY <1>1, <1>3, <1>4

(* That of MIXED_V on the board. *)
LEMMA CasMixedVBoard ==
  ASSUME NEW map \in {"MIXED_V"}
  PROVE  LET t == CasMap(map, Board)
         IN /\ IsTable(t, 10)
            /\ t[1] = <<48, 48>> /\ t[2] = <<17, 17>> /\ t[3] = <<18, 18>>
            /\ t[4] = <<19, 19>> /\ t[5] = <<16, 16>> /\ t[6] = <<3, 3>> /\ t[7] = <<4, 4>>
            /\ t[8] = <<5, 5>> /\ t[9] = <<6, 6>> /\ t[10] = <<20, 20>>
<1> DEFINE t == ZSel \o FirstLineLast \o Ys(4, 4)
<1>1. CasMap(map, Board) = t
  BY DEF CasMap, RowMaps, MbMaps, Fpga, Board
<1>2. Len(t) = 10
  BY DEF FirstLineLast, Xs, Ys, ZSel
<1>3. /\ t[1] = <<48, 48>> /\ t[2] = <<17, 17>> /\ t[3] = <<18, 18>>
     /\ t[4] = <<19, 19>> /\ t[5] = <<16, 16>> /\ t[6] = <<3, 3>> /\ t[7] = <<4, 4>>
     /\ t[8] = <<5, 5>> /\ t[9] = <<6, 6>> /\ t[10] = <<20, 20>>
  BY DEF FirstLineLast, Xs, Ys, ZSel
<1> HIDE DEF t
<1>4. IsTable(t, 10)
  BY <1>2, <1>3 DEF IsTable
<1> QED
  BY <1>1, <1>3, <1>4

(* The tables of banks. *)
LEMMA BankTable ==
  ASSUME NEW map \in RowMaps
  PROVE  /\ LET t == BankMap(map, Board)
            IN /\ IsTable(t, 3)
               /\ t[1] = <<7, 135>> /\ t[2] = <<8, 136>> /\ t[3] = <<21, 149>>
         /\ LET t == BankMap(map, Fpga)
            IN /\ IsTable(t, 2) /\ t[1] = <<7, 135>>
               /\ t[2] = IF map = "FIELD_V" THEN <<53, 180>> ELSE <<21, 148>>
BY DEF BankMap, IsTable, Inverted, Fpga, Board

(* Two positions of one field that no bit of column and bank tells apart. *)
Alike(x1, y1, x2, y2, n) ==
  /\ \A k \in 0 .. 5 : Bit(y1, k) = Bit(y2, k)
  /\ \A k \in 3 .. n : Bit(x1, k) = Bit(x2, k)

(* Two numbers with the same n lowest bits. *)
SameTo(v, w, n) == \A k \in 0 .. n - 1 : Bit(v, k) = Bit(w, k)

(* The first n entries of a table pick the same of two positions. *)
PickSame(t, n, side, x1, y1, tb1, x2, y2, tb2) ==
  \A i \in 1 .. n : XyBit(t[i][side], x1, y1, tb1) = XyBit(t[i][side], x2, y2, tb2)

(* Two positions for which a table gives the same number are the same in
   every bit the table picks. *)
LEMMA ConvertedTells ==
  ASSUME NEW n \in TableSizes, NEW t, IsTable(t, n), NEW side \in Sides,
         NEW x1 \in Nat, NEW y1 \in Nat, NEW tb1 \in Fields,
         NEW x2 \in Nat, NEW y2 \in Nat, NEW tb2 \in Fields,
         SameTo(Converted(t, side, x1, y1, tb1), Converted(t, side, x2, y2, tb2), n)
  PROVE  PickSame(t, n, side, x1, y1, tb1, x2, y2, tb2)
<1>1. IsConverted(t, n, side, x1, y1, tb1) /\ IsConverted(t, n, side, x2, y2, tb2)
  BY ConvertedBits
<1>2. \A k \in 0 .. n - 1 : XyBit(t[k + 1][side], x1, y1, tb1)
                              = XyBit(t[k + 1][side], x2, y2, tb2)
  BY <1>1 DEF SameTo, IsConverted
<1>3. \A i \in 1 .. n : i - 1 \in 0 .. n - 1 /\ (i - 1) + 1 = i
  BY DEF TableSizes
<1> QED
  BY <1>2, <1>3 DEF PickSame

(* Column and bank together tell every bit of the position within a tile:
   no table picks a bit twice and leaves another out. *)
LEMMA FpgaTells ==
  ASSUME NEW map \in RowMaps, NEW side \in Sides,
         NEW x1 \in Nat, NEW y1 \in Nat, NEW tb1 \in Fields,
         NEW x2 \in Nat, NEW y2 \in Nat, NEW tb2 \in Fields,
         map = "FIELD_V" => tb1 = tb2,
         SameTo(Converted(CasMap(map, Fpga), side, x1, y1, tb1),
                Converted(CasMap(map, Fpga), side, x2, y2, tb2), 9),
         SameTo(Converted(BankMap(map, Fpga), side, x1, y1, tb1),
                Converted(BankMap(map, Fpga), side, x2, y2, tb2), 2)
  PROVE  Alike(x1, y1, x2, y2, 7)
<1> DEFINE t == CasMap(map, Fpga)
           u == BankMap(map, Fpga)
<1>1. IsTable(t, 9) /\ IsTable(u, 2)
  BY CasFrameV, CasFrameH, CasMixedV, BankTable DEF RowMaps
<1> HIDE DEF t, u
<1>2. PickSame(t, 9, side, x1, y1, tb1, x2, y2, tb2)
  <2>1. 9 \in TableSizes
    BY DEF TableSizes
  <2>2. SameTo(Converted(t, side, x1, y1, tb1), Converted(t, side, x2, y2, tb2), 9)
    BY DEF t
  <2> QED
    BY <1>1, <2>1, <2>2, ConvertedTells
<1>3. PickSame(u, 2, side, x1, y1, tb1, x2, y2, tb2)
  <2>1. 2 \in TableSizes
    BY DEF TableSizes
  <2>2. SameTo(Converted(u, side, x1, y1, tb1), Converted(u, side, x2, y2, tb2), 2)
    BY DEF u
  <2> QED
    BY <1>1, <2>1, <2>2, ConvertedTells
<1> DEFINE SameAt(e) == XyBit(e, x1, y1, tb1) = XyBit(e, x2, y2, tb2)
<1>4. /\ SameAt(16) /\ SameAt(17) /\ SameAt(18) /\ SameAt(19)
      /\ SameAt(3) /\ SameAt(4) /\ SameAt(5) /\ SameAt(6)
      /\ side = 1 => SameAt(20)
      /\ side = 2 => SameAt(21)
  <2>1. side = 1 \/ side = 2
    BY DEF Sides
  <2>2. CASE map \in {"FRAME_V", "FIELD_V"}
    BY <1>2, <2>1, <2>2, CasFrameV DEF PickSame, t
  <2>3. CASE map \in {"FRAME_H"}
    BY <1>2, <2>1, <2>3, CasFrameH DEF PickSame, t
  <2>4. CASE map \in {"MIXED_V"}
    BY <1>2, <2>1, <2>4, CasMixedV DEF PickSame, t
  <2> QED
    BY <2>2, <2>3, <2>4 DEF RowMaps
<1>5. /\ side = 1 => SameAt(7) /\ SameAt(IF map = "FIELD_V" THEN 53 ELSE 21)
      /\ side = 2 => SameAt(135) /\ SameAt(IF map = "FIELD_V" THEN 180 ELSE 148)
  BY <1>3, BankTable DEF PickSame, u
<1>6. Bit(y1, 4) \in {0, 1} /\ Bit(y2, 4) \in {0, 1} /\ Bit(y1, 5) \in {0, 1} /\ Bit(y2, 5) \in {0, 1}
      /\ Bit(x1, 7) \in {0, 1} /\ Bit(x2, 7) \in {0, 1}
  BY DEF Bit
<1>7. /\ Bit(y1, 0) = Bit(y2, 0) /\ Bit(y1, 1) = Bit(y2, 1) /\ Bit(y1, 2) = Bit(y2, 2)
      /\ Bit(y1, 3) = Bit(y2, 3)
      /\ Bit(x1, 3) = Bit(x2, 3) /\ Bit(x1, 4) = Bit(x2, 4) /\ Bit(x1, 5) = Bit(x2, 5)
      /\ Bit(x1, 6) = Bit(x2, 6)
  BY <1>4, XyBits
<1>8. Bit(x1, 7) = Bit(x2, 7) /\ Bit(y1, 4) = Bit(y2, 4) /\ Bit(y1, 5) = Bit(y2, 5)
  <2>1. CASE side = 1
    <3>1. Bit(x1, 7) = Bit(x2, 7) /\ Bit(y1, 4) = Bit(y2, 4)
      BY <1>4, <1>5, <2>1, XyBits
    <3>2. CASE map = "FIELD_V"
      <4>1. (Bit(y1, 5) + tb1) % 2 = (Bit(y2, 5) + tb2) % 2
        BY <1>5, <2>1, <3>2, XyBits
      <4> QED
        BY <1>6, <3>1, <3>2, <4>1 DEF Fields
    <3>3. CASE map # "FIELD_V"
      BY <1>5, <2>1, <3>1, <3>3, XyBits
    <3> QED
      BY <3>2, <3>3
  <2>2. CASE side = 2
    <3>1. 1 - Bit(x1, 7) = 1 - Bit(x2, 7) /\ Bit(y1, 5) = Bit(y2, 5)
      BY <1>4, <1>5, <2>2, XyBits
    <3>2. Bit(x1, 7) = Bit(x2, 7)
      BY <1>6, <3>1
    <3>3. CASE map = "FIELD_V"
      <4>1. 1 - ((Bit(y1, 4) + tb1) % 2) = 1 - ((Bit(y2, 4) + tb2) % 2)
        BY <1>5, <2>2, <3>3, XyBits
      <4> QED
        BY <1>6, <3>1, <3>2, <3>3, <4>1 DEF Fields
    <3>4. CASE map # "FIELD_V"
      <4>1. 1 - Bit(y1, 4) = 1 - Bit(y2, 4)
        BY <1>5, <2>2, <3>4, XyBits
      <4> QED
        BY <1>6, <3>1, <3>2, <4>1
    <3> QED
      BY <3>3, <3>4
  <2> QED
    BY <2>1, <2>2 DEF Sides
<1> QED
  BY <1>7, <1>8 DEF Alike

(* The same on the board. *)
LEMMA BoardTells ==
  ASSUME NEW map \in RowMaps, map # "FIELD_V", NEW side \in Sides,
         NEW x1 \in Nat, NEW y1 \in Nat, NEW tb1 \in Fields,
         NEW x2 \in Nat, NEW y2 \in Nat, NEW tb2 \in Fields,
         SameTo(Converted(CasMap(map, Board), side, x1, y1, tb1),
                Converted(CasMap(map, Board), side, x2, y2, tb2), 10),
         SameTo(Converted(BankMap(map, Board), side, x1, y1, tb1),
                Converted(BankMap(map, Board), side, x2, y2, tb2), 3)
  PROVE  Alike(x1, y1, x2, y2, 8)
<1> DEFINE t == CasMap(map, Board)
           u == BankMap(map, Board)
<1>1. IsTable(t, 10) /\ IsTable(u, 3)
  BY CasFrameVBoard, CasFrameHBoard, CasMixedVBoard, BankTable DEF RowMaps
<1> HIDE DEF t, u
<1>2. PickSame(t, 10, side, x1, y1, tb1, x2, y2, tb2)
  <2>1. 10 \in TableSizes
    BY DEF TableSizes
  <2>2. SameTo(Converted(t, side, x1, y1, tb1), Converted(t, side, x2, y2, tb2), 10)
    BY DEF t
  <2> QED
    BY <1>1, <2>1, <2>2, ConvertedTells
<1>3. PickSame(u, 3, side, x1, y1, tb1, x2, y2, tb2)
  <2>1. 3 \in TableSizes
    BY DEF TableSizes
  <2>2. SameTo(Converted(u, side, x1, y1, tb1), Converted(u, side, x2, y2, tb2), 3)
    BY DEF u
  <2> QED
    BY <1>1, <2>1, <2>2, ConvertedTells
<1> DEFINE SameAt(e) == XyBit(e, x1, y1, tb1) = XyBit(e, x2, y2, tb2)
<1>4. /\ SameAt(16) /\ SameAt(17) /\ SameAt(18) /\ SameAt(19) /\ SameAt(20)
      /\ SameAt(3) /\ SameAt(4) /\ SameAt(5) /\ SameAt(6)
  <2>1. side = 1 \/ side = 2
    BY DEF Sides
  <2>2. CASE map \in {"FRAME_V"}
    BY <1>2, <2>1, <2>2, CasFrameVBoard DEF PickSame, t
  <2>3. CASE map \in {"FRAME_H"}
    BY <1>2, <2>1, <2>3, CasFrameHBoard DEF PickSame, t
  <2>4. CASE map \in {"MIXED_V"}
    BY <1>2, <2>1, <2>4, CasMixedVBoard DEF PickSame, t
  <2> QED
    BY <2>2, <2>3, <2>4 DEF RowMaps
<1>5. /\ side = 1 => SameAt(7) /\ SameAt(8) /\ SameAt(21)
      /\ side = 2 => SameAt(135) /\ SameAt(136) /\ SameAt(149)
  BY <1>3, BankTable DEF PickSame, u
<1>6. /\ Bit(y1, 5) \in {0, 1} /\ Bit(y2, 5) \in {0, 1}
      /\ Bit(x1, 7) \in {0, 1} /\ Bit(x2, 7) \in {0, 1}
      /\ Bit(x1, 8) \in {0, 1} /\ Bit(x2, 8) \in {0, 1}
  BY DEF Bit
<1>7. /\ Bit(y1, 0) = Bit(y2, 0) /\ Bit(y1, 1) = Bit(y2, 1) /\ Bit(y1, 2) = Bit(y2, 2)
      /\ Bit(y1, 3) = Bit(y2, 3) /\ Bit(y1, 4) = Bit(y2, 4)
      /\ Bit(x1, 3) = Bit(x2, 3) /\ Bit(x1, 4) = Bit(x2, 4) /\ Bit(x1, 5) = Bit(x2, 5)
      /\ Bit(x1, 6) = Bit(x2, 6)
  BY <1>4, XyBits
<1>8. Bit(x1, 7) = Bit(x2, 7) /\ Bit(x1, 8) = Bit(x2, 8) /\ Bit(y1, 5) = Bit(y2, 5)
  <2>1. CASE side = 1
    BY <1>5, <2>1, XyBits
  <2>2. CASE side = 2
    <3>1. /\ 1 - Bit(x1, 7) = 1 - Bit(x2, 7) /\ 1 - Bit(x1, 8) = 1 - Bit(x2, 8)
          /\ 1 - Bit(y1, 5) = 1 - Bit(y2, 5)
      BY <1>5, <2>2, XyBits
    <3> QED
      BY <1>6, <3>1
  <2> QED
    BY <2>1, <2>2 DEF Sides
<1> QED
  BY <1>7, <1>8 DEF Alike

(* What is alike lies in one tile: 64 lines of 256 or 512 bytes. *)
LEMMA Tile ==
  ASSUME NEW x1 \in Nat, NEW y1 \in Nat, NEW x2 \in Nat, NEW y2 \in Nat,
         x1 % 8 = 0, x2 % 8 = 0, y1 \div 64 = y2 \div 64
  PROVE  /\ Alike(x1, y1, x2, y2, 7) /\ x1 \div 256 = x2 \div 256 => x1 = x2 /\ y1 = y2
         /\ Alike(x1, y1, x2, y2, 8) /\ x1 \div 512 = x2 \div 512 => x1 = x2 /\ y1 = y2
<1>1. Alike(x1, y1, x2, y2, 7) \/ Alike(x1, y1, x2, y2, 8) => y1 = y2
  <2>1. ASSUME NEW n \in {7, 8}, Alike(x1, y1, x2, y2, n) PROVE y1 = y2
    <3>1. /\ Bit(y1, 0) = Bit(y2, 0) /\ Bit(y1, 1) = Bit(y2, 1) /\ Bit(y1, 2) = Bit(y2, 2)
          /\ Bit(y1, 3) = Bit(y2, 3) /\ Bit(y1, 4) = Bit(y2, 4) /\ Bit(y1, 5) = Bit(y2, 5)
      BY <2>1 DEF Alike
    <3>2. y1 % 16 = y2 % 16
      <4>1. \A v \in Nat : v % 16 = Bit(v, 0) + 2 * Bit(v, 1) + 4 * Bit(v, 2) + 8 * Bit(v, 3)
        BY DEF Bit
      <4> QED
        BY <3>1, <4>1
    <3>3. (y1 \div 16) % 4 = (y2 \div 16) % 4
      <4>1. \A v \in Nat : (v \div 16) % 4 = Bit(v, 4) + 2 * Bit(v, 5)
        BY DEF Bit
      <4> QED
        BY <3>1, <4>1
    <3>4. \A v \in Nat : v = 64 * (v \div 64) + 16 * ((v \div 16) % 4) + (v % 16)
      OBVIOUS
    <3> QED
      BY <3>2, <3>3, <3>4
  <2> QED
    BY <2>1
<1>2. ASSUME Alike(x1, y1, x2, y2, 7), x1 \div 256 = x2 \div 256 PROVE x1 = x2
  <2>1. /\ Bit(x1, 3) = Bit(x2, 3) /\ Bit(x1, 4) = Bit(x2, 4) /\ Bit(x1, 5) = Bit(x2, 5)
        /\ Bit(x1, 6) = Bit(x2, 6) /\ Bit(x1, 7) = Bit(x2, 7)
    BY <1>2 DEF Alike
  <2>2. (x1 \div 16) % 16 = (x2 \div 16) % 16
    <3>1. \A v \in Nat :
            (v \div 16) % 16 = Bit(v, 4) + 2 * Bit(v, 5) + 4 * Bit(v, 6) + 8 * Bit(v, 7)
      BY NumberIs
    <3> QED
      BY <2>1, <3>1
  <2>3. (x1 \div 8) % 2 = (x2 \div 8) % 2
    BY <2>1 DEF Bit
  <2>4. \A v \in Nat : v % 8 = 0 =>
          v = 256 * (v \div 256) + 16 * ((v \div 16) % 16) + 8 * ((v \div 8) % 2)
    OBVIOUS
  <2> QED
    BY <1>2, <2>2, <2>3, <2>4
<1>3. ASSUME Alike(x1, y1, x2, y2, 8), x1 \div 512 = x2 \div 512 PROVE x1 = x2
  <2>1. /\ Bit(x1, 3) = Bit(x2, 3) /\ Bit(x1, 4) = Bit(x2, 4) /\ Bit(x1, 5) = Bit(x2, 5)
        /\ Bit(x1, 6) = Bit(x2, 6) /\ Bit(x1, 7) = Bit(x2, 7) /\ Bit(x1, 8) = Bit(x2, 8)
    BY <1>3 DEF Alike
  <2>2. (x1 \div 16) % 16 = (x2 \div 16) % 16
    <3>1. \A v \in Nat :
            (v \div 16) % 16 = Bit(v, 4) + 2 * Bit(v, 5) + 4 * Bit(v, 6) + 8 * Bit(v, 7)
      BY NumberIs
    <3> QED
      BY <2>1, <3>1
  <2>3. (x1 \div 8) % 2 = (x2 \div 8) % 2 /\ (x1 \div 256) % 2 = (x2 \div 256) % 2
    BY <2>1 DEF Bit
  <2>4. \A v \in Nat : v % 8 = 0 =>
          v = 512 * (v \div 512) + 256 * ((v \div 256) % 2) + 16 * ((v \div 16) % 16)
                + 8 * ((v \div 8) % 2)
    OBVIOUS
  <2> QED
    BY <1>3, <2>2, <2>3, <2>4
<1> QED
  BY <1>1, <1>2, <1>3

(* The rows of the memory, by position, and the column bit that is always
   zero. *)
(* The bits of the tile of a position. *)
TileBits(x, y) ==
  /\ y \div 64 = Bit(y, 6) + 2 * Bit(y, 7) + 4 * Bit(y, 8) + 8 * Bit(y, 9)
                    + 16 * Bit(y, 10)
  /\ Bit(y, 11) = 0 /\ Bit(y, 12) = 0 /\ Bit(y, 13) = 0 /\ Bit(y, 14) = 0
  /\ Bit(y, 15) = 0
  /\ x \div 256 = Bit(x, 8) + 2 * Bit(x, 9) + 4 * Bit(x, 10)
  /\ x \div 512 = Bit(x, 9) + 2 * Bit(x, 10)
  /\ Bit(x, 8) \in {0, 1} /\ Bit(x, 9) \in {0, 1} /\ Bit(x, 10) \in {0, 1}
  /\ Bit(y, 6) \in {0, 1} /\ Bit(y, 7) \in {0, 1} /\ Bit(y, 8) \in {0, 1}
  /\ Bit(y, 9) \in {0, 1} /\ Bit(y, 10) \in {0, 1}

(* The bits of the table of rows, for the sizes a picture may have. *)
LEMMA RasBits ==
  ASSUME NEW x \in Nat, x < 2048, NEW y \in Nat, y < 2048
  PROVE  TileBits(x, y)
<1>1. y \div 64 = Bit(y, 6) + 2 * Bit(y, 7) + 4 * Bit(y, 8) + 8 * Bit(y, 9) + 16 * Bit(y, 10)
  BY DEF Bit
<1>2. /\ Bit(y, 11) = 0 /\ Bit(y, 12) = 0 /\ Bit(y, 13) = 0 /\ Bit(y, 14) = 0
      /\ Bit(y, 15) = 0
  BY DEF Bit
<1>3. /\ x \div 256 = Bit(x, 8) + 2 * Bit(x, 9) + 4 * Bit(x, 10)
      /\ x \div 512 = Bit(x, 9) + 2 * Bit(x, 10)
  BY DEF Bit
<1>4. /\ Bit(x, 8) \in {0, 1} /\ Bit(x, 9) \in {0, 1} /\ Bit(x, 10) \in {0, 1}
      /\ Bit(y, 6) \in {0, 1} /\ Bit(y, 7) \in {0, 1} /\ Bit(y, 8) \in {0, 1}
      /\ Bit(y, 9) \in {0, 1} /\ Bit(y, 10) \in {0, 1}
  BY DEF Bit
<1> QED
  BY <1>1, <1>2, <1>3, <1>4 DEF TileBits

(* The row counts the tiles from left to right and from top to bottom, eight
   in a line. *)
LEMMA RasFpga ==
  ASSUME NEW side \in Sides, NEW x \in Nat, x < 2048, NEW y \in Nat, y < 2048,
         NEW tb \in Fields
  PROVE  Converted(RasMap(Fpga), side, x, y, tb) = x \div 256 + 8 * (y \div 64)
<1> DEFINE t == RasMap(Fpga)
           b == Picked(t, 13, side, x, y, tb)
<1>1. t = Xs(8, 10) \o Ys(6, 15)
  BY DEF RasMap, Fpga
<1>2. /\ IsTable(t, 13)
      /\ t[1] = <<8, 8>> /\ t[2] = <<9, 9>> /\ t[3] = <<10, 10>>
      /\ t[4] = <<22, 22>> /\ t[5] = <<23, 23>> /\ t[6] = <<24, 24>>
      /\ t[7] = <<25, 25>> /\ t[8] = <<26, 26>> /\ t[9] = <<27, 27>>
      /\ t[10] = <<28, 28>> /\ t[11] = <<29, 29>> /\ t[12] = <<30, 30>>
      /\ t[13] = <<31, 31>>
  BY <1>1 DEF Xs, Ys, IsTable
<1>3. Converted(t, side, x, y, tb) = Value(b) /\ IsBits(b, 13)
  BY <1>2, ConvertedIs, 13 \in Nat
<1>4. /\ b[1] = Bit(x, 8) /\ b[2] = Bit(x, 9) /\ b[3] = Bit(x, 10)
      /\ b[4] = Bit(y, 6) /\ b[5] = Bit(y, 7) /\ b[6] = Bit(y, 8)
      /\ b[7] = Bit(y, 9) /\ b[8] = Bit(y, 10)
      /\ b[9] = 0 /\ b[10] = 0 /\ b[11] = 0 /\ b[12] = 0 /\ b[13] = 0
  <2>1. side = 1 \/ side = 2
    BY DEF Sides
  <2>2. \A i \in 1 .. 13 : b[i] = XyBit(t[i][side], x, y, tb)
    BY DEF Picked
  <2> HIDE DEF t, b
  <2> QED
    BY <1>2, <2>1, <2>2, RasBits, XyBits DEF TileBits
<1> HIDE DEF t, b
<1>5. PICK f : AreHighest(f, b, 13)
  BY <1>3, HighestBits, 13 \in Nat
<1>6. /\ f[0] = 0 /\ f[13] = Value(b)
      /\ f[4] = b[10] + 2 * b[11] + 4 * b[12] + 8 * b[13] + 16 * f[0]
      /\ f[5] = b[9] + 2 * f[4]
      /\ f[9] = b[5] + 2 * b[6] + 4 * b[7] + 8 * b[8] + 16 * f[5]
      /\ f[13] = b[1] + 2 * b[2] + 4 * b[3] + 8 * b[4] + 16 * f[9]
  BY <1>5 DEF AreHighest
<1>7. TileBits(x, y)
  BY RasBits
<1>8. f[4] = 0 /\ f[5] = 0
  BY <1>4, <1>6
<1>9. f[9] = Bit(y, 7) + 2 * Bit(y, 8) + 4 * Bit(y, 9) + 8 * Bit(y, 10)
  BY <1>4, <1>6, <1>7, <1>8 DEF TileBits
<1>10. f[13] = Bit(x, 8) + 2 * Bit(x, 9) + 4 * Bit(x, 10) + 8 * Bit(y, 6) + 16 * f[9]
  BY <1>4, <1>6
<1> QED
  BY <1>3, <1>6, <1>7, <1>9, <1>10 DEF t, TileBits

(* On the board the tiles are twice as wide, four in a line. *)
LEMMA RasBoard ==
  ASSUME NEW side \in Sides, NEW x \in Nat, x < 2048, NEW y \in Nat, y < 2048,
         NEW tb \in Fields
  PROVE  Converted(RasMap(Board), side, x, y, tb) = x \div 512 + 4 * (y \div 64)
<1> DEFINE t == RasMap(Board)
           b == Picked(t, 12, side, x, y, tb)
<1>1. t = Xs(9, 10) \o Ys(6, 15)
  BY DEF RasMap, Fpga, Board
<1>2. /\ IsTable(t, 12)
      /\ t[1] = <<9, 9>> /\ t[2] = <<10, 10>>
      /\ t[3] = <<22, 22>> /\ t[4] = <<23, 23>> /\ t[5] = <<24, 24>>
      /\ t[6] = <<25, 25>> /\ t[7] = <<26, 26>> /\ t[8] = <<27, 27>>
      /\ t[9] = <<28, 28>> /\ t[10] = <<29, 29>> /\ t[11] = <<30, 30>>
      /\ t[12] = <<31, 31>>
  BY <1>1 DEF Xs, Ys, IsTable
<1>3. Converted(t, side, x, y, tb) = Value(b) /\ IsBits(b, 12)
  BY <1>2, ConvertedIs, 12 \in Nat
<1>4. /\ b[1] = Bit(x, 9) /\ b[2] = Bit(x, 10)
      /\ b[3] = Bit(y, 6) /\ b[4] = Bit(y, 7) /\ b[5] = Bit(y, 8)
      /\ b[6] = Bit(y, 9) /\ b[7] = Bit(y, 10)
      /\ b[8] = 0 /\ b[9] = 0 /\ b[10] = 0 /\ b[11] = 0 /\ b[12] = 0
  <2>1. side = 1 \/ side = 2
    BY DEF Sides
  <2>2. \A i \in 1 .. 12 : b[i] = XyBit(t[i][side], x, y, tb)
    BY DEF Picked
  <2> HIDE DEF t, b
  <2> QED
    BY <1>2, <2>1, <2>2, RasBits, XyBits DEF TileBits
<1> HIDE DEF t, b
<1>5. PICK f : AreHighest(f, b, 12)
  BY <1>3, HighestBits, 12 \in Nat
<1>6. /\ f[0] = 0 /\ f[12] = Value(b)
      /\ f[4] = b[9] + 2 * b[10] + 4 * b[11] + 8 * b[12] + 16 * f[0]
      /\ f[8] = b[5] + 2 * b[6] + 4 * b[7] + 8 * b[8] + 16 * f[4]
      /\ f[12] = b[1] + 2 * b[2] + 4 * b[3] + 8 * b[4] + 16 * f[8]
  BY <1>5 DEF AreHighest
<1>7. TileBits(x, y)
  BY RasBits
<1> QED
  BY <1>3, <1>4, <1>6, <1>7 DEF t, TileBits

(* Z_SEL is zero where the lines of the fields are not told apart, which
   keeps the address a multiple of eight. *)
LEMMA LowestColumn ==
  ASSUME NEW map \in RowMaps, map # "FIELD_V", NEW side \in Sides,
         NEW x \in Nat, NEW y \in Nat
  PROVE  Bit(Converted(CasMap(map, Board), side, x, y, y % 2), 0) = 0
<1> DEFINE t == CasMap(map, Board)
<1>1. IsTable(t, 10) /\ t[1] = <<48, 48>>
  <2>1. CASE map \in {"FRAME_V"}
    BY <2>1, CasFrameVBoard
  <2>2. CASE map \in {"FRAME_H"}
    BY <2>2, CasFrameHBoard
  <2>3. CASE map \in {"MIXED_V"}
    BY <2>3, CasMixedVBoard
  <2> QED
    BY <2>1, <2>2, <2>3 DEF RowMaps
<1> HIDE DEF t
<1>2. y % 2 \in Fields /\ 10 \in TableSizes
  BY DEF Fields, TableSizes
<1>3. IsConverted(t, 10, side, x, y, y % 2)
  BY <1>1, <1>2, ConvertedBits
<1>4. Bit(Converted(t, side, x, y, y % 2), 0) = XyBit(48, x, y, y % 2)
  BY <1>1, <1>3 DEF IsConverted, Sides
<1>5. XyBit(48, x, y, y % 2) = (Bit(y, 0) + (y % 2)) % 2
  <2>1. \A tb \in Fields : XyBit(48, x, y, tb) = (Bit(y, 0) + tb) % 2
    BY XyBits
  <2> QED
    BY <1>2, <2>1
<1>6. (Bit(y, 0) + (y % 2)) % 2 = 0
  BY DEF Bit
<1> QED
  BY <1>4, <1>5, <1>6 DEF t

(***************************************************************************)
(* Addresses of the rows.                                                  *)
(***************************************************************************)
(* The bits of an address, by the tables of the platforms. *)
IsFpgaAxi(t) ==
  /\ Len(t) = 30
  /\ \A i \in 1 .. 3 : t[i] = <<"zero", 0>>
  /\ \A i \in 4 .. 12 : t[i] = <<"ca", i - 4>>
  /\ \A i \in 13 .. 14 : t[i] = <<"ba", i - 13>>
  /\ \A i \in 15 .. 30 : t[i] = <<"ra", i - 15>>
IsBoardAxi(t) ==
  /\ Len(t) = 28
  /\ \A i \in 1 .. 2 : t[i] = <<"zero", 0>>
  /\ \A i \in 3 .. 12 : t[i] = <<"ca", i - 3>>
  /\ \A i \in 13 .. 15 : t[i] = <<"ba", i - 13>>
  /\ \A i \in 16 .. 28 : t[i] = <<"ra", i - 16>>
(* The table of address bits of one platform. *)
LEMMA OfRowFpga == IsFpgaAxi(OfRow(Fpga))
<1> DEFINE g == OfRow(Fpga)
<1>1. Len(g) = 30
  BY DEF OfRow, Zeros, Of, Fpga, Board
<1>2. \A i \in 1 .. 3 : g[i] = <<"zero", 0>>
  BY DEF OfRow, Zeros, Of, Fpga, Board
<1>3. \A i \in 4 .. 12 : g[i] = <<"ca", i - 4>>
  BY DEF OfRow, Zeros, Of, Fpga, Board
<1>4. \A i \in 13 .. 14 : g[i] = <<"ba", i - 13>>
  BY DEF OfRow, Zeros, Of, Fpga, Board
<1>5. \A i \in 15 .. 30 : g[i] = <<"ra", i - 15>>
  BY DEF OfRow, Zeros, Of, Fpga, Board
<1> HIDE DEF g
<1>6. IsFpgaAxi(g)
  BY <1>1, <1>2, <1>3, <1>4, <1>5 DEF IsFpgaAxi
<1> QED
  BY <1>6 DEF g

(* And of the other. *)
LEMMA OfRowBoard == IsBoardAxi(OfRow(Board))
<1> DEFINE g == OfRow(Board)
<1>1. Len(g) = 28
  BY DEF OfRow, Zeros, Of, Fpga, Board
<1>2. \A i \in 1 .. 2 : g[i] = <<"zero", 0>>
  BY DEF OfRow, Zeros, Of, Fpga, Board
<1>3. \A i \in 3 .. 12 : g[i] = <<"ca", i - 3>>
  BY DEF OfRow, Zeros, Of, Fpga, Board
<1>4. \A i \in 13 .. 15 : g[i] = <<"ba", i - 13>>
  BY DEF OfRow, Zeros, Of, Fpga, Board
<1>5. \A i \in 16 .. 28 : g[i] = <<"ra", i - 16>>
  BY DEF OfRow, Zeros, Of, Fpga, Board
<1> HIDE DEF g
<1>6. IsBoardAxi(g)
  BY <1>1, <1>2, <1>3, <1>4, <1>5 DEF IsBoardAxi
<1> QED
  BY <1>6 DEF g

(* Luma and chroma of a row map share it. *)
LEMMA AxiOfRows ==
  ASSUME NEW map \in RowMaps, NEW dram, NEW chroma
  PROVE  AxiMap(map, dram, chroma) = OfRow(dram)
BY DEF AxiMap, RowMaps

(* The bits of the address of row ra, bank ba and column ca. *)
AddressBits(t, n, ra, ba, ca) ==
  LET in == [ra |-> ra, ba |-> ba, ca |-> ca, zero |-> 0]
  IN [i \in 1 .. n |-> Bit(in[t[i][1]], t[i][2])]

(* A row of the memory has 2^14 bytes on the one platform. *)
InRow(a, ra, bytes) == a \in Nat /\ a % 8 = 0 /\ bytes * ra <= a /\ a + 8 <= bytes * (ra + 1)

(* An address of a row lies in that row, at a multiple of eight. *)
LEMMA AddressedFpga ==
  ASSUME NEW t, IsFpgaAxi(t), NEW ra \in Nat, NEW ba \in Nat, NEW ca \in Nat
  PROVE  /\ Addressed(t, ra, ba, ca) = Value(AddressBits(t, 30, ra, ba, ca))
         /\ IsBits(AddressBits(t, 30, ra, ba, ca), 30)
         /\ ra < 65536 => InRow(Addressed(t, ra, ba, ca), ra, 16384)
<1> DEFINE b == AddressBits(t, 30, ra, ba, ca)
<1>1. Addressed(t, ra, ba, ca) = Value(b)
  BY DEF Addressed, AddressBits, IsFpgaAxi
<1>2. /\ Len(b) = 30
      /\ \A i \in 1 .. 3 : b[i] = Bit(0, 0)
      /\ \A i \in 4 .. 12 : b[i] = Bit(ca, i - 4)
      /\ \A i \in 13 .. 14 : b[i] = Bit(ba, i - 13)
      /\ \A i \in 15 .. 30 : b[i] = Bit(ra, i - 15)
  BY DEF AddressBits, IsFpgaAxi
<1> HIDE DEF b
<1>3. Bit(0, 0) = 0
  BY DEF Bit
<1>4. \A i \in 1 .. 30 : b[i] \in {0, 1}
  BY <1>2, <1>3, BitsAre
<1>5. IsBits(b, 30)
  BY <1>2, <1>4 DEF IsBits
<1>6. ASSUME ra < 65536 PROVE InRow(Value(b), ra, 16384)
  <2>1. PICK f : AreHighest(f, b, 30)
    BY <1>5, HighestBits, 30 \in Nat
  <2>2. /\ f[0] = 0 /\ f[30] = Value(b)
        /\ f[4] = b[27] + 2 * b[28] + 4 * b[29] + 8 * b[30] + 16 * f[0]
        /\ f[8] = b[23] + 2 * b[24] + 4 * b[25] + 8 * b[26] + 16 * f[4]
        /\ f[12] = b[19] + 2 * b[20] + 4 * b[21] + 8 * b[22] + 16 * f[8]
        /\ f[16] = b[15] + 2 * b[16] + 4 * b[17] + 8 * b[18] + 16 * f[12]
        /\ f[20] = b[11] + 2 * b[12] + 4 * b[13] + 8 * b[14] + 16 * f[16]
        /\ f[24] = b[7] + 2 * b[8] + 4 * b[9] + 8 * b[10] + 16 * f[20]
        /\ f[28] = b[3] + 2 * b[4] + 4 * b[5] + 8 * b[6] + 16 * f[24]
        /\ f[29] = b[2] + 2 * f[28]
        /\ f[30] = b[1] + 2 * f[29]
    BY <2>1 DEF AreHighest
  <2>3. f[16] = ra
    <3>1. /\ f[4] = (ra \div 4096) % 16
          /\ f[8] = ((ra \div 256) % 16) + 16 * f[4]
          /\ f[12] = ((ra \div 16) % 16) + 16 * f[8]
          /\ f[16] = (ra % 16) + 16 * f[12]
      BY <1>2, <2>2, NumberIs
    <3> QED
      BY <1>6, <3>1, Halves
  <2>4. \A i \in 1 .. 3 : b[i] = 0
    BY <1>2, <1>3
  <2>6. 256 * ra <= f[24] /\ f[24] <= 256 * ra + 255 /\ f[24] \in Nat
    <3>1. \A k \in 4 .. 30 : f[k - 4] \in Nat /\ 16 * f[k - 4] <= f[k] /\ f[k] <= 16 * f[k - 4] + 15
      <4> HIDE DEF b
      <4> QED
        BY <1>5, <2>1, HighestBounds, 30 \in Nat
    <3> QED
      BY <2>2, <2>3, <3>1
  <2> DEFINE m == b[4] + 2 * b[5] + 4 * b[6]
  <2>5. b[4] \in {0, 1} /\ b[5] \in {0, 1} /\ b[6] \in {0, 1}
    BY <1>4
  <2>7. m \in 0 .. 7
    BY <2>5
  <2> HIDE DEF m
  <2>8. f[30] = 8 * (m + 8 * f[24])
    BY <2>2, <2>4, <2>5, <2>6 DEF m
  <2>9. /\ 8 * (m + 8 * f[24]) \in Nat /\ (8 * (m + 8 * f[24])) % 8 = 0
        /\ 16384 * ra <= 8 * (m + 8 * f[24])
        /\ 8 * (m + 8 * f[24]) + 8 <= 16384 * (ra + 1)
    BY <2>6, <2>7
  <2> QED
    BY <2>2, <2>8, <2>9 DEF InRow
<1> QED
  BY <1>1, <1>5, <1>6 DEF b

(* The same on the board, if the lowest bit of the column is zero. *)
LEMMA AddressedBoard ==
  ASSUME NEW t, IsBoardAxi(t), NEW ra \in Nat, NEW ba \in Nat, NEW ca \in Nat
  PROVE  /\ Addressed(t, ra, ba, ca) = Value(AddressBits(t, 28, ra, ba, ca))
         /\ IsBits(AddressBits(t, 28, ra, ba, ca), 28)
         /\ ra < 8192 /\ Bit(ca, 0) = 0 => InRow(Addressed(t, ra, ba, ca), ra, 32768)
<1> DEFINE b == AddressBits(t, 28, ra, ba, ca)
<1>1. Addressed(t, ra, ba, ca) = Value(b)
  BY DEF Addressed, AddressBits, IsBoardAxi
<1>2. /\ Len(b) = 28
      /\ \A i \in 1 .. 2 : b[i] = Bit(0, 0)
      /\ \A i \in 3 .. 12 : b[i] = Bit(ca, i - 3)
      /\ \A i \in 13 .. 15 : b[i] = Bit(ba, i - 13)
      /\ \A i \in 16 .. 28 : b[i] = Bit(ra, i - 16)
  BY DEF AddressBits, IsBoardAxi
<1> HIDE DEF b
<1>3. Bit(0, 0) = 0
  BY DEF Bit
<1>4. \A i \in 1 .. 28 : b[i] \in {0, 1}
  BY <1>2, <1>3, BitsAre
<1>5. IsBits(b, 28)
  BY <1>2, <1>4 DEF IsBits
<1>6. ASSUME ra < 8192, Bit(ca, 0) = 0 PROVE InRow(Value(b), ra, 32768)
  <2>1. PICK f : AreHighest(f, b, 28)
    BY <1>5, HighestBits, 28 \in Nat
  <2>2. /\ f[0] = 0 /\ f[28] = Value(b)
        /\ f[1] = b[28] + 2 * f[0]
        /\ f[5] = b[24] + 2 * b[25] + 4 * b[26] + 8 * b[27] + 16 * f[1]
        /\ f[9] = b[20] + 2 * b[21] + 4 * b[22] + 8 * b[23] + 16 * f[5]
        /\ f[13] = b[16] + 2 * b[17] + 4 * b[18] + 8 * b[19] + 16 * f[9]
        /\ f[26] = b[3] + 2 * f[25]
        /\ f[27] = b[2] + 2 * f[26]
        /\ f[28] = b[1] + 2 * f[27]
    BY <2>1 DEF AreHighest
  <2>3. f[13] = ra
    <3>1. b[28] = ra \div 4096
      BY <1>2, <1>6 DEF Bit
    <3>2. /\ f[1] = ra \div 4096
          /\ f[5] = ((ra \div 256) % 16) + 16 * f[1]
          /\ f[9] = ((ra \div 16) % 16) + 16 * f[5]
          /\ f[13] = (ra % 16) + 16 * f[9]
      <4>1. /\ b[16] + 2 * b[17] + 4 * b[18] + 8 * b[19] = ra % 16
            /\ b[20] + 2 * b[21] + 4 * b[22] + 8 * b[23] = (ra \div 16) % 16
            /\ b[24] + 2 * b[25] + 4 * b[26] + 8 * b[27] = (ra \div 256) % 16
        BY <1>2, NumberIs
      <4>2. f[1] \in Nat /\ f[5] \in Nat /\ f[9] \in Nat /\ b[28] \in Nat
        BY <1>4, <2>1 DEF AreHighest
      <4> QED
        BY <2>2, <3>1, <4>1, <4>2
    <3> QED
      BY <1>6, <3>2
  <2>4. b[1] = 0 /\ b[2] = 0 /\ b[3] = 0
    BY <1>2, <1>3, <1>6
  <2>5. 4096 * ra <= f[25] /\ f[25] <= 4096 * ra + 4095 /\ f[25] \in Nat
    <3>1. \A k \in 4 .. 28 : f[k - 4] \in Nat /\ 16 * f[k - 4] <= f[k] /\ f[k] <= 16 * f[k - 4] + 15
      BY <1>5, <2>1, HighestBounds, 28 \in Nat
    <3>2. f[25] \in Nat
      BY <2>1 DEF AreHighest
    <3>3. /\ 16 * f[13] <= f[17] /\ f[17] <= 16 * f[13] + 15 /\ f[17] \in Nat
          /\ 16 * f[17] <= f[21] /\ f[21] <= 16 * f[17] + 15 /\ f[21] \in Nat
          /\ 16 * f[21] <= f[25] /\ f[25] <= 16 * f[21] + 15
      BY <3>1
    <3> QED
      BY <2>3, <3>2, <3>3
  <2>6. f[28] = 8 * f[25]
    BY <2>2, <2>4, <2>5
  <2>7. /\ 8 * f[25] \in Nat /\ (8 * f[25]) % 8 = 0
        /\ 32768 * ra <= 8 * f[25] /\ 8 * f[25] + 8 <= 32768 * (ra + 1)
    BY <2>5
  <2> QED
    BY <2>2, <2>6, <2>7 DEF InRow
<1> QED
  BY <1>1, <1>5, <1>6 DEF b

(* An address of a row tells the bits of column and bank. *)
OneAddress(t, ra1, ba1, ca1, ra2, ba2, ca2) ==
  /\ ra1 \in Nat /\ ba1 \in Nat /\ ca1 \in Nat /\ ra2 \in Nat /\ ba2 \in Nat /\ ca2 \in Nat
  /\ Addressed(t, ra1, ba1, ca1) = Addressed(t, ra2, ba2, ca2)

(* Their columns and banks are then alike. *)
OneColumn(t, ra1, ba1, ca1, ra2, ba2, ca2, columns, banks) ==
  SameTo(ca1, ca2, columns) /\ SameTo(ba1, ba2, banks)

(* One address has one column and one bank. *)
LEMMA FpgaAddressTells ==
  ASSUME NEW t, IsFpgaAxi(t),
         NEW ra1, NEW ba1, NEW ca1, NEW ra2, NEW ba2, NEW ca2,
         OneAddress(t, ra1, ba1, ca1, ra2, ba2, ca2)
  PROVE  OneColumn(t, ra1, ba1, ca1, ra2, ba2, ca2, 9, 2)
<1> DEFINE b == AddressBits(t, 30, ra1, ba1, ca1)
           c == AddressBits(t, 30, ra2, ba2, ca2)
<1>1. IsBits(b, 30) /\ IsBits(c, 30) /\ Value(b) = Value(c)
  BY AddressedFpga DEF OneAddress
<1>2. /\ \A k \in 0 .. 8 : b[k + 4] = Bit(ca1, k) /\ c[k + 4] = Bit(ca2, k)
      /\ \A k \in 0 .. 1 : b[k + 13] = Bit(ba1, k) /\ c[k + 13] = Bit(ba2, k)
  BY DEF AddressBits, IsFpgaAxi
<1> HIDE DEF b, c
<1>3. \A i \in 1 .. 30 : b[i] = c[i]
  BY <1>1, SameBits, 30 \in Nat
<1> QED
  BY <1>2, <1>3 DEF OneColumn, SameTo

(* The same on the board. *)
LEMMA BoardAddressTells ==
  ASSUME NEW t, IsBoardAxi(t),
         NEW ra1, NEW ba1, NEW ca1, NEW ra2, NEW ba2, NEW ca2,
         OneAddress(t, ra1, ba1, ca1, ra2, ba2, ca2)
  PROVE  OneColumn(t, ra1, ba1, ca1, ra2, ba2, ca2, 10, 3)
<1> DEFINE b == AddressBits(t, 28, ra1, ba1, ca1)
           c == AddressBits(t, 28, ra2, ba2, ca2)
<1>1. IsBits(b, 28) /\ IsBits(c, 28) /\ Value(b) = Value(c)
  BY AddressedBoard DEF OneAddress
<1>2. /\ \A k \in 0 .. 9 : b[k + 3] = Bit(ca1, k) /\ c[k + 3] = Bit(ca2, k)
      /\ \A k \in 0 .. 2 : b[k + 13] = Bit(ba1, k) /\ c[k + 13] = Bit(ba2, k)
  BY DEF AddressBits, IsBoardAxi
<1> HIDE DEF b, c
<1>3. \A i \in 1 .. 28 : b[i] = c[i]
  BY <1>1, SameBits, 28 \in Nat
<1> QED
  BY <1>2, <1>3 DEF OneColumn, SameTo

(* And the row. *)
LEMMA RowTells ==
  ASSUME NEW a, NEW bytes \in {16384, 32768}, NEW ra1 \in Nat, NEW ra2 \in Nat,
         InRow(a, ra1, bytes), InRow(a, ra2, bytes)
  PROVE  ra1 = ra2
BY DEF InRow

(***************************************************************************)
(* Where a block of a row map lies.                                        *)
(***************************************************************************)
Planes == {"y", "cb", "cr"}

(* A block of eight bytes of a plane. *)
IsCell(interleave, stride, height, plane, y, x, s) ==
  /\ plane \in Planes /\ y \in Nat /\ x \in Nat /\ x % 8 = 0
  /\ plane = "y" => y < height /\ x < stride /\ s = stride
  /\ plane # "y" => y < height \div 2
  /\ plane # "y" /\ interleave => plane = "cb" /\ x < stride /\ s = stride
  /\ plane # "y" /\ ~interleave => x < stride \div 2 /\ s = stride \div 2

(* A size that the call lets pass. *)
IsSize(stride, height) ==
  /\ stride \in Nat /\ height \in Nat /\ stride % 8 = 0
  /\ 8 <= stride /\ stride <= 2048 /\ 1 <= height /\ height <= 1088

(* The sizes that the call lets pass are such. *)
LEMMA SizesAre ==
  ASSUME NEW stride \in Strides, NEW height \in Heights, stride # 0, stride % 8 = 0
  PROVE  IsSize(stride, height)
<1>1. stride \in 0 .. 2048 /\ height \in 1 .. 1088
  BY FrameMapsAssumption
<1> QED
  BY <1>1 DEF IsSize

(* The units of the two platforms. *)
LEMMA Powers ==
  /\ 2^LowBits(Fpga) = 8 /\ 2^LowBits(Board) = 4
  /\ 2^RowBits(Fpga) = 16384 /\ 2^RowBits(Board) = 32768
  /\ Fpga # Board
<1>1. LowBits(Fpga) = 3 /\ LowBits(Board) = 2 /\ RowBits(Fpga) = 14 /\ RowBits(Board) = 15
  BY DEF LowBits, RowBits, Fpga, Board
<1>2. 2^3 = 8 /\ 2^2 = 4 /\ 2^14 = 16384 /\ 2^15 = 32768
  OBVIOUS
<1> QED
  BY <1>1, <1>2 DEF Fpga, Board

(* The field of chroma is of q tiles; the picture has at most 256 * q lines. *)
IsTiles(q, height) == q \in Nat /\ 1 <= q /\ q <= 5 /\ height <= 256 * q

(* How many tiles high a field of chroma is. *)
LEMMA TilesAre ==
  ASSUME NEW stride, NEW height, IsSize(stride, height), height % 256 # 1
  PROVE  \E q : /\ IsTiles(q, height)
                /\ ChrFieldRas(height \div 2, Fpga) = 8 * q
                /\ ChrFieldRas(height \div 2, Board) = 4 * q
<1> DEFINE q == RoundUp((height \div 2 + 1) \div 2, 64) \div 64
<1>1. height \in Nat /\ height % 256 # 1 /\ 1 <= height /\ height <= 1088
  BY DEF IsSize
<1>2. IsTiles(q, height)
  BY <1>1 DEF IsTiles, RoundUp
<1>3. ChrFieldRas(height \div 2, Fpga) = q * 8 /\ ChrFieldRas(height \div 2, Board) = q * 4
  BY Powers DEF ChrFieldRas
<1> HIDE DEF q
<1>4. q * 8 = 8 * q /\ q * 4 = 4 * q
  BY <1>2 DEF IsTiles
<1> QED
  BY <1>2, <1>3, <1>4

Side(plane)     == IF plane = "y" THEN 1 ELSE 2
Bottom(map, y)  == map = "FIELD_V" /\ y % 2 = 1
Line(map, y)    == IF map = "FIELD_V" THEN y \div 2 ELSE y
RowNo(map, dram, plane, y, x, fb) ==
  Converted(RasMap(dram), Side(plane), x, Line(map, y), y % 2)
    + (IF Bottom(map, y) THEN fb[plane].bot ELSE fb[plane].top)
BankNo(map, dram, plane, y, x) ==
  Converted(BankMap(map, dram), Side(plane), x, Line(map, y), y % 2)
ColumnNo(map, dram, plane, y, x) ==
  Converted(CasMap(map, dram), Side(plane), x, Line(map, y), y % 2)

(* The branch of GetXY2AXIAddr for the row maps. *)
LEMMA RowAddress ==
  ASSUME NEW map \in RowMaps, NEW dram \in {Fpga, Board}, NEW plane \in Planes,
         NEW y \in Nat, NEW x \in Nat, NEW s, NEW fb
  PROVE  GetXY2AXIAddr(SetTiledMapType(map, dram), plane, y, x, s, fb)
           = Base + Addressed(AxiMap(map, dram, plane # "y"),
                              RowNo(map, dram, plane, y, x, fb),
                              BankNo(map, dram, plane, y, x),
                              ColumnNo(map, dram, plane, y, x))
<1>1. CASE plane = "y"
  BY <1>1 DEF GetXY2AXIAddr, SetTiledMapType, RowMaps, MbMaps, Planes, RowNo, BankNo,
              ColumnNo, Side, Bottom, Line
<1>2. CASE plane # "y"
  BY <1>2 DEF GetXY2AXIAddr, SetTiledMapType, RowMaps, MbMaps, Planes, RowNo, BankNo,
              ColumnNo, Side, Bottom, Line
<1> QED
  BY <1>1, <1>2

(***************************************************************************)
(* Every block lies in its frame, at an address of its own.                *)
(***************************************************************************)
Where(map, dram, stride, height, i, plane, y, x, s) ==
  GetXY2AXIAddr(SetTiledMapType(map, dram), plane, y, x, s,
                FrameAt(map, dram, stride, height, i))

InFrame(a, i, size) ==
  a \in Nat /\ a % 8 = 0 /\ Base + i * size <= a /\ a + 8 <= Base + (i + 1) * size

(* The block of the driver begins at a page. *)
LEMMA BaseAligned ==
  Base \in Nat /\ Base % 8 = 0 /\ Base % 4096 = 0 /\ RoundUp(Base, 16384) = Base
BY FrameMapsAssumption DEF RoundUp
(* The rows where planes and fields of a frame begin. *)
LEMMA RowBases ==
  ASSUME NEW map \in RowMaps, NEW stride, NEW height, NEW i \in Nat,
         NEW q \in Nat, NEW n \in Nat, n = i * q
  PROVE  /\ ChrFieldRas(height \div 2, Fpga) = 8 * q =>
              LET fb == FrameAt(map, Fpga, stride, height, i)
              IN /\ fb["y"].top = 48 * n /\ fb["y"].bot = 48 * n + 16 * q
                 /\ fb["cb"].top = 48 * n + 32 * q /\ fb["cb"].bot = 48 * n + 40 * q
                 /\ fb["cr"].top = 48 * n + 32 * q + 4 /\ fb["cr"].bot = 48 * n + 40 * q + 4
         /\ ChrFieldRas(height \div 2, Board) = 4 * q =>
              LET fb == FrameAt(map, Board, stride, height, i)
              IN /\ fb["y"].top = 24 * n /\ fb["y"].bot = 24 * n + 8 * q
                 /\ fb["cb"].top = 24 * n + 16 * q /\ fb["cb"].bot = 24 * n + 20 * q
                 /\ fb["cr"].top = 24 * n + 16 * q + 2 /\ fb["cr"].bot = 24 * n + 20 * q + 2
<1>1. ASSUME ChrFieldRas(height \div 2, Fpga) = 8 * q
      PROVE  LET fb == FrameAt(map, Fpga, stride, height, i)
             IN /\ fb["y"].top = 48 * n /\ fb["y"].bot = 48 * n + 16 * q
                /\ fb["cb"].top = 48 * n + 32 * q /\ fb["cb"].bot = 48 * n + 40 * q
                /\ fb["cr"].top = 48 * n + 32 * q + 4 /\ fb["cr"].bot = 48 * n + 40 * q + 4
  <2>1. i * 6 * (8 * q) = 48 * n
    OBVIOUS
  <2>2. /\ ((48 * n + 4 * (8 * q)) \div 8) * 8 + 8 \div 2 = 48 * n + 32 * q + 4
        /\ ((48 * n + 5 * (8 * q)) \div 8) * 8 + 8 \div 2 = 48 * n + 40 * q + 4
    OBVIOUS
  <2> QED
    BY <1>1, <2>1, <2>2, Powers DEF FrameAt, RowMaps, MbMaps
<1>2. ASSUME ChrFieldRas(height \div 2, Board) = 4 * q
      PROVE  LET fb == FrameAt(map, Board, stride, height, i)
             IN /\ fb["y"].top = 24 * n /\ fb["y"].bot = 24 * n + 8 * q
                /\ fb["cb"].top = 24 * n + 16 * q /\ fb["cb"].bot = 24 * n + 20 * q
                /\ fb["cr"].top = 24 * n + 16 * q + 2 /\ fb["cr"].bot = 24 * n + 20 * q + 2
  <2>1. i * 6 * (4 * q) = 24 * n
    OBVIOUS
  <2>2. /\ ((24 * n + 4 * (4 * q)) \div 4) * 4 + 4 \div 2 = 24 * n + 16 * q + 2
        /\ ((24 * n + 5 * (4 * q)) \div 4) * 4 + 4 \div 2 = 24 * n + 20 * q + 2
    OBVIOUS
  <2> QED
    BY <1>2, <2>1, <2>2, Powers DEF FrameAt, RowMaps, MbMaps
<1> QED
  BY <1>1, <1>2

(* The row of a block: the tile, and where its plane and field begin. *)
OffsetFpga(plane, bottom, q) ==
  CASE plane = "y"  -> IF bottom THEN 16 * q ELSE 0
    [] plane = "cb" -> IF bottom THEN 40 * q ELSE 32 * q
    [] plane = "cr" -> IF bottom THEN 40 * q + 4 ELSE 32 * q + 4

(* The row of a block is what RasMap gives of it, from where its plane begins. *)
LEMMA RowNoFpga ==
  ASSUME NEW map \in RowMaps, NEW interleave \in BOOLEAN, NEW stride, NEW height,
         IsSize(stride, height), NEW q, IsTiles(q, height),
         ChrFieldRas(height \div 2, Fpga) = 8 * q,
         NEW i \in Nat, NEW n \in Nat, n = i * q,
         NEW plane, NEW y, NEW x, NEW s, IsCell(interleave, stride, height, plane, y, x, s)
  PROVE  RowNo(map, Fpga, plane, y, x, FrameAt(map, Fpga, stride, height, i))
           = x \div 256 + 8 * (Line(map, y) \div 64) + 48 * n
               + OffsetFpga(plane, Bottom(map, y), q)
<1>1. /\ x \in Nat /\ x < 2048 /\ y \in Nat /\ y < 2048 /\ plane \in Planes /\ q \in Nat
  BY DEF IsCell, IsSize, IsTiles
<1>2. Line(map, y) \in Nat /\ Line(map, y) < 2048
  BY <1>1 DEF Line
<1>3. Side(plane) \in Sides /\ y % 2 \in Fields
  BY <1>1 DEF Side, Sides, Fields
<1>4. Converted(RasMap(Fpga), Side(plane), x, Line(map, y), y % 2)
        = x \div 256 + 8 * (Line(map, y) \div 64)
  <2> DEFINE line == Line(map, y)
             side == Side(plane)
             tb   == y % 2
  <2>1. line \in Nat /\ line < 2048 /\ side \in Sides /\ tb \in Fields
    BY <1>2, <1>3
  <2> HIDE DEF line, side, tb
  <2>2. Converted(RasMap(Fpga), side, x, line, tb) = x \div 256 + 8 * (line \div 64)
    BY <1>1, <2>1, RasFpga
  <2> QED
    BY <2>2 DEF line, side, tb
<1> DEFINE fb == FrameAt(map, Fpga, stride, height, i)
<1>5. /\ fb["y"].top = 48 * n /\ fb["y"].bot = 48 * n + 16 * q
      /\ fb["cb"].top = 48 * n + 32 * q /\ fb["cb"].bot = 48 * n + 40 * q
      /\ fb["cr"].top = 48 * n + 32 * q + 4
      /\ fb["cr"].bot = 48 * n + 40 * q + 4
  BY <1>1, RowBases
<1> HIDE DEF fb
<1>6. (IF Bottom(map, y) THEN fb[plane].bot ELSE fb[plane].top)
        = 48 * n + OffsetFpga(plane, Bottom(map, y), q)
  <2>1. CASE plane = "y"
    BY <1>1, <1>5, <2>1 DEF OffsetFpga
  <2>2. CASE plane = "cb"
    BY <1>1, <1>5, <2>2 DEF OffsetFpga
  <2>3. CASE plane = "cr"
    BY <1>1, <1>5, <2>3 DEF OffsetFpga
  <2> QED
    BY <1>1, <2>1, <2>2, <2>3 DEF Planes
<1>7. OffsetFpga(plane, Bottom(map, y), q) \in Nat
  BY <1>1 DEF OffsetFpga, Planes
<1> QED
  BY <1>1, <1>2, <1>4, <1>6, <1>7 DEF RowNo, fb

(* What a plane leaves room for: the tiles of a line and the lines of tiles. *)
RoomFpga(map, interleave, plane, d, e, q) ==
  /\ d \in Nat /\ e \in Nat /\ d < 8
  /\ plane = "y" => e < 4 * q
  /\ plane # "y" => e < 2 * q
  /\ map = "FIELD_V" => (plane = "y" => e < 2 * q) /\ (plane # "y" => e < q)
  /\ plane # "y" /\ ~interleave => d < 4
  /\ interleave => plane # "cr"

(* A block of a picture has the room its plane leaves. *)
LEMMA RoomFpgaIs ==
  ASSUME NEW map \in RowMaps, NEW interleave, NEW stride, NEW height,
         IsSize(stride, height), NEW q, IsTiles(q, height),
         NEW plane, NEW y, NEW x, NEW s, IsCell(interleave, stride, height, plane, y, x, s)
  PROVE  RoomFpga(map, interleave, plane, x \div 256, Line(map, y) \div 64, q)
<1>1. /\ x \in Nat /\ x < 2048 /\ y \in Nat /\ q \in Nat
      /\ plane = "y" => y < 256 * q
      /\ plane # "y" => y < 128 * q
      /\ plane # "y" /\ ~interleave => x < 1024
      /\ interleave => plane # "cr"
  BY DEF IsCell, IsSize, IsTiles
<1>2. /\ x \div 256 \in Nat /\ x \div 256 < 8
      /\ plane # "y" /\ ~interleave => x \div 256 < 4
  BY <1>1
<1>3. CASE map = "FIELD_V"
  BY <1>1, <1>2, <1>3 DEF RoomFpga, Line
<1>4. CASE map # "FIELD_V"
  BY <1>1, <1>2, <1>4 DEF RoomFpga, Line
<1> QED
  BY <1>3, <1>4

(* Its row is one of its frame. *)
LEMMA RowRangeFpga ==
  ASSUME NEW map, NEW interleave, NEW plane \in Planes, NEW d, NEW e, NEW q \in Nat, NEW y,
         RoomFpga(map, interleave, plane, d, e, q)
  PROVE  LET row == d + 8 * e + OffsetFpga(plane, Bottom(map, y), q)
         IN row \in Nat /\ row < 48 * q
<1>1. CASE plane = "y"
  BY <1>1 DEF RoomFpga, OffsetFpga, Bottom
<1>2. CASE plane = "cb"
  BY <1>2 DEF RoomFpga, OffsetFpga, Bottom
<1>3. CASE plane = "cr"
  BY <1>3 DEF RoomFpga, OffsetFpga, Bottom
<1> QED
  BY <1>1, <1>2, <1>3 DEF Planes

(* Rows of two planes or two fields are never the same, nor those of two tiles. *)
LEMMA RowsDifferFpga ==
  ASSUME NEW map, NEW interleave, NEW q \in Nat,
         NEW plane1 \in Planes, NEW d1, NEW e1, NEW y1,
         RoomFpga(map, interleave, plane1, d1, e1, q),
         NEW plane2 \in Planes, NEW d2, NEW e2, NEW y2,
         RoomFpga(map, interleave, plane2, d2, e2, q),
         d1 + 8 * e1 + OffsetFpga(plane1, Bottom(map, y1), q)
           = d2 + 8 * e2 + OffsetFpga(plane2, Bottom(map, y2), q)
  PROVE  plane1 = plane2 /\ d1 = d2 /\ e1 = e2 /\ Bottom(map, y1) = Bottom(map, y2)
<1>1. d1 \in Nat /\ d2 \in Nat /\ e1 \in Nat /\ e2 \in Nat /\ d1 < 8 /\ d2 < 8
  BY DEF RoomFpga
<1>2. ASSUME plane1 = "y" \/ plane2 = "y" PROVE plane1 = plane2
  BY <1>2 DEF RoomFpga, OffsetFpga, Bottom, Planes
<1>3. ASSUME plane1 # "y", plane2 # "y" PROVE plane1 = plane2
  BY <1>3 DEF RoomFpga, OffsetFpga, Bottom, Planes
<1>4. plane1 = plane2
  BY <1>2, <1>3
<1>5. CASE plane1 = "y"
  BY <1>1, <1>4, <1>5 DEF RoomFpga, OffsetFpga, Bottom
<1>6. CASE plane1 = "cb"
  <2> DEFINE b1 == Bottom(map, y1)
             b2 == Bottom(map, y2)
  <2>1. (b1 => e1 < q) /\ (b2 => e2 < q) /\ (b1 \/ b2 => e1 < q /\ e2 < q)
    BY <1>4, <1>6 DEF RoomFpga, Bottom
  <2>2. d1 + 8 * e1 + (IF b1 THEN 40 * q ELSE 32 * q)
          = d2 + 8 * e2 + (IF b2 THEN 40 * q ELSE 32 * q)
    BY <1>4, <1>6 DEF OffsetFpga
  <2>3. b1 \in BOOLEAN /\ b2 \in BOOLEAN
    BY DEF Bottom
  <2> HIDE DEF b1, b2
  <2>4. CASE b1 /\ ~b2
    BY <1>1, <2>1, <2>2, <2>4
  <2>5. CASE ~b1 /\ b2
    BY <1>1, <2>1, <2>2, <2>5
  <2>6. CASE b1 /\ b2
    <3>1. d1 = d2 /\ e1 = e2
      BY <1>1, <2>2, <2>6
    <3> QED
      BY <1>4, <2>6, <3>1 DEF b1, b2
  <2>7. CASE ~b1 /\ ~b2
    <3>1. d1 = d2 /\ e1 = e2
      BY <1>1, <2>2, <2>7
    <3> QED
      BY <1>4, <2>3, <2>7, <3>1 DEF b1, b2
  <2> QED
    BY <2>3, <2>4, <2>5, <2>6, <2>7
<1>7. CASE plane1 = "cr"
  BY <1>1, <1>4, <1>7 DEF RoomFpga, OffsetFpga, Bottom
<1> QED
  BY <1>5, <1>6, <1>7 DEF Planes

(* The row of a block: the tile, and where its plane and field begin. *)
OffsetBoard(plane, bottom, q) ==
  CASE plane = "y"  -> IF bottom THEN 8 * q ELSE 0
    [] plane = "cb" -> IF bottom THEN 20 * q ELSE 16 * q
    [] plane = "cr" -> IF bottom THEN 20 * q + 2 ELSE 16 * q + 2

(* The row of a block on the board. *)
LEMMA RowNoBoard ==
  ASSUME NEW map \in RowMaps, NEW interleave \in BOOLEAN, NEW stride, NEW height,
         IsSize(stride, height), NEW q, IsTiles(q, height),
         ChrFieldRas(height \div 2, Board) = 4 * q,
         NEW i \in Nat, NEW n \in Nat, n = i * q,
         NEW plane, NEW y, NEW x, NEW s, IsCell(interleave, stride, height, plane, y, x, s)
  PROVE  RowNo(map, Board, plane, y, x, FrameAt(map, Board, stride, height, i))
           = x \div 512 + 4 * (Line(map, y) \div 64) + 24 * n
               + OffsetBoard(plane, Bottom(map, y), q)
<1>1. /\ x \in Nat /\ x < 2048 /\ y \in Nat /\ y < 2048 /\ plane \in Planes /\ q \in Nat
  BY DEF IsCell, IsSize, IsTiles
<1>2. Line(map, y) \in Nat /\ Line(map, y) < 2048
  BY <1>1 DEF Line
<1>3. Side(plane) \in Sides /\ y % 2 \in Fields
  BY <1>1 DEF Side, Sides, Fields
<1>4. Converted(RasMap(Board), Side(plane), x, Line(map, y), y % 2)
        = x \div 512 + 4 * (Line(map, y) \div 64)
  <2> DEFINE line == Line(map, y)
             side == Side(plane)
             tb   == y % 2
  <2>1. line \in Nat /\ line < 2048 /\ side \in Sides /\ tb \in Fields
    BY <1>2, <1>3
  <2> HIDE DEF line, side, tb
  <2>2. Converted(RasMap(Board), side, x, line, tb) = x \div 512 + 4 * (line \div 64)
    BY <1>1, <2>1, RasBoard
  <2> QED
    BY <2>2 DEF line, side, tb
<1> DEFINE fb == FrameAt(map, Board, stride, height, i)
<1>5. /\ fb["y"].top = 24 * n /\ fb["y"].bot = 24 * n + 8 * q
      /\ fb["cb"].top = 24 * n + 16 * q /\ fb["cb"].bot = 24 * n + 20 * q
      /\ fb["cr"].top = 24 * n + 16 * q + 2
      /\ fb["cr"].bot = 24 * n + 20 * q + 2
  BY <1>1, RowBases
<1> HIDE DEF fb
<1>6. (IF Bottom(map, y) THEN fb[plane].bot ELSE fb[plane].top)
        = 24 * n + OffsetBoard(plane, Bottom(map, y), q)
  <2>1. CASE plane = "y"
    BY <1>1, <1>5, <2>1 DEF OffsetBoard
  <2>2. CASE plane = "cb"
    BY <1>1, <1>5, <2>2 DEF OffsetBoard
  <2>3. CASE plane = "cr"
    BY <1>1, <1>5, <2>3 DEF OffsetBoard
  <2> QED
    BY <1>1, <2>1, <2>2, <2>3 DEF Planes
<1>7. OffsetBoard(plane, Bottom(map, y), q) \in Nat
  BY <1>1 DEF OffsetBoard, Planes
<1> QED
  BY <1>1, <1>2, <1>4, <1>6, <1>7 DEF RowNo, fb

(* What a plane leaves room for: the tiles of a line and the lines of tiles. *)
RoomBoard(map, interleave, plane, d, e, q) ==
  /\ d \in Nat /\ e \in Nat /\ d < 4
  /\ plane = "y" => e < 4 * q
  /\ plane # "y" => e < 2 * q
  /\ map = "FIELD_V" => (plane = "y" => e < 2 * q) /\ (plane # "y" => e < q)
  /\ plane # "y" /\ ~interleave => d < 2
  /\ interleave => plane # "cr"

(* Its room, on the board. *)
LEMMA RoomBoardIs ==
  ASSUME NEW map \in RowMaps, NEW interleave, NEW stride, NEW height,
         IsSize(stride, height), NEW q, IsTiles(q, height),
         NEW plane, NEW y, NEW x, NEW s, IsCell(interleave, stride, height, plane, y, x, s)
  PROVE  RoomBoard(map, interleave, plane, x \div 512, Line(map, y) \div 64, q)
<1>1. /\ x \in Nat /\ x < 2048 /\ y \in Nat /\ q \in Nat
      /\ plane = "y" => y < 256 * q
      /\ plane # "y" => y < 128 * q
      /\ plane # "y" /\ ~interleave => x < 1024
      /\ interleave => plane # "cr"
  BY DEF IsCell, IsSize, IsTiles
<1>2. /\ x \div 512 \in Nat /\ x \div 512 < 4
      /\ plane # "y" /\ ~interleave => x \div 512 < 2
  BY <1>1
<1>3. CASE map = "FIELD_V"
  BY <1>1, <1>2, <1>3 DEF RoomBoard, Line
<1>4. CASE map # "FIELD_V"
  BY <1>1, <1>2, <1>4 DEF RoomBoard, Line
<1> QED
  BY <1>3, <1>4

(* Its row is one of its frame, on the board. *)
LEMMA RowRangeBoard ==
  ASSUME NEW map, NEW interleave, NEW plane \in Planes, NEW d, NEW e, NEW q \in Nat, NEW y,
         RoomBoard(map, interleave, plane, d, e, q)
  PROVE  LET row == d + 4 * e + OffsetBoard(plane, Bottom(map, y), q)
         IN row \in Nat /\ row < 24 * q
<1>1. CASE plane = "y"
  BY <1>1 DEF RoomBoard, OffsetBoard, Bottom
<1>2. CASE plane = "cb"
  BY <1>2 DEF RoomBoard, OffsetBoard, Bottom
<1>3. CASE plane = "cr"
  BY <1>3 DEF RoomBoard, OffsetBoard, Bottom
<1> QED
  BY <1>1, <1>2, <1>3 DEF Planes

(* Rows of two planes or two fields are never the same, nor those of two tiles. *)
LEMMA RowsDifferBoard ==
  ASSUME NEW map, NEW interleave, NEW q \in Nat,
         NEW plane1 \in Planes, NEW d1, NEW e1, NEW y1,
         RoomBoard(map, interleave, plane1, d1, e1, q),
         NEW plane2 \in Planes, NEW d2, NEW e2, NEW y2,
         RoomBoard(map, interleave, plane2, d2, e2, q),
         d1 + 4 * e1 + OffsetBoard(plane1, Bottom(map, y1), q)
           = d2 + 4 * e2 + OffsetBoard(plane2, Bottom(map, y2), q)
  PROVE  plane1 = plane2 /\ d1 = d2 /\ e1 = e2 /\ Bottom(map, y1) = Bottom(map, y2)
<1>1. d1 \in Nat /\ d2 \in Nat /\ e1 \in Nat /\ e2 \in Nat /\ d1 < 4 /\ d2 < 4
  BY DEF RoomBoard
<1>2. ASSUME plane1 = "y" \/ plane2 = "y" PROVE plane1 = plane2
  BY <1>2 DEF RoomBoard, OffsetBoard, Bottom, Planes
<1>3. ASSUME plane1 # "y", plane2 # "y" PROVE plane1 = plane2
  BY <1>3 DEF RoomBoard, OffsetBoard, Bottom, Planes
<1>4. plane1 = plane2
  BY <1>2, <1>3
<1>5. CASE plane1 = "y"
  BY <1>1, <1>4, <1>5 DEF RoomBoard, OffsetBoard, Bottom
<1>6. CASE plane1 = "cb"
  <2> DEFINE b1 == Bottom(map, y1)
             b2 == Bottom(map, y2)
  <2>1. (b1 => e1 < q) /\ (b2 => e2 < q) /\ (b1 \/ b2 => e1 < q /\ e2 < q)
    BY <1>4, <1>6 DEF RoomBoard, Bottom
  <2>2. d1 + 4 * e1 + (IF b1 THEN 20 * q ELSE 16 * q)
          = d2 + 4 * e2 + (IF b2 THEN 20 * q ELSE 16 * q)
    BY <1>4, <1>6 DEF OffsetBoard
  <2>3. b1 \in BOOLEAN /\ b2 \in BOOLEAN
    BY DEF Bottom
  <2> HIDE DEF b1, b2
  <2>4. CASE b1 /\ ~b2
    BY <1>1, <2>1, <2>2, <2>4
  <2>5. CASE ~b1 /\ b2
    BY <1>1, <2>1, <2>2, <2>5
  <2>6. CASE b1 /\ b2
    <3>1. d1 = d2 /\ e1 = e2
      BY <1>1, <2>2, <2>6
    <3> QED
      BY <1>4, <2>6, <3>1 DEF b1, b2
  <2>7. CASE ~b1 /\ ~b2
    <3>1. d1 = d2 /\ e1 = e2
      BY <1>1, <2>2, <2>7
    <3> QED
      BY <1>4, <2>3, <2>7, <3>1 DEF b1, b2
  <2> QED
    BY <2>3, <2>4, <2>5, <2>6, <2>7
<1>7. CASE plane1 = "cr"
  BY <1>1, <1>4, <1>7 DEF RoomBoard, OffsetBoard, Bottom
<1> QED
  BY <1>5, <1>6, <1>7 DEF Planes

(* The row, the bank and the column of a block. *)
LEMMA RowPartsFpga ==
  ASSUME NEW map \in RowMaps, ~Crooked(map, Fpga), NEW interleave \in BOOLEAN,
         NEW stride, NEW height, IsSize(stride, height),
         NEW i \in Nat, i <= 21, NEW q, IsTiles(q, height),
         ChrFieldRas(height \div 2, Fpga) = 8 * q,
         NEW plane, NEW y, NEW x, NEW s, IsCell(interleave, stride, height, plane, y, x, s)
  PROVE  LET ra == RowNo(map, Fpga, plane, y, x, FrameAt(map, Fpga, stride, height, i))
             ba == BankNo(map, Fpga, plane, y, x)
             ca == ColumnNo(map, Fpga, plane, y, x)
             t  == AxiMap(map, Fpga, plane # "y")
         IN /\ IsFpgaAxi(t) /\ ra \in Nat /\ ba \in Nat /\ ca \in Nat
            /\ 48 * (i * q) <= ra /\ ra < 48 * (i * q) + 48 * q
            /\ InRow(Addressed(t, ra, ba, ca), ra, 16384)
<1> DEFINE ra == RowNo(map, Fpga, plane, y, x, FrameAt(map, Fpga, stride, height, i))
           ba == BankNo(map, Fpga, plane, y, x)
           ca == ColumnNo(map, Fpga, plane, y, x)
           t  == AxiMap(map, Fpga, plane # "y")
           n  == i * q
           d  == x \div 256
           e  == Line(map, y) \div 64
           o  == OffsetFpga(plane, Bottom(map, y), q)
<1>1. /\ x \in Nat /\ y \in Nat /\ plane \in Planes /\ q \in Nat /\ q <= 5
      /\ Side(plane) \in Sides /\ y % 2 \in Fields /\ Line(map, y) \in Nat
  BY DEF IsCell, IsTiles, Side, Sides, Fields, Line
<1>2. IsFpgaAxi(t)
  BY AxiOfRows, OfRowFpga
<1>3. n \in Nat /\ n <= 105
  <2>1. \A j \in Nat, k \in Nat : j <= 21 /\ k <= 5 => j * k \in Nat /\ j * k <= 105
    OBVIOUS
  <2> QED
    BY <1>1, <2>1
<1>4. ra = d + 8 * e + 48 * n + o
  BY <1>1, <1>3, RowNoFpga
<1>5. d + 8 * e + o \in Nat /\ d + 8 * e + o < 48 * q
  <2>1. RoomFpga(map, interleave, plane, d, e, q)
    BY RoomFpgaIs
  <2> HIDE DEF d, e
  <2> QED
    BY <1>1, <2>1, RowRangeFpga DEF o
<1>6. d \in Nat /\ e \in Nat /\ o \in Nat
  <2>1. o \in Nat
    BY <1>1 DEF OffsetFpga, Planes
  <2> QED
    BY <1>1, <2>1
<1> HIDE DEF n, d, e, o
<1>7. ra \in Nat /\ 48 * n <= ra /\ ra < 48 * n + 48 * q
  BY <1>1, <1>3, <1>4, <1>5, <1>6
<1>8. ra < 65536
  BY <1>1, <1>3, <1>7
<1>9. ba \in Nat /\ ca \in Nat
  <2> DEFINE line == Line(map, y)
             side == Side(plane)
             tb   == y % 2
  <2>1. line \in Nat /\ side \in Sides /\ tb \in Fields
    BY <1>1
  <2>2. ba = Converted(BankMap(map, Fpga), side, x, line, tb)
    BY DEF BankNo
  <2>3. ca = Converted(CasMap(map, Fpga), side, x, line, tb)
    BY DEF ColumnNo
  <2> HIDE DEF line, side, tb, ba, ca
  <2>4. IsTable(BankMap(map, Fpga), 2) /\ 2 \in TableSizes
    BY BankTable DEF TableSizes
  <2>5. IsTable(CasMap(map, Fpga), 9) /\ 9 \in TableSizes
    BY CasFrameV, CasFrameH, CasMixedV DEF TableSizes, RowMaps, Crooked
  <2>6. IsConverted(BankMap(map, Fpga), 2, side, x, line, tb)
    BY <1>1, <2>1, <2>4, ConvertedBits
  <2>7. IsConverted(CasMap(map, Fpga), 9, side, x, line, tb)
    BY <1>1, <2>1, <2>5, ConvertedBits
  <2> QED
    BY <2>2, <2>3, <2>6, <2>7 DEF IsConverted
<1>11. InRow(Addressed(t, ra, ba, ca), ra, 16384)
  <2> HIDE DEF t, ra, ba, ca
  <2> QED
    BY <1>2, <1>7, <1>8, <1>9, AddressedFpga
<1> QED
  BY <1>2, <1>7, <1>9, <1>11 DEF n

(* A block of a row map lies in its frame. *)
LEMMA RowPlacedFpga ==
  ASSUME NEW map \in RowMaps, ~Crooked(map, Fpga), NEW interleave \in BOOLEAN,
         NEW stride, NEW height, IsSize(stride, height), height % 256 # 1,
         NEW i \in Nat, i <= 21,
         NEW plane, NEW y, NEW x, NEW s, IsCell(interleave, stride, height, plane, y, x, s)
  PROVE  InFrame(Where(map, Fpga, stride, height, i, plane, y, x, s), i,
                 FrameSize(map, Fpga, stride, height))
<1>1. PICK q : IsTiles(q, height) /\ ChrFieldRas(height \div 2, Fpga) = 8 * q
  BY TilesAre
<1> DEFINE ra == RowNo(map, Fpga, plane, y, x, FrameAt(map, Fpga, stride, height, i))
           ba == BankNo(map, Fpga, plane, y, x)
           ca == ColumnNo(map, Fpga, plane, y, x)
           t  == AxiMap(map, Fpga, plane # "y")
           a  == Addressed(t, ra, ba, ca)
           size == FrameSize(map, Fpga, stride, height)
<1>2. q \in Nat /\ plane \in Planes /\ y \in Nat /\ x \in Nat
  BY <1>1 DEF IsTiles, IsCell
<1>3. /\ ra \in Nat /\ 48 * (i * q) <= ra /\ ra < 48 * (i * q) + 48 * q
      /\ InRow(a, ra, 16384)
  BY <1>1, RowPartsFpga
<1>4. Where(map, Fpga, stride, height, i, plane, y, x, s) = Base + a
  BY <1>2, RowAddress DEF Where
<1>5. size = 786432 * q
  BY <1>1, <1>2, Powers DEF FrameSize
<1> HIDE DEF ra, ba, ca, t, a, size
<1>6. i * size = 786432 * (i * q) /\ (i + 1) * size = 786432 * (i * q) + 786432 * q
  BY <1>2, <1>5
<1> DEFINE n == i * q
<1>7. n \in Nat
  BY <1>2
<1>8. 48 * n <= ra /\ ra < 48 * n + 48 * q
  BY <1>3
<1>9. i * size = 786432 * n /\ (i + 1) * size = 786432 * n + 786432 * q
  BY <1>6
<1> HIDE DEF n
<1>10. a \in Nat /\ a % 8 = 0 /\ 786432 * n <= a /\ a + 8 <= 786432 * n + 786432 * q
  BY <1>2, <1>3, <1>7, <1>8 DEF InRow
<1>11. Base + a \in Nat /\ (Base + a) % 8 = 0
  BY <1>10, BaseAligned
<1>12. Base + i * size <= Base + a /\ (Base + a) + 8 <= Base + (i + 1) * size
  BY <1>2, <1>7, <1>9, <1>10, BaseAligned
<1> QED
  BY <1>4, <1>11, <1>12 DEF InFrame, size

(* The row, the bank and the column of a block. *)
LEMMA RowPartsBoard ==
  ASSUME NEW map \in RowMaps, ~Crooked(map, Board), NEW interleave \in BOOLEAN,
         NEW stride, NEW height, IsSize(stride, height),
         NEW i \in Nat, i <= 21, NEW q, IsTiles(q, height),
         ChrFieldRas(height \div 2, Board) = 4 * q,
         NEW plane, NEW y, NEW x, NEW s, IsCell(interleave, stride, height, plane, y, x, s)
  PROVE  LET ra == RowNo(map, Board, plane, y, x, FrameAt(map, Board, stride, height, i))
             ba == BankNo(map, Board, plane, y, x)
             ca == ColumnNo(map, Board, plane, y, x)
             t  == AxiMap(map, Board, plane # "y")
         IN /\ IsBoardAxi(t) /\ ra \in Nat /\ ba \in Nat /\ ca \in Nat
            /\ 24 * (i * q) <= ra /\ ra < 24 * (i * q) + 24 * q
            /\ InRow(Addressed(t, ra, ba, ca), ra, 32768)
<1> DEFINE ra == RowNo(map, Board, plane, y, x, FrameAt(map, Board, stride, height, i))
           ba == BankNo(map, Board, plane, y, x)
           ca == ColumnNo(map, Board, plane, y, x)
           t  == AxiMap(map, Board, plane # "y")
           n  == i * q
           d  == x \div 512
           e  == Line(map, y) \div 64
           o  == OffsetBoard(plane, Bottom(map, y), q)
<1>1. /\ x \in Nat /\ y \in Nat /\ plane \in Planes /\ q \in Nat /\ q <= 5
      /\ Side(plane) \in Sides /\ y % 2 \in Fields /\ Line(map, y) \in Nat
  BY DEF IsCell, IsTiles, Side, Sides, Fields, Line
<1>2. IsBoardAxi(t)
  BY AxiOfRows, OfRowBoard
<1>3. n \in Nat /\ n <= 105
  <2>1. \A j \in Nat, k \in Nat : j <= 21 /\ k <= 5 => j * k \in Nat /\ j * k <= 105
    OBVIOUS
  <2> QED
    BY <1>1, <2>1
<1>4. ra = d + 4 * e + 24 * n + o
  BY <1>1, <1>3, RowNoBoard
<1>5. d + 4 * e + o \in Nat /\ d + 4 * e + o < 24 * q
  <2>1. RoomBoard(map, interleave, plane, d, e, q)
    BY RoomBoardIs
  <2> HIDE DEF d, e
  <2> QED
    BY <1>1, <2>1, RowRangeBoard DEF o
<1>6. d \in Nat /\ e \in Nat /\ o \in Nat
  <2>1. o \in Nat
    BY <1>1 DEF OffsetBoard, Planes
  <2> QED
    BY <1>1, <2>1
<1> HIDE DEF n, d, e, o
<1>7. ra \in Nat /\ 24 * n <= ra /\ ra < 24 * n + 24 * q
  BY <1>1, <1>3, <1>4, <1>5, <1>6
<1>8. ra < 8192
  BY <1>1, <1>3, <1>7
<1>9. ba \in Nat /\ ca \in Nat
  <2> DEFINE line == Line(map, y)
             side == Side(plane)
             tb   == y % 2
  <2>1. line \in Nat /\ side \in Sides /\ tb \in Fields
    BY <1>1
  <2>2. ba = Converted(BankMap(map, Board), side, x, line, tb)
    BY DEF BankNo
  <2>3. ca = Converted(CasMap(map, Board), side, x, line, tb)
    BY DEF ColumnNo
  <2> HIDE DEF line, side, tb, ba, ca
  <2>4. IsTable(BankMap(map, Board), 3) /\ 3 \in TableSizes
    BY BankTable DEF TableSizes
  <2>5. IsTable(CasMap(map, Board), 10) /\ 10 \in TableSizes
    BY CasFrameVBoard, CasFrameHBoard, CasMixedVBoard DEF TableSizes, RowMaps, Crooked
  <2>6. IsConverted(BankMap(map, Board), 3, side, x, line, tb)
    BY <1>1, <2>1, <2>4, ConvertedBits
  <2>7. IsConverted(CasMap(map, Board), 10, side, x, line, tb)
    BY <1>1, <2>1, <2>5, ConvertedBits
  <2> QED
    BY <2>2, <2>3, <2>6, <2>7 DEF IsConverted
<1>10. Bit(ca, 0) = 0
  <2>1. map # "FIELD_V"
    BY DEF Crooked
  <2>2. ca = Converted(CasMap(map, Board), Side(plane), x, y, y % 2)
    BY <2>1 DEF ColumnNo, Line
  <2> QED
    BY <1>1, <2>1, <2>2, LowestColumn
<1>11. InRow(Addressed(t, ra, ba, ca), ra, 32768)
  <2> HIDE DEF t, ra, ba, ca
  <2> QED
    BY <1>2, <1>7, <1>8, <1>9, <1>10, AddressedBoard
<1> QED
  BY <1>2, <1>7, <1>9, <1>11 DEF n

(* A block of a row map lies in its frame, on the board. *)
LEMMA RowPlacedBoard ==
  ASSUME NEW map \in RowMaps, ~Crooked(map, Board), NEW interleave \in BOOLEAN,
         NEW stride, NEW height, IsSize(stride, height), height % 256 # 1,
         NEW i \in Nat, i <= 21,
         NEW plane, NEW y, NEW x, NEW s, IsCell(interleave, stride, height, plane, y, x, s)
  PROVE  InFrame(Where(map, Board, stride, height, i, plane, y, x, s), i,
                 FrameSize(map, Board, stride, height))
<1>1. PICK q : IsTiles(q, height) /\ ChrFieldRas(height \div 2, Board) = 4 * q
  BY TilesAre
<1> DEFINE ra == RowNo(map, Board, plane, y, x, FrameAt(map, Board, stride, height, i))
           ba == BankNo(map, Board, plane, y, x)
           ca == ColumnNo(map, Board, plane, y, x)
           t  == AxiMap(map, Board, plane # "y")
           a  == Addressed(t, ra, ba, ca)
           size == FrameSize(map, Board, stride, height)
<1>2. q \in Nat /\ plane \in Planes /\ y \in Nat /\ x \in Nat
  BY <1>1 DEF IsTiles, IsCell
<1>3. /\ ra \in Nat /\ 24 * (i * q) <= ra /\ ra < 24 * (i * q) + 24 * q
      /\ InRow(a, ra, 32768)
  BY <1>1, RowPartsBoard
<1>4. Where(map, Board, stride, height, i, plane, y, x, s) = Base + a
  BY <1>2, RowAddress DEF Where
<1>5. size = 786432 * q
  BY <1>1, <1>2, Powers DEF FrameSize
<1> HIDE DEF ra, ba, ca, t, a, size
<1>6. i * size = 786432 * (i * q) /\ (i + 1) * size = 786432 * (i * q) + 786432 * q
  BY <1>2, <1>5
<1> DEFINE n == i * q
<1>7. n \in Nat
  BY <1>2
<1>8. 24 * n <= ra /\ ra < 24 * n + 24 * q
  BY <1>3
<1>9. i * size = 786432 * n /\ (i + 1) * size = 786432 * n + 786432 * q
  BY <1>6
<1> HIDE DEF n
<1>10. a \in Nat /\ a % 8 = 0 /\ 786432 * n <= a /\ a + 8 <= 786432 * n + 786432 * q
  BY <1>2, <1>3, <1>7, <1>8 DEF InRow
<1>11. Base + a \in Nat /\ (Base + a) % 8 = 0
  BY <1>10, BaseAligned
<1>12. Base + i * size <= Base + a /\ (Base + a) + 8 <= Base + (i + 1) * size
  BY <1>2, <1>7, <1>9, <1>10, BaseAligned
<1> QED
  BY <1>4, <1>11, <1>12 DEF InFrame, size

(* Two blocks of a frame at one address are one: the row tells the tile,
   plane and field, column and bank the place in the tile. *)
LEMMA RowsApartFpga ==
  ASSUME NEW map \in RowMaps, ~Crooked(map, Fpga), NEW interleave \in BOOLEAN,
         NEW stride, NEW height, IsSize(stride, height), height % 256 # 1,
         NEW i \in Nat, i <= 21,
         NEW plane1, NEW y1, NEW x1, NEW s1,
         IsCell(interleave, stride, height, plane1, y1, x1, s1),
         NEW plane2, NEW y2, NEW x2, NEW s2,
         IsCell(interleave, stride, height, plane2, y2, x2, s2),
         Where(map, Fpga, stride, height, i, plane1, y1, x1, s1)
           = Where(map, Fpga, stride, height, i, plane2, y2, x2, s2)
  PROVE  plane1 = plane2 /\ y1 = y2 /\ x1 = x2
<1>1. PICK q : IsTiles(q, height) /\ ChrFieldRas(height \div 2, Fpga) = 8 * q
  BY TilesAre
<1>2. /\ q \in Nat /\ plane1 \in Planes /\ y1 \in Nat /\ x1 \in Nat /\ x1 % 8 = 0
      /\ plane2 \in Planes /\ y2 \in Nat /\ x2 \in Nat /\ x2 % 8 = 0 /\ i * q \in Nat
  BY <1>1 DEF IsTiles, IsCell
<1> DEFINE fb  == FrameAt(map, Fpga, stride, height, i)
           ra1 == RowNo(map, Fpga, plane1, y1, x1, fb)
           ba1 == BankNo(map, Fpga, plane1, y1, x1)
           ca1 == ColumnNo(map, Fpga, plane1, y1, x1)
           t1  == AxiMap(map, Fpga, plane1 # "y")
           ra2 == RowNo(map, Fpga, plane2, y2, x2, fb)
           ba2 == BankNo(map, Fpga, plane2, y2, x2)
           ca2 == ColumnNo(map, Fpga, plane2, y2, x2)
           t2  == AxiMap(map, Fpga, plane2 # "y")
<1>3. /\ IsFpgaAxi(t1) /\ ra1 \in Nat /\ ba1 \in Nat /\ ca1 \in Nat
      /\ InRow(Addressed(t1, ra1, ba1, ca1), ra1, 16384)
  BY <1>1, RowPartsFpga
<1>4. /\ IsFpgaAxi(t2) /\ ra2 \in Nat /\ ba2 \in Nat /\ ca2 \in Nat
      /\ InRow(Addressed(t2, ra2, ba2, ca2), ra2, 16384)
  BY <1>1, RowPartsFpga
<1>5. Addressed(t1, ra1, ba1, ca1) = Addressed(t2, ra2, ba2, ca2)
  <2>1. Base + Addressed(t1, ra1, ba1, ca1) = Base + Addressed(t2, ra2, ba2, ca2)
    BY <1>2, RowAddress DEF Where
  <2>2. Addressed(t1, ra1, ba1, ca1) \in Nat /\ Addressed(t2, ra2, ba2, ca2) \in Nat
    BY <1>3, <1>4 DEF InRow
  <2> HIDE DEF ra1, ba1, ca1, t1, ra2, ba2, ca2, t2
  <2> QED
    BY <2>1, <2>2, BaseAligned
<1>6. ra1 = ra2
  <2> HIDE DEF ra1, ba1, ca1, t1, ra2, ba2, ca2, t2
  <2> QED
    BY <1>3, <1>4, <1>5, RowTells
<1> DEFINE d1 == x1 \div 256
           e1 == Line(map, y1) \div 64
           o1 == OffsetFpga(plane1, Bottom(map, y1), q)
           d2 == x2 \div 256
           e2 == Line(map, y2) \div 64
           o2 == OffsetFpga(plane2, Bottom(map, y2), q)
<1>7. /\ plane1 = plane2 /\ d1 = d2 /\ e1 = e2 /\ Bottom(map, y1) = Bottom(map, y2)
  <2>1. ra1 = d1 + 8 * e1 + 48 * (i * q) + o1
    BY <1>1, <1>2, RowNoFpga
  <2>2. ra2 = d2 + 8 * e2 + 48 * (i * q) + o2
    BY <1>1, <1>2, RowNoFpga
  <2>3. /\ d1 \in Nat /\ e1 \in Nat /\ o1 \in Nat /\ d2 \in Nat /\ e2 \in Nat /\ o2 \in Nat
    BY <1>2 DEF Line, OffsetFpga, Planes
  <2>4. RoomFpga(map, interleave, plane1, d1, e1, q) /\ RoomFpga(map, interleave, plane2, d2, e2, q)
    BY <1>1, RoomFpgaIs
  <2> DEFINE n == i * q
  <2>5. n \in Nat /\ d1 + 8 * e1 + 48 * n + o1 = d2 + 8 * e2 + 48 * n + o2
    BY <1>2, <1>6, <2>1, <2>2
  <2> HIDE DEF d1, e1, o1, d2, e2, o2, ra1, ra2, n
  <2>6. d1 + 8 * e1 + o1 = d2 + 8 * e2 + o2
    BY <2>3, <2>5
  <2> QED
    BY <1>2, <2>4, <2>6, RowsDifferFpga DEF o1, o2
<1>8. t1 = t2
  BY <1>7
<1> DEFINE side == Side(plane1)
           line1 == Line(map, y1)
           line2 == Line(map, y2)
           tb1 == y1 % 2
           tb2 == y2 % 2
<1>9. /\ side \in Sides /\ line1 \in Nat /\ line2 \in Nat /\ tb1 \in Fields /\ tb2 \in Fields
      /\ map = "FIELD_V" => tb1 = tb2
  BY <1>2, <1>7 DEF Side, Sides, Line, Fields, Bottom
<1>10. Alike(x1, line1, x2, line2, 7)
  <2>1. SameTo(ca1, ca2, 9) /\ SameTo(ba1, ba2, 2)
    <3>1. OneAddress(t1, ra1, ba1, ca1, ra2, ba2, ca2)
      BY <1>3, <1>4, <1>5, <1>8 DEF OneAddress
    <3>2. OneColumn(t1, ra1, ba1, ca1, ra2, ba2, ca2, 9, 2)
      <4> HIDE DEF ra1, ba1, ca1, t1, ra2, ba2, ca2, t2
      <4> QED
        BY <1>3, <3>1, FpgaAddressTells
    <3> QED
      BY <3>2 DEF OneColumn
  <2>2. /\ ca1 = Converted(CasMap(map, Fpga), side, x1, line1, tb1)
        /\ ca2 = Converted(CasMap(map, Fpga), side, x2, line2, tb2)
        /\ ba1 = Converted(BankMap(map, Fpga), side, x1, line1, tb1)
        /\ ba2 = Converted(BankMap(map, Fpga), side, x2, line2, tb2)
    BY <1>7 DEF ColumnNo, BankNo
  <2> HIDE DEF ca1, ca2, ba1, ba2, side, line1, line2, tb1, tb2
  <2> QED
    BY <1>2, <1>9, <2>1, <2>2, FpgaTells
<1>11. x1 = x2 /\ line1 = line2
  <2> HIDE DEF line1, line2
  <2>1. line1 \div 64 = line2 \div 64
    BY <1>7 DEF line1, line2
  <2> QED
    BY <1>2, <1>7, <1>9, <1>10, <2>1, Tile
<1>12. y1 = y2
  BY <1>2, <1>9, <1>11 DEF Line
<1> QED
  BY <1>7, <1>11, <1>12

(* The same on the board. *)
LEMMA RowsApartBoard ==
  ASSUME NEW map \in RowMaps, ~Crooked(map, Board), NEW interleave \in BOOLEAN,
         NEW stride, NEW height, IsSize(stride, height), height % 256 # 1,
         NEW i \in Nat, i <= 21,
         NEW plane1, NEW y1, NEW x1, NEW s1,
         IsCell(interleave, stride, height, plane1, y1, x1, s1),
         NEW plane2, NEW y2, NEW x2, NEW s2,
         IsCell(interleave, stride, height, plane2, y2, x2, s2),
         Where(map, Board, stride, height, i, plane1, y1, x1, s1)
           = Where(map, Board, stride, height, i, plane2, y2, x2, s2)
  PROVE  plane1 = plane2 /\ y1 = y2 /\ x1 = x2
<1>1. PICK q : IsTiles(q, height) /\ ChrFieldRas(height \div 2, Board) = 4 * q
  BY TilesAre
<1>2. /\ q \in Nat /\ plane1 \in Planes /\ y1 \in Nat /\ x1 \in Nat /\ x1 % 8 = 0
      /\ plane2 \in Planes /\ y2 \in Nat /\ x2 \in Nat /\ x2 % 8 = 0 /\ i * q \in Nat
  BY <1>1 DEF IsTiles, IsCell
<1> DEFINE fb  == FrameAt(map, Board, stride, height, i)
           ra1 == RowNo(map, Board, plane1, y1, x1, fb)
           ba1 == BankNo(map, Board, plane1, y1, x1)
           ca1 == ColumnNo(map, Board, plane1, y1, x1)
           t1  == AxiMap(map, Board, plane1 # "y")
           ra2 == RowNo(map, Board, plane2, y2, x2, fb)
           ba2 == BankNo(map, Board, plane2, y2, x2)
           ca2 == ColumnNo(map, Board, plane2, y2, x2)
           t2  == AxiMap(map, Board, plane2 # "y")
<1>3. /\ IsBoardAxi(t1) /\ ra1 \in Nat /\ ba1 \in Nat /\ ca1 \in Nat
      /\ InRow(Addressed(t1, ra1, ba1, ca1), ra1, 32768)
  BY <1>1, RowPartsBoard
<1>4. /\ IsBoardAxi(t2) /\ ra2 \in Nat /\ ba2 \in Nat /\ ca2 \in Nat
      /\ InRow(Addressed(t2, ra2, ba2, ca2), ra2, 32768)
  BY <1>1, RowPartsBoard
<1>5. Addressed(t1, ra1, ba1, ca1) = Addressed(t2, ra2, ba2, ca2)
  <2>1. Base + Addressed(t1, ra1, ba1, ca1) = Base + Addressed(t2, ra2, ba2, ca2)
    BY <1>2, RowAddress DEF Where
  <2>2. Addressed(t1, ra1, ba1, ca1) \in Nat /\ Addressed(t2, ra2, ba2, ca2) \in Nat
    BY <1>3, <1>4 DEF InRow
  <2> HIDE DEF ra1, ba1, ca1, t1, ra2, ba2, ca2, t2
  <2> QED
    BY <2>1, <2>2, BaseAligned
<1>6. ra1 = ra2
  <2> HIDE DEF ra1, ba1, ca1, t1, ra2, ba2, ca2, t2
  <2> QED
    BY <1>3, <1>4, <1>5, RowTells
<1> DEFINE d1 == x1 \div 512
           e1 == Line(map, y1) \div 64
           o1 == OffsetBoard(plane1, Bottom(map, y1), q)
           d2 == x2 \div 512
           e2 == Line(map, y2) \div 64
           o2 == OffsetBoard(plane2, Bottom(map, y2), q)
<1>7. /\ plane1 = plane2 /\ d1 = d2 /\ e1 = e2 /\ Bottom(map, y1) = Bottom(map, y2)
  <2>1. ra1 = d1 + 4 * e1 + 24 * (i * q) + o1
    BY <1>1, <1>2, RowNoBoard
  <2>2. ra2 = d2 + 4 * e2 + 24 * (i * q) + o2
    BY <1>1, <1>2, RowNoBoard
  <2>3. /\ d1 \in Nat /\ e1 \in Nat /\ o1 \in Nat /\ d2 \in Nat /\ e2 \in Nat /\ o2 \in Nat
    BY <1>2 DEF Line, OffsetBoard, Planes
  <2>4. RoomBoard(map, interleave, plane1, d1, e1, q) /\ RoomBoard(map, interleave, plane2, d2, e2, q)
    BY <1>1, RoomBoardIs
  <2> DEFINE n == i * q
  <2>5. n \in Nat /\ d1 + 4 * e1 + 24 * n + o1 = d2 + 4 * e2 + 24 * n + o2
    BY <1>2, <1>6, <2>1, <2>2
  <2> HIDE DEF d1, e1, o1, d2, e2, o2, ra1, ra2, n
  <2>6. d1 + 4 * e1 + o1 = d2 + 4 * e2 + o2
    BY <2>3, <2>5
  <2> QED
    BY <1>2, <2>4, <2>6, RowsDifferBoard DEF o1, o2
<1>8. t1 = t2
  BY <1>7
<1> DEFINE side == Side(plane1)
           line1 == Line(map, y1)
           line2 == Line(map, y2)
           tb1 == y1 % 2
           tb2 == y2 % 2
<1>9. /\ side \in Sides /\ line1 \in Nat /\ line2 \in Nat /\ tb1 \in Fields /\ tb2 \in Fields
      /\ map = "FIELD_V" => tb1 = tb2
  BY <1>2, <1>7 DEF Side, Sides, Line, Fields, Bottom
<1>10. Alike(x1, line1, x2, line2, 8)
  <2>1. SameTo(ca1, ca2, 10) /\ SameTo(ba1, ba2, 3)
    <3>1. OneAddress(t1, ra1, ba1, ca1, ra2, ba2, ca2)
      BY <1>3, <1>4, <1>5, <1>8 DEF OneAddress
    <3>2. OneColumn(t1, ra1, ba1, ca1, ra2, ba2, ca2, 10, 3)
      <4> HIDE DEF ra1, ba1, ca1, t1, ra2, ba2, ca2, t2
      <4> QED
        BY <1>3, <3>1, BoardAddressTells
    <3> QED
      BY <3>2 DEF OneColumn
  <2>2. /\ ca1 = Converted(CasMap(map, Board), side, x1, line1, tb1)
        /\ ca2 = Converted(CasMap(map, Board), side, x2, line2, tb2)
        /\ ba1 = Converted(BankMap(map, Board), side, x1, line1, tb1)
        /\ ba2 = Converted(BankMap(map, Board), side, x2, line2, tb2)
    BY <1>7 DEF ColumnNo, BankNo
  <2> HIDE DEF ca1, ca2, ba1, ba2, side, line1, line2, tb1, tb2
  <2> QED
    BY <1>2, <1>9, <2>1, <2>2, BoardTells DEF Crooked
<1>11. x1 = x2 /\ line1 = line2
  <2> HIDE DEF line1, line2
  <2>1. line1 \div 64 = line2 \div 64
    BY <1>7 DEF line1, line2
  <2> QED
    BY <1>2, <1>7, <1>9, <1>10, <2>1, Tile
<1>12. y1 = y2
  BY <1>2, <1>9, <1>11 DEF Line
<1> QED
  BY <1>7, <1>11, <1>12

(***************************************************************************)
(* Where a block of a macroblock map lies.                                 *)
(***************************************************************************)
(* The bits of an address: k of the column in its block, and 24 of the     *)
(* block.                                                                  *)
IsMbAxi(t, k) ==
  /\ Len(t) = 27 + k
  /\ \A i \in 1 .. 3 : t[i] = <<"zero", 0>>
  /\ \A i \in 4 .. k + 3 : t[i] = <<"ca", i - 4>>
  /\ \A i \in k + 4 .. k + 11 : t[i] = <<"ca", i - k + 4>>
  /\ \A i \in k + 12 .. k + 27 : t[i] = <<"ra", i - k - 12>>

(* GetXY2AXIAddr makes column and row of the number of the block. *)
MbAddress(t, mb, c) == Addressed(t, mb \div 256, 0, (c % 256) + (mb % 256) * 256)

(* The table of address bits whose column has three bits. *)
LEMMA OfBlock3 ==
  IsMbAxi(OfBlock(2), 3)
<1> DEFINE g == OfBlock(2)
<1>2. Len(g) = 27 + 3
  BY DEF OfBlock, Zeros, Of
<1>3. \A i \in 1 .. 3 : g[i] = <<"zero", 0>>
  BY DEF OfBlock, Zeros, Of
<1>4. \A i \in 4 .. 3 + 3 : g[i] = <<"ca", i - 4>>
  BY DEF OfBlock, Zeros, Of
<1>5. \A i \in 3 + 4 .. 3 + 11 : g[i] = <<"ca", i - 3 + 4>>
  BY DEF OfBlock, Zeros, Of
<1>6. \A i \in 3 + 12 .. 3 + 27 : g[i] = <<"ra", i - 3 - 12>>
  BY DEF OfBlock, Zeros, Of
<1> HIDE DEF g
<1>7. IsMbAxi(g, 3)
  BY <1>2, <1>3, <1>4, <1>5, <1>6, Zenon DEF IsMbAxi
<1> QED
  BY <1>7 DEF g

(* Four bits. *)
LEMMA OfBlock4 ==
  IsMbAxi(OfBlock(3), 4)
<1> DEFINE g == OfBlock(3)
<1>2. Len(g) = 27 + 4
  BY DEF OfBlock, Zeros, Of
<1>3. \A i \in 1 .. 3 : g[i] = <<"zero", 0>>
  BY DEF OfBlock, Zeros, Of
<1>4. \A i \in 4 .. 4 + 3 : g[i] = <<"ca", i - 4>>
  BY DEF OfBlock, Zeros, Of
<1>5. \A i \in 4 + 4 .. 4 + 11 : g[i] = <<"ca", i - 4 + 4>>
  BY DEF OfBlock, Zeros, Of
<1>6. \A i \in 4 + 12 .. 4 + 27 : g[i] = <<"ra", i - 4 - 12>>
  BY DEF OfBlock, Zeros, Of
<1> HIDE DEF g
<1>7. IsMbAxi(g, 4)
  BY <1>2, <1>3, <1>4, <1>5, <1>6, Zenon DEF IsMbAxi
<1> QED
  BY <1>7 DEF g

(* Five bits. *)
LEMMA OfBlock5 ==
  IsMbAxi(OfBlock(4), 5)
<1> DEFINE g == OfBlock(4)
<1>2. Len(g) = 27 + 5
  BY DEF OfBlock, Zeros, Of
<1>3. \A i \in 1 .. 3 : g[i] = <<"zero", 0>>
  BY DEF OfBlock, Zeros, Of
<1>4. \A i \in 4 .. 5 + 3 : g[i] = <<"ca", i - 4>>
  BY DEF OfBlock, Zeros, Of
<1>5. \A i \in 5 + 4 .. 5 + 11 : g[i] = <<"ca", i - 5 + 4>>
  BY DEF OfBlock, Zeros, Of
<1>6. \A i \in 5 + 12 .. 5 + 27 : g[i] = <<"ra", i - 5 - 12>>
  BY DEF OfBlock, Zeros, Of
<1> HIDE DEF g
<1>7. IsMbAxi(g, 5)
  BY <1>2, <1>3, <1>4, <1>5, <1>6, Zenon DEF IsMbAxi
<1> QED
  BY <1>7 DEF g

(* Which of the three a map uses for a plane. *)
LEMMA AxiOfBlocks ==
  ASSUME NEW map, NEW dram, NEW plane
  PROVE  /\ map = "FRAME_MB_RASTER" /\ plane = "y" => IsMbAxi(AxiMap(map, dram, plane # "y"), 5)
         /\ map = "FRAME_MB_RASTER" /\ plane = "cb" => IsMbAxi(AxiMap(map, dram, plane # "y"), 4)
         /\ map = "FIELD_MB_RASTER" /\ plane = "y" => IsMbAxi(AxiMap(map, dram, plane # "y"), 4)
         /\ map = "FIELD_MB_RASTER" /\ plane = "cb" => IsMbAxi(AxiMap(map, dram, plane # "y"), 3)
<1>1. map = "FRAME_MB_RASTER" /\ plane = "y" => AxiMap(map, dram, plane # "y") = OfBlock(4)
  BY DEF AxiMap, RowMaps
<1>2. map = "FRAME_MB_RASTER" /\ plane = "cb" => AxiMap(map, dram, plane # "y") = OfBlock(3)
  BY DEF AxiMap, RowMaps
<1>3. map = "FIELD_MB_RASTER" /\ plane = "y" => AxiMap(map, dram, plane # "y") = OfBlock(3)
  BY DEF AxiMap, RowMaps
<1>4. map = "FIELD_MB_RASTER" /\ plane = "cb" => AxiMap(map, dram, plane # "y") = OfBlock(2)
  BY DEF AxiMap, RowMaps
<1> QED
  BY <1>1, <1>2, <1>3, <1>4, OfBlock3, OfBlock4, OfBlock5

(* The lowest digit of a number, by its bits. *)
LEMMA LowNibble ==
  \A w \in Nat : w % 16 = Bit(w, 0) + 2 * Bit(w, 1) + 4 * Bit(w, 2) + 8 * Bit(w, 3)
<1>1. \A w \in Nat : w % 16 = (w % 2) + 2 * ((w \div 2) % 2) + 4 * ((w \div 4) % 2)
                                + 8 * ((w \div 8) % 2)
  OBVIOUS
<1> QED
  BY <1>1 DEF Bit

(* The address of column c of block mb, with three bits of column. *)
LEMMA MbAddress3 ==
  ASSUME NEW t, IsMbAxi(t, 3), NEW mb \in Nat, mb < 65536, NEW c \in Nat, c < 8
  PROVE  MbAddress(t, mb, c) = 8 * c + 64 * mb
<1> DEFINE v == (c % 256) + (mb % 256) * 256
           r == mb \div 256
           b == AddressBits(t, 30, r, 0, v)
<1>1. MbAddress(t, mb, c) = Value(b)
  BY DEF MbAddress, Addressed, AddressBits, IsMbAxi
<1>2. /\ Len(b) = 30
      /\ \A i \in 1 .. 3 : b[i] = Bit(0, 0)
      /\ \A i \in 4 .. 6 : b[i] = Bit(v, i - 4)
      /\ \A i \in 7 .. 14 : b[i] = Bit(v, i - 3 + 4)
      /\ \A i \in 15 .. 30 : b[i] = Bit(r, i - 3 - 12)
  BY DEF AddressBits, IsMbAxi
<1>3. v \in Nat /\ r \in Nat
  OBVIOUS
<1>14. v % 16 = Bit(v, 0) + 2 * Bit(v, 1) + 4 * Bit(v, 2) + 8 * Bit(v, 3)
  <2> HIDE DEF v
  <2> QED
    BY <1>3, LowNibble
<1>4. /\ v % 16 = c % 16 /\ (v \div 16) % 16 = c \div 16
      /\ (v \div 256) % 16 = mb % 16 /\ (v \div 4096) % 16 = (mb \div 16) % 16
  <2>1. c % 256 = c
    OBVIOUS
  <2> DEFINE w == mb % 256
  <2>2. w \in Nat /\ w < 256 /\ w % 16 = mb % 16 /\ w \div 16 = (mb \div 16) % 16
    OBVIOUS
  <2>3. v = c + w * 256
    BY <2>1
  <2> HIDE DEF v, w
  <2>4. v % 16 = c % 16 /\ v \div 256 = w /\ v \div 4096 = w \div 16
    BY <2>2, <2>3
  <2>5. (v \div 16) % 16 = c \div 16
    BY <2>2, <2>3
  <2> QED
    BY <2>2, <2>4, <2>5
<1>5. /\ r % 16 = (mb \div 256) % 16 /\ (r \div 16) % 16 = mb \div 4096
      /\ (r \div 256) % 16 = 0 /\ (r \div 4096) % 16 = 0
  OBVIOUS
<1> HIDE DEF b, v, r
<1>6. Bit(0, 0) = 0
  BY DEF Bit
<1>7. \A i \in 1 .. 30 : b[i] \in {0, 1}
  BY <1>2, <1>3, <1>6, BitsAre
<1>8. IsBits(b, 30)
  BY <1>2, <1>7 DEF IsBits
<1>9. PICK f : AreHighest(f, b, 30)
  BY <1>8, HighestBits, 30 \in Nat
<1>10. /\ f[0] = 0 /\ f[30] = Value(b)
       /\ f[4] = b[27] + 2 * b[28] + 4 * b[29] + 8 * b[30] + 16 * f[0]
       /\ f[8] = b[23] + 2 * b[24] + 4 * b[25] + 8 * b[26] + 16 * f[4]
       /\ f[12] = b[19] + 2 * b[20] + 4 * b[21] + 8 * b[22] + 16 * f[8]
       /\ f[16] = b[15] + 2 * b[16] + 4 * b[17] + 8 * b[18] + 16 * f[12]
       /\ f[20] = b[11] + 2 * b[12] + 4 * b[13] + 8 * b[14] + 16 * f[16]
       /\ f[24] = b[7] + 2 * b[8] + 4 * b[9] + 8 * b[10] + 16 * f[20]
       /\ f[25] = b[6] + 2 * f[24]
       /\ f[26] = b[5] + 2 * f[25]
       /\ f[27] = b[4] + 2 * f[26]
       /\ f[28] = b[3] + 2 * f[27]
       /\ f[29] = b[2] + 2 * f[28]
       /\ f[30] = b[1] + 2 * f[29]
  BY <1>9 DEF AreHighest
<1>11. f[24] = mb
  <2>1. /\ f[4] \in Nat /\ f[8] \in Nat /\ f[12] \in Nat /\ f[16] \in Nat /\ f[20] \in Nat
        /\ f[24] \in Nat
    BY <1>9 DEF AreHighest
  <2>2. /\ b[27] + 2 * b[28] + 4 * b[29] + 8 * b[30] = (r \div 4096) % 16
        /\ b[23] + 2 * b[24] + 4 * b[25] + 8 * b[26] = (r \div 256) % 16
        /\ b[19] + 2 * b[20] + 4 * b[21] + 8 * b[22] = (r \div 16) % 16
        /\ b[15] + 2 * b[16] + 4 * b[17] + 8 * b[18] = r % 16
    BY <1>2, <1>3, NumberIs
  <2>3. /\ b[11] + 2 * b[12] + 4 * b[13] + 8 * b[14] = (v \div 4096) % 16
        /\ b[7] + 2 * b[8] + 4 * b[9] + 8 * b[10] = (v \div 256) % 16
    BY <1>2, <1>3, NumberIs
  <2>4. f[4] = 0 /\ f[8] = 0 /\ f[12] = mb \div 4096
    BY <1>5, <1>10, <2>1, <2>2
  <2>5. /\ f[16] = ((mb \div 256) % 16) + 16 * (mb \div 4096)
        /\ f[20] = ((mb \div 16) % 16) + 16 * f[16]
        /\ f[24] = (mb % 16) + 16 * f[20]
    BY <1>4, <1>5, <1>10, <2>1, <2>2, <2>3, <2>4
  <2> QED
    BY <2>1, <2>5
<1>12. f[27] = c + 8 * mb
  <2>1. b[4] = Bit(v, 0) /\ b[5] = Bit(v, 1) /\ b[6] = Bit(v, 2)
    BY <1>2
  <2>2. Bit(v, 0) = c % 2 /\ Bit(v, 1) = (c \div 2) % 2 /\ Bit(v, 2) = c \div 4
    <3>1. Bit(v, 0) = v % 2 /\ Bit(v, 1) = (v \div 2) % 2 /\ Bit(v, 2) = (v \div 4) % 2
      BY <1>3 DEF Bit
    <3>2. /\ v % 2 = (v % 16) % 2 /\ (v \div 2) % 2 = ((v % 16) \div 2) % 2
          /\ (v \div 4) % 2 = ((v % 16) \div 4) % 2
      BY <1>3
    <3>3. v % 16 = c
      BY <1>4
    <3> QED
      BY <3>1, <3>2, <3>3
  <2>3. /\ f[25] = (c \div 4) + 2 * mb /\ f[26] = ((c \div 2) % 2) + 2 * f[25]
        /\ f[27] = (c % 2) + 2 * f[26]
    BY <1>10, <1>11, <2>1, <2>2
  <2> QED
    BY <2>3
<1>13. b[1] = 0 /\ b[2] = 0 /\ b[3] = 0
  BY <1>2, <1>6
<1> QED
  BY <1>1, <1>10, <1>12, <1>13

(* With four. *)
LEMMA MbAddress4 ==
  ASSUME NEW t, IsMbAxi(t, 4), NEW mb \in Nat, mb < 65536, NEW c \in Nat, c < 16
  PROVE  MbAddress(t, mb, c) = 8 * c + 128 * mb
<1> DEFINE v == (c % 256) + (mb % 256) * 256
           r == mb \div 256
           b == AddressBits(t, 31, r, 0, v)
<1>1. MbAddress(t, mb, c) = Value(b)
  BY DEF MbAddress, Addressed, AddressBits, IsMbAxi
<1>2. /\ Len(b) = 31
      /\ \A i \in 1 .. 3 : b[i] = Bit(0, 0)
      /\ \A i \in 4 .. 7 : b[i] = Bit(v, i - 4)
      /\ \A i \in 8 .. 15 : b[i] = Bit(v, i - 4 + 4)
      /\ \A i \in 16 .. 31 : b[i] = Bit(r, i - 4 - 12)
  BY DEF AddressBits, IsMbAxi
<1>3. v \in Nat /\ r \in Nat
  OBVIOUS
<1>14. v % 16 = Bit(v, 0) + 2 * Bit(v, 1) + 4 * Bit(v, 2) + 8 * Bit(v, 3)
  <2> HIDE DEF v
  <2> QED
    BY <1>3, LowNibble
<1>4. /\ v % 16 = c % 16 /\ (v \div 16) % 16 = c \div 16
      /\ (v \div 256) % 16 = mb % 16 /\ (v \div 4096) % 16 = (mb \div 16) % 16
  <2>1. c % 256 = c
    OBVIOUS
  <2> DEFINE w == mb % 256
  <2>2. w \in Nat /\ w < 256 /\ w % 16 = mb % 16 /\ w \div 16 = (mb \div 16) % 16
    OBVIOUS
  <2>3. v = c + w * 256
    BY <2>1
  <2> HIDE DEF v, w
  <2>4. v % 16 = c % 16 /\ v \div 256 = w /\ v \div 4096 = w \div 16
    BY <2>2, <2>3
  <2>5. (v \div 16) % 16 = c \div 16
    BY <2>2, <2>3
  <2> QED
    BY <2>2, <2>4, <2>5
<1>5. /\ r % 16 = (mb \div 256) % 16 /\ (r \div 16) % 16 = mb \div 4096
      /\ (r \div 256) % 16 = 0 /\ (r \div 4096) % 16 = 0
  OBVIOUS
<1> HIDE DEF b, v, r
<1>6. Bit(0, 0) = 0
  BY DEF Bit
<1>7. \A i \in 1 .. 31 : b[i] \in {0, 1}
  BY <1>2, <1>3, <1>6, BitsAre
<1>8. IsBits(b, 31)
  BY <1>2, <1>7 DEF IsBits
<1>9. PICK f : AreHighest(f, b, 31)
  BY <1>8, HighestBits, 31 \in Nat
<1>10. /\ f[0] = 0 /\ f[31] = Value(b)
       /\ f[4] = b[28] + 2 * b[29] + 4 * b[30] + 8 * b[31] + 16 * f[0]
       /\ f[8] = b[24] + 2 * b[25] + 4 * b[26] + 8 * b[27] + 16 * f[4]
       /\ f[12] = b[20] + 2 * b[21] + 4 * b[22] + 8 * b[23] + 16 * f[8]
       /\ f[16] = b[16] + 2 * b[17] + 4 * b[18] + 8 * b[19] + 16 * f[12]
       /\ f[20] = b[12] + 2 * b[13] + 4 * b[14] + 8 * b[15] + 16 * f[16]
       /\ f[24] = b[8] + 2 * b[9] + 4 * b[10] + 8 * b[11] + 16 * f[20]
       /\ f[28] = b[4] + 2 * b[5] + 4 * b[6] + 8 * b[7] + 16 * f[24]
       /\ f[29] = b[3] + 2 * f[28]
       /\ f[30] = b[2] + 2 * f[29]
       /\ f[31] = b[1] + 2 * f[30]
  BY <1>9 DEF AreHighest
<1>11. f[24] = mb
  <2>1. /\ f[4] \in Nat /\ f[8] \in Nat /\ f[12] \in Nat /\ f[16] \in Nat /\ f[20] \in Nat
        /\ f[24] \in Nat
    BY <1>9 DEF AreHighest
  <2>2. /\ b[28] + 2 * b[29] + 4 * b[30] + 8 * b[31] = (r \div 4096) % 16
        /\ b[24] + 2 * b[25] + 4 * b[26] + 8 * b[27] = (r \div 256) % 16
        /\ b[20] + 2 * b[21] + 4 * b[22] + 8 * b[23] = (r \div 16) % 16
        /\ b[16] + 2 * b[17] + 4 * b[18] + 8 * b[19] = r % 16
    BY <1>2, <1>3, NumberIs
  <2>3. /\ b[12] + 2 * b[13] + 4 * b[14] + 8 * b[15] = (v \div 4096) % 16
        /\ b[8] + 2 * b[9] + 4 * b[10] + 8 * b[11] = (v \div 256) % 16
    BY <1>2, <1>3, NumberIs
  <2>4. f[4] = 0 /\ f[8] = 0 /\ f[12] = mb \div 4096
    BY <1>5, <1>10, <2>1, <2>2
  <2>5. /\ f[16] = ((mb \div 256) % 16) + 16 * (mb \div 4096)
        /\ f[20] = ((mb \div 16) % 16) + 16 * f[16]
        /\ f[24] = (mb % 16) + 16 * f[20]
    BY <1>4, <1>5, <1>10, <2>1, <2>2, <2>3, <2>4
  <2> QED
    BY <2>1, <2>5
<1>12. f[28] = c + 16 * mb
  <2>1. b[4] + 2 * b[5] + 4 * b[6] + 8 * b[7] = v % 16
    BY <1>2, <1>14
  <2>2. f[28] = (c % 16) + 16 * mb
    BY <1>4, <1>10, <1>11, <2>1
  <2> QED
    BY <2>2
<1>13. b[1] = 0 /\ b[2] = 0 /\ b[3] = 0
  BY <1>2, <1>6
<1> QED
  BY <1>1, <1>10, <1>12, <1>13

(* With five. *)
LEMMA MbAddress5 ==
  ASSUME NEW t, IsMbAxi(t, 5), NEW mb \in Nat, mb < 65536, NEW c \in Nat, c < 32
  PROVE  MbAddress(t, mb, c) = 8 * c + 256 * mb
<1> DEFINE v == (c % 256) + (mb % 256) * 256
           r == mb \div 256
           b == AddressBits(t, 32, r, 0, v)
<1>1. MbAddress(t, mb, c) = Value(b)
  BY DEF MbAddress, Addressed, AddressBits, IsMbAxi
<1>2. /\ Len(b) = 32
      /\ \A i \in 1 .. 3 : b[i] = Bit(0, 0)
      /\ \A i \in 4 .. 8 : b[i] = Bit(v, i - 4)
      /\ \A i \in 9 .. 16 : b[i] = Bit(v, i - 5 + 4)
      /\ \A i \in 17 .. 32 : b[i] = Bit(r, i - 5 - 12)
  BY DEF AddressBits, IsMbAxi
<1>3. v \in Nat /\ r \in Nat
  OBVIOUS
<1>14. v % 16 = Bit(v, 0) + 2 * Bit(v, 1) + 4 * Bit(v, 2) + 8 * Bit(v, 3)
  <2> HIDE DEF v
  <2> QED
    BY <1>3, LowNibble
<1>4. /\ v % 16 = c % 16 /\ (v \div 16) % 16 = c \div 16
      /\ (v \div 256) % 16 = mb % 16 /\ (v \div 4096) % 16 = (mb \div 16) % 16
  <2>1. c % 256 = c
    OBVIOUS
  <2> DEFINE w == mb % 256
  <2>2. w \in Nat /\ w < 256 /\ w % 16 = mb % 16 /\ w \div 16 = (mb \div 16) % 16
    OBVIOUS
  <2>3. v = c + w * 256
    BY <2>1
  <2> HIDE DEF v, w
  <2>4. v % 16 = c % 16 /\ v \div 256 = w /\ v \div 4096 = w \div 16
    BY <2>2, <2>3
  <2>5. (v \div 16) % 16 = c \div 16
    BY <2>2, <2>3
  <2> QED
    BY <2>2, <2>4, <2>5
<1>5. /\ r % 16 = (mb \div 256) % 16 /\ (r \div 16) % 16 = mb \div 4096
      /\ (r \div 256) % 16 = 0 /\ (r \div 4096) % 16 = 0
  OBVIOUS
<1> HIDE DEF b, v, r
<1>6. Bit(0, 0) = 0
  BY DEF Bit
<1>7. \A i \in 1 .. 32 : b[i] \in {0, 1}
  BY <1>2, <1>3, <1>6, BitsAre
<1>8. IsBits(b, 32)
  BY <1>2, <1>7 DEF IsBits
<1>9. PICK f : AreHighest(f, b, 32)
  BY <1>8, HighestBits, 32 \in Nat
<1>10. /\ f[0] = 0 /\ f[32] = Value(b)
       /\ f[4] = b[29] + 2 * b[30] + 4 * b[31] + 8 * b[32] + 16 * f[0]
       /\ f[8] = b[25] + 2 * b[26] + 4 * b[27] + 8 * b[28] + 16 * f[4]
       /\ f[12] = b[21] + 2 * b[22] + 4 * b[23] + 8 * b[24] + 16 * f[8]
       /\ f[16] = b[17] + 2 * b[18] + 4 * b[19] + 8 * b[20] + 16 * f[12]
       /\ f[20] = b[13] + 2 * b[14] + 4 * b[15] + 8 * b[16] + 16 * f[16]
       /\ f[24] = b[9] + 2 * b[10] + 4 * b[11] + 8 * b[12] + 16 * f[20]
       /\ f[25] = b[8] + 2 * f[24]
       /\ f[29] = b[4] + 2 * b[5] + 4 * b[6] + 8 * b[7] + 16 * f[25]
       /\ f[30] = b[3] + 2 * f[29]
       /\ f[31] = b[2] + 2 * f[30]
       /\ f[32] = b[1] + 2 * f[31]
  BY <1>9 DEF AreHighest
<1>11. f[24] = mb
  <2>1. /\ f[4] \in Nat /\ f[8] \in Nat /\ f[12] \in Nat /\ f[16] \in Nat /\ f[20] \in Nat
        /\ f[24] \in Nat
    BY <1>9 DEF AreHighest
  <2>2. /\ b[29] + 2 * b[30] + 4 * b[31] + 8 * b[32] = (r \div 4096) % 16
        /\ b[25] + 2 * b[26] + 4 * b[27] + 8 * b[28] = (r \div 256) % 16
        /\ b[21] + 2 * b[22] + 4 * b[23] + 8 * b[24] = (r \div 16) % 16
        /\ b[17] + 2 * b[18] + 4 * b[19] + 8 * b[20] = r % 16
    BY <1>2, <1>3, NumberIs
  <2>3. /\ b[13] + 2 * b[14] + 4 * b[15] + 8 * b[16] = (v \div 4096) % 16
        /\ b[9] + 2 * b[10] + 4 * b[11] + 8 * b[12] = (v \div 256) % 16
    BY <1>2, <1>3, NumberIs
  <2>4. f[4] = 0 /\ f[8] = 0 /\ f[12] = mb \div 4096
    BY <1>5, <1>10, <2>1, <2>2
  <2>5. /\ f[16] = ((mb \div 256) % 16) + 16 * (mb \div 4096)
        /\ f[20] = ((mb \div 16) % 16) + 16 * f[16]
        /\ f[24] = (mb % 16) + 16 * f[20]
    BY <1>4, <1>5, <1>10, <2>1, <2>2, <2>3, <2>4
  <2> QED
    BY <2>1, <2>5
<1>12. f[29] = c + 32 * mb
  <2>1. b[4] + 2 * b[5] + 4 * b[6] + 8 * b[7] = v % 16 /\ b[8] = Bit(v, 4)
    BY <1>2, <1>14
  <2>2. Bit(v, 4) = c \div 16
    <3>1. Bit(v, 4) = (v \div 16) % 2
      BY <1>3 DEF Bit
    <3>2. (v \div 16) % 2 = ((v \div 16) % 16) % 2
      BY <1>3
    <3> QED
      BY <1>4, <3>1, <3>2
  <2>3. f[25] = (c \div 16) + 2 * mb /\ f[29] = (c % 16) + 16 * f[25]
    BY <1>4, <1>10, <1>11, <2>1, <2>2
  <2> QED
    BY <2>3
<1>13. b[1] = 0 /\ b[2] = 0 /\ b[3] = 0
  BY <1>2, <1>6
<1> QED
  BY <1>1, <1>10, <1>12, <1>13

(* The column is made of a line and a half of a block. *)
MbLines(map, plane) ==
  IF map = "FRAME_MB_RASTER" THEN (IF plane = "y" THEN 16 ELSE 8)
                             ELSE (IF plane = "y" THEN 8 ELSE 4)
MbColumn(map, plane, x, line) ==
  (line % MbLines(map, plane)) + MbLines(map, plane) * ((x \div 8) % 2)

(* The table of columns of FRAME_MB_RASTER. *)
LEMMA CasFrameMb ==
  ASSUME NEW dram
  PROVE  LET t == CasMap("FRAME_MB_RASTER", dram)
         IN /\ IsTable(t, 5)
            /\ t[1] = <<16, 16>> /\ t[2] = <<17, 17>> /\ t[3] = <<18, 18>>
            /\ t[4] = <<19, 3>> /\ t[5] = <<3, 64>>
BY DEF CasMap, Ys, IsTable, ZeroEntry, RowMaps

(* That of FIELD_MB_RASTER. *)
LEMMA CasFieldMb ==
  ASSUME NEW dram
  PROVE  LET t == CasMap("FIELD_MB_RASTER", dram)
         IN /\ IsTable(t, 4)
            /\ t[1] = <<16, 16>> /\ t[2] = <<17, 17>>
            /\ t[3] = <<18, 3>> /\ t[4] = <<3, 64>>
BY DEF CasMap, Ys, IsTable, ZeroEntry, RowMaps

(* The lowest bits of a number. *)
LEMMA Octal ==
  \A v \in Nat : /\ v % 8 = Bit(v, 0) + 2 * Bit(v, 1) + 4 * Bit(v, 2)
                 /\ v % 4 = Bit(v, 0) + 2 * Bit(v, 1)
                 /\ Bit(v, 3) = (v \div 8) % 2
<1>1. \A v \in Nat : v % 8 = (v % 2) + 2 * ((v \div 2) % 2) + 4 * ((v \div 4) % 2)
  OBVIOUS
<1>2. \A v \in Nat : v % 4 = (v % 2) + 2 * ((v \div 2) % 2)
  OBVIOUS
<1> QED
  BY <1>1, <1>2 DEF Bit

(* The column of a position: its line in the block, and which half of it. *)
LEMMA FrameMbColumn ==
  ASSUME NEW dram, NEW side \in Sides, NEW x \in Nat, NEW line \in Nat, NEW tb \in Fields
  PROVE  Converted(CasMap("FRAME_MB_RASTER", dram), side, x, line, tb)
           = IF side = 1 THEN (line % 16) + 16 * ((x \div 8) % 2)
                         ELSE (line % 8) + 8 * ((x \div 8) % 2)
<1> DEFINE t == CasMap("FRAME_MB_RASTER", dram)
           b == Picked(t, 5, side, x, line, tb)
<1>1. IsTable(t, 5)
  BY CasFrameMb
<1>2. Converted(t, side, x, line, tb) = Value(b) /\ IsBits(b, 5)
  BY <1>1, ConvertedIs, 5 \in Nat
<1>3. /\ b[1] = XyBit(t[1][side], x, line, tb) /\ b[2] = XyBit(t[2][side], x, line, tb)
      /\ b[3] = XyBit(t[3][side], x, line, tb) /\ b[4] = XyBit(t[4][side], x, line, tb)
      /\ b[5] = XyBit(t[5][side], x, line, tb)
  BY DEF Picked
<1> HIDE DEF b
<1>4. PICK f : AreHighest(f, b, 5)
  BY <1>2, HighestBits, 5 \in Nat
<1>5. /\ f[0] = 0 /\ f[5] = Value(b) /\ f[1] = b[5] + 2 * f[0]
      /\ f[5] = b[1] + 2 * b[2] + 4 * b[3] + 8 * b[4] + 16 * f[1]
  BY <1>4 DEF AreHighest
<1>6. b[1] \in Nat /\ b[2] \in Nat /\ b[3] \in Nat /\ b[4] \in Nat /\ b[5] \in Nat
  BY <1>2 DEF IsBits
<1>7. Value(b) = b[1] + 2 * b[2] + 4 * b[3] + 8 * b[4] + 16 * b[5]
  BY <1>5, <1>6
<1>8. CASE side = 1
  <2>1. /\ b[1] = Bit(line, 0) /\ b[2] = Bit(line, 1) /\ b[3] = Bit(line, 2)
        /\ b[4] = Bit(line, 3) /\ b[5] = Bit(x, 3)
    BY <1>3, <1>8, CasFrameMb, XyBits
  <2> QED
    BY <1>2, <1>7, <1>8, <2>1, LowNibble, Octal
<1>9. CASE side = 2
  <2>1. /\ b[1] = Bit(line, 0) /\ b[2] = Bit(line, 1) /\ b[3] = Bit(line, 2)
        /\ b[4] = Bit(x, 3) /\ b[5] = 0
    BY <1>3, <1>9, CasFrameMb, XyBits
  <2>2. line % 8 = b[1] + 2 * b[2] + 4 * b[3] /\ (x \div 8) % 2 = b[4]
    BY <2>1, Octal
  <2>3. Value(b) = (line % 8) + 8 * ((x \div 8) % 2)
    BY <1>6, <1>7, <2>1, <2>2
  <2> QED
    BY <1>2, <1>9, <2>3
<1> QED
  BY <1>8, <1>9 DEF Sides

(* The same with the fields apart. *)
LEMMA FieldMbColumn ==
  ASSUME NEW dram, NEW side \in Sides, NEW x \in Nat, NEW line \in Nat, NEW tb \in Fields
  PROVE  Converted(CasMap("FIELD_MB_RASTER", dram), side, x, line, tb)
           = IF side = 1 THEN (line % 8) + 8 * ((x \div 8) % 2)
                         ELSE (line % 4) + 4 * ((x \div 8) % 2)
<1> DEFINE t == CasMap("FIELD_MB_RASTER", dram)
           b == Picked(t, 4, side, x, line, tb)
<1>1. IsTable(t, 4)
  BY CasFieldMb
<1>2. Converted(t, side, x, line, tb) = Value(b) /\ IsBits(b, 4)
  BY <1>1, ConvertedIs, 4 \in Nat
<1>3. /\ b[1] = XyBit(t[1][side], x, line, tb) /\ b[2] = XyBit(t[2][side], x, line, tb)
      /\ b[3] = XyBit(t[3][side], x, line, tb) /\ b[4] = XyBit(t[4][side], x, line, tb)
  BY DEF Picked
<1> HIDE DEF b
<1>4. Value(b) = b[1] + 2 * b[2] + 4 * b[3] + 8 * b[4]
  BY <1>2, Nibble
<1>8. CASE side = 1
  <2>1. /\ b[1] = Bit(line, 0) /\ b[2] = Bit(line, 1) /\ b[3] = Bit(line, 2)
        /\ b[4] = Bit(x, 3)
    BY <1>3, <1>8, CasFieldMb, XyBits
  <2> QED
    BY <1>2, <1>4, <1>8, <2>1, Octal
<1>9. CASE side = 2
  <2>1. /\ b[1] = Bit(line, 0) /\ b[2] = Bit(line, 1) /\ b[3] = Bit(x, 3) /\ b[4] = 0
    BY <1>3, <1>9, CasFieldMb, XyBits
  <2>2. b[1] \in Nat /\ b[2] \in Nat /\ b[3] \in Nat
    BY <1>2 DEF IsBits
  <2>3. line % 4 = b[1] + 2 * b[2] /\ (x \div 8) % 2 = b[3]
    BY <2>1, Octal
  <2>4. Value(b) = (line % 4) + 4 * ((x \div 8) % 2)
    BY <1>4, <2>1, <2>2, <2>3
  <2> QED
    BY <1>2, <1>9, <2>4
<1> QED
  BY <1>8, <1>9 DEF Sides

MbLine(map, y)   == IF map = "FIELD_MB_RASTER" THEN y \div 2 ELSE y
MbBottom(map, y) == map = "FIELD_MB_RASTER" /\ y % 2 = 1
MbNo(plane, y, x, s) ==
  (s \div 16) * (y \div (IF plane # "y" THEN 8 ELSE 16)) + x \div 16
MbPage(map, plane, y, fb) ==
  IF plane = "y" THEN (IF MbBottom(map, y) THEN fb.lumBot ELSE fb.lumTop)
                 ELSE (IF MbBottom(map, y) THEN fb.chrBot ELSE fb.chrTop)

(* The planes of a macroblock map: the colours share one. *)
MbPlanes == {"y", "cb"}

(* The branch of GetXY2AXIAddr for the macroblock maps. *)
BlockAt(cfg, plane, posY, posX, stride, fb) ==
  LET tb     == posY % 2
      y      == IF cfg.tbSeparateMap THEN posY \div 2 ELSE posY
      chroma == plane # "y"
      side   == IF chroma THEN 2 ELSE 1
      bottom == cfg.tbSeparateMap /\ tb = 1
      ca     == Converted(cfg.cas, side, posX, y, tb)
      mb     == (stride \div 16) * (posY \div (IF chroma THEN 8 ELSE 16))
                  + posX \div 16
      page   == CASE ~chroma /\ bottom  -> fb.lumBot
                  [] ~chroma /\ ~bottom -> fb.lumTop
                  [] chroma /\ bottom   -> fb.chrBot
                  [] chroma /\ ~bottom  -> fb.chrTop
  IN page * 4096 + Addressed(cfg.axi[chroma], mb \div 256, 0,
                             (ca % 256) + (mb % 256) * 256)

(* GetXY2AXIAddr for a macroblock map, in these terms. *)
LEMMA MbAddressed ==
  ASSUME NEW map \in MbMaps, NEW dram, NEW plane \in MbPlanes,
         NEW y \in Nat, NEW x \in Nat, NEW s, NEW fb
  PROVE  GetXY2AXIAddr(SetTiledMapType(map, dram), plane, y, x, s, fb)
           = MbPage(map, plane, y, fb) * 4096
               + MbAddress(AxiMap(map, dram, plane # "y"), MbNo(plane, y, x, s),
                           MbColumn(map, plane, x, MbLine(map, y)))
<1> DEFINE side == Side(plane)
           line == MbLine(map, y)
           tb   == y % 2
           ca   == Converted(CasMap(map, dram), side, x, line, tb)
<1>1. ca = MbColumn(map, plane, x, line)
  <2>1. line \in Nat /\ side \in Sides /\ tb \in Fields
    BY DEF MbLine, Side, Sides, Fields
  <2>2. side = IF plane = "y" THEN 1 ELSE 2
    BY DEF Side
  <2> HIDE DEF line, side, tb
  <2>3. CASE map = "FRAME_MB_RASTER"
    <3>1. ca = IF side = 1 THEN (line % 16) + 16 * ((x \div 8) % 2)
                           ELSE (line % 8) + 8 * ((x \div 8) % 2)
      BY <2>1, <2>3, FrameMbColumn
    <3> HIDE DEF ca
    <3> QED
      BY <2>2, <2>3, <3>1 DEF MbColumn, MbLines
  <2>4. CASE map = "FIELD_MB_RASTER"
    <3>1. ca = IF side = 1 THEN (line % 8) + 8 * ((x \div 8) % 2)
                           ELSE (line % 4) + 4 * ((x \div 8) % 2)
      BY <2>1, <2>4, FieldMbColumn
    <3> HIDE DEF ca
    <3> QED
      BY <2>2, <2>4, <3>1 DEF MbColumn, MbLines
  <2> QED
    BY <2>3, <2>4 DEF MbMaps
<1> DEFINE cfg == SetTiledMapType(map, dram)
<1>2. /\ cfg.mapType = map /\ cfg.cas = CasMap(map, dram)
      /\ cfg.tbSeparateMap <=> map = "FIELD_MB_RASTER"
  BY DEF SetTiledMapType, MbMaps
<1>3. cfg.axi[plane # "y"] = AxiMap(map, dram, plane # "y")
  BY DEF SetTiledMapType
<1>4. cfg.mapType # "LINEAR" /\ cfg.mapType \in MbMaps /\ cfg.mapType \notin RowMaps
  BY <1>2 DEF MbMaps, RowMaps
<1> HIDE DEF cfg
<1>5. GetXY2AXIAddr(cfg, plane, y, x, s, fb) = BlockAt(cfg, plane, y, x, s, fb)
  BY <1>4, Zenon DEF GetXY2AXIAddr, BlockAt
<1> DEFINE column == Converted(cfg.cas, IF plane # "y" THEN 2 ELSE 1, x,
                               IF cfg.tbSeparateMap THEN y \div 2 ELSE y, y % 2)
           no     == (s \div 16) * (y \div (IF plane # "y" THEN 8 ELSE 16)) + x \div 16
           page   == CASE ~(plane # "y") /\ (cfg.tbSeparateMap /\ y % 2 = 1)  -> fb.lumBot
                       [] ~(plane # "y") /\ ~(cfg.tbSeparateMap /\ y % 2 = 1) -> fb.lumTop
                       [] plane # "y" /\ (cfg.tbSeparateMap /\ y % 2 = 1)     -> fb.chrBot
                       [] plane # "y" /\ ~(cfg.tbSeparateMap /\ y % 2 = 1)    -> fb.chrTop
<1>6. BlockAt(cfg, plane, y, x, s, fb)
        = page * 4096 + Addressed(cfg.axi[plane # "y"], no \div 256, 0,
                                  (column % 256) + (no % 256) * 256)
  BY Zenon DEF BlockAt
<1>7. page = MbPage(map, plane, y, fb)
  BY <1>2 DEF MbPage, MbBottom
<1>8. no = MbNo(plane, y, x, s)
  BY DEF MbNo
<1>9. column = ca
  BY <1>2 DEF MbLine, Side
<1> HIDE DEF ca, column, no, page
<1>10. BlockAt(cfg, plane, y, x, s, fb)
         = MbPage(map, plane, y, fb) * 4096
             + Addressed(AxiMap(map, dram, plane # "y"), MbNo(plane, y, x, s) \div 256, 0,
                         (ca % 256) + (MbNo(plane, y, x, s) % 256) * 256)
  BY <1>3, <1>6, <1>7, <1>8, <1>9
<1>11. ca = MbColumn(map, plane, x, MbLine(map, y))
  BY <1>1
<1> QED
  BY <1>5, <1>10, <1>11 DEF MbAddress, cfg

(* A position in a block, c, and its bytes. *)
LEMMA MbColumnIs ==
  ASSUME NEW map \in MbMaps, NEW plane \in MbPlanes, NEW x \in Nat, NEW line \in Nat
  PROVE  /\ MbColumn(map, plane, x, line) \in Nat
         /\ MbColumn(map, plane, x, line) < 2 * MbLines(map, plane)
<1>1. MbLines(map, plane) = 16 \/ MbLines(map, plane) = 8 \/ MbLines(map, plane) = 4
  BY DEF MbLines
<1>2. (x \div 8) % 2 \in {0, 1}
  OBVIOUS
<1> DEFINE b == (x \div 8) % 2
<1> HIDE DEF b
<1>3. b = 0 \/ b = 1
  BY <1>2 DEF b
<1>4. MbColumn(map, plane, x, line) = (line % MbLines(map, plane)) + MbLines(map, plane) * b
  BY DEF MbColumn, b
<1>5. CASE MbLines(map, plane) = 16
  BY <1>3, <1>4, <1>5
<1>6. CASE MbLines(map, plane) = 8
  BY <1>3, <1>4, <1>6
<1>7. CASE MbLines(map, plane) = 4
  BY <1>3, <1>4, <1>7
<1> QED
  BY <1>1, <1>5, <1>6, <1>7

(* The blocks lie one after the other, in each the halves, in each half the
   lines. *)
LEMMA MbAddressIs ==
  ASSUME NEW map \in MbMaps, NEW dram, NEW plane \in MbPlanes,
         NEW mb \in Nat, mb < 65536, NEW c \in Nat, c < 2 * MbLines(map, plane)
  PROVE  MbAddress(AxiMap(map, dram, plane # "y"), mb, c)
           = 8 * c + 16 * MbLines(map, plane) * mb
<1>1. CASE map = "FRAME_MB_RASTER" /\ plane = "y"
  <2>1. (plane # "y") = FALSE /\ MbLines(map, plane) = 16
    BY <1>1 DEF MbLines
  <2>2. IsMbAxi(AxiMap(map, dram, plane # "y"), 5)
    BY <1>1, AxiOfBlocks
  <2> QED
    BY <2>1, <2>2, MbAddress5
<1>2. CASE map = "FRAME_MB_RASTER" /\ plane = "cb"
  <2>1. (plane # "y") = TRUE /\ MbLines(map, plane) = 8
    BY <1>2 DEF MbLines
  <2>2. IsMbAxi(AxiMap(map, dram, plane # "y"), 4)
    BY <1>2, AxiOfBlocks
  <2> QED
    BY <2>1, <2>2, MbAddress4
<1>3. CASE map = "FIELD_MB_RASTER" /\ plane = "y"
  <2>1. (plane # "y") = FALSE /\ MbLines(map, plane) = 8
    BY <1>3 DEF MbLines
  <2>2. IsMbAxi(AxiMap(map, dram, plane # "y"), 4)
    BY <1>3, AxiOfBlocks
  <2> QED
    BY <2>1, <2>2, MbAddress4
<1>4. CASE map = "FIELD_MB_RASTER" /\ plane = "cb"
  <2>1. (plane # "y") = TRUE /\ MbLines(map, plane) = 4
    BY <1>4 DEF MbLines
  <2>2. IsMbAxi(AxiMap(map, dram, plane # "y"), 3)
    BY <1>4, AxiOfBlocks
  <2> QED
    BY <2>1, <2>2, MbAddress3
<1> QED
  BY <1>1, <1>2, <1>3, <1>4 DEF MbMaps, MbPlanes

(* The bytes of a picture of m blocks, in pages. *)
IsMbSize(m, lum, chr, p, q) ==
  /\ m \in Nat /\ m <= 8704 /\ p \in Nat /\ q \in Nat
  /\ lum = 16384 * p /\ chr = 16384 * q
  /\ 256 * m <= lum /\ 64 * m <= chr

(* What AllocateFrameBufferArray counts for the planes of a macroblock map. *)
LEMMA MbSizes ==
  ASSUME NEW map \in MbMaps, NEW stride, NEW height, IsSize(stride, height),
         stride % 16 = 0, height % 16 = 0
  PROVE  \E p, q : IsMbSize((stride \div 16) * (height \div 16),
                            LumSize(map, stride, height), ChrSize(map, stride, height), p, q)
<1> DEFINE w == stride \div 16
           h == height \div 16
           m == w * h
<1>1. /\ w \in Nat /\ h \in Nat /\ stride = 16 * w /\ height = 16 * h /\ w <= 128 /\ h <= 68
      /\ height \div 2 = 8 * h /\ stride \div 2 = 8 * w
  BY DEF IsSize
<1> HIDE DEF w, h
<1>2. m \in Nat /\ stride * height = 256 * m /\ (height \div 2) * (stride \div 2) = 64 * m
  BY <1>1
<1>3. m <= 8704
  <2>1. \A a \in Nat, b \in Nat : a <= 128 /\ b <= 68 => a * b <= 8704
    OBVIOUS
  <2> QED
    BY <1>1, <2>1
<1> HIDE DEF m
<1> DEFINE u1 == (256 * m + 16383) \div 16384
           u2 == (64 * m + 16383) \div 16384
           v1 == 2 * ((u1 * 16384 + 32767) \div 32768)
           v2 == 2 * ((u2 * 16384 + 32767) \div 32768)
<1>4. u1 \in Nat /\ 256 * m <= 16384 * u1 /\ u2 \in Nat /\ 64 * m <= 16384 * u2
  BY <1>2
<1>5. RoundUp(256 * m, 16384) = u1 * 16384 /\ RoundUp(64 * m, 16384) = u2 * 16384
  BY <1>2 DEF RoundUp
<1>6. CASE map = "FRAME_MB_RASTER"
  <2>1. LumSize(map, stride, height) = u1 * 16384 /\ ChrSize(map, stride, height) = u2 * 16384
    BY <1>2, <1>5, <1>6 DEF LumSize, ChrSize
  <2> HIDE DEF u1, u2
  <2>2. IsMbSize(m, LumSize(map, stride, height), ChrSize(map, stride, height), u1, u2)
    BY <1>2, <1>3, <1>4, <1>6, <2>1 DEF IsMbSize
  <2> QED
    BY <2>2 DEF m, w, h
<1>7. CASE map = "FIELD_MB_RASTER"
  <2>1. /\ LumSize(map, stride, height) = RoundUp(u1 * 16384, 32768)
        /\ ChrSize(map, stride, height) = RoundUp(u2 * 16384, 32768)
    BY <1>2, <1>5, <1>7 DEF LumSize, ChrSize
  <2> HIDE DEF u1, u2
  <2>2. /\ v1 \in Nat /\ v2 \in Nat /\ v1 % 2 = 0 /\ u1 <= v1 /\ u2 <= v2
        /\ RoundUp(u1 * 16384, 32768) = 16384 * v1 /\ RoundUp(u2 * 16384, 32768) = 16384 * v2
    BY <1>4 DEF RoundUp
  <2> HIDE DEF v1, v2
  <2>3. IsMbSize(m, LumSize(map, stride, height), ChrSize(map, stride, height), v1, v2)
    BY <1>2, <1>3, <1>4, <1>7, <2>1, <2>2 DEF IsMbSize
  <2> QED
    BY <2>3 DEF m, w, h
<1> QED
  BY <1>6, <1>7 DEF MbMaps

(* The cells of a grid, counted line by line. *)
LEMMA Grid ==
  ASSUME NEW w \in Nat, NEW h \in Nat, NEW r \in Nat, NEW d \in Nat, r < h, d < w
  PROVE  w * r + d \in Nat /\ w * r + d < w * h
<1>1. w * r \in Nat /\ w * h \in Nat /\ w * (r + 1) = w * r + w
  OBVIOUS
<1>2. w * (r + 1) <= w * h
  <2> DEFINE k == h - (r + 1)
  <2>1. k \in Nat /\ h = (r + 1) + k
    OBVIOUS
  <2>2. w * k \in Nat
    BY <2>1
  <2>3. w * h = w * (r + 1) + w * k
    BY <2>1
  <2> QED
    BY <1>1, <2>2, <2>3
<1> QED
  BY <1>1, <1>2

(* A number of a grid tells its line and its place in the line. *)
LEMMA GridTells ==
  ASSUME NEW w \in Nat, NEW r1 \in Nat, NEW d1 \in Nat, NEW r2 \in Nat, NEW d2 \in Nat,
         d1 < w, d2 < w, w * r1 + d1 = w * r2 + d2
  PROVE  r1 = r2 /\ d1 = d2
<1>1. ASSUME NEW a \in Nat, NEW b \in Nat, a < b PROVE w * a + w <= w * b
  <2> DEFINE k == b - (a + 1)
  <2>1. k \in Nat /\ b = (a + 1) + k
    BY <1>1
  <2>2. w * k \in Nat /\ w * b = w * a + w + w * k
    BY <2>1
  <2> QED
    BY <2>2
<1>2. w * r1 \in Nat /\ w * r2 \in Nat
  OBVIOUS
<1>3. ~(r1 < r2)
  <2>1. SUFFICES ASSUME r1 < r2 PROVE FALSE
    OBVIOUS
  <2> QED
    BY <1>1, <1>2, <2>1
<1>4. ~(r2 < r1)
  <2>1. SUFFICES ASSUME r2 < r1 PROVE FALSE
    OBVIOUS
  <2> QED
    BY <1>1, <1>2, <2>1
<1>5. r1 = r2
  BY <1>3, <1>4
<1> QED
  BY <1>2, <1>5

(* A block of a macroblock map and its number. *)
LEMMA MbNoIs ==
  ASSUME NEW stride, NEW height, IsSize(stride, height),
         stride % 16 = 0, height % 16 = 0, NEW plane \in MbPlanes,
         NEW y, NEW x, NEW s, IsCell(TRUE, stride, height, plane, y, x, s)
  PROVE  /\ s = stride /\ MbNo(plane, y, x, s) \in Nat
         /\ MbNo(plane, y, x, s) < (stride \div 16) * (height \div 16)
<1> DEFINE w == stride \div 16
           h == height \div 16
           r == y \div (IF plane # "y" THEN 8 ELSE 16)
           d == x \div 16
<1>1. /\ stride \in Nat /\ height \in Nat /\ stride % 16 = 0 /\ height % 16 = 0
      /\ y \in Nat /\ x \in Nat /\ x < stride /\ s = stride
      /\ plane = "y" => y < height
      /\ plane # "y" => y < height \div 2
  BY DEF IsCell, IsSize, MbPlanes
<1>2. w \in Nat /\ h \in Nat /\ d \in Nat /\ d < w
  BY <1>1
<1>3. r \in Nat /\ r < h
  <2>1. CASE plane = "y"
    BY <1>1, <2>1
  <2>2. CASE plane # "y"
    BY <1>1, <2>2
  <2> QED
    BY <2>1, <2>2
<1>4. MbNo(plane, y, x, s) = w * r + d
  BY <1>1 DEF MbNo
<1> HIDE DEF w, h, r, d
<1>5. w * r + d \in Nat /\ w * r + d < w * h
  BY <1>2, <1>3, Grid
<1> QED
  BY <1>1, <1>4, <1>5 DEF w, h

(* Where the plane, or its lower field, begins. *)
MbStart(map, plane, y, lum, chr) ==
  IF plane = "y" THEN (IF MbBottom(map, y) THEN lum \div 2 ELSE 0)
                 ELSE (IF MbBottom(map, y) THEN lum + chr ELSE lum)

(* The pages where the planes and fields begin, in bytes. *)
LEMMA MbPageIs ==
  ASSUME NEW map \in MbMaps, NEW dram, NEW stride, NEW height, IsSize(stride, height),
         stride % 16 = 0, height % 16 = 0,
         NEW i \in Nat, NEW plane \in MbPlanes, NEW y \in Nat
  PROVE  MbPage(map, plane, y, FrameAt(map, dram, stride, height, i)) * 4096
           = Base + i * FrameSize(map, dram, stride, height)
               + MbStart(map, plane, y, LumSize(map, stride, height),
                         ChrSize(map, stride, height))
<1> DEFINE lum  == LumSize(map, stride, height)
           chr  == ChrSize(map, stride, height)
           size == FrameSize(map, dram, stride, height)
           fb   == FrameAt(map, dram, stride, height, i)
           a    == Base + i * size
<1>1. PICK p, q : IsMbSize((stride \div 16) * (height \div 16), lum, chr, p, q)
  BY MbSizes
<1>2. p \in Nat /\ q \in Nat /\ lum = 16384 * p /\ chr = 16384 * q
  BY <1>1 DEF IsMbSize
<1>3. size = lum + 2 * chr
  BY DEF FrameSize, MbMaps, RowMaps
<1>4. map # "LINEAR" /\ map \notin RowMaps
  BY DEF MbMaps, RowMaps
<1>5. fb = [lumTop |-> a \div 4096,         lumBot |-> (a + lum \div 2) \div 4096,
            chrTop |-> (a + lum) \div 4096, chrBot |-> (a + lum + chr) \div 4096]
  <2>1. RoundUp(Base, 16384) = Base
    BY BaseAligned
  <2> QED
    BY <1>4, <2>1 DEF FrameAt
<1> HIDE DEF lum, chr, size, fb
<1> DEFINE n == i * (4 * p + 8 * q)
           j == i * size
<1>6. n \in Nat /\ j = 4096 * n
  BY <1>2, <1>3
<1>7. a = Base + j
  OBVIOUS
<1> HIDE DEF n, j, a
<1>8. PICK b \in Nat : Base = 4096 * b
  BY BaseAligned
<1>9. /\ a \div 4096 = b + n /\ (a + lum \div 2) \div 4096 = b + n + 2 * p
      /\ (a + lum) \div 4096 = b + n + 4 * p /\ (a + lum + chr) \div 4096 = b + n + 4 * p + 4 * q
  BY <1>2, <1>6, <1>7, <1>8
<1>10. /\ fb.lumTop * 4096 = a /\ fb.lumBot * 4096 = a + lum \div 2
       /\ fb.chrTop * 4096 = a + lum /\ fb.chrBot * 4096 = a + (lum + chr)
  <2>1. /\ fb.lumTop = b + n /\ fb.lumBot = b + n + 2 * p
        /\ fb.chrTop = b + n + 4 * p /\ fb.chrBot = b + n + 4 * p + 4 * q
    BY <1>5, <1>9
  <2> QED
    BY <1>2, <1>6, <1>7, <1>8, <2>1
<1>11. MbPage(map, plane, y, fb) * 4096 = a + MbStart(map, plane, y, lum, chr)
  <2>1. a = a + 0
    BY <1>6, <1>7, <1>8
  <2> QED
    BY <1>10, <2>1 DEF MbPage, MbStart
<1> QED
  BY <1>11 DEF a, fb, lum, chr, size

(* An address of a macroblock map, from where its frame begins. *)
MbOffset(map, plane, y, x, s, lum, chr) ==
  MbStart(map, plane, y, lum, chr)
    + (8 * MbColumn(map, plane, x, MbLine(map, y))
         + 16 * MbLines(map, plane) * MbNo(plane, y, x, s))

MbIsAt(map, dram, stride, height, i, plane, y, x, s) ==
  Where(map, dram, stride, height, i, plane, y, x, s)
    = Base + i * FrameSize(map, dram, stride, height)
        + MbOffset(map, plane, y, x, s, LumSize(map, stride, height),
                   ChrSize(map, stride, height))

(* Where a block of a macroblock map lies. *)
LEMMA MbWhere ==
  ASSUME NEW map \in MbMaps, NEW dram, NEW stride, NEW height, IsSize(stride, height),
         stride % 16 = 0, height % 16 = 0,
         NEW i \in Nat, NEW plane, NEW y, NEW x, NEW s,
         IsCell(TRUE, stride, height, plane, y, x, s)
  PROVE  MbIsAt(map, dram, stride, height, i, plane, y, x, s)
<1> DEFINE mb   == MbNo(plane, y, x, s)
           c    == MbColumn(map, plane, x, MbLine(map, y))
           fb   == FrameAt(map, dram, stride, height, i)
           lum  == LumSize(map, stride, height)
           chr  == ChrSize(map, stride, height)
           rest == 8 * c + 16 * MbLines(map, plane) * mb
           page == MbPage(map, plane, y, fb) * 4096
           at   == MbAddress(AxiMap(map, dram, plane # "y"), mb, c)
           a    == Base + i * FrameSize(map, dram, stride, height)
           start == MbStart(map, plane, y, lum, chr)
<1>1. plane \in MbPlanes /\ y \in Nat /\ x \in Nat
  BY DEF IsCell, MbPlanes, Planes
<1>2. mb \in Nat /\ mb < 65536
  <2>1. PICK p, q : IsMbSize((stride \div 16) * (height \div 16), lum, chr, p, q)
    BY MbSizes
  <2>2. mb \in Nat /\ mb < (stride \div 16) * (height \div 16)
    BY <1>1, MbNoIs
  <2> DEFINE m == (stride \div 16) * (height \div 16)
  <2>3. m \in Nat /\ m <= 8704
    BY <2>1 DEF IsMbSize
  <2> HIDE DEF m, mb
  <2>4. mb < m
    BY <2>2 DEF m
  <2> QED
    BY <2>2, <2>3, <2>4
<1>3. MbLine(map, y) \in Nat
  BY <1>1 DEF MbLine
<1>4. c \in Nat /\ c < 2 * MbLines(map, plane)
  BY <1>1, <1>3, MbColumnIs
<1>5. at = rest
  <2> HIDE DEF mb, c
  <2> QED
    BY <1>1, <1>2, <1>4, MbAddressIs
<1>6. Where(map, dram, stride, height, i, plane, y, x, s) = page + at
  BY <1>1, MbAddressed DEF Where
<1>7. page = a + start
  BY <1>1, MbPageIs
<1>8. MbOffset(map, plane, y, x, s, lum, chr) = start + rest
  BY DEF MbOffset
<1>9. a \in Nat /\ start \in Nat /\ rest \in Nat
  <2>1. PICK p, q : IsMbSize((stride \div 16) * (height \div 16), lum, chr, p, q)
    BY MbSizes
  <2>2. lum \in Nat /\ chr \in Nat /\ lum \div 2 \in Nat
    BY <2>1 DEF IsMbSize
  <2>3. FrameSize(map, dram, stride, height) = lum + 2 * chr
    BY DEF FrameSize, MbMaps, RowMaps
  <2>4. start \in Nat
    <3> HIDE DEF lum, chr
    <3> QED
      BY <2>2 DEF MbStart
  <2>5. a \in Nat
    <3> DEFINE size == FrameSize(map, dram, stride, height)
    <3>1. size \in Nat
      <4> HIDE DEF lum, chr
      <4> QED
        BY <2>2, <2>3
    <3> HIDE DEF size
    <3>2. i * size \in Nat
      BY <3>1
    <3> QED
      BY <3>2, BaseAligned DEF size
  <2>6. MbLines(map, plane) \in Nat
    BY DEF MbLines
  <2>7. rest \in Nat
    <3> HIDE DEF mb, c
    <3> QED
      BY <1>2, <1>4, <2>6
  <2> QED
    BY <2>4, <2>5, <2>7
<1> HIDE DEF page, at, a, start, rest
<1>10. page + at = a + (start + rest)
  BY <1>5, <1>7, <1>9
<1> QED
  BY <1>6, <1>8, <1>10 DEF MbIsAt, a, lum, chr

(* What a block takes of its plane or field. *)
LEMMA MbOffsetIs ==
  ASSUME NEW map \in MbMaps, NEW stride, NEW height, IsSize(stride, height),
         stride % 16 = 0, height % 16 = 0,
         NEW plane, NEW y, NEW x, NEW s, IsCell(TRUE, stride, height, plane, y, x, s)
  PROVE  LET lum   == LumSize(map, stride, height)
             chr   == ChrSize(map, stride, height)
             o     == MbOffset(map, plane, y, x, s, lum, chr)
             start == MbStart(map, plane, y, lum, chr)
             end   == IF plane = "y" THEN (IF MbBottom(map, y) \/ map = "FRAME_MB_RASTER"
                                           THEN lum ELSE lum \div 2)
                      ELSE (IF MbBottom(map, y) \/ map = "FRAME_MB_RASTER"
                            THEN lum + 2 * chr ELSE lum + chr)
         IN /\ lum \in Nat /\ chr \in Nat /\ o \in Nat /\ o % 8 = 0
            /\ start \in Nat /\ start <= o /\ o + 8 <= end
<1> DEFINE lum == LumSize(map, stride, height)
           chr == ChrSize(map, stride, height)
           m   == (stride \div 16) * (height \div 16)
           mb  == MbNo(plane, y, x, s)
           c   == MbColumn(map, plane, x, MbLine(map, y))
           h   == MbLines(map, plane)
           o   == MbOffset(map, plane, y, x, s, lum, chr)
           start == MbStart(map, plane, y, lum, chr)
<1>1. plane \in MbPlanes /\ y \in Nat /\ x \in Nat /\ MbLine(map, y) \in Nat
  BY DEF IsCell, MbPlanes, Planes, MbLine
<1>2. PICK p, q : IsMbSize(m, lum, chr, p, q)
  BY MbSizes
<1>3. mb \in Nat /\ mb < m
  BY <1>1, MbNoIs
<1>4. c \in Nat /\ c < 2 * h
  BY <1>1, MbColumnIs
<1>5. o = start + (8 * c + 16 * h * mb)
  BY DEF MbOffset
<1>6. /\ m \in Nat /\ lum \in Nat /\ chr \in Nat /\ 256 * m <= lum /\ 64 * m <= chr
      /\ p \in Nat /\ q \in Nat /\ lum = 16384 * p /\ chr = 16384 * q
  <2> HIDE DEF m, lum, chr
  <2> QED
    BY <1>2 DEF IsMbSize
<1> HIDE DEF lum, chr, m, mb, c, o
<1>7. CASE map = "FRAME_MB_RASTER" /\ plane = "y"
  <2>1. h = 16 /\ start = 0 /\ ~MbBottom(map, y)
    BY <1>7 DEF MbLines, MbStart, MbBottom
  <2> QED
    BY <1>3, <1>4, <1>5, <1>6, <1>7, <2>1 DEF lum, chr, o
<1>8. CASE map = "FRAME_MB_RASTER" /\ plane # "y"
  <2>1. h = 8 /\ start = lum /\ ~MbBottom(map, y)
    BY <1>8 DEF MbLines, MbStart, MbBottom
  <2> QED
    BY <1>3, <1>4, <1>5, <1>6, <1>8, <2>1 DEF lum, chr, o
<1>9. CASE map = "FIELD_MB_RASTER" /\ plane = "y"
  <2>1. h = 8 /\ start = IF MbBottom(map, y) THEN lum \div 2 ELSE 0
    BY <1>9 DEF MbLines, MbStart
  <2> QED
    BY <1>3, <1>4, <1>5, <1>6, <1>9, <2>1 DEF lum, chr, o
<1>10. CASE map = "FIELD_MB_RASTER" /\ plane # "y"
  <2>1. h = 4 /\ start = IF MbBottom(map, y) THEN lum + chr ELSE lum
    BY <1>10 DEF MbLines, MbStart
  <2> QED
    BY <1>3, <1>4, <1>5, <1>6, <1>10, <2>1 DEF lum, chr, o
<1> QED
  BY <1>7, <1>8, <1>9, <1>10 DEF MbMaps

(* It lies in its frame. *)
LEMMA MbPlaced ==
  ASSUME NEW map \in MbMaps, NEW dram, NEW stride, NEW height, IsSize(stride, height),
         stride % 16 = 0, height % 16 = 0,
         NEW i \in Nat, NEW plane, NEW y, NEW x, NEW s,
         IsCell(TRUE, stride, height, plane, y, x, s)
  PROVE  InFrame(Where(map, dram, stride, height, i, plane, y, x, s), i,
                 FrameSize(map, dram, stride, height))
<1> DEFINE lum  == LumSize(map, stride, height)
           chr  == ChrSize(map, stride, height)
           size == FrameSize(map, dram, stride, height)
           o    == MbOffset(map, plane, y, x, s, lum, chr)
           w    == Where(map, dram, stride, height, i, plane, y, x, s)
<1>1. w = Base + i * size + o
  <2>1. MbIsAt(map, dram, stride, height, i, plane, y, x, s)
    BY MbWhere
  <2> QED
    BY <2>1 DEF MbIsAt
<1>2. lum \in Nat /\ chr \in Nat /\ o \in Nat /\ o % 8 = 0 /\ o + 8 <= lum + 2 * chr
  <2>1. /\ lum \in Nat /\ chr \in Nat /\ o \in Nat /\ o % 8 = 0
        /\ \/ o + 8 <= lum \/ o + 8 <= lum \div 2
           \/ o + 8 <= lum + 2 * chr \/ o + 8 <= lum + chr
    BY MbOffsetIs
  <2> HIDE DEF lum, chr, o
  <2> QED
    BY <2>1
<1>3. size = lum + 2 * chr
  BY DEF FrameSize, MbMaps, RowMaps
<1>4. PICK p, q : IsMbSize((stride \div 16) * (height \div 16), lum, chr, p, q)
  BY MbSizes
<1>5. p \in Nat /\ q \in Nat /\ lum = 16384 * p /\ chr = 16384 * q
  BY <1>4 DEF IsMbSize
<1> HIDE DEF lum, chr, size, o, w
<1> DEFINE n == i * (2048 * p + 4096 * q)
           j == i * size
<1>6. n \in Nat /\ j = 8 * n /\ (i + 1) * size = j + size
  BY <1>2, <1>3, <1>5
<1>7. w = Base + j + o
  BY <1>1
<1>8. Base + (i + 1) * size = Base + j + size
  BY <1>2, <1>3, <1>6, BaseAligned
<1>9. Base + i * size = Base + j
  OBVIOUS
<1> HIDE DEF n, j
<1>10. w \in Nat /\ w % 8 = 0 /\ Base + j <= w /\ w + 8 <= Base + j + size
  BY <1>2, <1>3, <1>6, <1>7, BaseAligned
<1> QED
  BY <1>8, <1>9, <1>10 DEF InFrame, w, size

(* Two blocks of a frame at one address. *)
Meet(map, dram, stride, height, i, plane1, y1, x1, s1, plane2, y2, x2, s2) ==
  Where(map, dram, stride, height, i, plane1, y1, x1, s1)
    = Where(map, dram, stride, height, i, plane2, y2, x2, s2)

(* Two of them at one address are one. *)
LEMMA MbApart ==
  ASSUME NEW map \in MbMaps, NEW dram,
         NEW stride, NEW height, IsSize(stride, height),
         stride % 16 = 0, height % 16 = 0, NEW i \in Nat,
         NEW plane1, NEW y1, NEW x1, NEW s1, IsCell(TRUE, stride, height, plane1, y1, x1, s1),
         NEW plane2, NEW y2, NEW x2, NEW s2, IsCell(TRUE, stride, height, plane2, y2, x2, s2),
         Meet(map, dram, stride, height, i, plane1, y1, x1, s1, plane2, y2, x2, s2)
  PROVE  plane1 = plane2 /\ y1 = y2 /\ x1 = x2
<1> DEFINE lum  == LumSize(map, stride, height)
           chr  == ChrSize(map, stride, height)
           a    == Base + i * FrameSize(map, dram, stride, height)
           o1   == MbOffset(map, plane1, y1, x1, s1, lum, chr)
           o2   == MbOffset(map, plane2, y2, x2, s2, lum, chr)
           b1   == MbBottom(map, y1)
           b2   == MbBottom(map, y2)
<1>1. /\ plane1 \in MbPlanes /\ y1 \in Nat /\ x1 \in Nat /\ x1 % 8 = 0 /\ s1 = stride
      /\ plane2 \in MbPlanes /\ y2 \in Nat /\ x2 \in Nat /\ x2 % 8 = 0 /\ s2 = stride
  BY MbNoIs DEF IsCell, MbPlanes, Planes
<1>2. o1 = o2
  <2>1. a + o1 = a + o2
    <3>1. MbIsAt(map, dram, stride, height, i, plane1, y1, x1, s1)
      BY MbWhere
    <3>2. MbIsAt(map, dram, stride, height, i, plane2, y2, x2, s2)
      BY MbWhere
    <3> QED
      BY <3>1, <3>2 DEF MbIsAt, Meet
  <2>2. o1 \in Nat /\ o2 \in Nat
    BY MbOffsetIs
  <2>3. a \in Nat
    <3> DEFINE size == FrameSize(map, dram, stride, height)
    <3>1. size = lum + 2 * chr
      BY DEF FrameSize, MbMaps, RowMaps
    <3>2. lum \in Nat /\ chr \in Nat
      BY MbOffsetIs
    <3> HIDE DEF size, lum, chr
    <3>3. size \in Nat
      BY <3>1, <3>2
    <3>4. i * size \in Nat
      BY <3>3
    <3> QED
      BY <3>4, BaseAligned DEF size
  <2> HIDE DEF a, o1, o2
  <2> QED
    BY <2>1, <2>2, <2>3
<1>3. plane1 = plane2 /\ (b1 <=> b2)
  <2> DEFINE start1 == MbStart(map, plane1, y1, lum, chr)
             start2 == MbStart(map, plane2, y2, lum, chr)
             end1   == IF plane1 = "y" THEN (IF b1 \/ map = "FRAME_MB_RASTER"
                                             THEN lum ELSE lum \div 2)
                       ELSE (IF b1 \/ map = "FRAME_MB_RASTER" THEN lum + 2 * chr ELSE lum + chr)
             end2   == IF plane2 = "y" THEN (IF b2 \/ map = "FRAME_MB_RASTER"
                                             THEN lum ELSE lum \div 2)
                       ELSE (IF b2 \/ map = "FRAME_MB_RASTER" THEN lum + 2 * chr ELSE lum + chr)
  <2>1. lum \in Nat /\ chr \in Nat /\ o1 \in Nat /\ start1 <= o1 /\ o1 + 8 <= end1
    BY MbOffsetIs
  <2>2. o2 \in Nat /\ start2 <= o2 /\ o2 + 8 <= end2
    BY MbOffsetIs
  <2> HIDE DEF lum, chr, o1, o2
  <2>3. /\ start1 = IF plane1 = "y" THEN (IF b1 THEN lum \div 2 ELSE 0)
                                    ELSE (IF b1 THEN lum + chr ELSE lum)
        /\ start2 = IF plane2 = "y" THEN (IF b2 THEN lum \div 2 ELSE 0)
                                    ELSE (IF b2 THEN lum + chr ELSE lum)
    BY DEF MbStart
  <2>4. map = "FRAME_MB_RASTER" => ~b1 /\ ~b2
    BY DEF MbBottom
  <2>5. plane1 = plane2
    <3>1. CASE plane1 = "y" /\ plane2 # "y"
      <4>1. o1 + 8 <= lum /\ lum <= o2
        BY <2>1, <2>2, <2>3, <3>1
      <4> QED
        BY <1>2, <2>1, <4>1
    <3>2. CASE plane1 # "y" /\ plane2 = "y"
      <4>1. o2 + 8 <= lum /\ lum <= o1
        BY <2>1, <2>2, <2>3, <3>2
      <4> QED
        BY <1>2, <2>1, <2>2, <4>1
    <3> QED
      BY <1>1, <3>1, <3>2 DEF MbPlanes
  <2>6. b1 <=> b2
    <3>1. CASE map = "FRAME_MB_RASTER"
      BY <2>4, <3>1
    <3>2. CASE map = "FIELD_MB_RASTER" /\ plane1 = "y"
      BY <1>2, <2>1, <2>2, <2>3, <2>5, <3>2
    <3>3. CASE map = "FIELD_MB_RASTER" /\ plane1 # "y"
      BY <1>2, <2>1, <2>2, <2>3, <2>5, <3>3
    <3> QED
      BY <3>1, <3>2, <3>3 DEF MbMaps
  <2> QED
    BY <2>5, <2>6
<1> DEFINE h  == MbLines(map, plane1)
           line1 == MbLine(map, y1)
           line2 == MbLine(map, y2)
           c1 == MbColumn(map, plane1, x1, line1)
           c2 == MbColumn(map, plane1, x2, line2)
           m1 == MbNo(plane1, y1, x1, stride)
           m2 == MbNo(plane1, y2, x2, stride)
<1>4. line1 \in Nat /\ line2 \in Nat
  BY <1>1 DEF MbLine
<1>5. /\ c1 \in Nat /\ c1 < 2 * h /\ c2 \in Nat /\ c2 < 2 * h
      /\ h \in {4, 8, 16}
  BY <1>1, <1>4, MbColumnIs DEF MbLines
<1>6. m1 \in Nat /\ m2 \in Nat
  BY <1>1, <1>3, MbNoIs
<1>7. c1 = c2 /\ m1 = m2
  <2> DEFINE start == MbStart(map, plane1, y1, lum, chr)
  <2>1. start = MbStart(map, plane2, y2, lum, chr)
    BY <1>3 DEF MbStart
  <2>2. o1 = start + (8 * c1 + 16 * h * m1) /\ o2 = start + (8 * c2 + 16 * h * m2)
    BY <1>1, <1>3, <2>1 DEF MbOffset
  <2>3. start \in Nat
    BY MbOffsetIs
  <2> HIDE DEF start, c1, c2, m1, m2, h, o1, o2
  <2>4. 8 * c1 + 16 * h * m1 = 8 * c2 + 16 * h * m2
    <3> DEFINE k1 == 8 * c1 + 16 * h * m1
               k2 == 8 * c2 + 16 * h * m2
    <3>1. h \in Nat
      BY <1>5
    <3>2. k1 \in Nat /\ k2 \in Nat
      BY <1>5, <1>6, <3>1
    <3>3. start + k1 = start + k2
      BY <1>2, <2>2, Zenon
    <3> HIDE DEF k1, k2
    <3>4. k1 = k2
      BY <2>3, <3>2, <3>3
    <3> QED
      BY <3>4 DEF k1, k2
  <2>5. CASE h = 4
    BY <1>5, <1>6, <2>4, <2>5
  <2>6. CASE h = 8
    BY <1>5, <1>6, <2>4, <2>6
  <2>7. CASE h = 16
    BY <1>5, <1>6, <2>4, <2>7
  <2> QED
    BY <1>5, <2>5, <2>6, <2>7
<1> DEFINE u == IF plane1 # "y" THEN 8 ELSE 16
<1>8. y1 \div u = y2 \div u /\ x1 \div 16 = x2 \div 16
  <2> DEFINE w == stride \div 16
             r1 == y1 \div u
             r2 == y2 \div u
             d1 == x1 \div 16
             d2 == x2 \div 16
  <2>1. /\ w \in Nat /\ r1 \in Nat /\ r2 \in Nat /\ d1 \in Nat /\ d2 \in Nat
        /\ d1 < w /\ d2 < w
    <3>1. x1 < stride /\ x2 < stride /\ stride \in Nat /\ stride % 16 = 0
      BY DEF IsCell, IsSize, Planes
    <3> QED
      BY <1>1, <3>1
  <2>2. m1 = w * r1 + d1 /\ m2 = w * r2 + d2
    BY DEF MbNo
  <2> HIDE DEF w, r1, r2, d1, d2, m1, m2
  <2>3. w * r1 + d1 = w * r2 + d2
    BY <1>7, <2>2
  <2>4. r1 = r2 /\ d1 = d2
    BY <2>1, <2>3, GridTells
  <2> QED
    BY <2>4 DEF r1, r2, d1, d2
<1> DEFINE e1 == (x1 \div 8) % 2
           e2 == (x2 \div 8) % 2
<1>9. line1 % h = line2 % h /\ e1 = e2
  <2>1. c1 = (line1 % h) + h * e1 /\ c2 = (line2 % h) + h * e2
    BY DEF MbColumn
  <2>2. e1 \in {0, 1} /\ e2 \in {0, 1}
    BY <1>1
  <2>3. line1 % h \in 0 .. h - 1 /\ line2 % h \in 0 .. h - 1
    BY <1>4, <1>5
  <2> DEFINE k1 == line1 % h
             k2 == line2 % h
  <2> HIDE DEF e1, e2, h, line1, line2, c1, c2, k1, k2
  <2>4. k1 + h * e1 = k2 + h * e2
    BY <1>7, <2>1 DEF k1, k2
  <2>5. k1 \in Int /\ k2 \in Int /\ 0 <= k1 /\ k1 < h /\ 0 <= k2 /\ k2 < h
    BY <1>5, <2>3 DEF k1, k2
  <2>6. k1 = k2 /\ e1 = e2
    BY <1>5, <2>2, <2>4, <2>5
  <2> QED
    BY <2>6 DEF k1, k2
<1>10. x1 = x2
  BY <1>1, <1>8, <1>9
<1>11. y1 = y2
  <2>1. CASE map = "FRAME_MB_RASTER"
    <3>1. h = u /\ line1 = y1 /\ line2 = y2 /\ u \in {8, 16}
      BY <2>1 DEF MbLines, MbLine
    <3>2. y1 % u = y2 % u
      BY <1>9, <3>1
    <3> HIDE DEF u
    <3> QED
      BY <1>1, <1>8, <3>1, <3>2
  <2>2. CASE map = "FIELD_MB_RASTER"
    <3>1. u = 2 * h /\ line1 = y1 \div 2 /\ line2 = y2 \div 2
      BY <2>2 DEF MbLines, MbLine
    <3>2. y1 % 2 = y2 % 2
      BY <1>1, <1>3, <2>2 DEF MbBottom
    <3>3. (y1 \div 2) % h = (y2 \div 2) % h /\ y1 \div (2 * h) = y2 \div (2 * h)
      BY <1>8, <1>9, <3>1
    <3> HIDE DEF h
    <3>4. CASE h = 4
      BY <1>1, <3>2, <3>3, <3>4
    <3>5. CASE h = 8
      BY <1>1, <3>2, <3>3, <3>5
    <3>6. CASE h = 16
      BY <1>1, <3>2, <3>3, <3>6
    <3> QED
      BY <1>5, <3>4, <3>5, <3>6
  <2> QED
    BY <2>1, <2>2 DEF MbMaps
<1> QED
  BY <1>3, <1>10, <1>11

(***************************************************************************)
(* Where a block of the linear map lies.                                   *)
(***************************************************************************)
LinearStart(plane, lum, chr) ==
  IF plane = "y" THEN 0 ELSE IF plane = "cb" THEN lum ELSE lum + chr
LinearEnd(interleave, plane, lum, chr) ==
  IF plane = "y" THEN lum ELSE IF plane = "cb" /\ ~interleave THEN lum + chr ELSE lum + 2 * chr
LinearOffset(plane, y, x, s, lum, chr) ==
  LinearStart(plane, lum, chr) + 8 * ((s \div 8) * y + x \div 8)

LinearIsAt(dram, stride, height, i, plane, y, x, s) ==
  Where("LINEAR", dram, stride, height, i, plane, y, x, s)
    = Base + i * FrameSize("LINEAR", dram, stride, height)
        + LinearOffset(plane, y, x, s, LumSize("LINEAR", stride, height),
                       ChrSize("LINEAR", stride, height))

(* The bytes of the planes of the linear map. *)
LEMMA LinearSizes ==
  ASSUME NEW stride, NEW height, IsSize(stride, height)
  PROVE  LET lum == LumSize("LINEAR", stride, height)
             chr == ChrSize("LINEAR", stride, height)
         IN /\ lum = stride * height /\ chr = (height \div 2) * (stride \div 2)
            /\ lum \in Nat /\ chr \in Nat /\ lum % 8 = 0 /\ chr % 4 = 0
            /\ stride % 16 = 0 => chr % 8 = 0
            /\ \A dram : FrameSize("LINEAR", dram, stride, height) = lum + 2 * chr
<1> DEFINE lum == LumSize("LINEAR", stride, height)
           chr == ChrSize("LINEAR", stride, height)
<1>1. lum = stride * height /\ chr = (height \div 2) * (stride \div 2)
  BY DEF LumSize, ChrSize
<1>2. \A dram : FrameSize("LINEAR", dram, stride, height) = lum + 2 * chr
  BY DEF FrameSize, RowMaps
<1> DEFINE v == stride \div 8
           u == stride \div 16
           g == height \div 2
           m == v * height
           n == v * g
           o == u * g
<1>3. /\ v \in Nat /\ u \in Nat /\ g \in Nat /\ height \in Nat
      /\ stride = 8 * v /\ stride \div 2 = 4 * v
      /\ stride % 16 = 0 => stride \div 2 = 8 * u
  BY DEF IsSize
<1> HIDE DEF v, u, g, lum, chr
<1>4. /\ m \in Nat /\ n \in Nat /\ o \in Nat
      /\ stride * height = 8 * m /\ g * (stride \div 2) = 4 * n
      /\ stride % 16 = 0 => g * (stride \div 2) = 8 * o
  BY <1>3
<1>5. lum = 8 * m /\ chr = 4 * n /\ (stride % 16 = 0 => chr = 8 * o)
  BY <1>1, <1>4 DEF g
<1> HIDE DEF m, n, o
<1>6. /\ lum \in Nat /\ chr \in Nat /\ lum % 8 = 0 /\ chr % 4 = 0
      /\ stride % 16 = 0 => chr % 8 = 0
  BY <1>4, <1>5
<1> QED
  BY <1>1, <1>2, <1>6 DEF lum, chr

(* The branch of GetXY2AXIAddr for the linear map. *)
LEMMA LinearAddressed ==
  ASSUME NEW dram, NEW plane, NEW y, NEW x, NEW s, NEW fb
  PROVE  GetXY2AXIAddr(SetTiledMapType("LINEAR", dram), plane, y, x, s, fb)
           = y * s + x + fb[plane]
<1> DEFINE cfg == SetTiledMapType("LINEAR", dram)
<1>1. cfg.mapType = "LINEAR"
  BY DEF SetTiledMapType
<1>2. cfg.mapType \notin MbMaps /\ cfg.mapType \notin RowMaps
  BY <1>1 DEF MbMaps, RowMaps
<1> HIDE DEF cfg
<1>3. GetXY2AXIAddr(cfg, plane, y, x, s, fb) = y * s + x + fb[plane]
  BY <1>1, <1>2, Zenon DEF GetXY2AXIAddr
<1> QED
  BY <1>3 DEF cfg

(* Where a block of the linear map lies. *)
LEMMA LinearWhere ==
  ASSUME NEW interleave \in BOOLEAN, NEW dram, NEW stride, NEW height, IsSize(stride, height),
         interleave \/ stride % 16 = 0,
         NEW i \in Nat, NEW plane, NEW y, NEW x, NEW s,
         IsCell(interleave, stride, height, plane, y, x, s)
  PROVE  LinearIsAt(dram, stride, height, i, plane, y, x, s)
<1> DEFINE lum  == LumSize("LINEAR", stride, height)
           chr  == ChrSize("LINEAR", stride, height)
           size == FrameSize("LINEAR", dram, stride, height)
           fb   == FrameAt("LINEAR", dram, stride, height, i)
           j    == i * size
<1>1. Where("LINEAR", dram, stride, height, i, plane, y, x, s) = y * s + x + fb[plane]
  BY LinearAddressed DEF Where
<1>2. fb = [y |-> Base + j, cb |-> Base + j + lum, cr |-> Base + j + lum + chr]
  BY DEF FrameAt, MbMaps
<1>3. lum \in Nat /\ chr \in Nat /\ size = lum + 2 * chr
  BY LinearSizes
<1>4. /\ s \in Nat /\ y \in Nat /\ x \in Nat /\ s % 8 = 0 /\ x % 8 = 0
      /\ plane \in {"y", "cb", "cr"}
  BY DEF IsCell, IsSize, Planes
<1> DEFINE w == s \div 8
           d == x \div 8
           k == w * y
<1>5. w \in Nat /\ d \in Nat /\ s = 8 * w /\ x = 8 * d
  BY <1>4
<1> HIDE DEF lum, chr, size, fb, w, d
<1>6. j \in Nat /\ k \in Nat /\ y * s = 8 * k
  BY <1>3, <1>4, <1>5
<1> HIDE DEF j, k
<1>7. fb[plane] = Base + j + LinearStart(plane, lum, chr)
  <2>1. Base + j = Base + j + 0 /\ Base + j + lum + chr = Base + j + (lum + chr)
    BY <1>3, <1>6, BaseAligned
  <2> QED
    BY <1>2, <1>4, <2>1 DEF LinearStart
<1> DEFINE start == LinearStart(plane, lum, chr)
<1>8. start \in Nat
  BY <1>3 DEF LinearStart
<1> HIDE DEF start
<1>9. 8 * k + x + (Base + j + start) = Base + j + (start + 8 * (k + d))
  BY <1>5, <1>6, <1>8, BaseAligned
<1>10. Where("LINEAR", dram, stride, height, i, plane, y, x, s) = 8 * k + x + (Base + j + start)
  BY <1>1, <1>6, <1>7 DEF start
<1>11. LinearOffset(plane, y, x, s, lum, chr) = start + 8 * (k + d)
  BY DEF LinearOffset, start, k, w, d
<1> QED
  BY <1>9, <1>10, <1>11 DEF LinearIsAt, j, size, lum, chr

(* What a block takes of its plane. *)
LEMMA LinearOffsetIs ==
  ASSUME NEW interleave \in BOOLEAN, NEW stride, NEW height, IsSize(stride, height),
         interleave \/ stride % 16 = 0,
         NEW plane, NEW y, NEW x, NEW s, IsCell(interleave, stride, height, plane, y, x, s)
  PROVE  LET lum == LumSize("LINEAR", stride, height)
             chr == ChrSize("LINEAR", stride, height)
             o   == LinearOffset(plane, y, x, s, lum, chr)
         IN /\ lum \in Nat /\ chr \in Nat /\ o \in Nat /\ o % 8 = 0
            /\ LinearStart(plane, lum, chr) \in Nat /\ LinearStart(plane, lum, chr) <= o
            /\ o + 8 <= LinearEnd(interleave, plane, lum, chr)
<1> DEFINE lum   == LumSize("LINEAR", stride, height)
           chr   == ChrSize("LINEAR", stride, height)
           o     == LinearOffset(plane, y, x, s, lum, chr)
           start == LinearStart(plane, lum, chr)
           w     == s \div 8
           d     == x \div 8
           h     == IF plane = "y" THEN height ELSE height \div 2
           k     == w * y + d
           m     == w * h
<1>1. /\ s \in Nat /\ y \in Nat /\ x \in Nat /\ s % 8 = 0 /\ x % 8 = 0 /\ x < s /\ y < h
      /\ plane \in Planes /\ stride \in Nat /\ height \in Nat /\ h \in Nat
      /\ plane = "cr" => stride % 16 = 0
  BY DEF IsCell, IsSize, Planes
<1>2. /\ lum = stride * height /\ chr = (height \div 2) * (stride \div 2)
      /\ lum \in Nat /\ chr \in Nat /\ lum % 8 = 0
      /\ stride % 16 = 0 => chr % 8 = 0
  BY LinearSizes
<1>3. w \in Nat /\ d \in Nat /\ d < w /\ s = 8 * w
  BY <1>1
<1>4. start \in Nat /\ start % 8 = 0
  <2> HIDE DEF lum, chr
  <2>1. plane \in {"y", "cb", "cr"}
    BY <1>1 DEF Planes
  <2> QED
    BY <1>1, <1>2, <2>1 DEF LinearStart
<1>5. k \in Nat /\ k < m /\ m \in Nat
  <2> HIDE DEF w, d, h
  <2>1. k \in Nat /\ k < m
    BY <1>1, <1>3, Grid
  <2>2. m \in Nat
    BY <1>1, <1>3
  <2> QED
    BY <2>1, <2>2
<1>6. start + 8 * m = LinearEnd(interleave, plane, lum, chr)
  <2> DEFINE v == stride \div 8
             u == stride \div 16
             g == height \div 2
             n == v * g
             t == u * g
  <2>1. /\ v \in Nat /\ u \in Nat /\ g \in Nat /\ stride = 8 * v /\ stride \div 2 = 4 * v
        /\ stride % 16 = 0 => stride \div 2 = 8 * u
    BY <1>1 DEF IsSize
  <2>2. /\ plane = "y" => s = 8 * v /\ h = height
        /\ plane # "y" /\ interleave => plane = "cb" /\ s = 8 * v /\ h = g
        /\ plane # "y" /\ ~interleave => stride % 16 = 0 /\ s = 8 * u /\ h = g
    BY <2>1 DEF IsCell
  <2>3. /\ plane = "y" => w = v
        /\ plane # "y" /\ interleave => w = v
        /\ plane # "y" /\ ~interleave => w = u
    <3> HIDE DEF v, u, g, w, h
    <3> QED
      BY <1>3, <2>1, <2>2
  <2>4. /\ lum = stride * height /\ chr = g * (stride \div 2)
    BY <1>2
  <2> HIDE DEF v, u, g, w, h, lum, chr
  <2>5. CASE plane = "y"
    <3>1. m = v * height /\ 8 * (v * height) = stride * height
      BY <1>1, <2>1, <2>2, <2>3, <2>5
    <3>2. 8 * m = lum
      BY <2>4, <3>1
    <3> HIDE DEF m
    <3> QED
      BY <1>2, <2>5, <3>2 DEF LinearStart, LinearEnd
  <2>6. CASE plane # "y" /\ interleave
    <3>1. m = n /\ n \in Nat /\ g * (stride \div 2) = 4 * n
      BY <2>1, <2>2, <2>3, <2>6
    <3>2. 8 * m = 2 * chr
      BY <2>4, <3>1
    <3>3. plane = "cb"
      BY <2>2, <2>6
    <3> HIDE DEF m
    <3> QED
      BY <1>2, <2>6, <3>2, <3>3 DEF LinearStart, LinearEnd
  <2>7. CASE plane # "y" /\ ~interleave
    <3>1. m = t /\ t \in Nat /\ g * (stride \div 2) = 8 * t
      BY <2>1, <2>2, <2>3, <2>7
    <3>2. 8 * m = chr
      BY <2>4, <3>1
    <3>3. plane \in {"cb", "cr"}
      BY <1>1, <2>7 DEF Planes
    <3> HIDE DEF m
    <3> QED
      BY <1>2, <2>7, <3>2, <3>3 DEF LinearStart, LinearEnd
  <2> QED
    BY <2>5, <2>6, <2>7
<1>7. o = start + 8 * k
  BY DEF LinearOffset
<1> HIDE DEF lum, chr, o, start, k, m
<1>8. o \in Nat /\ o % 8 = 0 /\ start <= o /\ o + 8 <= start + 8 * m
  BY <1>4, <1>5, <1>7
<1> QED
  BY <1>2, <1>4, <1>6, <1>8 DEF lum, chr, o, start

(* It lies in its frame. *)
LEMMA LinearPlaced ==
  ASSUME NEW interleave \in BOOLEAN, NEW dram, NEW stride, NEW height, IsSize(stride, height),
         interleave \/ stride % 16 = 0,
         NEW i \in Nat, NEW plane, NEW y, NEW x, NEW s,
         IsCell(interleave, stride, height, plane, y, x, s)
  PROVE  InFrame(Where("LINEAR", dram, stride, height, i, plane, y, x, s), i,
                 FrameSize("LINEAR", dram, stride, height))
<1> DEFINE lum  == LumSize("LINEAR", stride, height)
           chr  == ChrSize("LINEAR", stride, height)
           size == FrameSize("LINEAR", dram, stride, height)
           o    == LinearOffset(plane, y, x, s, lum, chr)
           w    == Where("LINEAR", dram, stride, height, i, plane, y, x, s)
<1>1. w = Base + i * size + o
  <2>1. LinearIsAt(dram, stride, height, i, plane, y, x, s)
    BY LinearWhere
  <2> QED
    BY <2>1 DEF LinearIsAt
<1>2. lum \in Nat /\ chr \in Nat /\ o \in Nat /\ o % 8 = 0 /\ o + 8 <= lum + 2 * chr
  <2>1. /\ lum \in Nat /\ chr \in Nat /\ o \in Nat /\ o % 8 = 0
        /\ o + 8 <= LinearEnd(interleave, plane, lum, chr)
    BY LinearOffsetIs
  <2> HIDE DEF lum, chr, o
  <2>2. LinearEnd(interleave, plane, lum, chr) \in {lum, lum + chr, lum + 2 * chr}
    BY DEF LinearEnd
  <2> QED
    BY <2>1, <2>2
<1>3. size = lum + 2 * chr /\ lum % 8 = 0 /\ chr % 4 = 0
  BY LinearSizes
<1> HIDE DEF lum, chr, size, o, w
<1> DEFINE n == i * (lum \div 8 + chr \div 4)
           j == i * size
<1>4. size = 8 * (lum \div 8 + chr \div 4) /\ lum \div 8 + chr \div 4 \in Nat
  BY <1>2, <1>3
<1>5. n \in Nat /\ j = 8 * n /\ (i + 1) * size = j + size
  BY <1>4
<1>6. w = Base + j + o
  BY <1>1
<1>7. Base + (i + 1) * size = Base + j + size
  <2> DEFINE q == (i + 1) * size
  <2>1. q = j + size /\ j \in Nat /\ size \in Nat
    BY <1>4, <1>5
  <2> HIDE DEF q, j, size
  <2>2. Base + q = Base + j + size
    BY <2>1, BaseAligned
  <2> QED
    BY <2>2 DEF q
<1>8. Base + i * size = Base + j
  OBVIOUS
<1> HIDE DEF n, j
<1>9. w \in Nat /\ w % 8 = 0 /\ Base + j <= w /\ w + 8 <= Base + j + size
  BY <1>2, <1>3, <1>5, <1>6, BaseAligned
<1> QED
  BY <1>7, <1>8, <1>9 DEF InFrame, w, size

(* Two of them at one address are one. *)
LEMMA LinearApart ==
  ASSUME NEW interleave \in BOOLEAN, NEW dram,
         NEW stride, NEW height, IsSize(stride, height),
         interleave \/ stride % 16 = 0, NEW i \in Nat,
         NEW plane1, NEW y1, NEW x1, NEW s1,
         IsCell(interleave, stride, height, plane1, y1, x1, s1),
         NEW plane2, NEW y2, NEW x2, NEW s2,
         IsCell(interleave, stride, height, plane2, y2, x2, s2),
         Where("LINEAR", dram, stride, height, i, plane1, y1, x1, s1)
           = Where("LINEAR", dram, stride, height, i, plane2, y2, x2, s2)
  PROVE  plane1 = plane2 /\ y1 = y2 /\ x1 = x2
<1> DEFINE lum  == LumSize("LINEAR", stride, height)
           chr  == ChrSize("LINEAR", stride, height)
           a    == Base + i * FrameSize("LINEAR", dram, stride, height)
           o1   == LinearOffset(plane1, y1, x1, s1, lum, chr)
           o2   == LinearOffset(plane2, y2, x2, s2, lum, chr)
<1>1. /\ plane1 \in Planes /\ y1 \in Nat /\ x1 \in Nat /\ x1 % 8 = 0 /\ s1 \in Nat /\ x1 < s1
      /\ plane2 \in Planes /\ y2 \in Nat /\ x2 \in Nat /\ x2 % 8 = 0 /\ s2 \in Nat /\ x2 < s2
      /\ s1 % 8 = 0 /\ s2 % 8 = 0
      /\ plane1 = plane2 => s1 = s2
      /\ interleave => plane1 # "cr" /\ plane2 # "cr"
  BY DEF IsCell, Planes, IsSize
<1>2. o1 = o2
  <2>1. a + o1 = a + o2
    <3>1. LinearIsAt(dram, stride, height, i, plane1, y1, x1, s1)
      BY LinearWhere
    <3>2. LinearIsAt(dram, stride, height, i, plane2, y2, x2, s2)
      BY LinearWhere
    <3> QED
      BY <3>1, <3>2 DEF LinearIsAt
  <2>2. o1 \in Nat /\ o2 \in Nat /\ lum \in Nat /\ chr \in Nat
    BY LinearOffsetIs
  <2>3. a \in Nat
    <3> DEFINE size == FrameSize("LINEAR", dram, stride, height)
    <3>1. size = lum + 2 * chr
      BY LinearSizes
    <3> HIDE DEF size, lum, chr
    <3>2. size \in Nat
      BY <2>2, <3>1
    <3>3. i * size \in Nat
      BY <3>2
    <3> QED
      BY <3>3, BaseAligned DEF size
  <2> HIDE DEF a, o1, o2, lum, chr
  <2> QED
    BY <2>1, <2>2, <2>3
<1>3. plane1 = plane2
  <2> DEFINE start1 == LinearStart(plane1, lum, chr)
             start2 == LinearStart(plane2, lum, chr)
             end1   == LinearEnd(interleave, plane1, lum, chr)
             end2   == LinearEnd(interleave, plane2, lum, chr)
  <2>1. lum \in Nat /\ chr \in Nat /\ o1 \in Nat /\ start1 <= o1 /\ o1 + 8 <= end1
    BY LinearOffsetIs
  <2>2. o2 \in Nat /\ start2 <= o2 /\ o2 + 8 <= end2
    BY LinearOffsetIs
  <2>3. o1 < end2 /\ o2 < end1
    <3> HIDE DEF lum, chr, end1, end2
    <3>1. end1 \in Int /\ end2 \in Int
      BY <2>1 DEF LinearEnd, end1, end2
    <3>2. o2 + 8 <= end1 /\ o1 + 8 <= end2
      BY <1>2, <2>1, <2>2
    <3> HIDE DEF o1, o2
    <3> QED
      BY <2>1, <2>2, <3>1, <3>2
  <2>4. start1 < end2 /\ start2 < end1
    <3> HIDE DEF lum, chr, o1, o2
    <3>1. start1 \in Int /\ start2 \in Int /\ end1 \in Int /\ end2 \in Int
      BY <2>1 DEF LinearStart, LinearEnd
    <3> HIDE DEF start1, start2, end1, end2
    <3> QED
      BY <2>1, <2>2, <2>3, <3>1
  <2> HIDE DEF lum, chr, o1, o2
  <2> QED
    BY <1>1, <2>1, <2>4 DEF LinearStart, LinearEnd, Planes
<1> DEFINE w  == s1 \div 8
           d1 == x1 \div 8
           d2 == x2 \div 8
           k1 == w * y1 + d1
           k2 == w * y2 + d2
<1>4. w \in Nat /\ d1 \in Nat /\ d2 \in Nat /\ d1 < w /\ d2 < w
  BY <1>1, <1>3
<1>5. k1 = k2
  <2> DEFINE start == LinearStart(plane1, lum, chr)
  <2>1. start + 8 * k1 = start + 8 * k2
    <3>1. o1 = start + 8 * k1 /\ o2 = start + 8 * k2
      BY <1>1, <1>3 DEF LinearOffset
    <3> QED
      BY <1>2, <3>1, Zenon
  <2>2. start \in Nat
    BY LinearOffsetIs
  <2> HIDE DEF start, w, d1, d2
  <2>3. k1 \in Nat /\ k2 \in Nat
    BY <1>1, <1>4
  <2> HIDE DEF k1, k2
  <2> QED
    BY <2>1, <2>2, <2>3
<1> HIDE DEF w, d1, d2
<1>6. y1 = y2 /\ d1 = d2
  <2>1. w * y1 + d1 = w * y2 + d2
    BY <1>5
  <2> QED
    BY <1>1, <1>4, <2>1, GridTells
<1>7. x1 = x2
  <2>1. x1 \div 8 = x2 \div 8
    BY <1>6 DEF d1, d2
  <2> QED
    BY <1>1, <2>1
<1> QED
  BY <1>3, <1>6, <1>7

(***************************************************************************)
(* All maps together.                                                      *)
(***************************************************************************)
Drams == {Fpga, Board}

(* In the macroblock maps the colours share a plane whatever was asked. *)
IsBlock(map, interleave, stride, height, plane, y, x, s) ==
  \/ map \in MbMaps /\ IsCell(TRUE, stride, height, plane, y, x, s)
  \/ map \notin MbMaps /\ interleave \in BOOLEAN
       /\ IsCell(interleave, stride, height, plane, y, x, s)

(* Whatever the map, a block lies in its frame. *)
LEMMA Placed ==
  ASSUME NEW map \in MapTypes, NEW dram \in Drams, ~Crooked(map, dram),
         NEW interleave, NEW stride, NEW height, IsSize(stride, height),
         ~Ragged(map, interleave, stride, height),
         NEW i \in Nat, i <= 21, NEW plane, NEW y, NEW x, NEW s,
         IsBlock(map, interleave, stride, height, plane, y, x, s)
  PROVE  InFrame(Where(map, dram, stride, height, i, plane, y, x, s), i,
                 FrameSize(map, dram, stride, height))
<1>1. CASE map \in MbMaps
  <2>1. IsCell(TRUE, stride, height, plane, y, x, s)
    BY <1>1 DEF IsBlock
  <2> QED
    BY <1>1, <2>1, MbPlaced DEF Ragged
<1>2. CASE map = "LINEAR"
  <2>1. interleave \in BOOLEAN /\ IsCell(interleave, stride, height, plane, y, x, s)
    BY <1>2 DEF IsBlock, MbMaps
  <2> QED
    BY <1>2, <2>1, LinearPlaced DEF Ragged
<1>3. CASE map \in RowMaps
  <2>1. interleave \in BOOLEAN /\ IsCell(interleave, stride, height, plane, y, x, s)
    BY <1>3 DEF IsBlock, MbMaps, RowMaps
  <2>2. CASE dram = Fpga
    BY <1>3, <2>1, <2>2, RowPlacedFpga DEF Ragged
  <2>3. CASE dram = Board
    BY <1>3, <2>1, <2>3, RowPlacedBoard DEF Ragged
  <2> QED
    BY <2>2, <2>3 DEF Drams
<1> QED
  BY <1>1, <1>2, <1>3 DEF MapTypes

(* And two blocks of a frame at one address are one. *)
LEMMA Apart ==
  ASSUME NEW map \in MapTypes, NEW dram \in Drams, ~Crooked(map, dram),
         NEW interleave, NEW stride, NEW height, IsSize(stride, height),
         ~Ragged(map, interleave, stride, height), NEW i \in Nat, i <= 21,
         NEW plane1, NEW y1, NEW x1, NEW s1,
         IsBlock(map, interleave, stride, height, plane1, y1, x1, s1),
         NEW plane2, NEW y2, NEW x2, NEW s2,
         IsBlock(map, interleave, stride, height, plane2, y2, x2, s2),
         Where(map, dram, stride, height, i, plane1, y1, x1, s1)
           = Where(map, dram, stride, height, i, plane2, y2, x2, s2)
  PROVE  plane1 = plane2 /\ y1 = y2 /\ x1 = x2
<1>1. CASE map \in MbMaps
  <2>1. /\ IsCell(TRUE, stride, height, plane1, y1, x1, s1)
        /\ IsCell(TRUE, stride, height, plane2, y2, x2, s2)
    BY <1>1 DEF IsBlock
  <2>2. Meet(map, dram, stride, height, i, plane1, y1, x1, s1, plane2, y2, x2, s2)
    BY DEF Meet
  <2> QED
    BY <1>1, <2>1, <2>2, MbApart DEF Ragged
<1>2. CASE map = "LINEAR"
  <2>1. /\ interleave \in BOOLEAN /\ IsCell(interleave, stride, height, plane1, y1, x1, s1)
        /\ IsCell(interleave, stride, height, plane2, y2, x2, s2)
    BY <1>2 DEF IsBlock, MbMaps
  <2> QED
    BY <1>2, <2>1, LinearApart DEF Ragged
<1>3. CASE map \in RowMaps
  <2>1. /\ interleave \in BOOLEAN /\ IsCell(interleave, stride, height, plane1, y1, x1, s1)
        /\ IsCell(interleave, stride, height, plane2, y2, x2, s2)
    BY <1>3 DEF IsBlock, MbMaps, RowMaps
  <2>2. CASE dram = Fpga
    BY <1>3, <2>1, <2>2, RowsApartFpga DEF Ragged
  <2>3. CASE dram = Board
    BY <1>3, <2>1, <2>3, RowsApartBoard DEF Ragged
  <2> QED
    BY <2>2, <2>3 DEF Drams
<1> QED
  BY <1>1, <1>2, <1>3 DEF MapTypes

(* Rounding up. *)
LEMMA RoundedUp ==
  ASSUME NEW n \in Nat
  PROVE  /\ n <= RoundUp(n, 8) /\ RoundUp(n, 8) \in Nat
         /\ RoundUp(n, 16384) \in Nat /\ RoundUp(n, 32768) \in Nat
BY DEF RoundUp

(* A larger number, rounded up, is no smaller. *)
LEMMA RoundedFurther ==
  ASSUME NEW n \in Nat, NEW m \in Nat, n <= m
  PROVE  /\ RoundUp(n, 16384) <= RoundUp(m, 16384)
         /\ RoundUp(RoundUp(n, 16384), 32768) <= RoundUp(m, 32768)
<1>1. RoundUp(n, 16384) <= RoundUp(m, 16384)
  BY DEF RoundUp
<1> DEFINE p == (n + 16383) \div 16384
           q == (m + 32767) \div 32768
<1>2. p \in Nat /\ q \in Nat /\ p <= 2 * q
  OBVIOUS
<1>3. RoundUp(n, 16384) = p * 16384 /\ RoundUp(m, 32768) = q * 32768
  BY DEF RoundUp
<1> HIDE DEF p, q
<1>4. RoundUp(p * 16384, 32768) <= q * 32768
  BY <1>2 DEF RoundUp
<1> QED
  BY <1>1, <1>3, <1>4

(* The size of a frame is a number. *)
LEMMA SizeIs ==
  ASSUME NEW map \in MapTypes, NEW dram \in Drams,
         NEW stride, NEW height, IsSize(stride, height)
  PROVE  FrameSize(map, dram, stride, height) \in Nat
<1>1. CASE map \in MbMaps
  <2> DEFINE lum == LumSize(map, stride, height)
             chr == ChrSize(map, stride, height)
             a   == stride * height
             c   == (height \div 2) * (stride \div 2)
  <2>1. a \in Nat /\ c \in Nat
    <3>1. /\ stride \in Nat /\ height \in Nat
          /\ stride \div 2 \in Nat /\ height \div 2 \in Nat
      BY DEF IsSize
    <3> QED
      BY <3>1
  <2>2. lum \in Nat /\ chr \in Nat
    <3>1. /\ lum \in {RoundUp(a, 16384), RoundUp(RoundUp(a, 16384), 32768)}
          /\ chr \in {RoundUp(c, 16384), RoundUp(RoundUp(c, 16384), 32768)}
      BY <1>1 DEF LumSize, ChrSize, MbMaps
    <3> HIDE DEF lum, chr, a, c
    <3> QED
      BY <2>1, <3>1, RoundedUp
  <2>3. FrameSize(map, dram, stride, height) = lum + 2 * chr
    BY <1>1 DEF FrameSize, MbMaps, RowMaps
  <2> HIDE DEF lum, chr
  <2> QED
    BY <2>2, <2>3
<1>2. CASE map = "LINEAR"
  <2> DEFINE lum == LumSize("LINEAR", stride, height)
             chr == ChrSize("LINEAR", stride, height)
  <2>1. lum \in Nat /\ chr \in Nat /\ FrameSize("LINEAR", dram, stride, height) = lum + 2 * chr
    BY LinearSizes
  <2> HIDE DEF lum, chr
  <2> QED
    BY <1>2, <2>1
<1>3. CASE map \in RowMaps
  <2> DEFINE q == RoundUp((height \div 2 + 1) \div 2, 64) \div 64
             u == 2^LowBits(dram)
             k == 2^RowBits(dram)
  <2>1. q \in Nat
    BY DEF IsSize, RoundUp
  <2>2. (u = 8 /\ k = 16384) \/ (u = 4 /\ k = 32768)
    BY Powers DEF Drams
  <2>3. FrameSize(map, dram, stride, height) = 6 * (q * u) * k
    BY <1>3 DEF FrameSize, ChrFieldRas
  <2> HIDE DEF q, u, k
  <2> QED
    BY <2>1, <2>2, <2>3
<1> QED
  BY <1>1, <1>2, <1>3 DEF MapTypes

(* What lies in one frame lies in no other. *)
LEMMA OneFrame ==
  ASSUME NEW a, NEW size \in Nat, NEW i \in Nat, NEW j \in Nat,
         InFrame(a, i, size), InFrame(a, j, size)
  PROVE  i = j
<1>1. ASSUME NEW k \in Nat, NEW l \in Nat, k < l PROVE (k + 1) * size <= l * size
  <2> DEFINE d == l - (k + 1)
  <2>1. d \in Nat /\ l = (k + 1) + d
    BY <1>1
  <2>2. d * size \in Nat /\ l * size = (k + 1) * size + d * size
    BY <2>1
  <2>3. (k + 1) * size \in Nat
    OBVIOUS
  <2> QED
    BY <2>2, <2>3
<1> DEFINE p == i * size
           p1 == (i + 1) * size
           q == j * size
           q1 == (j + 1) * size
<1>2. p \in Nat /\ p1 \in Nat /\ q \in Nat /\ q1 \in Nat
  OBVIOUS
<1>3. /\ a \in Nat /\ Base + p <= a /\ a + 8 <= Base + p1
      /\ Base + q <= a /\ a + 8 <= Base + q1
  BY DEF InFrame
<1>4. i < j => p1 <= q
  BY <1>1
<1>5. j < i => q1 <= p
  BY <1>1
<1> HIDE DEF p, p1, q, q1
<1>6. ~(i < j) /\ ~(j < i)
  BY <1>2, <1>3, <1>4, <1>5, BaseAligned
<1> QED
  BY <1>6

(***************************************************************************)
(* What a caller is told to keep is enough.                                *)
(***************************************************************************)
(* A product of larger factors is no smaller. *)
LEMMA ProductsGrow ==
  ASSUME NEW a \in Nat, NEW b \in Nat, NEW c \in Nat, NEW d \in Nat, a <= c, b <= d
  PROVE  a * b \in Nat /\ c * d \in Nat /\ a * b <= c * d
<1> DEFINE e == c - a
           f == d - b
<1>1. e \in Nat /\ f \in Nat /\ c = a + e /\ d = b + f
  OBVIOUS
<1> HIDE DEF e, f
<1>2. c * d = a * b + a * f + e * d
  BY <1>1
<1>3. a * b \in Nat /\ a * f \in Nat /\ e * d \in Nat
  BY <1>1
<1> QED
  BY <1>2, <1>3

(* VPU_GetFrameBufSize advises no less than AllocateFrameBufferArray takes,
   though it rounds the planes in another order: it rounds the size up first. *)
LEMMA SizeFits ==
  ASSUME NEW map \in MapTypes, NEW dram \in Drams,
         NEW stride, NEW height, IsSize(stride, height)
  PROVE  /\ GetFrameBufSize(map, dram, stride, height) \in Nat
         /\ FrameSize(map, dram, stride, height) <= GetFrameBufSize(map, dram, stride, height)
<1> DEFINE w == RoundUp(stride, 16)
           h == RoundUp(height, 32)
           w2 == w \div 2
           h2 == h \div 2
           a == stride * height
           c == (height \div 2) * (stride \div 2)
           m == w * h
           n == w2 * h2
<1>1. /\ stride \in Nat /\ height \in Nat /\ w \in Nat /\ h \in Nat
      /\ stride <= w /\ height <= h /\ w % 2 = 0 /\ h % 2 = 0
  BY DEF IsSize, RoundUp
<1> HIDE DEF w, h
<1>2. /\ w2 \in Nat /\ h2 \in Nat /\ w = 2 * w2 /\ h = 2 * h2
      /\ stride \div 2 \in Nat /\ stride \div 2 <= w2
      /\ height \div 2 \in Nat /\ height \div 2 <= h2
  BY <1>1
<1> HIDE DEF w2, h2
<1>3. a \in Nat /\ m \in Nat /\ a <= m
  BY <1>1, ProductsGrow
<1>4. c \in Nat /\ n \in Nat /\ c <= n
  <2>1. c \in Nat /\ h2 * w2 \in Nat /\ c <= h2 * w2
    BY <1>2, ProductsGrow
  <2>2. h2 * w2 = n
    BY <1>2
  <2> QED
    BY <2>1, <2>2
<1>5. m = 4 * n /\ m \div 4 = n
  <2>1. m = 4 * n
    BY <1>2
  <2> HIDE DEF m, n
  <2> QED
    BY <1>4, <2>1
<1> HIDE DEF a, c, m, n
<1> DEFINE size == FrameSize(map, dram, stride, height)
           told == GetFrameBufSize(map, dram, stride, height)
<1>6. size \in Nat
  BY SizeIs
<1>7. ASSUME NEW b, told = RoundUp(b, 8), b \in Nat, size <= b
      PROVE  told \in Nat /\ size <= told
  <2> HIDE DEF size, told
  <2>1. b <= RoundUp(b, 8) /\ RoundUp(b, 8) \in Nat
    BY <1>7, RoundedUp
  <2> QED
    BY <1>6, <1>7, <2>1
<1>8. CASE map = "LINEAR"
  <2> DEFINE b == m + n * 2
  <2>1. told = RoundUp(b, 8)
    BY <1>8 DEF GetFrameBufSize, MbMaps, m, n, w, h, w2, h2
  <2>2. size = a + 2 * c
    BY <1>8, LinearSizes DEF a, c
  <2> HIDE DEF size, told
  <2>3. b \in Nat /\ size <= b
    BY <1>3, <1>4, <2>2
  <2> HIDE DEF b
  <2> QED
    BY <1>7, <2>1, <2>3 DEF size, told
<1>9. CASE map = "FRAME_MB_RASTER"
  <2> DEFINE r1 == RoundUp(m, 16384)
             r2 == RoundUp(n, 16384)
             b  == r1 + 2 * r2
  <2>1. told = RoundUp(b, 8)
    <3>1. told = RoundUp(RoundUp(m, 16384) + 2 * RoundUp(m \div 4, 16384), 8)
      BY <1>9 DEF GetFrameBufSize, MbMaps, m, w, h
    <3> QED
      BY <1>5, <3>1
  <2>2. size = RoundUp(a, 16384) + 2 * RoundUp(c, 16384)
    BY <1>9 DEF FrameSize, LumSize, ChrSize, MbMaps, RowMaps, a, c
  <2>3. /\ RoundUp(a, 16384) <= r1 /\ RoundUp(c, 16384) <= r2
        /\ RoundUp(a, 16384) \in Nat /\ RoundUp(c, 16384) \in Nat
        /\ r1 \in Nat /\ r2 \in Nat
    <3>1. RoundUp(a, 16384) <= RoundUp(m, 16384) /\ RoundUp(c, 16384) <= RoundUp(n, 16384)
      BY <1>3, <1>4, RoundedFurther
    <3>2. /\ RoundUp(a, 16384) \in Nat /\ RoundUp(c, 16384) \in Nat
          /\ RoundUp(m, 16384) \in Nat /\ RoundUp(n, 16384) \in Nat
      BY <1>3, <1>4, RoundedUp
    <3> QED
      BY <3>1, <3>2
  <2> HIDE DEF r1, r2, size, told
  <2>4. b \in Nat /\ size <= b
    BY <2>2, <2>3
  <2> HIDE DEF b
  <2> QED
    BY <1>7, <2>1, <2>4 DEF size, told
<1>10. CASE map = "FIELD_MB_RASTER"
  <2> DEFINE r1 == RoundUp(m, 32768)
             r2 == RoundUp(n, 32768)
             q1 == RoundUp(RoundUp(a, 16384), 32768)
             q2 == RoundUp(RoundUp(c, 16384), 32768)
             b  == r1 + 2 * r2
  <2>1. told = RoundUp(b, 8)
    <3>1. told = RoundUp(RoundUp(m, 32768) + 2 * RoundUp(m \div 4, 32768), 8)
      BY <1>10 DEF GetFrameBufSize, MbMaps, m, w, h
    <3> QED
      BY <1>5, <3>1
  <2>2. size = q1 + 2 * q2
    BY <1>10 DEF FrameSize, LumSize, ChrSize, MbMaps, RowMaps, a, c
  <2>3. q1 <= r1 /\ q2 <= r2 /\ q1 \in Nat /\ q2 \in Nat /\ r1 \in Nat /\ r2 \in Nat
    <3>1. RoundUp(a, 16384) \in Nat /\ RoundUp(c, 16384) \in Nat
      BY <1>3, <1>4, RoundedUp
    <3>2. q1 \in Nat /\ q2 \in Nat
      BY <3>1, RoundedUp
    <3>3. r1 \in Nat /\ r2 \in Nat
      BY <1>3, <1>4, RoundedUp
    <3>4. q1 <= r1 /\ q2 <= r2
      BY <1>3, <1>4, RoundedFurther
    <3> QED
      BY <3>2, <3>3, <3>4
  <2> HIDE DEF r1, r2, q1, q2, size, told
  <2>4. b \in Nat /\ size <= b
    BY <2>2, <2>3
  <2> HIDE DEF b
  <2> QED
    BY <1>7, <2>1, <2>4 DEF size, told
<1>11. CASE map \in RowMaps
  <2> DEFINE q == RoundUp((height \div 2 + 1) \div 2, 64) \div 64
             r == RoundUp((h2 + 1) \div 2, 64) \div 64
             u == 2^LowBits(dram)
             k == 2^RowBits(dram)
             b == 6 * (r * u) * k
  <2>1. q \in Nat /\ r \in Nat /\ q <= r
    BY <1>2 DEF RoundUp
  <2>2. (u = 8 /\ k = 16384) \/ (u = 4 /\ k = 32768)
    BY Powers DEF Drams
  <2>3. told = RoundUp(b, 8)
    BY <1>11 DEF GetFrameBufSize, ChrFieldRas, MbMaps, RowMaps, h, h2
  <2>4. size = 6 * (q * u) * k
    BY <1>11 DEF FrameSize, ChrFieldRas
  <2> HIDE DEF q, r, u, k, size, told
  <2>5. b \in Nat /\ size <= b
    BY <2>1, <2>2, <2>4
  <2> HIDE DEF b
  <2> QED
    BY <1>7, <2>3, <2>5 DEF size, told
<1> QED
  BY <1>8, <1>9, <1>10, <1>11 DEF MapTypes, MbMaps

(***************************************************************************)
(* The blocks that are looked at, and the frames of an encoder.            *)
(***************************************************************************)
TwoTo(k) == 2^k

(* The powers of two that Corners looks at. *)
LEMMA Twos == \A k \in 0 .. 11 : TwoTo(k) \in Nat /\ TwoTo(k) >= 1
<1>1. /\ TwoTo(0) = 1 /\ TwoTo(1) = 2 /\ TwoTo(2) = 4 /\ TwoTo(3) = 8 /\ TwoTo(4) = 16
      /\ TwoTo(5) = 32 /\ TwoTo(6) = 64 /\ TwoTo(7) = 128 /\ TwoTo(8) = 256
      /\ TwoTo(9) = 512 /\ TwoTo(10) = 1024 /\ TwoTo(11) = 2048
  BY DEF TwoTo
<1>2. SUFFICES ASSUME NEW k \in 0 .. 11 PROVE TwoTo(k) \in Nat /\ TwoTo(k) >= 1
  OBVIOUS
<1>3. k \in {0, 1, 2, 3, 4, 5, 6, 7, 8, 9, 10, 11}
  OBVIOUS
<1> QED
  BY <1>1, <1>3

(* What Corners chooses is in the picture. *)
LEMMA CornersAre ==
  ASSUME NEW end \in Nat
  PROVE  /\ \A n \in Corners(end, 1) : n \in Nat /\ n < end
         /\ \A n \in Corners(end, 8) : n \in Nat /\ n < end /\ n % 8 = 0
<1>1. ASSUME NEW n \in Corners(end, 1) PROVE n \in Nat /\ n < end
  <2>1. /\ 0 <= n /\ n < end
        /\ \/ n = 0 \/ n = ((end - 1) \div 1) * 1
           \/ \E k \in 0 .. 11 : n = 1 * TwoTo(k)
           \/ \E k \in 1 .. 11 : n = 1 * (TwoTo(k) - 1)
    BY <1>1 DEF Corners, TwoTo
  <2>2. CASE \E k \in 0 .. 11 : n = 1 * TwoTo(k)
    <3>1. PICK k \in 0 .. 11 : n = 1 * TwoTo(k)
      BY <2>2
    <3>2. TwoTo(k) \in Nat
      BY Twos
    <3> QED
      BY <2>1, <3>1, <3>2
  <2>3. CASE \E k \in 1 .. 11 : n = 1 * (TwoTo(k) - 1)
    <3>1. PICK k \in 1 .. 11 : n = 1 * (TwoTo(k) - 1)
      BY <2>3
    <3>2. k \in 0 .. 11
      OBVIOUS
    <3>3. TwoTo(k) \in Nat /\ TwoTo(k) >= 1
      BY <3>2, Twos
    <3> QED
      BY <2>1, <3>1, <3>3
  <2> QED
    BY <2>1, <2>2, <2>3
<1>2. ASSUME NEW n \in Corners(end, 8) PROVE n \in Nat /\ n < end /\ n % 8 = 0
  <2>1. /\ 0 <= n /\ n < end
        /\ \/ n = 0 \/ n = ((end - 1) \div 8) * 8
           \/ \E k \in 0 .. 11 : n = 8 * TwoTo(k)
           \/ \E k \in 1 .. 11 : n = 8 * (TwoTo(k) - 1)
    BY <1>2 DEF Corners, TwoTo
  <2>2. CASE \E k \in 0 .. 11 : n = 8 * TwoTo(k)
    <3>1. PICK k \in 0 .. 11 : n = 8 * TwoTo(k)
      BY <2>2
    <3>2. TwoTo(k) \in Nat
      BY Twos
    <3> QED
      BY <2>1, <3>1, <3>2
  <2>3. CASE \E k \in 1 .. 11 : n = 8 * (TwoTo(k) - 1)
    <3>1. PICK k \in 1 .. 11 : n = 8 * (TwoTo(k) - 1)
      BY <2>3
    <3>2. k \in 0 .. 11
      OBVIOUS
    <3>3. TwoTo(k) \in Nat /\ TwoTo(k) >= 1
      BY <3>2, Twos
    <3> QED
      BY <2>1, <3>1, <3>3
  <2> QED
    BY <1>2, <2>1, <2>2, <2>3
<1> QED
  BY <1>1, <1>2

(* What Blocks chooses are blocks of the picture. *)
LEMMA BlocksAre ==
  ASSUME NEW map \in MapTypes, NEW interleave \in BOOLEAN,
         NEW stride, NEW height, IsSize(stride, height),
         NEW b \in Blocks(interleave \/ map \in MbMaps, stride, height)
  PROVE  /\ b = <<b[1], b[2], b[3], b[4]>>
         /\ IsBlock(map, interleave, stride, height, b[1], b[2], b[3], b[4])
         /\ b[4] = IF b[1] = "y" \/ interleave \/ map \in MbMaps THEN stride ELSE stride \div 2
<1> DEFINE together == interleave \/ map \in MbMaps
           hs == height \div 2
           ss == stride \div 2
<1>1. stride \in Nat /\ height \in Nat /\ hs \in Nat /\ ss \in Nat
  BY DEF IsSize
<1>2. /\ \A n \in Corners(height, 1) : n \in Nat /\ n < height
      /\ \A n \in Corners(hs, 1) : n \in Nat /\ n < hs
      /\ \A n \in Corners(stride, 8) : n \in Nat /\ n < stride /\ n % 8 = 0
      /\ \A n \in Corners(ss, 8) : n \in Nat /\ n < ss /\ n % 8 = 0
  BY <1>1, CornersAre
<1>3. \/ b \in {"y"} \X Corners(height, 1) \X Corners(stride, 8) \X {stride}
      \/ together /\ b \in {"cb"} \X Corners(hs, 1) \X Corners(stride, 8) \X {stride}
      \/ ~together /\ b \in {"cb", "cr"} \X Corners(hs, 1) \X Corners(ss, 8) \X {ss}
  BY DEF Blocks
<1> HIDE DEF together
<1>4. CASE b \in {"y"} \X Corners(height, 1) \X Corners(stride, 8) \X {stride}
  <2>1. /\ b = <<b[1], b[2], b[3], b[4]>> /\ b[1] = "y" /\ b[2] \in Nat /\ b[2] < height
        /\ b[3] \in Nat /\ b[3] < stride /\ b[3] % 8 = 0 /\ b[4] = stride
    BY <1>2, <1>4
  <2>2. \A il : IsCell(il, stride, height, b[1], b[2], b[3], b[4])
    BY <2>1 DEF IsCell, Planes
  <2> QED
    BY <2>1, <2>2 DEF IsBlock
<1>5. CASE together /\ b \in {"cb"} \X Corners(hs, 1) \X Corners(stride, 8) \X {stride}
  <2>1. /\ b = <<b[1], b[2], b[3], b[4]>> /\ b[1] = "cb" /\ b[2] \in Nat /\ b[2] < hs
        /\ b[3] \in Nat /\ b[3] < stride /\ b[3] % 8 = 0 /\ b[4] = stride
    BY <1>2, <1>5
  <2>2. IsCell(TRUE, stride, height, b[1], b[2], b[3], b[4])
    BY <2>1 DEF IsCell, Planes
  <2>3. map \in MbMaps \/ interleave = TRUE
    BY <1>5 DEF together
  <2> QED
    BY <2>1, <2>2, <2>3 DEF IsBlock
<1>6. CASE ~together /\ b \in {"cb", "cr"} \X Corners(hs, 1) \X Corners(ss, 8) \X {ss}
  <2>1. /\ b = <<b[1], b[2], b[3], b[4]>> /\ b[1] \in {"cb", "cr"} /\ b[2] \in Nat /\ b[2] < hs
        /\ b[3] \in Nat /\ b[3] < ss /\ b[3] % 8 = 0 /\ b[4] = ss
    BY <1>2, <1>6
  <2>2. IsCell(FALSE, stride, height, b[1], b[2], b[3], b[4])
    BY <2>1 DEF IsCell, Planes
  <2>3. map \notin MbMaps /\ interleave = FALSE
    BY <1>6 DEF together
  <2> QED
    BY <2>1, <2>2, <2>3 DEF IsBlock
<1> QED
  BY <1>3, <1>4, <1>5, <1>6

(***************************************************************************)
(* What an encoder keeps once its frames are registered.                   *)
(***************************************************************************)
Kept(map, dram, interleave, stride, height) ==
  /\ stride # 0 /\ stride % 8 = 0
  /\ mapCfg = SetTiledMapType(map, dram)
  /\ frameBufPool = [i \in 0 .. Frames - 1 |->
       [buf |-> FrameAt(map, dram, stride, height, i), stride |-> stride,
        height |-> height, cbcrInterleave |-> interleave]]
  /\ vbFrame = [phys |-> Base, size |-> Frames * FrameSize(map, dram, stride, height)]

FramesInv ==
  Registered =>
    \E map \in MapTypes, dram \in Drams, interleave \in BOOLEAN,
       stride \in Strides, height \in Heights :
      Kept(map, dram, interleave, stride, height)

(* Where the block b of the i-th frame is read. *)
AddressOf(i, b) ==
  GetXY2AXIAddr(mapCfg, b[1], b[2], b[3], b[4], frameBufPool[i].buf)

(* Inside the memory that was asked for, and whole. *)
InMemory(a) ==
  a \in Nat /\ a % 8 = 0 /\ a >= vbFrame.phys /\ a + 8 <= vbFrame.phys + vbFrame.size

(* What is read of it. *)
LEMMA KeptAre ==
  ASSUME NEW map \in MapTypes, NEW dram \in Drams, NEW interleave \in BOOLEAN,
         NEW stride \in Strides, NEW height \in Heights,
         Kept(map, dram, interleave, stride, height)
  PROVE  /\ mapCfg.mapType = map /\ mapCfg.dram = dram
         /\ DOMAIN frameBufPool = 0 .. Frames - 1
         /\ 0 \in 0 .. Frames - 1
         /\ frameBufPool[0].stride = stride /\ frameBufPool[0].height = height
         /\ frameBufPool[0].cbcrInterleave = interleave
         /\ vbFrame.phys = Base
         /\ vbFrame.size = Frames * FrameSize(map, dram, stride, height)
<1>1. Frames \in 1 .. 22
  BY FrameMapsAssumption
<1>2. 0 \in 0 .. Frames - 1
  BY <1>1
<1>3. mapCfg.mapType = map /\ mapCfg.dram = dram
  BY DEF Kept, SetTiledMapType
<1>4. /\ DOMAIN frameBufPool = 0 .. Frames - 1
      /\ frameBufPool[0].stride = stride /\ frameBufPool[0].height = height
      /\ frameBufPool[0].cbcrInterleave = interleave
  BY <1>2 DEF Kept
<1>5. vbFrame.phys = Base /\ vbFrame.size = Frames * FrameSize(map, dram, stride, height)
  BY DEF Kept
<1> QED
  BY <1>2, <1>3, <1>4, <1>5

(* The address is the one of the layout. *)
LEMMA KeptWhere ==
  ASSUME NEW map \in MapTypes, NEW dram \in Drams, NEW interleave \in BOOLEAN,
         NEW stride \in Strides, NEW height \in Heights,
         Kept(map, dram, interleave, stride, height),
         NEW i \in 0 .. Frames - 1, NEW b
  PROVE  AddressOf(i, b) = Where(map, dram, stride, height, i, b[1], b[2], b[3], b[4])
<1>1. frameBufPool[i].buf = FrameAt(map, dram, stride, height, i)
  BY DEF Kept
<1>2. mapCfg = SetTiledMapType(map, dram)
  BY DEF Kept
<1> QED
  BY <1>1, <1>2 DEF AddressOf, Where

(* The frames are counted from 0 to at most 21. *)
LEMMA FrameNumber ==
  ASSUME NEW i \in 0 .. Frames - 1
  PROVE  i \in Nat /\ i <= 21 /\ i + 1 <= Frames /\ Frames \in Nat
BY FrameMapsAssumption

(* A block of a registered frame lies in its frame, and so in the memory. *)
LEMMA KeptPlaced ==
  ASSUME NEW map \in MapTypes, NEW dram \in Drams, NEW interleave \in BOOLEAN,
         NEW stride \in Strides, NEW height \in Heights,
         Kept(map, dram, interleave, stride, height), ~Crooked(map, dram),
         ~Ragged(map, interleave, stride, height), NEW i \in 0 .. Frames - 1, NEW b,
         IsBlock(map, interleave, stride, height, b[1], b[2], b[3], b[4])
  PROVE  /\ InFrame(AddressOf(i, b), i, FrameSize(map, dram, stride, height))
         /\ InMemory(AddressOf(i, b))
<1> DEFINE size == FrameSize(map, dram, stride, height)
           a == AddressOf(i, b)
<1>1. i \in Nat /\ i <= 21 /\ i + 1 <= Frames /\ Frames \in Nat
  BY FrameNumber
<1>2. IsSize(stride, height)
  BY SizesAre DEF Kept
<1>3. InFrame(Where(map, dram, stride, height, i, b[1], b[2], b[3], b[4]), i, size)
  BY <1>1, <1>2, Placed
<1>4. a = Where(map, dram, stride, height, i, b[1], b[2], b[3], b[4])
  BY KeptWhere
<1>5. size \in Nat
  BY <1>2, SizeIs
<1>6. vbFrame.phys = Base /\ vbFrame.size = Frames * size
  BY KeptAre
<1> HIDE DEF size, a
<1>7. InFrame(a, i, size)
  BY <1>3, <1>4
<1>8. (i + 1) * size <= Frames * size
  <2> DEFINE d == Frames - (i + 1)
  <2>1. d \in Nat /\ Frames = (i + 1) + d
    BY <1>1
  <2>2. d * size \in Nat /\ Frames * size = (i + 1) * size + d * size
    BY <1>1, <1>5, <2>1
  <2>3. (i + 1) * size \in Nat
    BY <1>1, <1>5
  <2> QED
    BY <2>2, <2>3
<1>9. InMemory(a)
  <2> DEFINE p == i * size
             q == (i + 1) * size
             r == Frames * size
  <2>1. p \in Nat /\ q \in Nat /\ r \in Nat /\ q <= r
    BY <1>1, <1>5, <1>8
  <2>2. a \in Nat /\ a % 8 = 0 /\ Base + p <= a /\ a + 8 <= Base + q
    BY <1>7 DEF InFrame
  <2>3. vbFrame.phys = Base /\ vbFrame.size = r
    BY <1>6
  <2> HIDE DEF p, q, r
  <2>4. a >= Base /\ a + 8 <= Base + r
    BY <2>1, <2>2, BaseAligned
  <2> QED
    BY <2>2, <2>3, <2>4 DEF InMemory
<1> QED
  BY <1>7, <1>9 DEF a, size

(* Two of them at one address are one block of one frame. *)
LEMMA KeptApart ==
  ASSUME NEW map \in MapTypes, NEW dram \in Drams, NEW interleave \in BOOLEAN,
         NEW stride \in Strides, NEW height \in Heights,
         Kept(map, dram, interleave, stride, height), ~Crooked(map, dram),
         ~Ragged(map, interleave, stride, height), NEW i \in 0 .. Frames - 1, NEW b,
         IsBlock(map, interleave, stride, height, b[1], b[2], b[3], b[4]),
         NEW j \in 0 .. Frames - 1, NEW c,
         IsBlock(map, interleave, stride, height, c[1], c[2], c[3], c[4]),
         AddressOf(i, b) = AddressOf(j, c)
  PROVE  i = j /\ b[1] = c[1] /\ b[2] = c[2] /\ b[3] = c[3]
<1>1. IsSize(stride, height)
  BY SizesAre DEF Kept
<1>2. i = j
  <2> DEFINE size == FrameSize(map, dram, stride, height)
             a == AddressOf(i, b)
  <2>1. size \in Nat
    BY <1>1, SizeIs
  <2>2. InFrame(a, i, size)
    BY KeptPlaced
  <2>3. InFrame(AddressOf(j, c), j, size)
    BY KeptPlaced
  <2>4. a = AddressOf(j, c)
    OBVIOUS
  <2>5. i \in Nat /\ j \in Nat
    BY FrameNumber
  <2> HIDE DEF size, a
  <2> QED
    BY <2>1, <2>2, <2>3, <2>4, <2>5, OneFrame
<1>3. /\ AddressOf(i, b) = Where(map, dram, stride, height, i, b[1], b[2], b[3], b[4])
      /\ AddressOf(j, c) = Where(map, dram, stride, height, j, c[1], c[2], c[3], c[4])
  BY KeptWhere
<1>4. Where(map, dram, stride, height, i, b[1], b[2], b[3], b[4])
        = Where(map, dram, stride, height, i, c[1], c[2], c[3], c[4])
  BY <1>2, <1>3
<1>5. i \in Nat /\ i <= 21
  BY FrameNumber
<1> QED
  BY <1>1, <1>2, <1>4, <1>5, Apart

(* The memory asked for is no more than the caller was told to keep. *)
LEMMA KeptFits ==
  ASSUME NEW map \in MapTypes, NEW dram \in Drams, NEW interleave \in BOOLEAN,
         NEW stride \in Strides, NEW height \in Heights,
         Kept(map, dram, interleave, stride, height)
  PROVE  vbFrame.size <= Frames * GetFrameBufSize(map, dram, stride, height)
<1> DEFINE size == FrameSize(map, dram, stride, height)
           told == GetFrameBufSize(map, dram, stride, height)
<1>1. IsSize(stride, height)
  BY SizesAre DEF Kept
<1>2. size \in Nat /\ told \in Nat /\ size <= told
  BY <1>1, SizeIs, SizeFits
<1>3. vbFrame.size = Frames * size
  BY KeptAre
<1>4. Frames \in Nat
  BY FrameMapsAssumption
<1> HIDE DEF size, told
<1> DEFINE d == told - size
<1>5. d \in Nat /\ told = size + d
  BY <1>2
<1> HIDE DEF d
<1>6. Frames * d \in Nat /\ Frames * told = Frames * size + Frames * d
  BY <1>2, <1>4, <1>5
<1>7. Frames * size \in Nat
  BY <1>2, <1>4
<1> QED
  BY <1>3, <1>6, <1>7 DEF told

(* As many addresses as blocks. *)
LEMMA Counted ==
  ASSUME NEW B, NEW f, f = [b \in B |-> f[b]],
         NEW p \in Nat, NEW q \in Nat,
         \A b \in B : f[b] \in Nat /\ p <= f[b] /\ f[b] <= q,
         \A b, c \in B : f[b] = f[c] => b = c
  PROVE  Cardinality({f[b] : b \in B}) = Cardinality(B)
<1> DEFINE used == {f[b] : b \in B}
<1>1. f \in [B -> p .. q] /\ DOMAIN f = B
  OBVIOUS
<1>2. f \in Injection(B, p .. q)
  BY <1>1 DEF Injection, IsInjective
<1>3. IsFiniteSet(p .. q)
  BY FS_Interval
<1>4. IsFiniteSet(B)
  BY <1>2, <1>3, FS_Injection
<1>5. f \in [B -> used]
  OBVIOUS
<1>6. f \in Surjection(B, used)
  BY <1>5 DEF Surjection
<1>7. f \in Injection(B, used)
  BY <1>1, <1>5 DEF Injection, IsInjective
<1> HIDE DEF used
<1>8. Cardinality(used) = Cardinality(B)
  BY <1>4, <1>6, <1>7, FS_Surjection
<1> QED
  BY <1>8 DEF used

(* What BlocksApart says of an encoder whose frames are registered. *)
LEMMA KeptBlocksApart ==
  ASSUME NEW map \in MapTypes, NEW dram \in Drams, NEW interleave \in BOOLEAN,
         NEW stride \in Strides, NEW height \in Heights,
         Kept(map, dram, interleave, stride, height)
  PROVE  BlocksApart
<1> DEFINE together == interleave \/ map \in MbMaps
           cells == Blocks(together, stride, height)
           blocks == (0 .. Frames - 1) \X cells
           f == [b \in blocks |-> AddressOf(b[1], b[2])]
           used == {f[b] : b \in blocks}
<1>1. IsSize(stride, height)
  BY SizesAre DEF Kept
<1>2. ASSUME NEW b \in cells
      PROVE  /\ b = <<b[1], b[2], b[3], b[4]>>
             /\ IsBlock(map, interleave, stride, height, b[1], b[2], b[3], b[4])
             /\ b[4] = IF b[1] = "y" \/ together THEN stride ELSE stride \div 2
  BY <1>1, <1>2, BlocksAre
<1> HIDE DEF cells, together
<1>3. ASSUME NEW b \in blocks
      PROVE  b[1] \in 0 .. Frames - 1 /\ b[2] \in cells /\ b = <<b[1], b[2]>>
             /\ f[b] = AddressOf(b[1], b[2])
  OBVIOUS
<1>4. f = [b \in blocks |-> f[b]]
  OBVIOUS
<1> HIDE DEF blocks, f
<1>5. ASSUME ~Crooked(map, dram), ~Ragged(map, interleave, stride, height), NEW b \in blocks
      PROVE  InMemory(f[b])
  <2>1. b[1] \in 0 .. Frames - 1 /\ b[2] \in cells /\ f[b] = AddressOf(b[1], b[2])
    BY <1>3
  <2> DEFINE c == b[2]
  <2>2. IsBlock(map, interleave, stride, height, c[1], c[2], c[3], c[4])
    BY <1>2, <2>1
  <2> HIDE DEF c
  <2>3. InMemory(AddressOf(b[1], c))
    BY <1>5, <2>1, <2>2, KeptPlaced
  <2> QED
    BY <2>1, <2>3 DEF c
<1>6. ASSUME ~Crooked(map, dram), ~Ragged(map, interleave, stride, height),
             NEW b \in blocks, NEW c \in blocks, f[b] = f[c]
      PROVE  b = c
  <2> DEFINE d == b[2]
             e == c[2]
  <2>1. /\ b[1] \in 0 .. Frames - 1 /\ d \in cells /\ f[b] = AddressOf(b[1], d) /\ b = <<b[1], d>>
        /\ c[1] \in 0 .. Frames - 1 /\ e \in cells /\ f[c] = AddressOf(c[1], e) /\ c = <<c[1], e>>
    BY <1>3
  <2> HIDE DEF d, e
  <2>2. /\ IsBlock(map, interleave, stride, height, d[1], d[2], d[3], d[4])
        /\ IsBlock(map, interleave, stride, height, e[1], e[2], e[3], e[4])
    BY <1>2, <2>1
  <2>3. AddressOf(b[1], d) = AddressOf(c[1], e)
    BY <1>6, <2>1
  <2>4. b[1] = c[1] /\ d[1] = e[1] /\ d[2] = e[2] /\ d[3] = e[3]
    BY <1>6, <2>1, <2>2, <2>3, KeptApart
  <2>5. d[4] = e[4]
    BY <1>2, <2>1, <2>4
  <2>6. d = <<d[1], d[2], d[3], d[4]>> /\ e = <<e[1], e[2], e[3], e[4]>>
    BY <1>2, <2>1
  <2>7. d = e
    BY <2>4, <2>5, <2>6
  <2> QED
    BY <2>1, <2>4, <2>7
<1>7. ~Crooked(map, dram) /\ ~Ragged(map, interleave, stride, height) =>
        /\ Cardinality(used) = Cardinality(blocks)
        /\ \A a \in used : /\ a % 8 = 0
                           /\ a >= vbFrame.phys
                           /\ a + 8 <= vbFrame.phys + vbFrame.size
  <2>1. SUFFICES ASSUME ~Crooked(map, dram), ~Ragged(map, interleave, stride, height)
                 PROVE  /\ Cardinality(used) = Cardinality(blocks)
                        /\ \A a \in used : InMemory(a)
    BY DEF InMemory
  <2>2. \A a \in used : InMemory(a)
    BY <1>5, <2>1
  <2> DEFINE q == vbFrame.phys + vbFrame.size
  <2>3. Base \in Nat /\ q \in Nat /\ vbFrame.phys = Base
    <3>1. vbFrame.phys = Base /\ vbFrame.size = Frames * FrameSize(map, dram, stride, height)
      BY KeptAre
    <3>2. FrameSize(map, dram, stride, height) \in Nat
      BY <1>1, SizeIs
    <3>3. Frames \in Nat /\ Base \in Nat
      BY FrameMapsAssumption
    <3> DEFINE size == FrameSize(map, dram, stride, height)
               r == Frames * size
    <3> HIDE DEF size
    <3>4. r \in Nat
      BY <3>2, <3>3 DEF size
    <3>5. vbFrame.size = r
      BY <3>1 DEF size
    <3> HIDE DEF r
    <3> QED
      BY <3>1, <3>3, <3>4, <3>5
  <2> HIDE DEF q
  <2>4. \A b \in blocks : f[b] \in Nat /\ Base <= f[b] /\ f[b] <= q
    <3>1. SUFFICES ASSUME NEW b \in blocks PROVE f[b] \in Nat /\ Base <= f[b] /\ f[b] <= q
      OBVIOUS
    <3>2. f[b] \in Nat /\ f[b] >= Base /\ f[b] + 8 <= q
      BY <1>5, <2>1, <2>3 DEF InMemory, q
    <3> QED
      BY <2>3, <3>2
  <2>5. \A b, c \in blocks : f[b] = f[c] => b = c
    BY <1>6, <2>1
  <2>6. Cardinality(used) = Cardinality(blocks)
    BY <1>4, <2>3, <2>4, <2>5, Counted
  <2> QED
    BY <2>2, <2>6
<1>8. vbFrame.size <= Frames * GetFrameBufSize(map, dram, stride, height)
  BY KeptFits
<1>9. /\ mapCfg.mapType = map /\ mapCfg.dram = dram
      /\ DOMAIN frameBufPool = 0 .. Frames - 1
      /\ frameBufPool[0].stride = stride /\ frameBufPool[0].height = height
      /\ frameBufPool[0].cbcrInterleave = interleave
  BY KeptAre
<1>10. used = {GetXY2AXIAddr(mapCfg, b[2][1], b[2][2], b[2][3], b[2][4],
                             frameBufPool[b[1]].buf) : b \in blocks}
  BY <1>3 DEF AddressOf
<1>11. blocks = (DOMAIN frameBufPool)
                  \X Blocks(frameBufPool[0].cbcrInterleave \/ mapCfg.mapType \in MbMaps,
                            frameBufPool[0].stride, frameBufPool[0].height)
  BY <1>9 DEF blocks, cells, together
<1> HIDE DEF used
<1> QED
  BY <1>7, <1>8, <1>9, <1>10, <1>11 DEF BlocksApart

(* Every block of a frame, not those about the corners alone. *)
AllBlocks(interleave, stride, height) ==
  LET Plane(names, s, h) == names \X (0 .. h - 1) \X {x \in 0 .. s - 1 : x % 8 = 0} \X {s}
  IN Plane({"y"}, stride, height) \cup
     IF interleave THEN Plane({"cb"}, stride, height \div 2)
                   ELSE Plane({"cb", "cr"}, stride \div 2, height \div 2)

BlocksOfFrames ==
  (DOMAIN frameBufPool)
    \X AllBlocks(frameBufPool[0].cbcrInterleave \/ mapCfg.mapType \in MbMaps,
                 frameBufPool[0].stride, frameBufPool[0].height)

(* Of all the blocks of all the frames each lies inside the memory that was
   asked for, at an address of its own; but for the map that is crooked and the
   sizes that a map cannot lay out. *)
EveryBlockApart ==
  /\ Registered
  /\ ~Crooked(mapCfg.mapType, mapCfg.dram)
  /\ ~Ragged(mapCfg.mapType, frameBufPool[0].cbcrInterleave,
             frameBufPool[0].stride, frameBufPool[0].height)
  => \A b, c \in BlocksOfFrames :
      /\ InMemory(AddressOf(b[1], b[2]))
      /\ AddressOf(b[1], b[2]) = AddressOf(c[1], c[2]) => b = c

(* Those are blocks of the picture. *)
LEMMA AllBlocksAre ==
  ASSUME NEW map \in MapTypes, NEW interleave \in BOOLEAN,
         NEW stride, NEW height, IsSize(stride, height),
         NEW b \in AllBlocks(interleave \/ map \in MbMaps, stride, height)
  PROVE  /\ b = <<b[1], b[2], b[3], b[4]>>
         /\ IsBlock(map, interleave, stride, height, b[1], b[2], b[3], b[4])
         /\ b[4] = IF b[1] = "y" \/ interleave \/ map \in MbMaps THEN stride ELSE stride \div 2
<1> DEFINE together == interleave \/ map \in MbMaps
           hs == height \div 2
           ss == stride \div 2
           Xs8(s) == {x \in 0 .. s - 1 : x % 8 = 0}
<1>1. stride \in Nat /\ height \in Nat /\ hs \in Nat /\ ss \in Nat
  BY DEF IsSize
<1>2. \/ b \in {"y"} \X (0 .. height - 1) \X Xs8(stride) \X {stride}
      \/ together /\ b \in {"cb"} \X (0 .. hs - 1) \X Xs8(stride) \X {stride}
      \/ ~together /\ b \in {"cb", "cr"} \X (0 .. hs - 1) \X Xs8(ss) \X {ss}
  BY DEF AllBlocks
<1> HIDE DEF together
<1>3. CASE b \in {"y"} \X (0 .. height - 1) \X Xs8(stride) \X {stride}
  <2>1. /\ b = <<b[1], b[2], b[3], b[4]>> /\ b[1] = "y" /\ b[2] \in Nat /\ b[2] < height
        /\ b[3] \in Nat /\ b[3] < stride /\ b[3] % 8 = 0 /\ b[4] = stride
    BY <1>1, <1>3
  <2>2. \A il : IsCell(il, stride, height, b[1], b[2], b[3], b[4])
    BY <2>1 DEF IsCell, Planes
  <2> QED
    BY <2>1, <2>2 DEF IsBlock
<1>4. CASE together /\ b \in {"cb"} \X (0 .. hs - 1) \X Xs8(stride) \X {stride}
  <2>1. /\ b = <<b[1], b[2], b[3], b[4]>> /\ b[1] = "cb" /\ b[2] \in Nat /\ b[2] < hs
        /\ b[3] \in Nat /\ b[3] < stride /\ b[3] % 8 = 0 /\ b[4] = stride
    BY <1>1, <1>4
  <2>2. IsCell(TRUE, stride, height, b[1], b[2], b[3], b[4])
    BY <2>1 DEF IsCell, Planes
  <2>3. map \in MbMaps \/ interleave = TRUE
    BY <1>4 DEF together
  <2> QED
    BY <2>1, <2>2, <2>3 DEF IsBlock
<1>5. CASE ~together /\ b \in {"cb", "cr"} \X (0 .. hs - 1) \X Xs8(ss) \X {ss}
  <2>1. /\ b = <<b[1], b[2], b[3], b[4]>> /\ b[1] \in {"cb", "cr"} /\ b[2] \in Nat /\ b[2] < hs
        /\ b[3] \in Nat /\ b[3] < ss /\ b[3] % 8 = 0 /\ b[4] = ss
    BY <1>1, <1>5
  <2>2. IsCell(FALSE, stride, height, b[1], b[2], b[3], b[4])
    BY <2>1 DEF IsCell, Planes
  <2>3. map \notin MbMaps /\ interleave = FALSE
    BY <1>5 DEF together
  <2> QED
    BY <2>1, <2>2, <2>3 DEF IsBlock
<1> QED
  BY <1>2, <1>3, <1>4, <1>5

(* What EveryBlockApart says of an encoder whose frames are registered. *)
LEMMA KeptEveryBlockApart ==
  ASSUME NEW map \in MapTypes, NEW dram \in Drams, NEW interleave \in BOOLEAN,
         NEW stride \in Strides, NEW height \in Heights,
         Kept(map, dram, interleave, stride, height)
  PROVE  EveryBlockApart
<1> DEFINE together == interleave \/ map \in MbMaps
           cells == AllBlocks(together, stride, height)
<1>1. SUFFICES ASSUME ~Crooked(map, dram), ~Ragged(map, interleave, stride, height),
                      NEW b \in (0 .. Frames - 1) \X cells,
                      NEW c \in (0 .. Frames - 1) \X cells
               PROVE  /\ InMemory(AddressOf(b[1], b[2]))
                      /\ AddressOf(b[1], b[2]) = AddressOf(c[1], c[2]) => b = c
  <2>1. /\ mapCfg.mapType = map /\ mapCfg.dram = dram
        /\ DOMAIN frameBufPool = 0 .. Frames - 1
        /\ frameBufPool[0].stride = stride /\ frameBufPool[0].height = height
        /\ frameBufPool[0].cbcrInterleave = interleave
    BY KeptAre
  <2>2. BlocksOfFrames = (0 .. Frames - 1) \X cells
    BY <2>1 DEF BlocksOfFrames
  <2> HIDE DEF cells
  <2> QED
    BY <2>1, <2>2 DEF EveryBlockApart
<1>2. IsSize(stride, height)
  BY SizesAre DEF Kept
<1>3. ASSUME NEW d \in cells
      PROVE  /\ d = <<d[1], d[2], d[3], d[4]>>
             /\ IsBlock(map, interleave, stride, height, d[1], d[2], d[3], d[4])
             /\ d[4] = IF d[1] = "y" \/ together THEN stride ELSE stride \div 2
  BY <1>2, <1>3, AllBlocksAre
<1> HIDE DEF cells, together
<1> DEFINE i == b[1]
           j == c[1]
           d == b[2]
           e == c[2]
<1>4. /\ i \in 0 .. Frames - 1 /\ d \in cells /\ b = <<i, d>>
      /\ j \in 0 .. Frames - 1 /\ e \in cells /\ c = <<j, e>>
  OBVIOUS
<1> HIDE DEF i, j, d, e
<1>5. /\ IsBlock(map, interleave, stride, height, d[1], d[2], d[3], d[4])
      /\ IsBlock(map, interleave, stride, height, e[1], e[2], e[3], e[4])
  BY <1>3, <1>4
<1>6. InMemory(AddressOf(i, d))
  BY <1>1, <1>4, <1>5, KeptPlaced
<1>7. ASSUME AddressOf(i, d) = AddressOf(j, e) PROVE b = c
  <2>1. i = j /\ d[1] = e[1] /\ d[2] = e[2] /\ d[3] = e[3]
    BY <1>1, <1>4, <1>5, <1>7, KeptApart
  <2>2. d[4] = e[4]
    BY <1>3, <1>4, <2>1
  <2>3. d = <<d[1], d[2], d[3], d[4]>> /\ e = <<e[1], e[2], e[3], e[4]>>
    BY <1>3, <1>4
  <2>4. d = e
    BY <2>1, <2>2, <2>3
  <2> QED
    BY <1>4, <2>1, <2>4
<1> QED
  BY <1>6, <1>7 DEF i, j, d, e

(***************************************************************************)
(* The theorems.                                                           *)
(***************************************************************************)
(* FramesInv is inductive. *)
LEMMA FramesInductive ==
  /\ FramesInit => FramesInv
  /\ FramesInv /\ [RegisterFrames]_frameVars => FramesInv'
<1>1. FramesInit => FramesInv
  BY DEF FramesInit, FramesInv, Registered
<1>2. ASSUME FramesInv, RegisterFrames PROVE FramesInv'
  <2>1. PICK map \in MapTypes, dram \in Drams, interleave \in BOOLEAN,
             stride \in Strides, height \in Heights :
          RegisterFrameBuffer(map, dram, interleave, stride, height)
    BY <1>2 DEF RegisterFrames, Drams
  <2>2. Kept(map, dram, interleave, stride, height)'
    BY <2>1 DEF RegisterFrameBuffer, Kept
  <2> QED
    BY <2>2 DEF FramesInv
<1>3. ASSUME FramesInv, UNCHANGED frameVars PROVE FramesInv'
  BY <1>3 DEF FramesInv, Kept, Registered, frameVars
<1> QED
  BY <1>1, <1>2, <1>3

(* Once frames are registered, the encoder keeps the layout and the tables of
   one map, one memory and one size: VPU_EncRegisterFrameBuffer leaves no
   mixture of two behind. *)
THEOREM FramesKept == FramesSpec => []FramesInv
BY FramesInductive, PTL DEF FramesSpec

(* For every stride up to 2048 and height up to 1088 that VPU_EncRegisterFrameBuffer
   lets pass, up to 22 frames and every page their memory begins at: a frame fits
   what VPU_GetFrameBufSize advises, and unless the map is crooked or cannot lay out
   the size (Ragged), no two of the blocks that BlocksApart looks at have an address
   in common and none lies outside the memory. *)
THEOREM BlocksLieApart == FramesSpec => []BlocksApart
<1>1. FramesInv => BlocksApart
  <2>1. CASE ~Registered
    BY <2>1 DEF BlocksApart
  <2> QED
    BY <2>1, KeptBlocksApart DEF FramesInv
<1> QED
  BY <1>1, FramesKept, PTL

(* The same of every block of eight bytes of every plane of every frame, of
   which TLC can look at a few only. *)
THEOREM EveryBlockLiesApart == FramesSpec => []EveryBlockApart
<1>1. FramesInv => EveryBlockApart
  <2>1. CASE ~Registered
    BY <2>1 DEF EveryBlockApart
  <2> QED
    BY <2>1, KeptEveryBlockApart DEF FramesInv
<1> QED
  BY <1>1, FramesKept, PTL
==============================================================================
