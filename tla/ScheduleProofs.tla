--------------------------- MODULE ScheduleProofs ---------------------------
(***************************************************************************)
(* Proofs about Schedule, for all settings, calendars and sizes: the two   *)
(* layers agree on whether a schedule is over; the search for the next     *)
(* trigger finds the first instant that the settings name; and a schedule  *)
(* triggers at every such instant, and at no other unless the timer's      *)
(* period has wrapped.                                                     *)
(*                                                                         *)
(* And about ScheduleList, for every set of identifiers, length of the     *)
(* list and of the queue: the list, its timers and the newest report agree *)
(* through operations, triggers, the setting of the clock and restarts; an *)
(* index leads to the schedule that triggered; and a one-time schedule     *)
(* triggers once if the cloud operates with the clock set (BeforeSync =    *)
(* FALSE).                                                                 *)
(***************************************************************************)
EXTENDS Schedule, ScheduleList, SequenceTheorems, TLAPS

-----------------------------------------------------------------------------
(* Division and bits. *)

\* A number below the divisor.
LEMMA DivSmall ==
    ASSUME NEW n \in Nat \ {0}, NEW x \in Nat, x < n
    PROVE  x \div n = 0 /\ x % n = x
  OBVIOUS

\* Quotient and remainder.
LEMMA DivMod ==
    ASSUME NEW n \in Nat \ {0}, NEW x \in Nat
    PROVE  /\ x \div n \in Nat /\ x % n \in Nat /\ x % n < n
           /\ x = (x \div n) * n + (x % n)
           /\ x >= n <=> x \div n >= 1
  OBVIOUS

\* They are the only ones.
LEMMA DivUnique ==
    ASSUME NEW n \in Nat \ {0}, NEW q \in Nat, NEW r \in Nat, r < n
    PROVE  (q * n + r) \div n = q /\ (q * n + r) % n = r
  OBVIOUS

\* Dividing twice is dividing by the product.
LEMMA DivDiv ==
    ASSUME NEW n \in Nat \ {0}, NEW m \in Nat \ {0}, NEW x \in Nat
    PROVE  (x \div n) \div m = x \div (m * n)
  OBVIOUS

\* The last bit and the rest.
LEMMA Halves ==
    ASSUME NEW q \in Nat
    PROVE  /\ q \div 2 \in Nat
           /\ q % 2 = 1 => q = 2 * (q \div 2) + 1
           /\ q % 2 # 1 => q = 2 * (q \div 2)
  OBVIOUS

\* The values of the bits.
LEMMA Powers ==
    ASSUME NEW i \in Nat, i <= 14
    PROVE  /\ Bit(i) \in Nat \ {0}
           /\ Bit(i + 1) = 2 * Bit(i)
  <1>1. /\ Bit(0) = 1 /\ Bit(1) = 2 /\ Bit(2) = 4 /\ Bit(3) = 8 /\ Bit(4) = 16 /\ Bit(5) = 32
        /\ Bit(6) = 64 /\ Bit(7) = 128 /\ Bit(8) = 256 /\ Bit(9) = 512 /\ Bit(10) = 1024
        /\ Bit(11) = 2048 /\ Bit(12) = 4096 /\ Bit(13) = 8192 /\ Bit(14) = 16384 /\ Bit(15) = 32768
    BY DEF Bit
  <1>2. i \in {0, 1, 2, 3, 4, 5, 6, 7, 8, 9, 10, 11, 12, 13, 14}
    OBVIOUS
  <1> QED BY <1>1, <1>2

\* What is left of a mask above its first i bits.
Rest(x, i) == x \div Bit(i)

\* Each bit is the last one of what is left above the ones before it.
LEMMA RestStep ==
    ASSUME NEW x \in Nat, NEW i \in Nat, i <= 13
    PROVE  /\ Rest(x, i) \in Nat /\ Rest(x, i + 1) \in Nat
           /\ x >= Bit(i) <=> Rest(x, i) >= 1
           /\ HasBit(x, i) => Rest(x, i) = 2 * Rest(x, i + 1) + 1
           /\ ~HasBit(x, i) => Rest(x, i) = 2 * Rest(x, i + 1)
  <1>1. PICK p \in Nat \ {0} : p = Bit(i) /\ Bit(i + 1) = 2 * p
    BY Powers
  <1>2. (x \div p) \div 2 = x \div (2 * p)
    BY DivDiv
  <1>3. x \div p \in Nat /\ (x >= p <=> x \div p >= 1)
    BY DivMod
  <1> QED BY <1>1, <1>2, <1>3, Halves DEF Rest, HasBit

\* A mask of months has 12 bits.
LEMMA RestEnds ==
    ASSUME NEW x \in Nat, x <= 4095
    PROVE  /\ Rest(x, 0) = x /\ Rest(x, 12) = 0
           /\ ~HasBit(x, 12) /\ ~HasBit(x, 13) /\ ~HasBit(x, 14) /\ ~HasBit(x, 15)
  <1>1. Bit(0) = 1 /\ Bit(12) = 4096 /\ Bit(13) = 8192 /\ Bit(14) = 16384 /\ Bit(15) = 32768
    BY DEF Bit
  <1>2. x \div 1 = x /\ x \div 4096 = 0 /\ x \div 8192 = 0 /\ x \div 16384 = 0 /\ x \div 32768 = 0
    BY DivSmall
  <1> QED BY <1>1, <1>2 DEF Rest, HasBit

\* A mask that is at least 2^i has a bit at place i or above.
LEMMA SomeBit ==
    ASSUME NEW x \in Nat, x <= 4095, NEW i \in Nat, i <= 11
    PROVE  x >= Bit(i) <=> \E j \in Nat : i <= j /\ j <= 11 /\ HasBit(x, j)
  <1>1. \A j \in Nat : j <= 11 => (Rest(x, j) >= 1 <=> HasBit(x, j) \/ Rest(x, j + 1) >= 1)
    <2> SUFFICES ASSUME NEW j \in Nat, j <= 11
                 PROVE  Rest(x, j) >= 1 <=> HasBit(x, j) \/ Rest(x, j + 1) >= 1
      OBVIOUS
    <2>1. /\ Rest(x, j) \in Nat /\ Rest(x, j + 1) \in Nat
          /\ HasBit(x, j) => Rest(x, j) = 2 * Rest(x, j + 1) + 1
          /\ ~HasBit(x, j) => Rest(x, j) = 2 * Rest(x, j + 1)
      BY RestStep
    <2> QED BY <2>1
  <1>2. ~(Rest(x, 12) >= 1)
    BY RestEnds
  <1>3. Rest(x, i) >= 1 <=> \E j \in Nat : i <= j /\ j <= 11 /\ HasBit(x, j)
    <2> DEFINE R(j) == Rest(x, j) >= 1
               B(j) == HasBit(x, j)
    <2>1. ~R(12) /\ \A j \in Nat : j <= 11 => (R(j) <=> B(j) \/ R(j + 1))
      BY <1>1, <1>2
    <2> HIDE DEF R, B
    <2>2. /\ R(11) <=> B(11)
          /\ R(10) <=> B(10) \/ R(11) 
          /\ R(9) <=> B(9) \/ R(10) 
          /\ R(8) <=> B(8) \/ R(9) 
          /\ R(7) <=> B(7) \/ R(8) 
          /\ R(6) <=> B(6) \/ R(7) 
          /\ R(5) <=> B(5) \/ R(6) 
          /\ R(4) <=> B(4) \/ R(5) 
          /\ R(3) <=> B(3) \/ R(4) 
          /\ R(2) <=> B(2) \/ R(3) 
          /\ R(1) <=> B(1) \/ R(2) 
          /\ R(0) <=> B(0) \/ R(1) 
      BY <2>1
    <2>3. i \in {0, 1, 2, 3, 4, 5, 6, 7, 8, 9, 10, 11}
      OBVIOUS
    <2>4. R(i) <=> \E j \in Nat : i <= j /\ j <= 11 /\ B(j)
      BY <2>2, <2>3
    <2> QED BY <2>4 DEF R, B
  <1> QED BY <1>3, RestStep

\* The places of the bits, of which a mask of days has 7 and a mask of months 12.
LEMMA BitsOf ==
    ASSUME NEW x \in Nat, x <= 4095
    PROVE  \A i : i \in Bits(x) <=> i \in Nat /\ i <= 11 /\ HasBit(x, i)
  <1> SUFFICES ASSUME NEW i PROVE i \in Bits(x) <=> i \in Nat /\ i <= 11 /\ HasBit(x, i)
    OBVIOUS
  <1>1. i \in 0..15 => i \in Nat /\ (i <= 11 \/ i = 12 \/ i = 13 \/ i = 14 \/ i = 15)
    OBVIOUS
  <1>2. i \in Nat /\ i <= 11 => i \in 0..15
    OBVIOUS
  <1> QED BY <1>1, <1>2, RestEnds DEF Bits

\* A mask that is not 0 has a first and a last bit.
LEMMA BitsEnd ==
    ASSUME NEW x \in Nat, x <= 4095, x # 0
    PROVE  /\ \E i \in Bits(x) : \A j \in Bits(x) : i <= j
           /\ \E i \in Bits(x) : \A j \in Bits(x) : i >= j
  <1> DEFINE B(i) == HasBit(x, i)
  <1>1. \A i : i \in Bits(x) <=> i \in Nat /\ i <= 11 /\ B(i)
    BY BitsOf
  <1>2. \E j \in Nat : j <= 11 /\ B(j)
    <2>1. Bit(0) = 1
      BY DEF Bit
    <2>2. x >= Bit(0)
      BY <2>1
    <2> QED BY <2>2, SomeBit
  <1> HIDE DEF B
  <1>3. \A i : i \in Nat /\ i <= 11 <=> i \in {0, 1, 2, 3, 4, 5, 6, 7, 8, 9, 10, 11}
    OBVIOUS
  <1>4. \/ B(0) \/ B(1) \/ B(2) \/ B(3) \/ B(4) \/ B(5) \/ B(6) \/ B(7) \/ B(8) \/ B(9) \/ B(10) \/ B(11)
    BY <1>2, <1>3
  <1>5. \E i \in {0, 1, 2, 3, 4, 5, 6, 7, 8, 9, 10, 11} :
           B(i) /\ \A j \in {0, 1, 2, 3, 4, 5, 6, 7, 8, 9, 10, 11} : B(j) => i <= j
    BY <1>4
  <1>6. \E i \in {0, 1, 2, 3, 4, 5, 6, 7, 8, 9, 10, 11} :
           B(i) /\ \A j \in {0, 1, 2, 3, 4, 5, 6, 7, 8, 9, 10, 11} : B(j) => i >= j
    BY <1>4
  <1> QED BY <1>1, <1>3, <1>5, <1>6

\* ffs is one more than the place of the first bit.
LEMMA ffsFacts ==
    ASSUME NEW x \in Nat, x <= 4095, x # 0
    PROVE  /\ ffs(x) \in Nat /\ 1 <= ffs(x) /\ ffs(x) <= 12 /\ HasBit(x, ffs(x) - 1)
           /\ \A j \in Nat : j < ffs(x) - 1 => ~HasBit(x, j)
  <1> DEFINE m == CHOOSE i \in Bits(x) : \A j \in Bits(x) : i <= j
  <1>1. m \in Bits(x) /\ \A j \in Bits(x) : m <= j
    BY BitsEnd
  <1>2. ffs(x) = 1 + m
    BY DEF ffs
  <1> HIDE DEF m
  <1>3. m \in Nat /\ m <= 11 /\ HasBit(x, m)
    BY <1>1, BitsOf
  <1>4. ASSUME NEW j \in Nat, j < m PROVE ~HasBit(x, j)
    BY <1>1, <1>3, <1>4, BitsOf
  <1>5. ffs(x) - 1 = m
    BY <1>2, <1>3
  <1> QED BY <1>2, <1>3, <1>4, <1>5

\* fls is a number.
LEMMA flsFacts ==
    ASSUME NEW x \in Nat, x <= 4095
    PROVE  fls(x) \in Nat
  <1>1. CASE x = 0
    BY <1>1 DEF fls
  <1>2. CASE x # 0
    <2> DEFINE m == CHOOSE i \in Bits(x) : \A j \in Bits(x) : i >= j
    <2>1. m \in Bits(x)
      BY <1>2, BitsEnd
    <2>2. fls(x) = 1 + m
      BY <1>2 DEF fls
    <2> HIDE DEF m
    <2> QED BY <2>1, <2>2, BitsOf
  <1> QED BY <1>1, <1>2

\* Clearing a bit and comparing with it tells whether there is a bit above.
LEMMA ClearFacts ==
    ASSUME NEW x \in Nat, x <= 4095, NEW i \in Nat, i <= 11
    PROVE  /\ Clear(x, i) > Bit(i) <=> Rest(x, i + 1) >= 1
           /\ Clear(x, i) \in Nat /\ Bit(i) \in Nat
  <1>1. PICK p \in Nat \ {0} : p = Bit(i)
    BY Powers
  <1>2. PICK q \in Nat, r \in Nat : q = x \div p /\ r = x % p /\ r < p /\ x = q * p + r
    BY DivMod
  <1>3. PICK s \in Nat : s = Rest(x, i + 1)
    BY RestStep
  <1>4. Rest(x, i) = q
    BY <1>1, <1>2 DEF Rest
  <1>5. /\ HasBit(x, i) => q = 2 * s + 1
        /\ ~HasBit(x, i) => q = 2 * s
    <2>1. /\ HasBit(x, i) => Rest(x, i) = 2 * Rest(x, i + 1) + 1
          /\ ~HasBit(x, i) => Rest(x, i) = 2 * Rest(x, i + 1)
      BY RestStep
    <2> QED BY <2>1, <1>3, <1>4
  <1>6. Clear(x, i) = 2 * s * p + r
    <2>1. CASE HasBit(x, i)
      <3>1. x = (2 * s + 1) * p + r
        BY <2>1, <1>5, <1>2
      <3>2. (2 * s + 1) * p = 2 * s * p + p
        OBVIOUS
      <3>3. x - p = 2 * s * p + r
        BY <3>1, <3>2
      <3> QED BY <2>1, <3>3, <1>1 DEF Clear
    <2>2. CASE ~HasBit(x, i)
      <3>1. x = 2 * s * p + r
        BY <2>2, <1>5, <1>2
      <3> QED BY <2>2, <3>1 DEF Clear
    <2> QED BY <2>1, <2>2
  <1>7. 2 * s * p + r \in Nat /\ (2 * s * p + r > p <=> s >= 1)
    <2>1. CASE s = 0
      <3>1. 2 * s * p = 0
        BY <2>1
      <3> QED BY <3>1, <2>1, <1>2
    <2>2. CASE s >= 1
      <3>1. PICK u \in Nat : s = u + 1
        <4>1. s - 1 \in Nat /\ s = (s - 1) + 1
          BY <2>2
        <4> QED BY <4>1
      <3>2. 2 * s * p = 2 * p + 2 * (u * p) /\ u * p \in Nat
        BY <3>1
      <3> QED BY <3>2, <2>2, <1>2
    <2> QED BY <2>1, <2>2
  <1> QED BY <1>1, <1>3, <1>6, <1>7

\* Shifting twice is shifting by the sum.
LEMMA BitSum ==
    ASSUME NEW a \in Nat, NEW b \in Nat, a + b <= 12
    PROVE  Bit(a) * Bit(b) = Bit(a + b) /\ Bit(a) \in Nat \ {0} /\ Bit(b) \in Nat \ {0}
  <1> DEFINE F(c) == a + c <= 12 => Bit(a) * Bit(c) = Bit(a + c)
  <1>1. F(0)
    <2>1. Bit(0) = 1 /\ a + 0 = a
      BY DEF Bit
    <2>2. a <= 14 => Bit(a) \in Nat
      BY Powers
    <2> QED BY <2>1, <2>2
  <1>2. ASSUME NEW c \in Nat, c <= 11, F(c) PROVE F(c + 1)
    <2> SUFFICES ASSUME a + (c + 1) <= 12 PROVE Bit(a) * Bit(c + 1) = Bit(a + (c + 1))
      OBVIOUS
    <2>1. PICK p \in Nat, q \in Nat, r \in Nat : p = Bit(a) /\ q = Bit(c) /\ r = Bit(a + c)
      <3>1. a + c \in Nat /\ a + c <= 14 /\ a <= 14 /\ c <= 14
        OBVIOUS
      <3> QED BY <3>1, Powers
    <2>2. Bit(c + 1) = 2 * q
      BY <2>1, Powers
    <2>3. Bit(a + (c + 1)) = 2 * r
      <3>1. a + c \in Nat /\ a + c <= 14 /\ (a + c) + 1 = a + (c + 1)
        OBVIOUS
      <3>2. Bit((a + c) + 1) = 2 * Bit(a + c)
        BY <3>1, Powers
      <3> QED BY <3>1, <3>2, <2>1
    <2>4. p * q = r
      BY <1>2, <2>1
    <2>5. p * (2 * q) = 2 * (p * q)
      OBVIOUS
    <2> QED BY <2>1, <2>2, <2>3, <2>4, <2>5
  <1> HIDE DEF F
  <1>3. F(1) BY <1>1, <1>2
  <1>4. F(2) BY <1>3, <1>2
  <1>5. F(3) BY <1>4, <1>2
  <1>6. F(4) BY <1>5, <1>2
  <1>7. F(5) BY <1>6, <1>2
  <1>8. F(6) BY <1>7, <1>2
  <1>9. F(7) BY <1>8, <1>2
  <1>10. F(8) BY <1>9, <1>2
  <1>11. F(9) BY <1>10, <1>2
  <1>12. F(10) BY <1>11, <1>2
  <1>13. F(11) BY <1>12, <1>2
  <1>14. F(12) BY <1>13, <1>2
  <1>15. b \in {0, 1, 2, 3, 4, 5, 6, 7, 8, 9, 10, 11, 12}
    OBVIOUS
  <1>16. F(b)
    BY <1>1, <1>3, <1>4, <1>5, <1>6, <1>7, <1>8, <1>9, <1>10, <1>11, <1>12, <1>13, <1>14, <1>15
  <1> QED BY <1>16, Powers DEF F

\* Multiples divide without a remainder.
LEMMA DivMultiple ==
    ASSUME NEW n \in Nat \ {0}, NEW q \in Nat
    PROVE  (q * n) \div n = q
  OBVIOUS

\* Even numbers have no last bit.
LEMMA EvenOdd ==
    ASSUME NEW q \in Nat
    PROVE  (2 * q) % 2 = 0
  OBVIOUS

\* Above keeps the bits above place i and no others.
LEMMA AboveFacts ==
    ASSUME NEW x \in Nat, x <= 4095, NEW i \in Nat, i <= 11
    PROVE  /\ Above(x, i) \in Nat /\ Above(x, i) <= 4095
           /\ Above(x, i) = 0 <=> Rest(x, i + 1) = 0
           /\ \A j \in Nat : j <= 11 => (HasBit(Above(x, i), j) <=> j > i /\ HasBit(x, j))
  <1>1. PICK p \in Nat \ {0} : p = Bit(i + 1)
    <2>1. i + 1 \in Nat /\ i + 1 <= 14
      OBVIOUS
    <2> QED BY <2>1, Powers
  <1>2. PICK q \in Nat, r \in Nat : q = x \div p /\ r = x % p /\ r < p /\ x = q * p + r
    BY DivMod
  <1>3. PICK y \in Nat : y = q * p
    OBVIOUS
  <1>4. Above(x, i) = y /\ y <= 4095
    <2>1. Above(x, i) = x - r
      BY <1>1, <1>2 DEF Above
    <2>2. x - r = y /\ y <= 4095
      BY <1>2, <1>3
    <2> QED BY <2>1, <2>2
  <1>5. y = 0 <=> q = 0
    BY <1>3
  <1>6. Rest(x, i + 1) = q
    BY <1>1, <1>2 DEF Rest
  <1>7. ASSUME NEW j \in Nat, j <= 11, j > i PROVE HasBit(y, j) <=> HasBit(x, j)
    <2>1. j - (i + 1) \in Nat /\ (j - (i + 1)) + (i + 1) = j /\ j <= 12 /\ i + 1 \in Nat
      BY <1>7
    <2>2. PICK k \in Nat \ {0} : k * p = Bit(j)
      <3>1. PICK d \in Nat, e \in Nat : d = j - (i + 1) /\ e = i + 1 /\ d + e = j /\ d + e <= 12
        BY <2>1
      <3>2. Bit(d) * Bit(e) = Bit(d + e) /\ Bit(d) \in Nat \ {0}
        BY <3>1, BitSum
      <3> QED BY <3>1, <3>2, <1>1
    <2>3. (y \div p) \div k = y \div (k * p) /\ (x \div p) \div k = x \div (k * p)
      BY DivDiv
    <2>4. y \div p = q
      BY <1>3, DivMultiple
    <2> QED BY <2>2, <2>3, <2>4, <1>2 DEF HasBit
  <1>8. ASSUME NEW j \in Nat, j <= i PROVE ~HasBit(y, j)
    <2>1. /\ i - j \in Nat /\ (i - j) + j = i /\ i <= 12 /\ i <= 14
      BY <1>8
    <2>2. PICK k \in Nat \ {0}, b \in Nat \ {0} : b = Bit(j) /\ k * b = Bit(i)
      <3>1. PICK d \in Nat : d = i - j /\ d + j = i /\ d + j <= 12
        BY <2>1
      <3>2. Bit(d) * Bit(j) = Bit(d + j) /\ Bit(d) \in Nat \ {0} /\ Bit(j) \in Nat \ {0}
        BY <3>1, BitSum
      <3> QED BY <3>1, <3>2
    <2>3. p = 2 * (k * b)
      BY <2>2, <1>1, Powers
    <2>4. y = (2 * (q * k)) * b
      <3>1. y = q * (2 * (k * b))
        BY <2>3, <1>3
      <3>2. q * (2 * (k * b)) = (2 * (q * k)) * b
        OBVIOUS
      <3> QED BY <3>1, <3>2
    <2>5. q * k \in Nat /\ 2 * (q * k) \in Nat
      OBVIOUS
    <2>6. y \div b = 2 * (q * k)
      BY <2>4, <2>5, DivMultiple
    <2>7. (2 * (q * k)) % 2 = 0
      BY <2>5, EvenOdd
    <2> QED BY <2>2, <2>6, <2>7 DEF HasBit
  <1>9. ASSUME NEW j \in Nat, j <= 11 PROVE HasBit(y, j) <=> j > i /\ HasBit(x, j)
    <2>1. CASE j > i
      BY <1>9, <2>1, <1>7
    <2>2. CASE ~(j > i)
      BY <1>9, <2>2, <1>8
    <2> QED BY <2>1, <2>2
  <1> QED BY <1>4, <1>5, <1>6, <1>9

\* The test and the search of the code find the first bit above place i, if there is one.
LEMMA NextBit ==
    ASSUME NEW x \in Nat, x <= 4095, NEW i \in Nat, i <= 11
    PROVE  /\ Clear(x, i) > Bit(i) =>
                /\ ffs(Above(x, i)) \in Nat /\ i < ffs(Above(x, i)) - 1 /\ ffs(Above(x, i)) <= 12
                /\ HasBit(x, ffs(Above(x, i)) - 1)
                /\ \A j \in Nat : i < j /\ j < ffs(Above(x, i)) - 1 => ~HasBit(x, j)
           /\ ~(Clear(x, i) > Bit(i)) => \A j \in Nat : i < j /\ j <= 11 => ~HasBit(x, j)
  <1>0. /\ Above(x, i) \in Nat /\ Above(x, i) <= 4095
        /\ Above(x, i) = 0 <=> Rest(x, i + 1) = 0
        /\ \A j \in Nat : j <= 11 => (HasBit(Above(x, i), j) <=> j > i /\ HasBit(x, j))
    BY AboveFacts
  <1>1. PICK y \in Nat : y = Above(x, i) /\ y <= 4095
    BY <1>0
  <1>2. Clear(x, i) > Bit(i) <=> y # 0
    <2>1. Clear(x, i) > Bit(i) <=> Rest(x, i + 1) >= 1
      BY ClearFacts
    <2>2. y = 0 <=> Rest(x, i + 1) = 0
      BY <1>0, <1>1
    <2>3. Rest(x, i + 1) \in Nat
      BY RestStep
    <2> QED BY <2>1, <2>2, <2>3
  <1>3. \A j \in Nat : j <= 11 => (HasBit(y, j) <=> j > i /\ HasBit(x, j))
    BY <1>0, <1>1
  <1>4. ASSUME y # 0
        PROVE  /\ ffs(y) \in Nat /\ i < ffs(y) - 1 /\ ffs(y) <= 12 /\ HasBit(x, ffs(y) - 1)
               /\ \A j \in Nat : i < j /\ j < ffs(y) - 1 => ~HasBit(x, j)
    <2>1. PICK m \in Nat : m = ffs(y) - 1 /\ ffs(y) = m + 1 /\ m <= 11 /\ HasBit(y, m)
      <3>1. ffs(y) \in Nat /\ 1 <= ffs(y) /\ ffs(y) <= 12 /\ HasBit(y, ffs(y) - 1)
        BY <1>1, <1>4, ffsFacts
      <3>2. ffs(y) - 1 \in Nat /\ ffs(y) = (ffs(y) - 1) + 1 /\ ffs(y) - 1 <= 11
        BY <3>1
      <3> QED BY <3>1, <3>2
    <2>2. \A j \in Nat : j < ffs(y) - 1 => ~HasBit(y, j)
      BY <1>1, <1>4, ffsFacts
    <2>3. \A j \in Nat : j < m => ~HasBit(y, j)
      BY <2>1, <2>2
    <2>4. m > i /\ HasBit(x, m)
      BY <2>1, <1>3
    <2>5. ASSUME NEW j \in Nat, i < j, j < m PROVE ~HasBit(x, j)
      <3>1. j <= 11
        BY <2>1, <2>5
      <3> QED BY <2>5, <2>3, <1>3, <3>1
    <2>6. ffs(y) \in Nat /\ i < ffs(y) - 1 /\ ffs(y) <= 12 /\ HasBit(x, ffs(y) - 1)
      BY <2>1, <2>4
    <2> QED BY <2>1, <2>5, <2>6
  <1>5. ASSUME y = 0, NEW j \in Nat, i < j, j <= 11 PROVE ~HasBit(x, j)
    <2>1. ~HasBit(0, j)
      <3>1. PICK p \in Nat \ {0} : p = Bit(j)
        BY <1>5, Powers
      <3>2. 0 \div p = 0
        BY DivSmall
      <3> QED BY <3>1, <3>2 DEF HasBit
    <2> QED BY <2>1, <1>5, <1>3
  <1> QED BY <1>1, <1>2, <1>4, <1>5

\* A mask of days has 7 bits.
LEMMA DayBits ==
    ASSUME NEW x \in Nat, x <= 127, NEW j \in Nat, j <= 11, HasBit(x, j)
    PROVE  j <= 6
  <1>1. Bit(7) = 128
    BY DEF Bit
  <1>2. x >= Bit(7) <=> \E k \in Nat : 7 <= k /\ k <= 11 /\ HasBit(x, k)
    BY SomeBit
  <1>3. ~(x >= Bit(7))
    BY <1>1
  <1> QED BY <1>2, <1>3

\* Days from today to the next day of a mask, today's included if it is still to come.
DaysTo(days, today, slot, s) ==
    IF HasBit(days, today) /\ slot > s THEN 0
    ELSE IF Clear(days, today) > Bit(today) THEN ffs(Above(days, today)) - 1 - today
    ELSE IF ffs(days) - 1 = today THEN 7 ELSE 7 - today + ffs(days) - 1

\* It is the first such day: the days in between are not in the mask.
LEMMA DaysToFacts ==
    ASSUME NEW days \in Nat, 0 < days, days <= 127, NEW today \in Nat, today <= 6, NEW c \in Nat, NEW s \in Nat
    PROVE  LET n == DaysTo(days, today, c, s)
           IN  /\ n \in Nat /\ n <= 7 /\ HasBit(days, (today + n) % 7)
               /\ n = 0 => c > s
               /\ \A k \in Nat : k < n /\ (k = 0 => c > s) => ~HasBit(days, (today + k) % 7)
  <1> DEFINE n == DaysTo(days, today, c, s)
             G(m) == /\ m \in Nat /\ m <= 7 /\ HasBit(days, (today + m) % 7)
                     /\ m = 0 => c > s
                     /\ \A k \in Nat : k < m /\ (k = 0 => c > s) => ~HasBit(days, (today + k) % 7)
  <1>0. days <= 4095 /\ days # 0 /\ today <= 11
    OBVIOUS
  <1>1. CASE HasBit(days, today) /\ c > s
    <2>1. n = 0
      BY <1>1 DEF DaysTo
    <2>2. (today + 0) % 7 = today
      OBVIOUS
    <2>3. G(0)
      BY <1>1, <2>2
    <2> QED BY <2>1, <2>3
  <1>2. CASE ~(HasBit(days, today) /\ c > s) /\ Clear(days, today) > Bit(today)
    <2>1. PICK f \in Nat : f = ffs(Above(days, today))
      BY <1>0, <1>2, NextBit
    <2>2. /\ today < f - 1 /\ f <= 12 /\ HasBit(days, f - 1)
          /\ \A j \in Nat : today < j /\ j < f - 1 => ~HasBit(days, j)
      BY <1>0, <1>2, <2>1, NextBit
    <2>3. n = f - 1 - today
      BY <1>2, <2>1 DEF DaysTo
    <2>4. f - 1 \in Nat /\ f - 1 <= 11
      BY <2>2
    <2>5. f - 1 <= 6
      BY <2>2, <2>4, DayBits
    <2>6. PICK m \in Nat : m = f - 1 - today /\ m <= 6 /\ m > 0 /\ (today + m) % 7 = f - 1
      <3>1. f - 1 - today \in Nat /\ f - 1 - today > 0 /\ f - 1 - today <= 6 /\ (today + (f - 1 - today)) % 7 = f - 1
        BY <2>2, <2>5
      <3> QED BY <3>1
    <2>7. ASSUME NEW k \in Nat, k < m, k = 0 => c > s PROVE ~HasBit(days, (today + k) % 7)
      <3>1. (today + k) % 7 = today + k /\ today + k < f - 1 /\ today + k \in Nat
        BY <2>7, <2>6, <2>5
      <3>2. CASE k = 0
        <4>1. today + k = today
          BY <3>2
        <4> QED BY <3>2, <4>1, <3>1, <2>7, <1>2
      <3>3. CASE k > 0
        <4>1. today < today + k
          BY <3>3
        <4> QED BY <4>1, <3>1, <2>2
      <3> QED BY <3>2, <3>3
    <2>8. G(m)
      BY <2>6, <2>7, <2>2
    <2> QED BY <2>3, <2>6, <2>8
  <1>3. CASE ~(HasBit(days, today) /\ c > s) /\ ~(Clear(days, today) > Bit(today))
    <2>1. \A j \in Nat : today < j /\ j <= 11 => ~HasBit(days, j)
      BY <1>0, <1>3, NextBit
    <2>2. PICK f \in Nat : f = ffs(days) - 1 /\ f <= 11 /\ HasBit(days, f)
      <3>1. ffs(days) \in Nat /\ 1 <= ffs(days) /\ ffs(days) <= 12 /\ HasBit(days, ffs(days) - 1)
        BY <1>0, ffsFacts
      <3>2. ffs(days) - 1 \in Nat /\ ffs(days) - 1 <= 11
        BY <3>1
      <3> QED BY <3>1, <3>2
    <2>3. \A j \in Nat : j < f => ~HasBit(days, j)
      <3>1. \A j \in Nat : j < ffs(days) - 1 => ~HasBit(days, j)
        BY <1>0, ffsFacts
      <3> QED BY <3>1, <2>2
    <2>4. f <= today
      BY <2>1, <2>2
    <2>5. n = 7 - today + f
      <3>1. ffs(days) = f + 1
        BY <2>2, <1>0, ffsFacts
      <3>2. n = IF f = today THEN 7 ELSE 7 - today + (f + 1) - 1
        BY <1>3, <2>2, <3>1 DEF DaysTo
      <3> QED BY <3>2
    <2>6. PICK m \in Nat : m = 7 - today + f /\ m <= 7 /\ m > 0 /\ (today + m) % 7 = f
      <3>1. 7 - today + f \in Nat /\ 7 - today + f <= 7 /\ 7 - today + f > 0 /\ (today + (7 - today + f)) % 7 = f
        BY <2>4
      <3> QED BY <3>1
    <2>7. ASSUME NEW k \in Nat, k < m, k = 0 => c > s PROVE ~HasBit(days, (today + k) % 7)
      <3>1. CASE k = 0
        <4>1. (today + k) % 7 = today
          BY <3>1
        <4> QED BY <3>1, <4>1, <2>7, <1>3
      <3>2. CASE k > 0 /\ today + k <= 6
        <4>1. (today + k) % 7 = today + k /\ today < today + k /\ today + k <= 11 /\ today + k \in Nat
          BY <3>2
        <4> QED BY <4>1, <2>1
      <3>3. CASE today + k > 6
        <4>1. (today + k) % 7 = today + k - 7 /\ today + k - 7 < f /\ today + k - 7 \in Nat
          BY <3>3, <2>7, <2>6, <2>4
        <4> QED BY <4>1, <2>3
      <3> QED BY <3>1, <3>2, <3>3
    <2>8. G(m)
      BY <2>6, <2>7, <2>2
    <2> QED BY <2>5, <2>6, <2>8
  <1> QED BY <1>1, <1>2, <1>3

-----------------------------------------------------------------------------
(* The search for the next trigger. *)

\* Times are compared by day first, then by time of day.
LEMMA Lexical ==
    ASSUME NEW T \in Nat \ {0}, NEW a \in Nat, NEW b \in Nat, NEW r \in Nat, NEW q \in Nat, r < T, q < T
    PROVE  a * T + r < b * T + q <=> a < b \/ (a = b /\ r < q)
  <1>1. ASSUME NEW c \in Nat, NEW d \in Nat, c < d PROVE c * T + T <= d * T
    <2>1. PICK k \in Nat : d = c + 1 + k
      <3>1. d - c - 1 \in Nat /\ d = c + 1 + (d - c - 1)
        BY <1>1
      <3> QED BY <3>1
    <2>2. (c + 1 + k) * T = c * T + T + k * T /\ k * T \in Nat
      OBVIOUS
    <2> QED BY <2>1, <2>2
  <1>2. CASE a < b
    <2>1. a * T + T <= b * T /\ a * T \in Nat /\ b * T \in Nat
      BY <1>1, <1>2
    <2> QED BY <2>1, <1>2
  <1>3. CASE b < a
    <2>1. b * T + T <= a * T /\ a * T \in Nat /\ b * T \in Nat
      BY <1>1, <1>3
    <2> QED BY <2>1, <1>3
  <1>4. CASE a = b
    <2>1. a * T \in Nat
      OBVIOUS
    <2> QED BY <1>4, <2>1
  <1> QED BY <1>2, <1>3, <1>4

\* The settings of the schedule's trigger.
LEMMA TriggerFields ==
    ASSUME trig \in Triggers
    PROVE  /\ trig.type \in {"RELATIVE", "DAYS_OF_WEEK", "DATE"}
           /\ trig.type = "RELATIVE" => trig.seconds \in Nat
           /\ trig.type # "RELATIVE" => trig.slot \in Nat /\ trig.slot < TicksPerDay
           /\ trig.type = "DAYS_OF_WEEK" => trig.repeat_days \in Nat /\ trig.repeat_days <= 127
           /\ trig.type = "DATE" =>
                /\ trig.day \in Nat /\ 1 <= trig.day /\ trig.day <= DaysPerMonth /\ trig.year \in Nat
                /\ trig.repeat_months \in Nat /\ trig.repeat_months <= 4095
  <1>1. trig \in Settings /\ TicksPerDay \in Nat /\ DaysPerMonth \in Nat
    BY ScheduleAssumption
  <1>2. CASE trig \in [type : {"RELATIVE"}, seconds : Nat]
    BY <1>2
  <1>3. CASE trig \in [type : {"DAYS_OF_WEEK"}, slot : 0..(TicksPerDay - 1), repeat_days : 0..127]
    BY <1>1, <1>3
  <1>4. CASE trig \in [type : {"DATE"}, slot : 0..(TicksPerDay - 1), day : 1..DaysPerMonth, year : Nat,
                       repeat_months : 0..4095, repeat_every_year : BOOLEAN]
    <2>1. /\ trig.type = "DATE" /\ trig.slot \in 0..(TicksPerDay - 1) /\ trig.day \in 1..DaysPerMonth
          /\ trig.year \in Nat /\ trig.repeat_months \in 0..4095
      BY <1>4
    <2>2. \A n \in Nat : \A k : k \in 0..(n - 1) => k \in Nat /\ k < n
      OBVIOUS
    <2>3. \A n \in Nat : \A k : k \in 1..n => k \in Nat /\ 1 <= k /\ k <= n
      OBVIOUS
    <2>4. /\ trig.slot \in Nat /\ trig.slot < TicksPerDay
          /\ trig.day \in Nat /\ 1 <= trig.day /\ trig.day <= DaysPerMonth /\ trig.year \in Nat
      BY <2>1, <2>2, <2>3, <1>1
    <2>5. trig.repeat_months \in Nat /\ trig.repeat_months <= 4095
      <3>1. \A k : k \in 0..4095 => k \in Nat /\ k <= 4095
        OBVIOUS
      <3>2. trig.repeat_months \in 0..4095
        BY <2>1
      <3> QED BY <3>1, <3>2
    <2>6. trig.type # "RELATIVE" /\ trig.type # "DAYS_OF_WEEK"
      BY <2>1
    <2> QED BY <2>1, <2>4, <2>5, <2>6
  <1> QED BY <1>1, <1>2, <1>3, <1>4 DEF Settings

\* What is searched for: the first instant after now that the settings name.
FirstNamed(n) ==
    /\ n \in Nat /\ n > now /\ Named(n)
    /\ \A t \in Nat : now < t /\ t < n => ~Named(t)

\* esp_schedule_get_no_of_days leads to the first named instant, a week away at most.
LEMMA WeekSearch ==
    ASSUME trig \in Triggers, trig.type = "DAYS_OF_WEEK", now \in Nat
    PROVE  FirstNamed(NextTime) /\ NextTime - now <= 7 * TicksPerDay
  <1>1. PICK T \in Nat \ {0} : T = TicksPerDay
    BY ScheduleAssumption
  <1>2. PICK c \in Nat, days \in Nat : c = trig.slot /\ c < T /\ days = trig.repeat_days /\ days <= 127
    BY <1>1, TriggerFields
  <1>3. PICK D \in Nat, s \in Nat : D = now \div T /\ s = now % T /\ s < T /\ now = D * T + s
    BY DivMod
  <1>4. PICK today \in Nat : today = Today /\ today <= 6 /\ today = (D + 6) % 7
    <2>1. Today = ((D % 7) + 7 - 1) % 7
      BY <1>1, <1>3 DEF Today, Wday
    <2>2. ((D % 7) + 7 - 1) % 7 = (D + 6) % 7 /\ (D + 6) % 7 \in Nat /\ (D + 6) % 7 <= 6
      OBVIOUS
    <2> QED BY <2>1, <2>2
  <1> DEFINE Day(k) == days = 0 \/ HasBit(days, (today + k) % 7)
  <1>5. PICK n \in Nat :
           /\ n = esp_schedule_get_no_of_days /\ n <= 7 /\ Day(n)
           /\ n = 0 => c > s
           /\ n = 7 => ~(c > s)
           /\ \A k \in Nat : k < n /\ (k = 0 => c > s) => ~Day(k)
    <2>1. Slot(now) = s
      BY <1>1, <1>3 DEF Slot
    <2>2. CASE days = 0
      <3>1. esp_schedule_get_no_of_days = IF c > s THEN 0 ELSE 1
        BY <2>1, <2>2, <1>2 DEF esp_schedule_get_no_of_days
      <3>2. PICK m \in Nat : m = esp_schedule_get_no_of_days /\ m = IF c > s THEN 0 ELSE 1
        BY <3>1
      <3> QED BY <3>2, <2>2
    <2>3. CASE days # 0
      <3>2. esp_schedule_get_no_of_days = DaysTo(days, today, c, s)
        BY <2>1, <2>3, <1>2, <1>4 DEF esp_schedule_get_no_of_days, DaysTo
      <3>3. PICK m \in Nat :
               /\ m = DaysTo(days, today, c, s) /\ m <= 7 /\ HasBit(days, (today + m) % 7)
               /\ m = 0 => c > s
               /\ \A k \in Nat : k < m /\ (k = 0 => c > s) => ~HasBit(days, (today + k) % 7)
        <4> DEFINE m == DaysTo(days, today, c, s)
        <4>1. 0 < days
          BY <2>3
        <4>2. /\ m \in Nat /\ m <= 7 /\ HasBit(days, (today + m) % 7)
              /\ m = 0 => c > s
              /\ \A k \in Nat : k < m /\ (k = 0 => c > s) => ~HasBit(days, (today + k) % 7)
          BY <4>1, <1>2, <1>4, DaysToFacts
        <4> HIDE DEF m
        <4> QED BY <4>2 DEF m
      <3>4. m = 7 => ~c > s
        <4> SUFFICES ASSUME m = 7, c > s PROVE FALSE
          OBVIOUS
        <4>1. (today + 7) % 7 = (today + 0) % 7
          OBVIOUS
        <4> QED BY <4>1, <3>3
      <3> QED BY <3>2, <3>3, <3>4, <2>3
    <2> QED BY <2>2, <2>3
  <1>6. PICK next \in Nat : next = NextTime /\ next = (D + n) * T + c
    <2>1. NextTime = now - s + c + n * T
      BY <1>1, <1>2, <1>3, <1>5 DEF NextTime, Slot
    <2>2. now - s + c + n * T = (D + n) * T + c
      <3>1. (D + n) * T = D * T + n * T
        OBVIOUS
      <3>2. D * T \in Nat /\ n * T \in Nat
        OBVIOUS
      <3> QED BY <3>1, <3>2, <1>3
    <2> QED BY <2>1, <2>2
  <1>7. \A k \in Nat, t \in Nat : t = (D + k) * T + c => (Named(t) <=> Day(k))
    <2> SUFFICES ASSUME NEW k \in Nat, NEW t \in Nat, t = (D + k) * T + c
                 PROVE  Named(t) <=> Day(k)
      OBVIOUS
    <2>1. t \div T = D + k /\ t % T = c
      <3>1. D + k \in Nat
        OBVIOUS
      <3> QED BY <3>1, <1>2, DivUnique
    <2>2. Slot(t) = c
      BY <2>1, <1>1 DEF Slot
    <2>3. (Wday(t) + 6) % 7 = (today + k) % 7 /\ (today + k) % 7 \in Nat /\ (today + k) % 7 <= 11
      <3>1. Wday(t) = (D + k) % 7
        BY <2>1, <1>1 DEF Wday
      <3>2. (((D + k) % 7) + 6) % 7 = (((D + 6) % 7) + k) % 7
        OBVIOUS
      <3>3. (today + k) % 7 \in Nat /\ (today + k) % 7 <= 11
        OBVIOUS
      <3> QED BY <3>1, <3>2, <3>3, <1>4
    <2>4. (today + k) % 7 \in Bits(days) <=> HasBit(days, (today + k) % 7)
      <3>1. days <= 4095
        BY <1>2
      <3> QED BY <2>3, <3>1, BitsOf
    <2> QED BY <2>2, <2>3, <2>4, <1>2 DEF Named
  <1>8. Named(next)
    BY <1>5, <1>6, <1>7
  <1>9. next > now
    <2>1. D * T + s < (D + n) * T + c <=> D < D + n \/ (D = D + n /\ s < c)
      <3>1. D + n \in Nat
        OBVIOUS
      <3> QED BY <3>1, <1>2, <1>3, Lexical
    <2> QED BY <2>1, <1>3, <1>5, <1>6
  <1>10. next - now <= 7 * T
    <2>1. next - now = n * T + c - s
      <3>1. (D + n) * T = D * T + n * T /\ D * T \in Nat /\ n * T \in Nat
        OBVIOUS
      <3> QED BY <3>1, <1>6, <1>3
    <2>2. n \in {0, 1, 2, 3, 4, 5, 6, 7}
      BY <1>5
    <2> QED BY <2>1, <2>2, <1>5, <1>2, <1>3
  <1>11. ASSUME NEW t \in Nat, now < t, t < next PROVE ~Named(t)
    <2> SUFFICES ASSUME Named(t) PROVE FALSE
      OBVIOUS
    <2>1. PICK E \in Nat, u \in Nat : E = t \div T /\ u = t % T /\ u < T /\ t = E * T + u
      BY DivMod
    <2>2. u = c
      BY <2>1, <1>1, <1>2 DEF Named, Slot
    <2>3. D < E \/ (D = E /\ s < c)
      BY <2>1, <2>2, <1>11, <1>3, <1>2, Lexical
    <2>4. E < D + n
      <3>1. D + n \in Nat
        OBVIOUS
      <3>2. E < D + n \/ (E = D + n /\ c < c)
        BY <3>1, <2>1, <2>2, <1>11, <1>6, <1>2, Lexical
      <3> QED BY <3>2
    <2>5. PICK k \in Nat : E = D + k
      <3>1. E - D \in Nat /\ E = D + (E - D)
        BY <2>3
      <3> QED BY <3>1
    <2>6. k < n /\ (k = 0 => c > s)
      BY <2>3, <2>4, <2>5
    <2>7. Day(k)
      BY <2>1, <2>2, <2>5, <1>7
    <2> QED BY <2>6, <2>7, <1>5
  <1> QED BY <1>1, <1>6, <1>8, <1>9, <1>10, <1>11 DEF FirstNamed

\* Months, counted from year 0: whether the settings name month i, and the one the
\* code finds from month m of year y, v ticks of which come before the trigger's
\* time and w before now.
MonthIn(months, year, i) == months = 0 \/ (HasBit(months, i % 12) /\ i \div 12 >= year)

MonthFound(months, year, y, m, w, v) ==
    IF months = 0 THEN y * 12 + m + (IF w < v THEN 0 ELSE 1)
    ELSE IF year > y THEN year * 12 + ffs(months) - 1
    ELSE IF HasBit(months, m) /\ w < v THEN y * 12 + m
    ELSE IF Clear(months, m) > Bit(m) THEN y * 12 + ffs(Above(months, m)) - 1
    ELSE y * 12 + ffs(months) + 12 - 1

\* It is the first such month: the months in between are not named.
LEMMA MonthFacts ==
    ASSUME NEW months \in Nat, months <= 4095, NEW year \in Nat, NEW y \in Nat, NEW m \in Nat, m <= 11,
           NEW w \in Nat, NEW v \in Nat
    PROVE  LET n == MonthFound(months, year, y, m, w, v)
           IN  /\ n \in Nat /\ n >= y * 12 + m /\ MonthIn(months, year, n)
               /\ n = y * 12 + m => w < v
               /\ \A i \in Nat : /\ y * 12 + m <= i /\ i < n
                                 /\ i = y * 12 + m => w < v
                                 => ~MonthIn(months, year, i)
  <1> DEFINE n == MonthFound(months, year, y, m, w, v)
             G(j) == /\ j \in Nat /\ j >= y * 12 + m /\ MonthIn(months, year, j)
                     /\ j = y * 12 + m => w < v
                     /\ \A i \in Nat : /\ y * 12 + m <= i /\ i < j
                                       /\ i = y * 12 + m => w < v
                                       => ~MonthIn(months, year, i)
  <1>0. \A a \in Nat, b \in Nat : b <= 11 => (a * 12 + b) \div 12 = a /\ (a * 12 + b) % 12 = b /\ a * 12 + b \in Nat
    OBVIOUS
  <1>d. \A i \in Nat : \E a \in Nat, b \in Nat : a = i \div 12 /\ b = i % 12 /\ b <= 11 /\ i = a * 12 + b
    <2> SUFFICES ASSUME NEW i \in Nat
                 PROVE  \E a \in Nat, b \in Nat : a = i \div 12 /\ b = i % 12 /\ b <= 11 /\ i = a * 12 + b
      OBVIOUS
    <2>1. /\ i \div 12 \in Nat /\ i % 12 \in Nat /\ i % 12 <= 11 /\ i = (i \div 12) * 12 + (i % 12)
      OBVIOUS
    <2> QED BY <2>1
  <1>1. CASE months = 0
    <2>1. PICK j \in Nat : j = n /\ j = y * 12 + m + (IF w < v THEN 0 ELSE 1)
      BY <1>1 DEF MonthFound
    <2>2. ASSUME NEW i \in Nat, y * 12 + m <= i, i < j, i = y * 12 + m => w < v PROVE FALSE
      BY <2>1, <2>2
    <2>3. MonthIn(months, year, j)
      BY <1>1 DEF MonthIn
    <2>4. j >= y * 12 + m /\ (j = y * 12 + m => w < v)
      BY <2>1
    <2>5. G(j)
      BY <2>2, <2>3, <2>4
    <2> QED BY <2>1, <2>5
  <1>2. CASE months # 0
    <2>1. PICK f \in Nat : /\ ffs(months) = f + 1 /\ f <= 11 /\ HasBit(months, f)
                           /\ \A j \in Nat : j < f => ~HasBit(months, j)
      <3>1. /\ ffs(months) \in Nat /\ 1 <= ffs(months) /\ ffs(months) <= 12 /\ HasBit(months, ffs(months) - 1)
            /\ \A j \in Nat : j < ffs(months) - 1 => ~HasBit(months, j)
        BY <1>2, ffsFacts
      <3>2. ffs(months) - 1 \in Nat /\ ffs(months) - 1 <= 11 /\ ffs(months) = (ffs(months) - 1) + 1
        BY <3>1
      <3> QED BY <3>1, <3>2
    <2>2. CASE year > y
      <3>1. PICK j \in Nat : j = n /\ j = year * 12 + f
        <4>1. n = year * 12 + (f + 1) - 1
          BY <1>2, <2>1, <2>2 DEF MonthFound
        <4> QED BY <4>1
      <3>2. j \div 12 = year /\ j % 12 = f
        BY <3>1, <2>1, <1>0
      <3>3. MonthIn(months, year, j)
        BY <3>2, <2>1 DEF MonthIn
      <3>4. j > y * 12 + m
        BY <3>1, <2>2
      <3>5. ASSUME NEW i \in Nat, i < j PROVE ~MonthIn(months, year, i)
        <4> SUFFICES ASSUME MonthIn(months, year, i) PROVE FALSE
          OBVIOUS
        <4>1. PICK a \in Nat, b \in Nat : a = i \div 12 /\ b = i % 12 /\ b <= 11 /\ i = a * 12 + b
          BY <1>d
        <4>2. HasBit(months, b) /\ a >= year
          BY <4>1, <1>2 DEF MonthIn
        <4>3. b < f
          BY <4>1, <4>2, <3>5, <3>1, <2>1
        <4> QED BY <4>2, <4>3, <2>1
      <3>6. G(j)
        BY <3>3, <3>4, <3>5
      <3> QED BY <3>1, <3>6
    <2>3. CASE ~(year > y) /\ HasBit(months, m) /\ w < v
      <3>1. PICK j \in Nat : j = n /\ j = y * 12 + m
        BY <1>2, <2>3 DEF MonthFound
      <3>2. j \div 12 = y /\ j % 12 = m
        BY <3>1, <1>0
      <3>3. MonthIn(months, year, j)
        BY <3>2, <2>3 DEF MonthIn
      <3>4. G(j)
        BY <3>1, <3>3, <2>3
      <3> QED BY <3>1, <3>4
    <2>4. CASE ~(year > y) /\ ~(HasBit(months, m) /\ w < v) /\ Clear(months, m) > Bit(m)
      <3>0. /\ ffs(Above(months, m)) \in Nat /\ m < ffs(Above(months, m)) - 1 /\ ffs(Above(months, m)) <= 12
            /\ HasBit(months, ffs(Above(months, m)) - 1)
            /\ \A j \in Nat : m < j /\ j < ffs(Above(months, m)) - 1 => ~HasBit(months, j)
        BY <2>4, NextBit
      <3>1. PICK g \in Nat : /\ ffs(Above(months, m)) = g + 1 /\ m < g /\ g <= 11 /\ HasBit(months, g)
                             /\ \A j \in Nat : m < j /\ j < g => ~HasBit(months, j)
        <4>1. /\ ffs(Above(months, m)) - 1 \in Nat /\ ffs(Above(months, m)) - 1 <= 11
              /\ ffs(Above(months, m)) = (ffs(Above(months, m)) - 1) + 1
          BY <3>0
        <4> QED BY <4>1, <3>0
      <3>2. PICK j \in Nat : j = n /\ j = y * 12 + g
        <4>1. n = y * 12 + (g + 1) - 1
          BY <1>2, <2>4, <3>1 DEF MonthFound
        <4> QED BY <4>1
      <3>3. j \div 12 = y /\ j % 12 = g
        BY <3>1, <3>2, <1>0
      <3>4. MonthIn(months, year, j)
        BY <3>1, <3>3, <2>4 DEF MonthIn
      <3>5. j > y * 12 + m
        BY <3>1, <3>2
      <3>6. ASSUME NEW i \in Nat, y * 12 + m <= i, i < j, i = y * 12 + m => w < v PROVE ~MonthIn(months, year, i)
        <4> SUFFICES ASSUME MonthIn(months, year, i) PROVE FALSE
          OBVIOUS
        <4>1. PICK a \in Nat, b \in Nat : a = i \div 12 /\ b = i % 12 /\ b <= 11 /\ i = a * 12 + b
          BY <1>d
        <4>2. HasBit(months, b)
          BY <4>1, <1>2 DEF MonthIn
        <4>3. a = y
          BY <4>1, <3>6, <3>2, <3>1
        <4>4. b >= m /\ b < g
          BY <4>1, <4>3, <3>6, <3>2
        <4>5. b # m
          BY <4>1, <4>2, <4>3, <3>6, <2>4
        <4> QED BY <4>2, <4>4, <4>5, <3>1
      <3>7. G(j)
        BY <3>4, <3>5, <3>6
      <3> QED BY <3>2, <3>7
    <2>5. CASE ~(year > y) /\ ~(HasBit(months, m) /\ w < v) /\ ~(Clear(months, m) > Bit(m))
      <3>1. \A j \in Nat : m < j /\ j <= 11 => ~HasBit(months, j)
        BY <2>5, NextBit
      <3>2. PICK j \in Nat : j = n /\ j = (y + 1) * 12 + f
        <4>1. n = y * 12 + (f + 1) + 12 - 1
          BY <1>2, <2>1, <2>5 DEF MonthFound
        <4> QED BY <4>1
      <3>3. j \div 12 = y + 1 /\ j % 12 = f
        <4>1. y + 1 \in Nat
          OBVIOUS
        <4> QED BY <4>1, <3>2, <2>1, <1>0
      <3>4. MonthIn(months, year, j)
        BY <3>3, <2>1, <2>5 DEF MonthIn
      <3>5. j > y * 12 + m
        BY <3>2
      <3>6. ASSUME NEW i \in Nat, y * 12 + m <= i, i < j, i = y * 12 + m => w < v PROVE ~MonthIn(months, year, i)
        <4> SUFFICES ASSUME MonthIn(months, year, i) PROVE FALSE
          OBVIOUS
        <4>1. PICK a \in Nat, b \in Nat : a = i \div 12 /\ b = i % 12 /\ b <= 11 /\ i = a * 12 + b
          BY <1>d
        <4>2. HasBit(months, b)
          BY <4>1, <1>2 DEF MonthIn
        <4>3. a = y \/ a = y + 1
          BY <4>1, <3>6, <3>2, <2>1
        <4>4. CASE a = y + 1
          <5>1. b < f
            BY <4>1, <4>4, <3>6, <3>2
          <5> QED BY <5>1, <4>2, <2>1
        <4>5. CASE a = y
          <5>1. b >= m
            BY <4>1, <4>5, <3>6
          <5>2. b # m
            BY <4>1, <4>2, <4>5, <3>6, <2>5
          <5> QED BY <5>1, <5>2, <4>1, <4>2, <3>1
        <4> QED BY <4>3, <4>4, <4>5
      <3>7. G(j)
        BY <3>4, <3>5, <3>6
      <3> QED BY <3>2, <3>7
    <2> QED BY <2>2, <2>3, <2>4, <2>5
  <1> QED BY <1>1, <1>2

\* The years of a date repeat, or none is given.
RepeatsYearly(tr) ==
    tr.type = "DATE" => IF tr.repeat_months = 0 THEN tr.year = 0 ELSE tr.repeat_every_year

\* Tick u of day e of month i, counted from 0, on a calendar of K days of T ticks.
At(K, T, i, e, u) == (i * K + e) * T + u

\* The fields of a time on the calendar.
LEMMA CalendarFields ==
    ASSUME NEW K \in Nat \ {0}, K = DaysPerMonth, NEW T \in Nat \ {0}, T = TicksPerDay,
           NEW i \in Nat, NEW e \in Nat, e < K, NEW u \in Nat, u < T,
           NEW t \in Nat, t = At(K, T, i, e, u)
    PROVE  /\ Slot(t) = u /\ Mday(t) = e + 1 /\ Month(t) = (i % 12) + 1 /\ Year(t) = i \div 12
  <1>1. PICK D \in Nat : D = i * K + e
    <2>1. i * K + e \in Nat
      OBVIOUS
    <2> QED BY <2>1
  <1>2. t \div T = D /\ t % T = u
    BY <1>1, DivUnique DEF At
  <1>3. D \div K = i /\ D % K = e
    BY <1>1, DivUnique
  <1>4. D \div (K * 12) = i \div 12
    <2>1. (D \div K) \div 12 = D \div (12 * K)
      BY DivDiv
    <2>2. 12 * K = K * 12
      OBVIOUS
    <2> QED BY <2>1, <2>2, <1>3
  <1> QED BY <1>2, <1>3, <1>4 DEF Slot, Mday, Month, Year

\* Every time has such fields.
LEMMA CalendarSplit ==
    ASSUME NEW K \in Nat \ {0}, NEW T \in Nat \ {0}, NEW t \in Nat
    PROVE  \E i \in Nat, e \in Nat, u \in Nat : e < K /\ u < T /\ t = At(K, T, i, e, u)
  <1>1. PICK D \in Nat, u \in Nat : u < T /\ t = D * T + u
    BY DivMod
  <1>2. PICK i \in Nat, e \in Nat : e < K /\ D = i * K + e
    <2>1. D \div K \in Nat /\ D % K \in Nat /\ D % K < K /\ D = (D \div K) * K + (D % K)
      BY DivMod
    <2> QED BY <2>1
  <1>3. t = At(K, T, i, e, u)
    BY <1>1, <1>2 DEF At
  <1> QED BY <1>1, <1>2, <1>3

\* Times are compared by month first, then by the ticks since its beginning.
LEMMA MonthLexical ==
    ASSUME NEW K \in Nat \ {0}, NEW T \in Nat \ {0},
           NEW i \in Nat, NEW e \in Nat, e < K, NEW u \in Nat, u < T,
           NEW j \in Nat, NEW d \in Nat, d < K, NEW s \in Nat, s < T
    PROVE  At(K, T, i, e, u) < At(K, T, j, d, s) <=> i < j \/ (i = j /\ e * T + u < d * T + s)
  <1>1. i * K + e \in Nat /\ j * K + d \in Nat
    OBVIOUS
  <1>2. (i * K + e) * T + u < (j * K + d) * T + s
           <=> i * K + e < j * K + d \/ (i * K + e = j * K + d /\ u < s)
    BY <1>1, Lexical
  <1>3. i * K + e < j * K + d <=> i < j \/ (i = j /\ e < d)
    BY Lexical
  <1>4. j * K + d < i * K + e <=> j < i \/ (i = j /\ d < e)
    BY Lexical
  <1>5. i * K + e = j * K + d <=> i = j /\ e = d
    BY <1>1, <1>3, <1>4
  <1>6. e * T + u < d * T + s <=> e < d \/ (e = d /\ u < s)
    BY Lexical
  <1> QED BY <1>2, <1>3, <1>5, <1>6 DEF At

\* So do esp_schedule_get_next_month and esp_schedule_get_next_year.
LEMMA DateSearch ==
    ASSUME trig \in Triggers, trig.type = "DATE", RepeatsYearly(trig), now \in Nat
    PROVE  FirstNamed(NextTime)
  <1>1. PICK T \in Nat \ {0}, K \in Nat \ {0} : T = TicksPerDay /\ K = DaysPerMonth
    BY ScheduleAssumption
  <1>2. PICK c \in Nat, day \in Nat, months \in Nat, year \in Nat :
           /\ c = trig.slot /\ c < T /\ trig.day = day + 1 /\ day < K
           /\ months = trig.repeat_months /\ months <= 4095 /\ year = trig.year
    <2>1. /\ trig.slot \in Nat /\ trig.slot < T /\ trig.day \in Nat /\ 1 <= trig.day /\ trig.day <= K
          /\ trig.repeat_months \in Nat /\ trig.repeat_months <= 4095 /\ trig.year \in Nat
      BY <1>1, TriggerFields
    <2>2. trig.day - 1 \in Nat /\ trig.day - 1 < K /\ trig.day = (trig.day - 1) + 1
      BY <2>1
    <2> QED BY <2>1, <2>2
  <1>3. PICK M \in Nat, d \in Nat, s \in Nat : d < K /\ s < T /\ now = At(K, T, M, d, s)
    BY CalendarSplit
  <1>4. PICK y \in Nat, m \in Nat : y = M \div 12 /\ m = M % 12 /\ m <= 11 /\ M = y * 12 + m
    <2>1. M \div 12 \in Nat /\ M % 12 \in Nat /\ M % 12 <= 11 /\ M = (M \div 12) * 12 + (M % 12)
      OBVIOUS
    <2> QED BY <2>1
  <1>5. Slot(now) = s /\ Mday(now) = d + 1 /\ Month(now) = m + 1 /\ Year(now) = y
    BY <1>1, <1>3, <1>4, CalendarFields
  <1>6. PICK w \in Nat, v \in Nat : w = d * T + s /\ v = day * T + c
    <2>1. d * T + s \in Nat /\ day * T + c \in Nat
      OBVIOUS
    <2> QED BY <2>1
  <1>7. StillThisMonth <=> w < v
    <2>1. w < v <=> d < day \/ (d = day /\ s < c)
      BY <1>2, <1>3, <1>6, Lexical
    <2> QED BY <2>1, <1>2, <1>5 DEF StillThisMonth
  <1>8. PICK n \in Nat :
           /\ n = MonthFound(months, year, y, m, w, v) /\ n >= M /\ MonthIn(months, year, n)
           /\ n = M => w < v
           /\ \A i \in Nat : M <= i /\ i < n /\ (i = M => w < v) => ~MonthIn(months, year, i)
    <2> DEFINE n == MonthFound(months, year, y, m, w, v)
    <2>1. /\ n \in Nat /\ n >= y * 12 + m /\ MonthIn(months, year, n)
          /\ n = y * 12 + m => w < v
          /\ \A i \in Nat : /\ y * 12 + m <= i /\ i < n
                            /\ i = y * 12 + m => w < v
                            => ~MonthIn(months, year, i)
      <3>1. months <= 4095 /\ m <= 11
        BY <1>2, <1>4
      <3> QED BY <3>1, MonthFacts
    <2> HIDE DEF n
    <2> QED BY <2>1, <1>4 DEF n
  <1>9. PICK next \in Nat : next = NextTime /\ next = At(K, T, n, day, c)
    <2>1. (m + 1) - 1 = m
      OBVIOUS
    <2>2. months # 0 => ffs(months) \in Nat /\ 1 <= ffs(months)
      BY <1>2, ffsFacts
    <2>3. Clear(months, m) > Bit(m) => ffs(Above(months, m)) \in Nat /\ 1 <= ffs(Above(months, m))
      <3>1. Clear(months, m) > Bit(m) => ffs(Above(months, m)) \in Nat /\ m < ffs(Above(months, m)) - 1
        BY <1>2, <1>4, NextBit
      <3> QED BY <3>1
    <2>4. months # 0 => trig.repeat_every_year
      BY <1>2 DEF RepeatsYearly
    <2>5. ~NoMonthLeft
      BY <2>4, <1>2 DEF NoMonthLeft
    <2>6. months = 0 => year = 0
      BY <1>2 DEF RepeatsYearly
    <2>7. esp_schedule_get_next_year = IF year > y THEN year ELSE y
      BY <1>2, <1>5 DEF esp_schedule_get_next_year
    <2>8. esp_schedule_get_next_month =
             IF months = 0 THEN (m + 1) + (IF w < v THEN 0 ELSE 1)
             ELSE IF year > y THEN ffs(months)
             ELSE IF HasBit(months, m) /\ w < v THEN m + 1
             ELSE IF Clear(months, m) > Bit(m) THEN ffs(Above(months, m))
             ELSE ffs(months) + 12
      BY <2>1, <2>5, <1>2, <1>5, <1>7 DEF esp_schedule_get_next_month
    <2>9. esp_schedule_get_next_month \in Nat \ {0} /\ esp_schedule_get_next_year \in Nat
      BY <2>2, <2>3, <2>7, <2>8
    <2>10. esp_schedule_get_next_year * 12 + esp_schedule_get_next_month - 1 = n
      BY <2>2, <2>3, <2>6, <2>7, <2>8, <1>8 DEF MonthFound
    <2>11. (day + 1) - 1 = day
      OBVIOUS
    <2>12. NextTime = mktime(esp_schedule_get_next_year, esp_schedule_get_next_month, trig.day, trig.slot)
      BY <2>9 DEF NextTime
    <2>13. NextTime = (n * K + (day + 1) - 1) * T + c
      BY <2>10, <2>12, <1>1, <1>2 DEF mktime
    <2>14. n * K + (day + 1) - 1 = n * K + day
      <3>1. n * K \in Nat
        OBVIOUS
      <3> QED BY <3>1
    <2>15. (n * K + day) * T + c \in Nat
      OBVIOUS
    <2> QED BY <2>13, <2>14, <2>15 DEF At
  <1>10. ASSUME NEW i \in Nat, NEW e \in Nat, e < K, NEW u \in Nat, u < T, NEW t \in Nat, t = At(K, T, i, e, u)
         PROVE  Named(t) <=> u = c /\ e = day /\ MonthIn(months, year, i)
    <2>1. Slot(t) = u /\ Mday(t) = e + 1 /\ Month(t) = (i % 12) + 1 /\ Year(t) = i \div 12
      BY <1>1, <1>10, CalendarFields
    <2>2. ((i % 12) + 1) - 1 = i % 12 /\ i % 12 \in Nat /\ i % 12 <= 11 /\ i \div 12 \in Nat
      OBVIOUS
    <2>3. i % 12 \in Bits(months) <=> HasBit(months, i % 12)
      BY <2>2, <1>2, BitsOf
    <2>4. Named(t) <=> /\ u = c /\ e + 1 = day + 1
                       /\ \/ months = 0
                          \/ /\ i % 12 \in Bits(months)
                             /\ i \div 12 = year \/ (trig.repeat_every_year /\ i \div 12 > year)
      BY <2>1, <2>2, <1>2 DEF Named
    <2>5. months # 0 => trig.repeat_every_year
      BY <1>2 DEF RepeatsYearly
    <2>6. e + 1 = day + 1 <=> e = day
      OBVIOUS
    <2>7. i \div 12 = year \/ i \div 12 > year <=> i \div 12 >= year
      BY <2>2
    <2> QED BY <2>3, <2>4, <2>5, <2>6, <2>7 DEF MonthIn
  <1>11. Named(next)
    BY <1>2, <1>8, <1>9, <1>10
  <1>12. next > now
    <2>1. now < next <=> M < n \/ (M = n /\ w < v)
      <3>1. day < K /\ c < T /\ d < K /\ s < T
        BY <1>2, <1>3
      <3>2. At(K, T, M, d, s) < At(K, T, n, day, c) <=> M < n \/ (M = n /\ d * T + s < day * T + c)
        BY <3>1, MonthLexical
      <3> QED BY <3>2, <1>3, <1>6, <1>9
    <2> QED BY <2>1, <1>8
  <1>13. ASSUME NEW t \in Nat, now < t, t < next PROVE ~Named(t)
    <2> SUFFICES ASSUME Named(t) PROVE FALSE
      OBVIOUS
    <2>1. PICK i \in Nat, e \in Nat, u \in Nat : e < K /\ u < T /\ t = At(K, T, i, e, u)
      BY CalendarSplit
    <2>2. u = c /\ e = day /\ MonthIn(months, year, i)
      BY <2>1, <1>10
    <2>3. t = At(K, T, i, day, c)
      BY <2>1, <2>2
    <2>4. now < t <=> M < i \/ (M = i /\ w < v)
      <3>1. day < K /\ c < T /\ d < K /\ s < T
        BY <1>2, <1>3
      <3>2. At(K, T, M, d, s) < At(K, T, i, day, c) <=> M < i \/ (M = i /\ d * T + s < day * T + c)
        BY <3>1, MonthLexical
      <3> QED BY <3>2, <2>3, <1>3, <1>6
    <2>5. t < next <=> i < n \/ (i = n /\ v < v)
      <3>1. day < K /\ c < T
        BY <1>2
      <3>2. At(K, T, i, day, c) < At(K, T, n, day, c) <=> i < n \/ (i = n /\ day * T + c < day * T + c)
        BY <3>1, MonthLexical
      <3> QED BY <3>2, <2>3, <1>6, <1>9
    <2>6. M <= i /\ i < n /\ (i = M => w < v)
      BY <2>4, <2>5, <1>13
    <2> QED BY <2>2, <2>6, <1>8
  <1> QED BY <1>9, <1>11, <1>12, <1>13 DEF FirstNamed

\* The search of esp_schedule_get_next_schedule_time_diff finds the first instant after
\* now that the settings name, for all days and months, on every calendar.
THEOREM SearchFindsTheFirst ==
    ASSUME trig \in Triggers, RepeatsYearly(trig), trig.type # "RELATIVE", now \in Nat
    PROVE  FirstNamed(NextTime)
  <1>1. trig.type = "DAYS_OF_WEEK" \/ trig.type = "DATE"
    BY TriggerFields
  <1> QED BY <1>1, WeekSearch, DateSearch

-----------------------------------------------------------------------------
(* The two layers. *)

\* mktime makes a number, and a time if month and day count from 1.
LEMMA DateIsNumber ==
    ASSUME NEW year \in Nat, NEW month \in Nat, NEW day \in Nat, NEW slot \in Nat
    PROVE  /\ mktime(year, month, day, slot) \in Int
           /\ 1 <= month /\ 1 <= day => mktime(year, month, day, slot) \in Nat
  <1>1. PICK K \in Nat, T \in Nat : K = DaysPerMonth /\ T = TicksPerDay
    BY ScheduleAssumption
  <1>2. ((year * 12 + month - 1) * K + day - 1) * T + slot \in Int
    OBVIOUS
  <1>3. ASSUME 1 <= month, 1 <= day PROVE ((year * 12 + month - 1) * K + day - 1) * T + slot \in Nat
    <2>1. PICK a \in Nat, b \in Nat : a = year * 12 + month - 1 /\ b = day - 1
      <3>1. year * 12 + month - 1 \in Nat /\ day - 1 \in Nat
        BY <1>3
      <3> QED BY <3>1
    <2>2. (a * K + b) * T + slot \in Nat
      OBVIOUS
    <2>3. a * K + b = a * K + day - 1
      <3>1. a * K \in Nat
        OBVIOUS
      <3> QED BY <2>1, <3>1
    <2> QED BY <2>1, <2>2, <2>3
  <1> QED BY <1>1, <1>2, <1>3 DEF mktime

\* The next trigger is a time for all settings, those included that find no month.
LEMMA NextIsTime ==
    ASSUME trig \in Triggers, now \in Nat, next_scheduled_time_utc \in Nat
    PROVE  NextTime \in Nat
  <1>1. CASE trig.type = "RELATIVE"
    <2>1. trig.seconds \in Nat
      BY <1>1, TriggerFields
    <2> QED BY <1>1, <2>1 DEF NextTime
  <1>2. CASE trig.type = "DAYS_OF_WEEK"
    BY <1>2, WeekSearch DEF FirstNamed
  <1>3. CASE trig.type = "DATE"
    <2> DEFINE month == esp_schedule_get_next_month
               the   == IF month = 0 THEN Month(now) + 1 ELSE month
    <2>1. PICK T \in Nat \ {0}, K \in Nat \ {0} : T = TicksPerDay /\ K = DaysPerMonth
      BY ScheduleAssumption
    <2>2. PICK i \in Nat, e \in Nat, u \in Nat : e < K /\ u < T /\ now = At(K, T, i, e, u)
      BY CalendarSplit
    <2>3. Month(now) = (i % 12) + 1 /\ Year(now) = i \div 12
      BY <2>1, <2>2, CalendarFields
    <2>4. PICK m \in Nat, y \in Nat : Month(now) = m + 1 /\ m <= 11 /\ Year(now) = y
      <3>1. i % 12 \in Nat /\ i % 12 <= 11 /\ i \div 12 \in Nat
        OBVIOUS
      <3> QED BY <3>1, <2>3
    <2>5. /\ trig.year \in Nat /\ trig.day \in Nat /\ 1 <= trig.day /\ trig.slot \in Nat
          /\ trig.repeat_months \in Nat /\ trig.repeat_months <= 4095
      BY <1>3, TriggerFields
    <2>6. esp_schedule_get_next_year \in Nat
      BY <2>4, <2>5 DEF esp_schedule_get_next_year
    <2>7. trig.repeat_months # 0 => ffs(trig.repeat_months) \in Nat
      BY <2>5, ffsFacts
    <2>8. Clear(trig.repeat_months, m) > Bit(m) => ffs(Above(trig.repeat_months, m)) \in Nat
      BY <2>4, <2>5, NextBit
    <2>9. (m + 1) - 1 = m
      OBVIOUS
    <2>10. month \in Nat
      BY <2>4, <2>7, <2>8, <2>9 DEF esp_schedule_get_next_month
    <2>11. the \in Nat /\ 1 <= the
      BY <2>4, <2>10
    <2>12. NextTime = mktime(esp_schedule_get_next_year, the, trig.day, trig.slot)
      BY <1>3 DEF NextTime
    <2> HIDE DEF the
    <2>13. PICK year \in Nat, mon \in Nat, day \in Nat, slot \in Nat :
              /\ year = esp_schedule_get_next_year /\ mon = the /\ day = trig.day /\ slot = trig.slot
              /\ 1 <= mon /\ 1 <= day
      BY <2>5, <2>6, <2>11
    <2>14. mktime(year, mon, day, slot) \in Nat
      BY <2>13, DateIsNumber
    <2> QED BY <2>12, <2>13, <2>14
  <1> QED BY <1>1, <1>2, <1>3, TriggerFields

\* is_expired, its time given.
ExpiredAt(tr, next, time) ==
    IF OneTime(tr) THEN next > 0 /\ next <= time
    ELSE /\ tr.type = "DATE" /\ ~tr.repeat_every_year
         /\ mktime(tr.year, fls(tr.repeat_months), tr.day, tr.slot) < time

\* A schedule that has expired stays so.
LEMMA ExpiryStays ==
    ASSUME trig \in Triggers, NEW next \in Nat, NEW time \in Nat, ExpiredAt(trig, next, time)
    PROVE  ExpiredAt(trig, next, time + 1)
  <1>1. CASE OneTime(trig)
    BY <1>1 DEF ExpiredAt
  <1>2. CASE ~OneTime(trig)
    <2>1. trig.type = "DATE"
      BY <1>2 DEF ExpiredAt
    <2>2. /\ trig.year \in Nat /\ trig.day \in Nat /\ trig.slot \in Nat
          /\ trig.repeat_months \in Nat /\ trig.repeat_months <= 4095
      BY <2>1, TriggerFields
    <2>3. fls(trig.repeat_months) \in Nat
      BY <2>2, flsFacts
    <2>4. mktime(trig.year, fls(trig.repeat_months), trig.day, trig.slot) \in Int
      <3>1. PICK year \in Nat, month \in Nat, day \in Nat, slot \in Nat :
               year = trig.year /\ month = fls(trig.repeat_months) /\ day = trig.day /\ slot = trig.slot
        BY <2>2, <2>3
      <3>2. mktime(year, month, day, slot) \in Int
        BY DateIsNumber
      <3> QED BY <3>1, <3>2
    <2> QED BY <1>2, <2>4 DEF ExpiredAt
  <1> QED BY <1>1, <1>2

\* The layers: they hold the same time for a one-time schedule; a timer runs for an
\* enabled schedule only, and an enabled schedule without one is in the timer's
\* callback or has expired, with its work callback still queued or refused.
LayersInv ==
    /\ ScheduleTypeOK
    /\ OneTime(trig) => next_timestamp = next_scheduled_time_utc
    /\ tcb = "triggered" => timer = OFF /\ enabled /\ (queued > 0 \/ lost)
    /\ timer # OFF => enabled
    /\ enabled /\ timer = OFF /\ tcb = "idle" =>
          (queued > 0 \/ lost) /\ ExpiredAt(trig, next_timestamp, now)

\* A schedule that has just been added.
LEMMA LayersInit == ScheduleInit => LayersInv
  <1> SUFFICES ASSUME ScheduleInit PROVE LayersInv
    OBVIOUS
  <1>1. now \in 0..MaxNow /\ 0 \in 0..MaxQueued /\ 0 \in 0..MaxNow
    BY ScheduleAssumption DEF ScheduleInit
  <1>2. ScheduleTypeOK
    BY <1>1 DEF ScheduleInit, ScheduleTypeOK
  <1> QED BY <1>2 DEF ScheduleInit, LayersInv

\* Starting the timer.
LEMMA StartTimer ==
    ASSUME ScheduleTypeOK, esp_schedule_start_timer
    PROVE  /\ timer' \in Nat /\ timer' # OFF /\ next_scheduled_time_utc' \in Nat /\ next_timestamp' \in Nat
           /\ unexpected' \in BOOLEAN /\ wrapped' \in BOOLEAN /\ lost' \in BOOLEAN
           /\ OneTime(trig) => next_timestamp' = next_scheduled_time_utc'
  <1>1. NextTime \in Nat /\ now \in Nat
    <2>1. trig \in Triggers /\ now \in Nat /\ next_scheduled_time_utc \in Nat
      BY ScheduleAssumption DEF ScheduleTypeOK
    <2> QED BY <2>1, NextIsTime
  <1>2. PICK n \in Nat \ {0} : n = PeriodRange
    BY ScheduleAssumption
  <1>3. Period(NextTime - now) \subseteq Nat
    <2>1. PICK d \in Int : d = NextTime - now
      BY <1>1
    <2>2. d % n \in Nat /\ (d % n) + 1 \in Nat
      OBVIOUS
    <2> QED BY <1>2, <2>1, <2>2 DEF Period
  <1>4. unexpected' \in BOOLEAN /\ wrapped' \in BOOLEAN /\ lost' \in BOOLEAN
    <2>1. unexpected' \in BOOLEAN
      BY DEF esp_schedule_start_timer
    <2>2. wrapped' \in BOOLEAN
      <3>1. wrapped' = (NextTime - now >= PeriodRange)
        BY DEF esp_schedule_start_timer
      <3>2. (NextTime - now >= PeriodRange) \in BOOLEAN
        BY <1>1, <1>2
      <3> QED BY <3>1, <3>2
    <2>3. lost' \in BOOLEAN
      BY DEF esp_schedule_start_timer
    <2> QED BY <2>1, <2>2, <2>3
  <1>5. timer' \in Nat /\ next_scheduled_time_utc' \in Nat /\ next_timestamp' \in Nat
    BY <1>1, <1>3 DEF esp_schedule_start_timer, ScheduleTypeOK
  <1>6. timer' # OFF
    BY <1>5 DEF OFF
  <1> QED BY <1>4, <1>5, <1>6 DEF esp_schedule_start_timer

\* Each operation and each step of the callbacks keeps the layers together.
LEMMA LayersStep ==
    ASSUME Preempted = FALSE, LayersInv, [ScheduleNext]_scheduleVars
    PROVE  LayersInv'
  <1> USE DEF LayersInv, ScheduleTypeOK
  <1>0. /\ MaxNow \in Nat /\ MaxQueued \in Nat \ {0} /\ now \in Nat /\ queued \in Nat /\ since \in Nat
    BY ScheduleAssumption
  <1>e. \A n : esp_schedule_is_expired(n) <=> ExpiredAt(trig, n, now)
    BY DEF esp_schedule_is_expired, ExpiredAt
  <1>1. CASE esp_rmaker_schedule_operation_enable
    <2> USE <1>1 DEF esp_rmaker_schedule_operation_enable
    <2>0. tcb' = "idle" /\ tcb = "idle"
      BY DEF MayRun
    <2>1. CASE esp_schedule_is_expired(next_timestamp)
      <3>1. /\ enabled' = FALSE /\ timer' = OFF /\ next_scheduled_time_utc' = 0 /\ next_timestamp' = 0
            /\ unexpected' \in BOOLEAN /\ wrapped' \in BOOLEAN /\ lost' \in BOOLEAN
        BY <2>1 DEF esp_schedule_disable
      <3>2. since' \in 0..MaxNow
        BY <1>0
      <3> QED BY <2>0, <3>1, <3>2
    <2>2. CASE ~esp_schedule_is_expired(next_timestamp)
      <3>1. /\ timer' \in Nat /\ timer' # OFF /\ next_scheduled_time_utc' \in Nat /\ next_timestamp' \in Nat
            /\ unexpected' \in BOOLEAN /\ wrapped' \in BOOLEAN /\ lost' \in BOOLEAN
            /\ OneTime(trig) => next_timestamp' = next_scheduled_time_utc'
        BY <2>2, StartTimer
      <3>2. enabled' = TRUE
        BY <2>2
      <3> QED BY <2>0, <3>1, <3>2, <1>0
    <2> QED BY <2>1, <2>2
  <1>2. CASE esp_rmaker_schedule_operation_disable
    BY <1>0, <1>2 DEF esp_rmaker_schedule_operation_disable, esp_schedule_disable, MayRun, OFF
  <1>3. CASE trigger_common_cb
    <2>1. timer # OFF
      BY <1>3 DEF trigger_common_cb, OFF
    <2>2. /\ queued' \in 0..MaxQueued /\ lost' \in BOOLEAN /\ (queued' > 0 \/ lost')
      <3>1. CASE queued < MaxQueued /\ queued' = queued + 1 /\ UNCHANGED lost
        BY <3>1, <1>0
      <3>2. CASE lost' = TRUE /\ UNCHANGED queued
        BY <3>2
      <3> QED BY <3>1, <3>2, <1>3 DEF trigger_common_cb
    <2>3. /\ timer' = OFF /\ tcb' = "triggered" /\ firing' = TRUE
          /\ UNCHANGED <<now, trig, enabled, nextVars, since, wrapped, unexpected>>
      BY <1>3 DEF trigger_common_cb
    <2>4. ScheduleTypeOK'
      BY <2>2, <2>3 DEF nextVars
    <2> QED BY <2>1, <2>2, <2>3, <2>4 DEF nextVars
  <1>4. CASE esp_schedule_common_timer_cb
    <2> USE <1>4 DEF esp_schedule_common_timer_cb
    <2>1. CASE esp_schedule_is_expired(next_scheduled_time_utc)
      <3>1. ExpiredAt(trig, next_timestamp, now)
        BY <2>1, <1>e DEF ExpiredAt
      <3>2. ExpiredAt(trig, next_timestamp, now)'
        BY <2>1, <3>1 DEF nextVars
      <3> QED BY <2>1, <3>2 DEF nextVars
    <2>2. CASE ~esp_schedule_is_expired(next_scheduled_time_utc)
      <3>1. /\ timer' \in Nat /\ timer' # OFF /\ next_scheduled_time_utc' \in Nat /\ next_timestamp' \in Nat
            /\ unexpected' \in BOOLEAN /\ wrapped' \in BOOLEAN /\ lost' \in BOOLEAN
            /\ OneTime(trig) => next_timestamp' = next_scheduled_time_utc'
        BY <2>2, StartTimer
      <3> QED BY <3>1
    <2> QED BY <2>1, <2>2
  <1>5. CASE trigger_work_cb
    <2> USE <1>5 DEF trigger_work_cb
    <2>0. tcb = "idle" /\ tcb' = "idle" /\ queued' \in 0..MaxQueued
      BY <1>0 DEF MayRun
    <2>1. CASE esp_schedule_is_expired(next_timestamp)
      <3>1. /\ enabled' = FALSE /\ timer' = OFF /\ next_scheduled_time_utc' = 0 /\ next_timestamp' = 0
            /\ unexpected' \in BOOLEAN /\ wrapped' \in BOOLEAN /\ lost' \in BOOLEAN
        BY <2>1 DEF esp_schedule_disable
      <3>2. since' \in 0..MaxNow
        BY <1>0
      <3> QED BY <2>0, <3>1, <3>2
    <2>2. CASE ~esp_schedule_is_expired(next_timestamp)
      <3>1. ~(enabled /\ timer = OFF)
        BY <2>0, <2>2, <1>e
      <3> QED BY <2>0, <2>2, <3>1 DEF nextVars
    <2> QED BY <2>1, <2>2
  <1>6. CASE Tick
    <2> USE <1>6 DEF Tick
    <2>1. timer' \in {OFF} \cup Nat /\ (timer' = OFF <=> timer = OFF)
      BY DEF OFF
    <2>2. ExpiredAt(trig, next_timestamp, now) => ExpiredAt(trig, next_timestamp, now)'
      <3>1. PICK n \in Nat : n = next_timestamp /\ n = next_timestamp'
        BY DEF nextVars
      <3>2. ExpiredAt(trig, n, now) => ExpiredAt(trig, n, now + 1)
        BY <1>0, ExpiryStays
      <3> QED BY <3>1, <3>2
    <2>3. now' \in 0..MaxNow
      BY <1>0
    <2> QED BY <2>1, <2>2, <2>3 DEF nextVars
  <1>7. CASE UNCHANGED scheduleVars
    BY <1>7 DEF scheduleVars
  <1> QED BY <1>1, <1>2, <1>3, <1>4, <1>5, <1>6, <1>7 DEF ScheduleNext

\* LayersAgree, for every setting, every reach of the timer and whatever else fills the
\* work queue, as long as the timer's callback is not preempted.
THEOREM LayersStayAgreed ==
    ASSUME Preempted = FALSE
    PROVE  ScheduleSpec => []LayersAgree
  <1>1. LayersInv => LayersAgree
    BY DEF LayersInv, LayersAgree, EnabledIsArmed, DisabledIsStopped, ScheduleTypeOK
  <1> QED BY <1>1, LayersInit, LayersStep, PTL DEF ScheduleSpec

-----------------------------------------------------------------------------
(* Every named instant and no other. *)

\* Named, its variables given.
NamedBy(tr, from, t) ==
    CASE tr.type = "RELATIVE"     -> t = from + tr.seconds
      [] tr.type = "DAYS_OF_WEEK" -> /\ Slot(t) = tr.slot
                                     /\ tr.repeat_days = 0 \/ (Wday(t) + 6) % 7 \in Bits(tr.repeat_days)
      [] OTHER -> /\ Slot(t) = tr.slot /\ Mday(t) = tr.day
                  /\ \/ tr.repeat_months = 0
                     \/ /\ Month(t) - 1 \in Bits(tr.repeat_months)
                        /\ Year(t) = tr.year \/ (tr.repeat_every_year /\ Year(t) > tr.year)

\* While a timer runs, it runs until the first named instant after now, or ends before
\* if its period has wrapped, and if now is named the schedule has triggered.  A relative
\* schedule knows its time while it is enabled.  A one-time schedule that is enabled
\* without a timer has triggered at the time it knows, which is after the one it was
\* asked at, or is in the callback of a timer that has wrapped.
TimerInv ==
    timer # OFF =>
        /\ timer <= next_scheduled_time_utc - now
        /\ ~wrapped => timer = next_scheduled_time_utc - now
        /\ NamedBy(trig, since, next_scheduled_time_utc)
        /\ \A t \in Nat : now < t /\ t < next_scheduled_time_utc => ~NamedBy(trig, since, t)
        /\ timer > 0 /\ since < now /\ NamedBy(trig, since, now) => firing

RelativeInv ==
    trig.type = "RELATIVE" =>
        /\ enabled => next_scheduled_time_utc = since + trig.seconds /\ next_scheduled_time_utc > 0
        /\ ~enabled => next_scheduled_time_utc = 0

OneTimeInv ==
    enabled /\ OneTime(trig) =>
        /\ timer = OFF /\ tcb = "idle" =>
              /\ NamedBy(trig, since, next_scheduled_time_utc)
              /\ next_scheduled_time_utc <= now
              /\ next_scheduled_time_utc = now => firing
        /\ trig.type # "RELATIVE" => since < next_scheduled_time_utc

CallbackInv ==
    tcb = "triggered" =>
        /\ firing /\ next_scheduled_time_utc >= now
        /\ NamedBy(trig, since, next_scheduled_time_utc)
        /\ ~wrapped => next_scheduled_time_utc = now

TriggerInv ==
    /\ LayersInv
    /\ since <= now /\ now >= 1
    /\ TimerInv /\ RelativeInv /\ OneTimeInv /\ CallbackInv

\* Only relative schedules name their instant by when they were asked.
LEMMA NamedIs ==
    /\ \A t : Named(t) <=> NamedBy(trig, since, t)
    /\ trig.type # "RELATIVE" => \A a, b, t : NamedBy(trig, a, t) <=> NamedBy(trig, b, t)
    /\ trig.type = "RELATIVE" => \A a, t : NamedBy(trig, a, t) <=> t = a + trig.seconds
    /\ trig.type = "RELATIVE" => OneTime(trig)
  BY DEF Named, NamedBy, OneTime

\* A schedule that has just been added.
LEMMA TriggerInit == ScheduleInit => TriggerInv
  <1> SUFFICES ASSUME ScheduleInit PROVE TriggerInv
    OBVIOUS
  <1>1. LayersInv
    BY LayersInit
  <1>2. since <= now /\ now >= 1
    BY ScheduleAssumption DEF ScheduleInit
  <1>3. TimerInv /\ RelativeInv /\ OneTimeInv /\ CallbackInv
    BY DEF ScheduleInit, TimerInv, RelativeInv, OneTimeInv, CallbackInv
  <1> QED BY <1>1, <1>2, <1>3 DEF TriggerInv

\* The timer is never set past the next trigger, and to it exactly unless it wraps.
LEMMA TimerReaches ==
    ASSUME NEW x \in Nat, NEW time \in Nat, x >= time, NEW p \in Period(x - time)
    PROVE  /\ p \in Nat /\ p <= x - time
           /\ ~(x - time >= PeriodRange) => p = x - time
  <1>1. PICK d \in Nat : d = x - time
    <2>1. x - time \in Nat
      OBVIOUS
    <2> QED BY <2>1
  <1>2. PICK r \in Nat \ {0} : r = PeriodRange
    BY ScheduleAssumption
  <1>3. CASE d < r
    BY <1>1, <1>2, <1>3 DEF Period
  <1>4. CASE ~(d < r)
    <2>1. d % r \in Nat /\ d % r < r
      OBVIOUS
    <2>2. p \in {d % r, (d % r) + 1}
      BY <1>1, <1>2, <1>4 DEF Period
    <2>3. p \in Nat /\ p <= d
      BY <1>4, <2>1, <2>2
    <2> QED BY <1>1, <1>2, <1>4, <2>3
  <1> QED BY <1>3, <1>4

\* Starting the timer of a schedule that is not relative.
LEMMA StartSearched ==
    ASSUME ScheduleTypeOK, RepeatsYearly(trig), esp_schedule_start_timer, trig.type # "RELATIVE", NEW from
    PROVE  /\ timer' <= next_scheduled_time_utc' - now /\ timer' # OFF
           /\ ~wrapped' => timer' = next_scheduled_time_utc' - now
           /\ next_scheduled_time_utc' \in Nat /\ next_scheduled_time_utc' > now
           /\ NamedBy(trig, from, next_scheduled_time_utc')
           /\ \A t \in Nat : now < t /\ t < next_scheduled_time_utc' => ~NamedBy(trig, from, t)
  <1>1. now \in Nat /\ trig \in Triggers
    BY ScheduleAssumption DEF ScheduleTypeOK
  <1>2. FirstNamed(NextTime)
    BY <1>1, SearchFindsTheFirst
  <1>3. PICK n \in Nat : n = NextTime /\ n > now /\ Named(n) /\ \A t \in Nat : now < t /\ t < n => ~Named(t)
    BY <1>2 DEF FirstNamed
  <1>4. next_scheduled_time_utc' = n /\ timer' \in Period(n - now) /\ wrapped' = (n - now >= PeriodRange)
    BY <1>3 DEF esp_schedule_start_timer
  <1>5. n >= now
    BY <1>1, <1>3
  <1>6. timer' \in Nat /\ timer' <= n - now /\ (~wrapped' => timer' = n - now)
    BY <1>1, <1>4, <1>5, TimerReaches
  <1>7. \A t : Named(t) <=> NamedBy(trig, from, t)
    BY NamedIs
  <1>8. timer' # OFF
    BY <1>6 DEF OFF
  <1> QED BY <1>3, <1>4, <1>6, <1>7, <1>8

\* Each operation and each step of the callbacks keeps the timer on the next named instant.
LEMMA TriggerStep ==
    ASSUME Preempted = FALSE, \A tr \in Triggers : RepeatsYearly(tr),
           TriggerInv, [ScheduleNext]_scheduleVars
    PROVE  TriggerInv'
  <1>l. LayersInv'
    BY LayersStep DEF TriggerInv
  <1>t. ScheduleTypeOK /\ RepeatsYearly(trig)
    BY DEF TriggerInv, LayersInv, ScheduleTypeOK
  <1>n. /\ now \in Nat /\ since \in Nat /\ next_scheduled_time_utc \in Nat /\ next_timestamp \in Nat
        /\ timer \in Nat \cup {OFF} /\ since <= now /\ now >= 1 /\ trig \in Triggers
    BY <1>t, ScheduleAssumption DEF TriggerInv, ScheduleTypeOK
  <1>e. \A x : esp_schedule_is_expired(x) <=> ExpiredAt(trig, x, now)
    BY DEF esp_schedule_is_expired, ExpiredAt
  <1>i. TimerInv /\ RelativeInv /\ OneTimeInv /\ CallbackInv
    BY DEF TriggerInv
  <1>o. /\ OneTime(trig) => next_timestamp = next_scheduled_time_utc
        /\ timer # OFF => enabled
        /\ tcb = "triggered" => timer = OFF /\ enabled
    BY DEF TriggerInv, LayersInv
  <1>c. tcb \in {"idle", "triggered"} /\ (tcb = "triggered" => ~(tcb = "idle"))
    BY <1>t DEF ScheduleTypeOK
  \* A relative schedule is timed for the time it has.
  <1>r. ASSUME esp_schedule_start_timer, trig.type = "RELATIVE", NEW n \in Nat, n = NextTime, n >= now
        PROVE  /\ next_scheduled_time_utc' = n /\ timer' \in Nat /\ timer' # OFF /\ timer' <= n - now
               /\ ~wrapped' => timer' = n - now
    <2>1. next_scheduled_time_utc' = n /\ timer' \in Period(n - now) /\ wrapped' = (n - now >= PeriodRange)
      BY <1>r DEF esp_schedule_start_timer
    <2>2. timer' \in Nat /\ timer' <= n - now /\ (~wrapped' => timer' = n - now)
      BY <1>n, <1>r, <2>1, TimerReaches
    <2>3. timer' # OFF
      BY <2>2 DEF OFF
    <2> QED BY <2>1, <2>2, <2>3
  \* Disabling leaves nothing to know.
  <1>d. ASSUME enabled' = FALSE, esp_schedule_disable, tcb' = "idle"
        PROVE  (TimerInv /\ RelativeInv /\ OneTimeInv /\ CallbackInv)'
    BY <1>d DEF esp_schedule_disable, TimerInv, RelativeInv, OneTimeInv, CallbackInv
  <1>1. CASE esp_rmaker_schedule_operation_enable
    <2>0. /\ tcb' = "idle" /\ now' = now /\ trig' = trig /\ firing' = firing
          /\ since' = IF enabled /\ trig.type = "RELATIVE" THEN since ELSE now
      BY <1>1 DEF esp_rmaker_schedule_operation_enable, MayRun
    <2>1. CASE esp_schedule_is_expired(next_timestamp)
      <3>1. enabled' = FALSE /\ esp_schedule_disable
        BY <1>1, <2>1 DEF esp_rmaker_schedule_operation_enable
      <3>2. since' <= now' /\ now' >= 1
        BY <2>0, <1>n
      <3> QED BY <1>l, <1>d, <2>0, <3>1, <3>2 DEF TriggerInv
    <2>2. CASE ~esp_schedule_is_expired(next_timestamp) /\ trig.type # "RELATIVE"
      <3>1. enabled' = TRUE /\ esp_schedule_start_timer /\ since' = now
        BY <1>1, <2>0, <2>2 DEF esp_rmaker_schedule_operation_enable
      <3>2. /\ timer' <= next_scheduled_time_utc' - now /\ timer' # OFF
            /\ ~wrapped' => timer' = next_scheduled_time_utc' - now
            /\ next_scheduled_time_utc' \in Nat /\ next_scheduled_time_utc' > now
            /\ NamedBy(trig, now, next_scheduled_time_utc')
            /\ \A t \in Nat : now < t /\ t < next_scheduled_time_utc' => ~NamedBy(trig, now, t)
        BY <1>t, <2>2, <3>1, StartSearched
      <3>3. since' <= now' /\ now' >= 1 /\ ~(since' < now')
        BY <2>0, <3>1, <1>n
      <3>4. TimerInv'
        BY <2>0, <3>1, <3>2, <3>3 DEF TimerInv
      <3>5. RelativeInv' /\ OneTimeInv' /\ CallbackInv'
        BY <2>0, <2>2, <3>1, <3>2 DEF RelativeInv, OneTimeInv, CallbackInv
      <3> QED BY <1>l, <3>3, <3>4, <3>5 DEF TriggerInv
    <2>3. CASE ~esp_schedule_is_expired(next_timestamp) /\ trig.type = "RELATIVE"
      <3>1. enabled' = TRUE /\ esp_schedule_start_timer
        BY <1>1, <2>3 DEF esp_rmaker_schedule_operation_enable
      <3>2. PICK n \in Nat : n = NextTime
        BY <1>n, NextIsTime
      <3>3. PICK a \in Nat : a = trig.seconds
        BY <1>n, <2>3, TriggerFields
      <3>4. n = since' + a /\ n > 0 /\ n >= now /\ since' \in Nat /\ since' <= now
        <4>1. CASE enabled
          <5>1. next_scheduled_time_utc = since + a /\ next_scheduled_time_utc > 0
            BY <4>1, <1>i, <2>3, <3>3 DEF RelativeInv
          <5>2. n = next_scheduled_time_utc
            BY <5>1, <3>2, <2>3 DEF NextTime
          <5>3. ~(next_scheduled_time_utc > 0 /\ next_scheduled_time_utc <= now)
            BY <2>3, <1>e, <1>o, NamedIs DEF ExpiredAt
          <5>4. since' = since
            BY <2>0, <2>3, <4>1
          <5> QED BY <5>1, <5>2, <5>3, <5>4, <1>n
        <4>2. CASE ~enabled
          <5>1. next_scheduled_time_utc = 0
            BY <4>2, <1>i, <2>3 DEF RelativeInv
          <5>2. n = now + a
            BY <5>1, <3>2, <3>3, <2>3 DEF NextTime
          <5>3. since' = now
            BY <2>0, <4>2
          <5> QED BY <5>2, <5>3, <1>n
        <4> QED BY <4>1, <4>2
      <3>5. /\ next_scheduled_time_utc' = n /\ timer' \in Nat /\ timer' # OFF /\ timer' <= n - now
            /\ ~wrapped' => timer' = n - now
        BY <1>r, <2>3, <3>1, <3>2, <3>4
      <3>6. \A t : NamedBy(trig, since', t) <=> t = n
        <4>1. \A b, t : NamedBy(trig, b, t) <=> t = b + trig.seconds
          BY <2>3, NamedIs
        <4>2. since' + trig.seconds = n
          BY <3>3, <3>4
        <4> QED BY <4>1, <4>2, Zenon
      <3>7. NamedBy(trig, since', n) /\ \A t \in Nat : t < n => ~NamedBy(trig, since', t)
        BY <3>6
      <3>8. timer' > 0 /\ since' < now /\ NamedBy(trig, since', now) => FALSE
        <4>1. now \in Nat /\ timer' \in Nat /\ timer' <= n - now
          BY <3>5, <1>n
        <4>2. timer' > 0 => now # n
          BY <4>1
        <4> QED BY <4>2, <3>6
      <3>9. TimerInv'
        BY <2>0, <3>5, <3>7, <3>8 DEF TimerInv
      <3>10. RelativeInv' /\ OneTimeInv' /\ CallbackInv'
        BY <2>0, <2>3, <3>1, <3>3, <3>4, <3>5 DEF RelativeInv, OneTimeInv, CallbackInv
      <3>11. since' <= now' /\ now' >= 1
        BY <2>0, <3>4, <1>n
      <3> QED BY <1>l, <3>9, <3>10, <3>11 DEF TriggerInv
    <2> QED BY <2>1, <2>2, <2>3
  <1>2. CASE esp_rmaker_schedule_operation_disable
    <2>1. enabled' = FALSE /\ esp_schedule_disable /\ tcb' = "idle" /\ now' = now /\ since' = since
      BY <1>2 DEF esp_rmaker_schedule_operation_disable, MayRun
    <2>2. since' <= now' /\ now' >= 1
      BY <2>1, <1>n
    <2> QED BY <1>l, <1>d, <2>1, <2>2 DEF TriggerInv
  <1>3. CASE trigger_common_cb
    <2>1. /\ timer = 0 /\ timer' = OFF /\ tcb' = "triggered" /\ firing' = TRUE /\ wrapped' = wrapped
          /\ now' = now /\ trig' = trig /\ enabled' = enabled /\ since' = since
          /\ next_scheduled_time_utc' = next_scheduled_time_utc
      BY <1>3 DEF trigger_common_cb, nextVars
    <2>2. timer # OFF
      BY <2>1 DEF OFF
    <2>3. /\ next_scheduled_time_utc >= now /\ NamedBy(trig, since, next_scheduled_time_utc)
          /\ ~wrapped => next_scheduled_time_utc = now
      <3>1. 0 <= next_scheduled_time_utc - now /\ (~wrapped => 0 = next_scheduled_time_utc - now)
        BY <2>1, <2>2, <1>i DEF TimerInv
      <3>2. NamedBy(trig, since, next_scheduled_time_utc)
        BY <2>2, <1>i DEF TimerInv
      <3> QED BY <3>1, <3>2, <1>n
    <2>4. TimerInv' /\ CallbackInv' /\ RelativeInv'
      BY <2>1, <2>3, <1>i DEF TimerInv, CallbackInv, RelativeInv
    <2>5. OneTimeInv'
      BY <2>1, <2>3, <1>i, <1>n DEF OneTimeInv
    <2>6. since' <= now' /\ now' >= 1
      BY <2>1, <1>n
    <2> QED BY <1>l, <2>4, <2>5, <2>6 DEF TriggerInv
  <1>4. CASE esp_schedule_common_timer_cb
    <2>1. /\ tcb = "triggered" /\ tcb' = "idle" /\ now' = now /\ trig' = trig /\ enabled' = enabled
          /\ since' = since /\ firing' = firing
      BY <1>4 DEF esp_schedule_common_timer_cb
    <2>2. /\ firing /\ next_scheduled_time_utc >= now /\ NamedBy(trig, since, next_scheduled_time_utc)
          /\ timer = OFF /\ enabled
      BY <2>1, <1>i, <1>o DEF CallbackInv
    <2>3. since' <= now' /\ now' >= 1
      BY <2>1, <1>n
    <2>4. CASE esp_schedule_is_expired(next_scheduled_time_utc)
      <3>1. timer' = OFF /\ next_scheduled_time_utc' = next_scheduled_time_utc
        BY <1>4, <2>2, <2>4 DEF esp_schedule_common_timer_cb, nextVars
      <3>2. TimerInv' /\ RelativeInv' /\ CallbackInv'
        BY <2>1, <2>2, <3>1, <1>i DEF TimerInv, RelativeInv, CallbackInv
      <3>3. OneTime(trig) => next_scheduled_time_utc <= now
        BY <2>4, <1>e DEF ExpiredAt
      <3>4. OneTimeInv'
        BY <2>1, <2>2, <3>1, <3>3, <1>i, <1>n DEF OneTimeInv
      <3> QED BY <1>l, <2>3, <3>2, <3>4 DEF TriggerInv
    <2>5. CASE ~esp_schedule_is_expired(next_scheduled_time_utc)
      <3>1. esp_schedule_start_timer
        BY <1>4, <2>5 DEF esp_schedule_common_timer_cb
      <3>2. CASE trig.type # "RELATIVE"
        <4>1. /\ timer' <= next_scheduled_time_utc' - now /\ timer' # OFF
              /\ ~wrapped' => timer' = next_scheduled_time_utc' - now
              /\ next_scheduled_time_utc' \in Nat /\ next_scheduled_time_utc' > now
              /\ NamedBy(trig, since, next_scheduled_time_utc')
              /\ \A t \in Nat : now < t /\ t < next_scheduled_time_utc' => ~NamedBy(trig, since, t)
          BY <1>t, <3>1, <3>2, StartSearched
        <4>2. since < next_scheduled_time_utc'
          BY <4>1, <1>n
        <4>3. (TimerInv /\ RelativeInv /\ OneTimeInv /\ CallbackInv)'
          BY <2>1, <2>2, <3>2, <4>1, <4>2 DEF TimerInv, RelativeInv, OneTimeInv, CallbackInv
        <4> QED BY <1>l, <2>3, <4>3 DEF TriggerInv
      <3>3. CASE trig.type = "RELATIVE"
        <4>1. OneTime(trig)
          BY <3>3, NamedIs
        <4>2. PICK n \in Nat : n = next_scheduled_time_utc /\ n > now /\ n > 0
          BY <2>2, <2>5, <4>1, <1>e, <1>n DEF ExpiredAt
        <4>3. n = NextTime
          BY <3>3, <4>2 DEF NextTime
        <4>4. n >= now
          BY <4>2, <1>n
        <4>5. /\ next_scheduled_time_utc' = n /\ timer' # OFF /\ timer' <= n - now
              /\ ~wrapped' => timer' = n - now
          BY <1>r, <3>1, <3>3, <4>3, <4>4
        <4>6. \A t \in Nat : now < t /\ t < n => ~NamedBy(trig, since, t)
          <5>1. \A t : NamedBy(trig, since, t) <=> t = since + trig.seconds
            BY <3>3, NamedIs
          <5>2. since + trig.seconds = n
            BY <2>2, <4>2, <5>1
          <5> QED BY <5>1, <5>2
        <4>7. TimerInv'
          BY <2>1, <2>2, <4>2, <4>5, <4>6 DEF TimerInv
        <4>8. RelativeInv' /\ CallbackInv'
          BY <2>1, <2>2, <4>2, <4>5, <1>i DEF RelativeInv, CallbackInv
        <4>9. OneTimeInv'
          BY <2>1, <3>3, <4>5 DEF OneTimeInv
        <4> QED BY <1>l, <2>3, <4>7, <4>8, <4>9 DEF TriggerInv
      <3> QED BY <3>2, <3>3
    <2> QED BY <2>4, <2>5
  <1>5. CASE trigger_work_cb
    <2>1. tcb' = "idle" /\ tcb = "idle" /\ now' = now /\ trig' = trig /\ since' = since /\ firing' = firing
      BY <1>5 DEF trigger_work_cb, MayRun
    <2>2. since' <= now' /\ now' >= 1
      BY <2>1, <1>n
    <2>3. CASE esp_schedule_is_expired(next_timestamp)
      <3>1. enabled' = FALSE /\ esp_schedule_disable
        BY <1>5, <2>3 DEF trigger_work_cb
      <3> QED BY <1>l, <1>d, <2>1, <2>2, <3>1 DEF TriggerInv
    <2>4. CASE ~esp_schedule_is_expired(next_timestamp)
      <3>1. UNCHANGED <<enabled, timer, next_scheduled_time_utc, wrapped>>
        BY <1>5, <2>4 DEF trigger_work_cb, nextVars
      <3>2. (TimerInv /\ RelativeInv /\ OneTimeInv /\ CallbackInv)'
        BY <2>1, <3>1, <1>i DEF TimerInv, RelativeInv, OneTimeInv, CallbackInv
      <3> QED BY <1>l, <2>2, <3>2 DEF TriggerInv
    <2> QED BY <2>3, <2>4
  <1>6. CASE Tick
    <2>1. /\ timer # 0 /\ tcb = "idle" /\ tcb' = "idle" /\ now' = now + 1 /\ firing' = FALSE
          /\ timer' = (IF timer = OFF THEN OFF ELSE timer - 1)
          /\ trig' = trig /\ enabled' = enabled /\ since' = since
          /\ next_scheduled_time_utc' = next_scheduled_time_utc /\ wrapped' = wrapped
      BY <1>6 DEF Tick, nextVars
    <2>2. since' <= now' /\ now' >= 1 /\ now + 1 \in Nat
      BY <2>1, <1>n
    <2>3. TimerInv'
      <3> SUFFICES ASSUME timer' # OFF PROVE TimerInv'
        BY DEF TimerInv
      <3>1. timer # OFF /\ timer' = timer - 1
        BY <2>1
      <3>2. /\ timer <= next_scheduled_time_utc - now
            /\ ~wrapped => timer = next_scheduled_time_utc - now
            /\ NamedBy(trig, since, next_scheduled_time_utc)
            /\ \A t \in Nat : now < t /\ t < next_scheduled_time_utc => ~NamedBy(trig, since, t)
        BY <3>1, <1>i DEF TimerInv
      <3>3. /\ timer' <= next_scheduled_time_utc' - now'
            /\ ~wrapped' => timer' = next_scheduled_time_utc' - now'
        <4>1. timer \in Int /\ next_scheduled_time_utc \in Int /\ now \in Int
          BY <1>n DEF OFF
        <4> QED BY <2>1, <3>1, <3>2, <4>1
      <3>4. \A t \in Nat : now' < t /\ t < next_scheduled_time_utc' => ~NamedBy(trig', since', t)
        <4> SUFFICES ASSUME NEW t \in Nat, now' < t, t < next_scheduled_time_utc'
                     PROVE  ~NamedBy(trig', since', t)
          OBVIOUS
        <4>1. now < t /\ t < next_scheduled_time_utc
          BY <2>1, <1>n
        <4> QED BY <4>1, <3>2, <2>1
      <3>5. timer' > 0 => ~NamedBy(trig', since', now')
        <4> SUFFICES ASSUME timer' > 0 PROVE ~NamedBy(trig', since', now')
          OBVIOUS
        <4>0. timer' \in Int
          BY <2>1, <1>n DEF OFF
        <4>1. now < now + 1 /\ now + 1 < next_scheduled_time_utc
          BY <2>1, <3>3, <4>0, <1>n
        <4> QED BY <4>1, <3>2, <2>1, <2>2
      <3>6. NamedBy(trig', since', next_scheduled_time_utc')
        BY <2>1, <3>2
      <3> QED BY <3>3, <3>4, <3>5, <3>6 DEF TimerInv
    <2>4. RelativeInv' /\ CallbackInv'
      BY <2>1, <1>i DEF RelativeInv, CallbackInv
    <2>5. OneTimeInv'
      <3> SUFFICES ASSUME enabled, OneTime(trig)
                   PROVE  /\ timer' = OFF => /\ NamedBy(trig, since, next_scheduled_time_utc)
                                             /\ next_scheduled_time_utc <= now + 1
                                             /\ next_scheduled_time_utc # now + 1
                          /\ trig.type # "RELATIVE" => since < next_scheduled_time_utc
        BY <2>1 DEF OneTimeInv
      <3>1. timer' = OFF => timer = OFF
        BY <2>1, <1>n DEF OFF
      <3> QED BY <2>1, <3>1, <1>i, <1>n DEF OneTimeInv
    <2> QED BY <1>l, <2>2, <2>3, <2>4, <2>5 DEF TriggerInv
  <1>7. CASE UNCHANGED scheduleVars
    <2>1. UNCHANGED <<now, trig, enabled, tcb, timer, next_scheduled_time_utc, since, firing, wrapped>>
      BY <1>7 DEF scheduleVars
    <2>2. (TimerInv /\ RelativeInv /\ OneTimeInv /\ CallbackInv)'
      BY <2>1, <1>i DEF TimerInv, RelativeInv, OneTimeInv, CallbackInv
    <2> QED BY <1>l, <1>n, <2>1, <2>2 DEF TriggerInv
  <1> QED BY <1>1, <1>2, <1>3, <1>4, <1>5, <1>6, <1>7 DEF ScheduleNext

\* So it does always.
LEMMA TriggerInvAlways ==
    ASSUME Preempted = FALSE, \A tr \in Triggers : RepeatsYearly(tr)
    PROVE  ScheduleSpec => []TriggerInv
  BY TriggerInit, TriggerStep, PTL DEF ScheduleSpec

\* NoStrayTrigger, for dates that repeat every year or name no year: a trigger that is
\* not named is one of a timer whose period has wrapped.
THEOREM NoTriggerIsStray ==
    ASSUME Preempted = FALSE, \A tr \in Triggers : RepeatsYearly(tr)
    PROVE  ScheduleSpec => []NoStrayTrigger
  <1>1. TriggerInv => NoStrayTrigger
    BY NamedIs DEF TriggerInv, CallbackInv, NoStrayTrigger
  <1> QED BY <1>1, TriggerInvAlways, PTL

\* What the invariant says of an instant that is named.
LEMMA NamedIsServed == ASSUME TriggerInv, RepeatsYearly(trig) PROVE NoTriggerMissed
  <1> SUFFICES ASSUME enabled, since < now, Named(now),
                      OneTime(trig) => \A t \in (since + 1)..(now - 1) : ~Named(t), timer # 0
               PROVE  firing
    BY DEF NoTriggerMissed
  <1>1. /\ now \in Nat /\ since \in Nat /\ next_scheduled_time_utc \in Nat
        /\ timer \in Nat \cup {OFF} /\ trig \in Triggers
    BY ScheduleAssumption DEF TriggerInv, LayersInv, ScheduleTypeOK
  <1>2. \A t : Named(t) <=> NamedBy(trig, since, t)
    BY NamedIs
  <1>3. CASE timer # OFF
    <2>1. timer > 0
      BY <1>1, <1>3
    <2> QED BY <2>1, <1>2, <1>3 DEF TriggerInv, TimerInv
  <1>4. CASE tcb = "triggered"
    BY <1>4 DEF TriggerInv, CallbackInv
  <1>5. CASE timer = OFF /\ tcb = "idle"
    <2>1. ExpiredAt(trig, next_timestamp, now)
      BY <1>5 DEF TriggerInv, LayersInv
    <2>2. OneTime(trig)
      BY <2>1, <1>1, TriggerFields DEF ExpiredAt, OneTime, RepeatsYearly
    <2>3. /\ NamedBy(trig, since, next_scheduled_time_utc) /\ next_scheduled_time_utc <= now
          /\ next_scheduled_time_utc = now => firing
          /\ trig.type # "RELATIVE" => since < next_scheduled_time_utc
      BY <1>5, <2>2 DEF TriggerInv, OneTimeInv
    <2>4. next_scheduled_time_utc = now
      <3>1. CASE trig.type = "RELATIVE"
        BY <3>1, <2>3, <1>2, NamedIs
      <3>2. CASE trig.type # "RELATIVE"
        <4>1. next_scheduled_time_utc < now => next_scheduled_time_utc \in (since + 1)..(now - 1)
          BY <3>2, <2>3, <1>1
        <4>2. ~(next_scheduled_time_utc < now)
          BY <4>1, <2>2, <2>3, <1>2
        <4> QED BY <4>2, <2>3, <1>1
      <3> QED BY <3>1, <3>2
    <2> QED BY <2>3, <2>4
  <1> QED BY <1>3, <1>4, <1>5 DEF TriggerInv, LayersInv, ScheduleTypeOK

\* NoTriggerMissed, under the same assumptions, and whether or not the timer reaches the
\* next trigger: one that wraps comes too early, and is set again.
THEOREM NoTriggerIsMissed ==
    ASSUME Preempted = FALSE, \A tr \in Triggers : RepeatsYearly(tr)
    PROVE  ScheduleSpec => []NoTriggerMissed
  <1>1. TriggerInv => NoTriggerMissed
    <2>1. TriggerInv => RepeatsYearly(trig)
      BY DEF TriggerInv, LayersInv, ScheduleTypeOK
    <2> QED BY <2>1, NamedIsServed
  <1> QED BY <1>1, TriggerInvAlways, PTL

\* The timer reaches the next trigger: its period does not wrap.
InReach == NextTime - now < PeriodRange

\* The settings whose next trigger is always in reach of a timer of 2^32 ms, 49 days:
\* days of the week, a day of every month or of the next, and shorter times from now.
Short(tr) ==
    CASE tr.type = "RELATIVE"     -> tr.seconds < PeriodRange
      [] tr.type = "DAYS_OF_WEEK" -> 7 * TicksPerDay < PeriodRange
      [] OTHER -> /\ tr.year = 0 /\ DaysPerMonth * TicksPerDay < PeriodRange
                  /\ tr.repeat_months = 0 \/ (tr.repeat_months = 4095 /\ tr.repeat_every_year)

\* The mask of all months.
LEMMA EveryMonth ==
    ASSUME NEW j \in Nat, j <= 11
    PROVE  HasBit(4095, j)
  <1>1. /\ Bit(0) = 1 /\ Bit(1) = 2 /\ Bit(2) = 4 /\ Bit(3) = 8 /\ Bit(4) = 16 /\ Bit(5) = 32
        /\ Bit(6) = 64 /\ Bit(7) = 128 /\ Bit(8) = 256 /\ Bit(9) = 512 /\ Bit(10) = 1024
        /\ Bit(11) = 2048
    BY DEF Bit
  <1>2. j \in {0, 1, 2, 3, 4, 5, 6, 7, 8, 9, 10, 11}
    OBVIOUS
  <1> QED BY <1>1, <1>2 DEF HasBit

\* The next trigger of a day of every month is a month away at most.
LEMMA MonthReach ==
    ASSUME trig \in Triggers, trig.type = "DATE", Short(trig), now \in Nat
    PROVE  InReach
  <1>1. PICK T \in Nat \ {0}, K \in Nat \ {0} : T = TicksPerDay /\ K = DaysPerMonth
    BY ScheduleAssumption
  <1>2. PICK c \in Nat, day \in Nat : c = trig.slot /\ c < T /\ trig.day = day + 1 /\ day < K
    <2>1. trig.slot \in Nat /\ trig.slot < T /\ trig.day \in Nat /\ 1 <= trig.day /\ trig.day <= K
      BY <1>1, TriggerFields
    <2>2. trig.day - 1 \in Nat /\ trig.day - 1 < K /\ trig.day = (trig.day - 1) + 1
      BY <2>1
    <2> QED BY <2>1, <2>2
  <1>3. /\ trig.year = 0 /\ K * T < PeriodRange
        /\ trig.repeat_months = 0 \/ (trig.repeat_months = 4095 /\ trig.repeat_every_year)
    BY <1>1 DEF Short
  <1>4. PICK M \in Nat, d \in Nat, s \in Nat : d < K /\ s < T /\ now = At(K, T, M, d, s)
    BY CalendarSplit
  <1>5. \A i \in Nat : Named(At(K, T, i, day, c)) /\ At(K, T, i, day, c) \in Nat
    <2> SUFFICES ASSUME NEW i \in Nat PROVE Named(At(K, T, i, day, c)) /\ At(K, T, i, day, c) \in Nat
      OBVIOUS
    <2>1. PICK t \in Nat : t = At(K, T, i, day, c)
      <3>1. (i * K + day) * T + c \in Nat
        OBVIOUS
      <3> QED BY <3>1 DEF At
    <2>2. Slot(t) = c /\ Mday(t) = day + 1 /\ Month(t) = (i % 12) + 1 /\ Year(t) = i \div 12
      BY <2>1, <1>1, <1>2, CalendarFields
    <2>3. ((i % 12) + 1) - 1 = i % 12 /\ i % 12 \in Nat /\ i % 12 <= 11 /\ (i \div 12 = 0 \/ i \div 12 > 0)
      OBVIOUS
    <2>4. i % 12 \in Bits(4095)
      <3>1. 4095 \in Nat /\ 4095 <= 4095
        OBVIOUS
      <3>2. HasBit(4095, i % 12)
        BY <2>3, EveryMonth
      <3> QED BY <3>1, <3>2, <2>3, BitsOf
    <2>5. Named(t)
      BY <2>2, <2>3, <2>4, <1>2, <1>3 DEF Named
    <2> QED BY <2>1, <2>5
  <1>6. PICK n \in Nat : n = NextTime /\ \A t \in Nat : now < t /\ t < n => ~Named(t)
    <2>1. RepeatsYearly(trig)
      BY <1>3 DEF RepeatsYearly
    <2> QED BY <2>1, SearchFindsTheFirst DEF FirstNamed
  <1>7. At(K, T, M + 1, day, c) = At(K, T, M, day, c) + K * T /\ K * T \in Nat
    <2>1. ((M + 1) * K + day) * T + c = (M * K + day) * T + c + K * T
      <3>1. (M + 1) * K = M * K + K
        OBVIOUS
      <3>2. (M * K + K + day) * T = (M * K + day) * T + K * T
        OBVIOUS
      <3>3. M * K \in Nat
        OBVIOUS
      <3>4. (M * K + K + day) = (M * K) + K + day
        OBVIOUS
      <3> QED BY <3>1, <3>2, <3>3
    <2> QED BY <2>1 DEF At
  <1>8. PICK t \in Nat : Named(t) /\ now < t /\ t <= now + K * T
    <2>1. PICK a \in Nat, b \in Nat : a = At(K, T, M, day, c) /\ b = At(K, T, M + 1, day, c) /\ Named(a) /\ Named(b)
      <3>1. M + 1 \in Nat
        OBVIOUS
      <3> QED BY <3>1, <1>5
    <2>2. b = a + K * T /\ K * T \in Nat
      BY <2>1, <1>7
    <2>3. CASE now < a
      <3>1. At(K, T, M, day, c) < At(K, T, M + 1, d, s)
        <4>1. M + 1 \in Nat /\ M < M + 1
          OBVIOUS
        <4>2. day < K /\ c < T /\ d < K /\ s < T
          BY <1>2, <1>4
        <4> QED BY <4>1, <4>2, MonthLexical
      <3>2. At(K, T, M + 1, d, s) = At(K, T, M, d, s) + K * T
        <4>1. ((M + 1) * K + d) * T + s = (M * K + d) * T + s + K * T
          <5>1. (M + 1) * K = M * K + K
            OBVIOUS
          <5>2. (M * K + K + d) * T = (M * K + d) * T + K * T
            OBVIOUS
          <5> QED BY <5>1, <5>2
        <4> QED BY <4>1 DEF At
      <3> QED BY <2>1, <2>2, <2>3, <3>1, <3>2, <1>4
    <2>4. CASE ~(now < a)
      <3>1. At(K, T, M, d, s) < At(K, T, M + 1, day, c)
        <4>1. M + 1 \in Nat /\ M < M + 1
          OBVIOUS
        <4>2. day < K /\ c < T /\ d < K /\ s < T
          BY <1>2, <1>4
        <4> QED BY <4>1, <4>2, MonthLexical
      <3>2. now < b /\ b <= now + K * T
        BY <2>1, <2>2, <2>4, <3>1, <1>4
      <3> QED BY <2>1, <3>2
    <2> QED BY <2>3, <2>4
  <1>9. n <= t
    BY <1>6, <1>8
  <1>10. PeriodRange \in Nat /\ K * T \in Nat
    BY ScheduleAssumption
  <1>11. n - now < PeriodRange
    BY <1>3, <1>8, <1>9, <1>10
  <1> QED BY <1>6, <1>11 DEF InReach

\* Short schedules are in reach.
LEMMA ShortReach ==
    ASSUME \A tr \in Triggers : Short(tr)
    PROVE  TriggerInv => InReach
  <1> SUFFICES ASSUME TriggerInv PROVE InReach
    OBVIOUS
  <1>1. /\ trig \in Triggers /\ now \in Nat /\ since \in Nat /\ since <= now
        /\ next_scheduled_time_utc \in Nat /\ PeriodRange \in Nat
    BY ScheduleAssumption DEF TriggerInv, LayersInv, ScheduleTypeOK
  <1>2. Short(trig)
    BY <1>1
  <1>3. CASE trig.type = "RELATIVE"
    <2>1. PICK a \in Nat : a = trig.seconds /\ a < PeriodRange
      BY <1>1, <1>2, <1>3, TriggerFields DEF Short
    <2>2. next_scheduled_time_utc > 0 => next_scheduled_time_utc = since + a
      BY <1>1, <1>3, <2>1 DEF TriggerInv, RelativeInv, LayersInv, ScheduleTypeOK
    <2>3. NextTime = IF next_scheduled_time_utc > 0 THEN next_scheduled_time_utc ELSE now + a
      BY <1>3, <2>1 DEF NextTime
    <2> QED BY <1>1, <2>1, <2>2, <2>3 DEF InReach
  <1>4. CASE trig.type = "DAYS_OF_WEEK"
    <2>1. NextTime \in Nat /\ NextTime - now <= 7 * TicksPerDay
      BY <1>1, <1>4, WeekSearch DEF FirstNamed
    <2>2. 7 * TicksPerDay < PeriodRange /\ TicksPerDay \in Nat
      BY <1>2, <1>4, ScheduleAssumption DEF Short
    <2> QED BY <1>1, <2>1, <2>2 DEF InReach
  <1>5. CASE trig.type = "DATE"
    BY <1>1, <1>2, <1>5, MonthReach
  <1> QED BY <1>1, <1>3, <1>4, <1>5, TriggerFields

\* For the settings that are always in reach no period wraps: a schedule triggers when it
\* has said, and then only.
THEOREM ShortSchedulesTrigger ==
    ASSUME Preempted = FALSE, \A tr \in Triggers : Short(tr)
    PROVE  ScheduleSpec => []TriggersWhenTold
  <1>1. \A tr \in Triggers : RepeatsYearly(tr)
    BY DEF Short, RepeatsYearly
  <1>2. ScheduleInit => ~wrapped
    BY DEF ScheduleInit
  <1>3. TriggerInv /\ ~wrapped /\ [ScheduleNext]_scheduleVars => ~wrapped'
    <2> SUFFICES ASSUME TriggerInv, ~wrapped, [ScheduleNext]_scheduleVars
                 PROVE  ~wrapped'
      OBVIOUS
    <2>1. NextTime - now < PeriodRange
      BY ShortReach DEF InReach
    <2>2. NextTime \in Nat /\ now \in Nat /\ PeriodRange \in Nat
      <3>1. trig \in Triggers /\ now \in Nat /\ next_scheduled_time_utc \in Nat
        BY ScheduleAssumption DEF TriggerInv, LayersInv, ScheduleTypeOK
      <3> QED BY <3>1, NextIsTime, ScheduleAssumption
    <2>3. esp_schedule_start_timer => ~wrapped'
      <3>1. ~(NextTime - now >= PeriodRange)
        <4>1. \A m, n, r \in Nat : m - n < r => ~(m - n >= r)
          OBVIOUS
        <4> QED BY <2>1, <2>2, <4>1
      <3>2. esp_schedule_start_timer => wrapped' = (NextTime - now >= PeriodRange)
        BY DEF esp_schedule_start_timer
      <3> QED BY <3>1, <3>2, Zenon
    <2> QED BY <2>3 DEF ScheduleNext, esp_rmaker_schedule_operation_enable, esp_schedule_disable,
            esp_rmaker_schedule_operation_disable, trigger_common_cb, esp_schedule_common_timer_cb,
            trigger_work_cb, Tick, scheduleVars
  <1>4. TriggerInv /\ ~wrapped => TriggersWhenTold
    BY DEF TriggerInv, CallbackInv, TriggersWhenTold
  <1> QED BY <1>1, <1>2, <1>3, <1>4, TriggerInvAlways, PTL DEF ScheduleSpec

-----------------------------------------------------------------------------
(* The list of schedules: the inductive invariant. *)

Schedules == [id : Ids, kind : Kinds, index : Nat, enabled : BOOLEAN, armed : BOOLEAN,
              next_timestamp : Stamps, born : Nat, lost : BOOLEAN]
Records == [id : Ids, kind : Kinds, enabled : BOOLEAN, next_timestamp : Stamps]
Works == [index : Int, born : Int]

TypedReports ==
    /\ reporting \subseteq Tasks /\ newest \in Holders \cup {"none"}
    /\ copies \in [Holders -> Seq(Records)] /\ old \in [Holders -> SUBSET Ids]

Typed ==
    /\ schedule_list \in Seq(Schedules) /\ Len(schedule_list) <= MAX_SCHEDULES
    /\ TypedReports
    /\ index \in Nat /\ adds \in Nat
    /\ time_sync_state \in {"NOT_STARTED", "STARTED", "DONE"} /\ time_sync_timer \in BOOLEAN
    /\ refused \in BOOLEAN /\ clock \in BOOLEAN
    /\ queue \in Seq(Works) /\ Len(queue) <= QueueFree
    /\ acting \in [index : Int, born : Int, found : Int]
    /\ fired \in [Ids -> 0..MaxFired]

\* Indexes increase along the list and identify schedules as well as born does; no
\* two schedules have the same identifier.
Indexed ==
    /\ index = adds
    /\ \A k \in DOMAIN schedule_list :
          /\ schedule_list[k].index = schedule_list[k].born
          /\ schedule_list[k].index < index
    /\ \A j, k \in DOMAIN schedule_list : j < k => schedule_list[j].index < schedule_list[k].index
    /\ \A j, k \in DOMAIN schedule_list : schedule_list[j].id = schedule_list[k].id => j = k

\* A trigger carries the index of the schedule that triggered, and finds no other.
Traced ==
    /\ \A q \in DOMAIN queue : queue[q].index = queue[q].born
    /\ acting.index = acting.born /\ acting.found = acting.born

\* The indexes whose triggers have yet to be dealt with.
Held == {acting.index} \cup {queue[q].index : q \in DOMAIN queue}

\* An enabled schedule without a timer, once the clock is set, has triggered for the
\* last time and is about to be disabled.
Waiting(s, held) == s.enabled => s.armed \/ s.lost \/ (is_expired(s) /\ s.index \in held)

Served ==
    /\ time_sync_state = "NOT_STARTED" => \A k \in DOMAIN schedule_list : ~schedule_list[k].enabled
    /\ time_sync_state = "DONE" => \A k \in DOMAIN schedule_list : Waiting(schedule_list[k], Held)

\* Every copy is one of a list; the newest, in flash or on its way there, holds what
\* a restart should bring back.
Distinct(c) == \A j, k \in DOMAIN c : c[j].id = c[k].id => j = k

Faithful ==
    /\ \A p \in Holders : Len(copies[p]) <= MAX_SCHEDULES /\ Distinct(copies[p])
    /\ newest \in Holders => Agrees(schedule_list, copies[newest])

\* A one-time schedule that triggered n times since the cloud enabled it: its timer
\* runs only while that is 0, and its time is known and over when it is not.
OnceOK(s, n) ==
    s.kind = "once" => /\ n <= 1
                       /\ s.armed => n = 0
                       /\ s.enabled => s.next_timestamp # "none"
                       /\ s.enabled /\ n > 0 => s.next_timestamp = "passed"
Timed(s) == s.kind = "once" /\ s.enabled => s.next_timestamp # "none"

Counted ==
    /\ \A k \in DOMAIN schedule_list : OnceOK(schedule_list[k], fired[schedule_list[k].id])
    /\ \A i \in Ids : fired[i] <= 1
    /\ \A p \in Holders : \A k \in DOMAIN copies[p] : Timed(copies[p][k])

SInv == Typed /\ Indexed /\ Traced /\ Faithful /\ Served
SInvOnce == SInv /\ Counted

-----------------------------------------------------------------------------
(* The operators the model is built from. *)

\* A function on an initial segment of the naturals is a sequence.
LEMMA SegmentIsSeq ==
    ASSUME NEW S, NEW n \in Nat, NEW f \in [1..n -> S]
    PROVE  f \in Seq(S) /\ Len(f) = n /\ DOMAIN f = 1..n
  <1>1. f \in Seq(S)
    BY SeqDef
  <1>2. DOMAIN f = 1..Len(f) /\ Len(f) \in Nat
    BY <1>1, LenProperties
  <1>3. DOMAIN f = 1..n
    OBVIOUS
  <1>4. Len(f) = n
    BY <1>2, <1>3
  <1> QED BY <1>1, <1>3, <1>4

\* The places of a list.
LEMMA Places ==
    ASSUME NEW S, NEW s \in Seq(S)
    PROVE  /\ DOMAIN s = 1..Len(s) /\ Len(s) \in Nat
           /\ \A k \in DOMAIN s : s[k] \in S
  BY LenProperties, ElementOfSeq

\* The places of the list and of its copy in flash, and what stands in them.
LEMMA Members ==
    ASSUME Typed
    PROVE  /\ DOMAIN schedule_list = 1..Len(schedule_list) /\ Len(schedule_list) \in Nat
           /\ DOMAIN stored = 1..Len(stored) /\ Len(stored) \in Nat
           /\ \A k \in DOMAIN schedule_list : schedule_list[k] \in Schedules
           /\ \A k \in DOMAIN stored : stored[k] \in Records
  <1>1. schedule_list \in Seq(Schedules) /\ stored \in Seq(Records)
    BY DEF Typed, TypedReports, stored, Holders
  <1> QED BY <1>1, Places

\* The types of a schedule's fields.
LEMMA Fields ==
    ASSUME NEW s \in Schedules
    PROVE  /\ s.id \in Ids /\ s.kind \in {"once", "repeat"} /\ s.index \in Nat /\ s.born \in Nat
           /\ s.enabled \in BOOLEAN /\ s.armed \in BOOLEAN /\ s.lost \in BOOLEAN
           /\ s.next_timestamp \in {"none", "ahead", "passed"}
  BY DEF Schedules, Kinds, Stamps

\* The counts of triggers, also after some of them start again.
LEMMA Counts ==
    ASSUME Typed
    PROVE  /\ MaxFired \in Nat /\ fired \in [Ids -> 0..MaxFired]
           /\ \A i \in Ids : fired[i] \in Nat
           /\ \A E \in SUBSET Ids :
                 [i \in Ids |-> IF i \in E THEN 0 ELSE fired[i]] \in [Ids -> 0..MaxFired]
  <1>1. MaxFired \in Nat
    BY ListAssumption
  <1> QED BY <1>1 DEF Typed

\* What a schedule is from its creation to its removal.
Same(r, s) == r.id = s.id /\ r.index = s.index /\ r.born = s.born

\* operation_disable stops the timer and forgets the time, and changes nothing else.
LEMMA DisableFacts ==
    ASSUME NEW s \in Schedules
    PROVE  LET r == operation_disable(s) IN
           /\ r \in Schedules /\ Same(r, s) /\ r.kind = s.kind
           /\ ~r.enabled /\ ~r.armed /\ r.next_timestamp = "none"
  BY DEF operation_disable, Schedules, Same, Stamps

\* operation_enable marks the schedule before the clock is set; then it starts the
\* timer, unless the schedule has expired.
LEMMA EnableFacts ==
    ASSUME NEW s \in Schedules, NEW sync
    PROVE  LET r == operation_enable(s, sync) IN
           /\ r \in Schedules /\ Same(r, s) /\ r.kind = s.kind
           /\ sync # "DONE" => /\ r.enabled /\ r.armed = s.armed
                               /\ r.next_timestamp = s.next_timestamp
           /\ sync = "DONE" /\ is_expired(s) => ~r.enabled /\ ~r.armed
           /\ sync = "DONE" /\ ~is_expired(s) => /\ r.enabled /\ r.armed
                                                 /\ r.kind = "once" => r.next_timestamp = "ahead"
  <1>1. CASE sync # "DONE"
    BY <1>1 DEF operation_enable, Schedules, Same
  <1>2. CASE sync = "DONE" /\ is_expired(s)
    BY <1>2, DisableFacts DEF operation_enable
  <1>3. CASE sync = "DONE" /\ ~is_expired(s)
    BY <1>3 DEF operation_enable, Schedules, Same, Kinds, Stamps
  <1> QED BY <1>1, <1>2, <1>3

\* A new trigger, as the cloud's request gives it.
LEMMA TriggerFacts ==
    ASSUME NEW s \in Schedules, NEW kind \in Kinds
    PROVE  LET r == parse_trigger(s, kind) IN
           /\ r \in Schedules /\ Same(r, s) /\ r.kind = kind
           /\ r.enabled = s.enabled /\ r.armed = s.armed /\ r.next_timestamp = "none"
  BY DEF parse_trigger, Schedules, Same, Stamps

\* The clock's state after the first schedule that is enabled.
LEMMA SyncFacts ==
    ASSUME Typed, StartSync
    PROVE  /\ time_sync_state' = SyncState(time_sync_state, clock)
           /\ time_sync_state' \in {"STARTED", "DONE"} /\ time_sync_timer' \in BOOLEAN
           /\ refused' \in BOOLEAN
           /\ time_sync_state # "NOT_STARTED" => time_sync_state' = time_sync_state
           /\ time_sync_state = "NOT_STARTED" /\ clock => time_sync_state' = "DONE"
  BY DEF Typed, StartSync, SyncState

-----------------------------------------------------------------------------
(* What most steps have in common. *)

\* A list whose schedules keep their places and their names.
LEMMA IndexedKept ==
    ASSUME Typed, Indexed, schedule_list' \in Seq(Schedules), Len(schedule_list') = Len(schedule_list),
           \A k \in DOMAIN schedule_list : Same(schedule_list'[k], schedule_list[k]),
           UNCHANGED <<index, adds>>
    PROVE  Indexed'
  <1>1. DOMAIN schedule_list' = DOMAIN schedule_list
    BY Places DEF Typed
  <1> QED BY <1>1 DEF Indexed, Same

\* A schedule as it is written keeps its name, its kind, whether it is enabled and
\* its time.
LEMMA WrittenFacts ==
    ASSUME NEW s \in Schedules
    PROVE  /\ Written(s) \in Records /\ Written(s).id = s.id /\ Written(s).kind = s.kind
           /\ Written(s).enabled = s.enabled /\ Written(s).next_timestamp = s.next_timestamp
  BY DEF Schedules, Records, Written

\* What a report changes: the copy of the task that reports, and the counts of the
\* schedules that the cloud has just enabled.
LEMMA CopiedFacts ==
    ASSUME Typed, NEW t \in Tasks, NEW list \in Seq(Schedules), NEW E \in SUBSET Ids,
           Copied(t, list, E)
    PROVE  /\ TypedReports' /\ newest' = t /\ t \in Holders
           /\ fired' \in [Ids -> 0..MaxFired]
           /\ \A i \in Ids : fired'[i] = IF i \in E THEN 0 ELSE fired[i]
           /\ Len(copies'[t]) = Len(list) /\ DOMAIN copies'[t] = DOMAIN list
           /\ \A k \in DOMAIN list : copies'[t][k] = Written(list[k])
           /\ \A p \in Holders : p # t => copies'[p] = copies[p]
  <1> DEFINE c == [k \in DOMAIN list |-> Written(list[k])]
  <1>1. /\ DOMAIN list = 1..Len(list) /\ Len(list) \in Nat
        /\ \A k \in DOMAIN list : list[k] \in Schedules
    BY Places
  <1>2. c \in [1..Len(list) -> Records]
    BY <1>1, WrittenFacts
  <1>3. c \in Seq(Records) /\ Len(c) = Len(list) /\ DOMAIN c = DOMAIN list
    BY <1>1, <1>2, SegmentIsSeq
  <1>4. \A k \in DOMAIN list : c[k] = Written(list[k])
    OBVIOUS
  <1>5. /\ reporting' = reporting \cup {t} /\ copies' = [copies EXCEPT ![t] = c] /\ newest' = t
        /\ old' = [p \in Holders |-> IF p = t THEN {} ELSE old[p] \cup E]
        /\ fired' = [i \in Ids |-> IF i \in E THEN 0 ELSE fired[i]]
    BY DEF Copied
  <1> HIDE DEF c
  <1>6. t \in Holders /\ TypedReports
    BY DEF Holders, Typed
  <1>7. /\ copies' \in [Holders -> Seq(Records)] /\ copies'[t] = c
        /\ \A p \in Holders : p # t => copies'[p] = copies[p]
    BY <1>3, <1>5, <1>6 DEF TypedReports
  <1>8. old' \in [Holders -> SUBSET Ids]
    BY <1>5, <1>6 DEF TypedReports
  <1>9. fired' \in [Ids -> 0..MaxFired]
    BY <1>5, Counts
  <1>10. TypedReports'
    BY <1>5, <1>6, <1>7, <1>8 DEF TypedReports
  <1> QED BY <1>3, <1>4, <1>5, <1>6, <1>7, <1>9, <1>10

\* A report of a list that agrees with the one there is then.
LEMMA Reported ==
    ASSUME Typed, Faithful, NEW t \in Tasks, NEW list \in Seq(Schedules), NEW E \in SUBSET Ids,
           Copied(t, list, E), Len(list) <= MAX_SCHEDULES, Distinct(list),
           Agrees(schedule_list', list), schedule_list' \in Seq(Schedules)
    PROVE  /\ TypedReports' /\ Faithful' /\ fired' \in [Ids -> 0..MaxFired]
           /\ \A i \in Ids : fired'[i] = IF i \in E THEN 0 ELSE fired[i]
  <1>1. /\ TypedReports' /\ newest' = t /\ t \in Holders
        /\ fired' \in [Ids -> 0..MaxFired]
        /\ \A i \in Ids : fired'[i] = IF i \in E THEN 0 ELSE fired[i]
        /\ Len(copies'[t]) = Len(list) /\ DOMAIN copies'[t] = DOMAIN list
        /\ \A k \in DOMAIN list : copies'[t][k] = Written(list[k])
        /\ \A p \in Holders : p # t => copies'[p] = copies[p]
    BY CopiedFacts
  <1>2. \A k \in DOMAIN list : /\ Written(list[k]).id = list[k].id
                               /\ Written(list[k]).kind = list[k].kind
                               /\ Written(list[k]).enabled = list[k].enabled
    BY Places, WrittenFacts
  <1>3. DOMAIN list = DOMAIN schedule_list'
    BY Places DEF Agrees
  <1>4. Distinct(copies'[t])
    BY <1>1, <1>2 DEF Distinct
  <1>5. Agrees(schedule_list', copies'[t])
    BY <1>1, <1>2, <1>3 DEF Agrees
  <1>6. Faithful'
    BY <1>1, <1>4, <1>5 DEF Faithful
  <1> QED BY <1>1, <1>6

\* What has just been copied is what is there.
LEMMA JustReported ==
    ASSUME Typed, Faithful, NEW t \in Tasks, NEW E \in SUBSET Ids, report_params(t, E),
           schedule_list' \in Seq(Schedules), Len(schedule_list') <= MAX_SCHEDULES,
           Distinct(schedule_list')
    PROVE  /\ TypedReports' /\ Faithful' /\ fired' \in [Ids -> 0..MaxFired]
           /\ \A i \in Ids : fired'[i] = IF i \in E THEN 0 ELSE fired[i]
  <1>1. PICK list \in Seq(Schedules) : list = schedule_list'
    OBVIOUS
  <1>2. Copied(t, list, E) /\ Len(list) <= MAX_SCHEDULES /\ Distinct(list)
    BY <1>1 DEF report_params
  <1>3. Agrees(schedule_list', list)
    BY <1>1 DEF Agrees
  <1> QED BY <1>2, <1>3, Reported

\* What a report leaves of the times: a one-time schedule that is enabled has one, in
\* every copy.
LEMMA ReportTimed ==
    ASSUME Typed, Counted, NEW t \in Tasks, NEW list \in Seq(Schedules), NEW E \in SUBSET Ids,
           Copied(t, list, E), \A k \in DOMAIN list : Timed(list[k])
    PROVE  /\ \A i \in Ids : fired'[i] <= 1
           /\ \A p \in Holders : \A k \in DOMAIN copies'[p] : Timed(copies'[p][k])
  <1>1. /\ \A i \in Ids : fired'[i] = IF i \in E THEN 0 ELSE fired[i]
        /\ DOMAIN copies'[t] = DOMAIN list
        /\ \A k \in DOMAIN list : copies'[t][k] = Written(list[k])
        /\ \A p \in Holders : p # t => copies'[p] = copies[p]
    BY CopiedFacts
  <1>2. \A i \in Ids : fired'[i] <= 1
    BY <1>1 DEF Counted
  <1>3. \A k \in DOMAIN list : Timed(Written(list[k]))
    BY Places, WrittenFacts DEF Timed
  <1> QED BY <1>1, <1>2, <1>3 DEF Counted

\* The same of a report of the whole list.
LEMMA JustTimed ==
    ASSUME Typed, Counted, NEW t \in Tasks, NEW E \in SUBSET Ids, report_params(t, E),
           schedule_list' \in Seq(Schedules),
           \A k \in DOMAIN schedule_list' : OnceOK(schedule_list'[k], fired'[schedule_list'[k].id])
    PROVE  Counted'
  <1>1. PICK list \in Seq(Schedules) : list = schedule_list'
    OBVIOUS
  <1>2. Copied(t, list, E) /\ \A k \in DOMAIN list : Timed(list[k])
    BY <1>1 DEF report_params, OnceOK, Timed
  <1> QED BY <1>2, ReportTimed DEF Counted

\* A schedule in its place.
LEMMA ExceptFacts ==
    ASSUME Typed, NEW k \in DOMAIN schedule_list, NEW r \in Schedules,
           schedule_list' = [schedule_list EXCEPT ![k] = r]
    PROVE  /\ schedule_list' \in Seq(Schedules) /\ Len(schedule_list') = Len(schedule_list)
           /\ DOMAIN schedule_list' = DOMAIN schedule_list
           /\ schedule_list'[k] = r
           /\ \A j \in DOMAIN schedule_list : j # k => schedule_list'[j] = schedule_list[j]
  <1>1. k \in 1..Len(schedule_list) /\ schedule_list \in Seq(Schedules)
    BY Places DEF Typed
  <1> QED BY <1>1, ExceptSeq, Places

\* One schedule is changed and all are reported.
LEMMA OneReported ==
    ASSUME SInv, NEW k \in DOMAIN schedule_list, NEW r \in Schedules, Same(r, schedule_list[k]),
           NEW E \in SUBSET Ids, report_params("mqtt", E),
           schedule_list' = [schedule_list EXCEPT ![k] = r],
           UNCHANGED <<index, adds, queue, acting, clock>>,
           time_sync_state' \in {"NOT_STARTED", "STARTED", "DONE"}, time_sync_timer' \in BOOLEAN,
           refused' \in BOOLEAN,
           time_sync_state' = "NOT_STARTED" => time_sync_state = "NOT_STARTED" /\ ~r.enabled,
           time_sync_state' = "DONE" => time_sync_state # "STARTED" /\ Waiting(r, Held)
    PROVE  SInv'
  <1>1. /\ schedule_list' \in Seq(Schedules) /\ Len(schedule_list') = Len(schedule_list)
        /\ DOMAIN schedule_list' = DOMAIN schedule_list
        /\ schedule_list'[k] = r
        /\ \A j \in DOMAIN schedule_list : j # k => schedule_list'[j] = schedule_list[j]
    BY ExceptFacts DEF SInv
  <1>2. Indexed'
    <2>1. \A j \in DOMAIN schedule_list : Same(schedule_list'[j], schedule_list[j])
      BY <1>1 DEF Same
    <2> QED BY <1>1, <2>1, IndexedKept DEF SInv
  <1>3. TypedReports' /\ Faithful' /\ fired' \in [Ids -> 0..MaxFired]
    <2>1. "mqtt" \in Tasks /\ Typed /\ Faithful
      BY DEF Tasks, SInv
    <2>2. Len(schedule_list') <= MAX_SCHEDULES /\ Distinct(schedule_list')
      BY <1>1, <1>2, <2>1 DEF Typed, Indexed, Distinct
    <2> QED BY <1>1, <2>1, <2>2, JustReported
  <1>4. Traced'
    BY DEF SInv, Traced
  <1>5. Typed'
    BY <1>1, <1>3 DEF SInv, Typed
  <1>6. Served'
    <2>1. Held' = Held
      BY DEF Held
    <2>2. \A j \in DOMAIN schedule_list : ~schedule_list[j].enabled => Waiting(schedule_list[j], Held)
      BY DEF Waiting
    <2>3. ASSUME time_sync_state' = "NOT_STARTED"
          PROVE  \A j \in DOMAIN schedule_list' : ~schedule_list'[j].enabled
      BY <1>1, <2>3 DEF SInv, Served
    <2>4. ASSUME time_sync_state' = "DONE", NEW j \in DOMAIN schedule_list'
          PROVE  Waiting(schedule_list'[j], Held)
      <3>1. time_sync_state \in {"NOT_STARTED", "DONE"}
        BY <2>4 DEF SInv, Typed
      <3>2. \A i \in DOMAIN schedule_list : Waiting(schedule_list[i], Held)
        BY <2>2, <3>1 DEF SInv, Served
      <3> QED BY <1>1, <2>4, <3>2
    <2> QED BY <2>1, <2>3, <2>4 DEF Served
  <1> QED BY <1>2, <1>3, <1>4, <1>5, <1>6 DEF SInv

\* A change of one schedule keeps the counts of all if it keeps that one's; its list
\* is stored as it is.
LEMMA OneCounted ==
    ASSUME SInv, Counted, NEW k \in DOMAIN schedule_list, NEW r \in Schedules,
           r.id = schedule_list[k].id,
           NEW E \in SUBSET Ids, report_params("mqtt", E),
           schedule_list' = [schedule_list EXCEPT ![k] = r],
           \A i \in Ids : fired'[i] = IF i \in E THEN 0 ELSE fired[i], OnceOK(r, fired'[r.id])
    PROVE  Counted'
  <1>1. /\ schedule_list' \in Seq(Schedules) /\ DOMAIN schedule_list' = DOMAIN schedule_list
        /\ schedule_list'[k] = r
        /\ \A j \in DOMAIN schedule_list : j # k => schedule_list'[j] = schedule_list[j]
    BY ExceptFacts DEF SInv
  <1>2. ASSUME NEW j \in DOMAIN schedule_list, j # k
        PROVE  OnceOK(schedule_list[j], fired'[schedule_list[j].id])
    <2>1. /\ OnceOK(schedule_list[j], fired[schedule_list[j].id])
          /\ fired'[schedule_list[j].id] \in {fired[schedule_list[j].id], 0}
          /\ fired[schedule_list[j].id] \in Nat
      <3>1. schedule_list[j].id \in Ids
        BY Members, Fields DEF SInv
      <3>2. \A i \in Ids : fired[i] \in Nat /\ fired'[i] \in {fired[i], 0}
        BY Counts DEF SInv
      <3> QED BY <3>1, <3>2 DEF Counted
    <2> QED BY <2>1 DEF OnceOK
  <1>3. \A j \in DOMAIN schedule_list' : OnceOK(schedule_list'[j], fired'[schedule_list'[j].id])
    BY <1>1, <1>2
  <1>4. "mqtt" \in Tasks /\ Typed
    BY DEF Tasks, SInv
  <1> QED BY <1>1, <1>3, <1>4, JustTimed

\* The counts after a report of the cloud's operation.
LEMMA FiredFacts ==
    ASSUME Typed, NEW E \in SUBSET Ids, report_params("mqtt", E)
    PROVE  \A i \in Ids : fired'[i] = IF i \in E THEN 0 ELSE fired[i]
  BY DEF report_params, Copied

-----------------------------------------------------------------------------
(* The cloud's operations. *)

\* An operation of the cloud with the clock set is one with the timers at work.
LEMMA OperatesInTime ==
    ASSUME Typed, ~BeforeSync, MayOperate, StartSync
    PROVE  time_sync_state' = "DONE" /\ SyncState(time_sync_state, clock) = "DONE"
  BY SyncFacts DEF MayOperate, Typed

\* The cloud enables a schedule.
LEMMA EnableKept ==
    ASSUME SInv, NEW k \in DOMAIN schedule_list, Enable(k)
    PROVE  SInv' /\ (~BeforeSync /\ Counted => Counted')
  <1> DEFINE s == schedule_list[k]
             sync == SyncState(time_sync_state, clock)
             r == operation_enable(s, sync)
             E == IF s.enabled THEN {} ELSE {s.id}
  <1>1. /\ schedule_list' = [schedule_list EXCEPT ![k] = r] /\ report_params("mqtt", E)
        /\ MayOperate /\ StartSync /\ UNCHANGED <<index, clock, queue, acting, adds>>
    BY DEF Enable
  <1>2. s \in Schedules /\ s.id \in Ids /\ s.kind \in {"once", "repeat"} /\ s.enabled \in BOOLEAN
    BY Members, Fields DEF SInv
  <1>3. /\ r \in Schedules /\ Same(r, s) /\ r.kind = s.kind
        /\ sync = "DONE" /\ is_expired(s) => ~r.enabled /\ ~r.armed
        /\ sync = "DONE" /\ ~is_expired(s) => /\ r.enabled /\ r.armed
                                              /\ r.kind = "once" => r.next_timestamp = "ahead"
    BY <1>2, EnableFacts
  <1>4. /\ E \in SUBSET Ids
        /\ s.enabled => s.id \notin E
        /\ ~s.enabled => s.id \in E
    BY <1>2
  <1> HIDE DEF s, r, E
  <1>5. SInv'
    <2>1. /\ time_sync_state' = sync /\ time_sync_state' \in {"STARTED", "DONE"}
          /\ time_sync_timer' \in BOOLEAN /\ refused' \in BOOLEAN
          /\ time_sync_state = "STARTED" => time_sync_state' = "STARTED"
      BY <1>1, SyncFacts DEF SInv
    <2>2. time_sync_state' = "DONE" => Waiting(r, Held)
      BY <1>3, <2>1 DEF Waiting
    <2>3. Same(r, schedule_list[k])
      BY <1>3 DEF s
    <2> QED BY <1>1, <1>3, <1>4, <2>1, <2>2, <2>3, OneReported
  <1>6. ASSUME ~BeforeSync, Counted PROVE Counted'
    <2>1. sync = "DONE"
      BY <1>1, <1>6, OperatesInTime DEF SInv
    <2>2. OnceOK(s, fired[s.id]) /\ r.id = s.id /\ fired[s.id] \in Nat
      BY <1>2, <1>3, <1>6, Counts DEF Counted, Same, SInv, s
    <2>3. \A i \in Ids : fired'[i] = IF i \in E THEN 0 ELSE fired[i]
      BY <1>1, <1>4, FiredFacts DEF SInv
    <2>4. OnceOK(r, fired'[r.id])
      <3>1. CASE s.enabled
        <4>1. fired'[r.id] = fired[s.id]
          BY <1>2, <1>4, <2>2, <2>3, <3>1
        <4> QED BY <1>2, <1>3, <2>1, <2>2, <3>1, <4>1 DEF OnceOK, is_expired
      <3>2. CASE ~s.enabled
        <4>1. fired'[r.id] = 0
          BY <1>2, <1>4, <2>2, <2>3, <3>2
        <4> QED BY <1>3, <2>1, <4>1 DEF OnceOK
      <3> QED BY <1>2, <3>1, <3>2
    <2> QED BY <1>1, <1>3, <1>4, <1>6, <2>2, <2>3, <2>4, OneCounted DEF s
  <1> QED BY <1>5, <1>6

\* The cloud edits a schedule, which restarts its timer.
LEMMA EditKept ==
    ASSUME SInv, NEW k \in DOMAIN schedule_list, NEW kind \in Kinds, operation_edit(k, kind)
    PROVE  SInv' /\ (~BeforeSync /\ Counted => Counted')
  <1> DEFINE s == parse_trigger(schedule_list[k], kind)
             sync == SyncState(time_sync_state, clock)
             r == IF s.enabled THEN operation_enable(operation_disable(s), sync) ELSE s
  <1>1. /\ schedule_list' = [schedule_list EXCEPT ![k] = r] /\ report_params("mqtt", {s.id})
        /\ IF s.enabled THEN StartSync ELSE UNCHANGED syncVars
        /\ MayOperate /\ UNCHANGED <<index, clock, queue, acting, adds>>
    BY DEF operation_edit
  <1>2. /\ s \in Schedules /\ Same(s, schedule_list[k]) /\ s.id \in Ids
        /\ s.enabled \in BOOLEAN /\ s.next_timestamp = "none"
    <2>1. schedule_list[k] \in Schedules
      BY Members DEF SInv
    <2>2. s \in Schedules /\ Same(s, schedule_list[k]) /\ s.next_timestamp = "none"
      BY <2>1, TriggerFacts
    <2> QED BY <2>2, Fields
  <1>3. /\ r \in Schedules /\ Same(r, s)
        /\ ~s.enabled => ~r.enabled
        /\ s.enabled /\ sync = "DONE" => r.armed /\ (r.kind = "once" => r.next_timestamp = "ahead")
    <2>1. CASE s.enabled
      <3> DEFINE d == operation_disable(s)
      <3>1. d \in Schedules /\ Same(d, s) /\ ~is_expired(d)
        BY <1>2, DisableFacts DEF is_expired
      <3>2. /\ r \in Schedules /\ Same(r, d)
            /\ sync = "DONE" => r.armed /\ (r.kind = "once" => r.next_timestamp = "ahead")
        BY <2>1, <3>1, EnableFacts
      <3> QED BY <2>1, <3>1, <3>2 DEF Same
    <2>2. CASE ~s.enabled
      BY <1>2, <2>2 DEF Same
    <2> QED BY <2>1, <2>2
  <1>4. {s.id} \in SUBSET Ids /\ r.id = s.id /\ Same(r, schedule_list[k])
    BY <1>2, <1>3 DEF Same
  <1> HIDE DEF s, r
  <1>5. SInv'
    <2>1. /\ time_sync_state' \in {"NOT_STARTED", "STARTED", "DONE"} /\ time_sync_timer' \in BOOLEAN
          /\ refused' \in BOOLEAN
          /\ time_sync_state = "STARTED" => time_sync_state' = "STARTED"
          /\ s.enabled => time_sync_state' = sync /\ time_sync_state' # "NOT_STARTED"
          /\ ~s.enabled => time_sync_state' = time_sync_state
      <3>1. CASE s.enabled
        BY <1>1, <3>1, SyncFacts DEF SInv
      <3>2. CASE ~s.enabled
        BY <1>1, <3>2 DEF SInv, Typed, syncVars
      <3> QED BY <3>1, <3>2
    <2>2. time_sync_state' = "DONE" => Waiting(r, Held)
      BY <1>2, <1>3, <2>1 DEF Waiting
    <2> QED BY <1>1, <1>2, <1>3, <1>4, <2>1, <2>2, OneReported
  <1>6. ASSUME ~BeforeSync, Counted PROVE Counted'
    <2>1. s.enabled => sync = "DONE"
      BY <1>1, <1>6, OperatesInTime DEF SInv
    <2>2. \A i \in Ids : fired'[i] = IF i \in {s.id} THEN 0 ELSE fired[i]
      BY <1>1, <1>4, FiredFacts DEF SInv
    <2>3. fired'[r.id] = 0
      BY <1>4, <2>2
    <2>4. OnceOK(r, fired'[r.id])
      BY <1>2, <1>3, <2>1, <2>3 DEF OnceOK
    <2>5. r.id = schedule_list[k].id
      BY <1>4 DEF Same
    <2> QED BY <1>1, <1>3, <1>4, <1>6, <2>2, <2>4, <2>5, OneCounted
  <1> QED BY <1>5, <1>6

\* The cloud disables a schedule.
LEMMA DisableKept ==
    ASSUME SInv, NEW k \in DOMAIN schedule_list, Disable(k)
    PROVE  SInv' /\ (Counted => Counted')
  <1> DEFINE s == schedule_list[k]
             r == operation_disable(s)
  <1>1. /\ schedule_list' = [schedule_list EXCEPT ![k] = r] /\ report_params("mqtt", {})
        /\ UNCHANGED <<index, syncVars, clock, queue, acting, adds>>
    BY DEF Disable
  <1>2. /\ r \in Schedules /\ Same(r, s) /\ r.kind = s.kind
        /\ ~r.enabled /\ ~r.armed
    BY Members, DisableFacts DEF SInv
  <1> HIDE DEF r
  <1>3. SInv'
    <2>1. Waiting(r, Held)
      BY <1>2 DEF Waiting
    <2>2. /\ time_sync_state' = time_sync_state /\ time_sync_timer' \in BOOLEAN
          /\ time_sync_state' \in {"NOT_STARTED", "STARTED", "DONE"} /\ refused' \in BOOLEAN
          /\ {} \in SUBSET Ids
      BY <1>1 DEF syncVars, SInv, Typed
    <2> QED BY <1>1, <1>2, <2>1, <2>2, OneReported
  <1>4. ASSUME Counted PROVE Counted'
    <2>1. PICK E \in SUBSET Ids : E = {}
      OBVIOUS
    <2>2. report_params("mqtt", E) /\ \A i \in Ids : fired'[i] = IF i \in E THEN 0 ELSE fired[i]
      BY <1>1, <2>1, FiredFacts DEF SInv
    <2>3. r.id = s.id /\ s.id \in Ids
      BY <1>2, Members, Fields DEF SInv, Same
    <2>4. OnceOK(r, fired'[r.id])
      BY <1>2, <1>4, <2>1, <2>2, <2>3 DEF Counted, OnceOK
    <2> QED BY <1>1, <1>2, <1>4, <2>2, <2>3, <2>4, OneCounted
  <1> QED BY <1>3, <1>4

\* A new schedule goes to the end of the list, with an index no other has had.
LEMMA AddKept ==
    ASSUME SInv, NEW id \in Ids, NEW kind \in Kinds, operation_add(id, kind)
    PROVE  SInv' /\ (~BeforeSync /\ Counted => Counted')
  <1> DEFINE n == Len(schedule_list)
             new == NewSchedule(id, kind, index, adds)
             sync == SyncState(time_sync_state, clock)
             r == operation_enable(new, sync)
  <1>1. /\ MayOperate /\ ~Has(id)
        /\ adds' = adds + 1 /\ index' = index + 1
        /\ UNCHANGED <<clock, queue, acting>>
        /\ "mqtt" \in Tasks /\ {id} \in SUBSET Ids /\ {} \in SUBSET Ids
    BY DEF operation_add, Tasks
  <1>2. CASE ~(n < MAX_SCHEDULES)
    <2>1. UNCHANGED <<schedule_list, syncVars>> /\ report_params("mqtt", {})
      BY <1>2 DEF operation_add
    <2>2. /\ TypedReports' /\ Faithful' /\ fired' \in [Ids -> 0..MaxFired]
          /\ \A i \in Ids : fired'[i] = fired[i]
      <3>1. /\ Typed /\ Faithful /\ schedule_list' \in Seq(Schedules)
            /\ Len(schedule_list') <= MAX_SCHEDULES /\ Distinct(schedule_list')
        BY <2>1 DEF SInv, Typed, Indexed, Distinct
      <3> QED BY <1>1, <2>1, <3>1, JustReported
    <2>3. Indexed'
      <3>1. \A k \in DOMAIN schedule_list : schedule_list[k].index \in Nat
        BY Members, Fields DEF SInv
      <3> QED BY <1>1, <2>1, <3>1 DEF SInv, Indexed, Typed
    <2>4. Traced' /\ Served'
      BY <1>1, <2>1 DEF SInv, Traced, Served, Waiting, Held, syncVars
    <2>5. Typed'
      BY <1>1, <2>1, <2>2 DEF SInv, Typed, syncVars
    <2>6. ASSUME Counted PROVE Counted'
      <3>1. \A k \in DOMAIN schedule_list' : schedule_list'[k].id \in Ids
        BY <2>1, Members, Fields DEF SInv
      <3>2. \A k \in DOMAIN schedule_list' : OnceOK(schedule_list'[k], fired'[schedule_list'[k].id])
        BY <2>1, <2>2, <2>6, <3>1 DEF Counted
      <3>3. schedule_list' \in Seq(Schedules)
        BY <2>5 DEF Typed
      <3> QED BY <1>1, <2>1, <2>6, <3>2, <3>3, JustTimed DEF SInv
    <2> QED BY <2>2, <2>3, <2>4, <2>5, <2>6 DEF SInv
  <1>3. CASE n < MAX_SCHEDULES
    <2>1. /\ schedule_list' = Append(schedule_list, r)
          /\ report_params("mqtt", {id}) /\ StartSync
      BY <1>3 DEF operation_add, add_to_list
    <2>2. new \in Schedules /\ new.id = id /\ new.index = index /\ new.born = adds /\ ~is_expired(new)
      BY DEF NewSchedule, Schedules, Stamps, SInv, Typed, is_expired
    <2>3. /\ r \in Schedules /\ r.id = id /\ r.index = index /\ r.born = adds
          /\ sync = "DONE" => r.armed /\ (r.kind = "once" => r.next_timestamp = "ahead")
      BY <2>2, EnableFacts DEF Same
    <2> HIDE DEF r
    <2>4. /\ schedule_list' \in Seq(Schedules) /\ Len(schedule_list') = n + 1
          /\ \A k \in 1..n : schedule_list'[k] = schedule_list[k]
          /\ schedule_list'[n + 1] = r
      BY <2>1, <2>3, AppendProperties DEF SInv, Typed
    <2>5. n \in Nat /\ DOMAIN schedule_list = 1..n /\ DOMAIN schedule_list' = 1..(n + 1)
      BY <2>4, Members, Places DEF SInv
    <2>6. /\ time_sync_state' = sync /\ time_sync_state' \in {"STARTED", "DONE"}
          /\ time_sync_timer' \in BOOLEAN /\ refused' \in BOOLEAN
          /\ time_sync_state = "STARTED" => time_sync_state' = "STARTED"
      BY <2>1, SyncFacts DEF SInv
    <2>7. n + 1 <= MAX_SCHEDULES
      BY <1>3, <2>5, ListAssumption
    <2>8. Indexed'
      <3>1. \A k \in 1..n : schedule_list[k].index < index /\ schedule_list[k].index \in Nat
        BY <2>5, Members, Fields DEF SInv, Indexed
      <3>2. \A k \in 1..n : schedule_list[k].id # id
        BY <1>1, <2>5 DEF Has
      <3>3. index \in Nat /\ index = adds
        BY DEF SInv, Typed, Indexed
      <3>4. \A k \in 1..(n + 1) : schedule_list'[k].index = schedule_list'[k].born
                                  /\ schedule_list'[k].index < index + 1
        BY <2>3, <2>4, <2>5, <3>1, <3>3 DEF SInv, Indexed
      <3>5. \A j, k \in 1..(n + 1) : j < k => schedule_list'[j].index < schedule_list'[k].index
        <4> SUFFICES ASSUME NEW j \in 1..(n + 1), NEW k \in 1..(n + 1), j < k
                     PROVE  schedule_list'[j].index < schedule_list'[k].index
          OBVIOUS
        <4>1. j \in 1..n
          BY <2>5
        <4>2. CASE k \in 1..n
          BY <2>4, <2>5, <4>1, <4>2 DEF SInv, Indexed
        <4>3. CASE k = n + 1
          BY <2>3, <2>4, <3>1, <4>1, <4>3
        <4> QED BY <2>5, <4>2, <4>3
      <3>6. \A j, k \in 1..(n + 1) : schedule_list'[j].id = schedule_list'[k].id => j = k
        <4> SUFFICES ASSUME NEW j \in 1..(n + 1), NEW k \in 1..(n + 1),
                            schedule_list'[j].id = schedule_list'[k].id
                     PROVE  j = k
          OBVIOUS
        <4>1. CASE j \in 1..n /\ k \in 1..n
          BY <2>4, <2>5, <4>1 DEF SInv, Indexed
        <4>2. CASE j = n + 1 \/ k = n + 1
          BY <2>3, <2>4, <2>5, <3>2, <4>2
        <4> QED BY <2>5, <4>1, <4>2
      <3> QED BY <1>1, <2>5, <3>3, <3>4, <3>5, <3>6 DEF Indexed
    <2>9. Traced'
      BY <1>1 DEF SInv, Traced
    <2>10. /\ TypedReports' /\ Faithful' /\ fired' \in [Ids -> 0..MaxFired]
           /\ \A i \in Ids : fired'[i] = IF i \in {id} THEN 0 ELSE fired[i]
           /\ Typed'
      <3>1. Typed /\ Faithful /\ Len(schedule_list') <= MAX_SCHEDULES /\ Distinct(schedule_list')
        BY <2>4, <2>7, <2>8 DEF SInv, Indexed, Distinct
      <3>2. /\ TypedReports' /\ Faithful' /\ fired' \in [Ids -> 0..MaxFired]
            /\ \A i \in Ids : fired'[i] = IF i \in {id} THEN 0 ELSE fired[i]
        BY <1>1, <2>1, <2>4, <3>1, JustReported
      <3>3. Typed'
        BY <1>1, <2>4, <2>6, <3>1, <3>2 DEF SInv, Typed
      <3> QED BY <3>2, <3>3
    <2>11. Served'
      <3>1. Held' = Held
        BY <1>1 DEF Held
      <3>2. ASSUME time_sync_state' = "DONE", NEW k \in 1..(n + 1)
            PROVE  Waiting(schedule_list'[k], Held)
        <4>1. CASE k = n + 1
          BY <2>3, <2>4, <2>6, <3>2, <4>1 DEF Waiting
        <4>2. CASE k \in 1..n
          <5>1. time_sync_state \in {"NOT_STARTED", "DONE"}
            BY <2>6, <3>2 DEF SInv, Typed
          <5>2. Waiting(schedule_list[k], Held)
            BY <2>5, <4>2, <5>1 DEF SInv, Served, Waiting
          <5> QED BY <2>4, <4>2, <5>2
        <4> QED BY <2>5, <4>1, <4>2
      <3> QED BY <2>5, <2>6, <3>1, <3>2 DEF Served
    <2>12. ASSUME ~BeforeSync, Counted PROVE Counted'
      <3>1. sync = "DONE"
        BY <1>1, <2>1, <2>12, OperatesInTime DEF SInv
      <3>2. fired'[id] = 0 /\ \A i \in Ids : i # id => fired'[i] = fired[i]
        BY <2>10
      <3>3. \A k \in 1..n : OnceOK(schedule_list'[k], fired'[schedule_list'[k].id])
        <4>1. \A k \in 1..n : schedule_list[k].id # id /\ schedule_list[k].id \in Ids
          BY <1>1, <2>5, Members, Fields DEF Has, SInv
        <4> QED BY <2>4, <2>5, <2>12, <3>2, <4>1 DEF Counted
      <3>4. OnceOK(schedule_list'[n + 1], fired'[schedule_list'[n + 1].id])
        BY <2>3, <2>4, <3>1, <3>2 DEF OnceOK
      <3>5. \A k \in 1..(n + 1) : OnceOK(schedule_list'[k], fired'[schedule_list'[k].id])
        BY <2>5, <3>3, <3>4
      <3> QED BY <1>1, <2>1, <2>4, <2>5, <2>12, <3>5, JustTimed DEF SInv
    <2> QED BY <2>8, <2>9, <2>10, <2>11, <2>12 DEF SInv
  <1> QED BY <1>2, <1>3

\* The schedules that are left keep their order.
LEMMA RemoveKept ==
    ASSUME SInv, NEW k \in DOMAIN schedule_list, operation_remove(k)
    PROVE  SInv' /\ (Counted => Counted')
  <1> DEFINE n == Len(schedule_list)
             at(j) == IF j < k THEN j ELSE j + 1
  <1>1. /\ schedule_list' = [j \in 1..(n - 1) |-> schedule_list[at(j)]]
        /\ report_params("mqtt", {}) /\ "mqtt" \in Tasks /\ {} \in SUBSET Ids
        /\ UNCHANGED <<index, syncVars, clock, queue, acting, adds>>
    BY DEF operation_remove, remove_from_list, Tasks
  <1>2. n \in Nat /\ DOMAIN schedule_list = 1..n /\ k \in 1..n /\ n - 1 \in Nat
    BY Members DEF SInv
  <1>3. \A j \in 1..(n - 1) : at(j) \in 1..n
    BY <1>2
  <1>4. \A i, j \in 1..(n - 1) : i < j => at(i) < at(j)
    BY <1>2
  <1> HIDE DEF at
  <1>5. schedule_list' \in [1..(n - 1) -> Schedules]
    BY <1>1, <1>2, <1>3, Members DEF SInv
  <1>6. /\ schedule_list' \in Seq(Schedules) /\ Len(schedule_list') = n - 1
        /\ DOMAIN schedule_list' = 1..(n - 1)
        /\ \A j \in 1..(n - 1) : schedule_list'[j] = schedule_list[at(j)]
    BY <1>1, <1>2, <1>5, SegmentIsSeq
  <1> HIDE DEF n
  <1>7. n - 1 <= MAX_SCHEDULES
    BY <1>2, ListAssumption DEF SInv, Typed, n
  <1>8. Indexed'
    <2>1. \A i, j \in 1..(n - 1) : at(i) = at(j) => i = j
      BY <1>2, <1>3, <1>4
    <2> QED BY <1>1, <1>2, <1>3, <1>4, <1>6, <2>1 DEF SInv, Indexed
  <1>9. /\ Typed' /\ Traced' /\ Faithful'
        /\ \A i \in Ids : fired'[i] = fired[i]
    <2>1. Typed /\ Faithful /\ Len(schedule_list') <= MAX_SCHEDULES /\ Distinct(schedule_list')
      BY <1>6, <1>7, <1>8 DEF SInv, Indexed, Distinct
    <2>2. /\ TypedReports' /\ Faithful' /\ fired' \in [Ids -> 0..MaxFired]
          /\ \A i \in Ids : fired'[i] = fired[i]
      <3>1. PICK E \in SUBSET Ids : E = {}
        OBVIOUS
      <3>2. report_params("mqtt", E)
        BY <1>1, <3>1
      <3>3. /\ TypedReports' /\ Faithful' /\ fired' \in [Ids -> 0..MaxFired]
            /\ \A i \in Ids : fired'[i] = IF i \in E THEN 0 ELSE fired[i]
        BY <1>1, <1>6, <2>1, <3>2, JustReported
      <3> QED BY <3>1, <3>3
    <2>3. Typed' /\ Traced'
      BY <1>1, <1>6, <2>1, <2>2 DEF SInv, Typed, Traced, syncVars
    <2> QED BY <2>2, <2>3
  <1>10. Served'
    <2>1. Held' = Held
      BY <1>1 DEF Held
    <2> QED BY <1>1, <1>2, <1>3, <1>6, <2>1 DEF SInv, Served, syncVars
  <1>11. ASSUME Counted PROVE Counted'
    <2>1. \A j \in 1..n : schedule_list[j].id \in Ids
      BY <1>2, Members, Fields DEF SInv
    <2>2. \A j \in DOMAIN schedule_list' : OnceOK(schedule_list'[j], fired'[schedule_list'[j].id])
      BY <1>2, <1>3, <1>6, <1>9, <1>11, <2>1 DEF Counted
    <2> QED BY <1>1, <1>6, <1>11, <2>2, JustTimed DEF SInv
  <1> QED BY <1>8, <1>9, <1>10, <1>11 DEF SInv

-----------------------------------------------------------------------------
(* Timers, the work queue and the clock. *)

\* The copies as they were, when no schedule was enabled and none that repeats
\* disabled.
LEMMA CopiesKept ==
    ASSUME Typed, Faithful, schedule_list' \in Seq(Schedules),
           Len(schedule_list') = Len(schedule_list), UNCHANGED reportVars,
           \A k \in DOMAIN schedule_list :
              /\ Same(schedule_list'[k], schedule_list[k])
              /\ schedule_list'[k].kind = schedule_list[k].kind
              /\ schedule_list'[k].enabled => schedule_list[k].enabled
              /\ schedule_list[k].kind = "repeat" =>
                    schedule_list'[k].enabled = schedule_list[k].enabled
    PROVE  TypedReports' /\ Faithful'
  <1>1. DOMAIN schedule_list' = DOMAIN schedule_list
    BY Places DEF Typed
  <1>2. UNCHANGED <<reporting, copies, newest, old>>
    BY DEF reportVars
  <1>3. TypedReports'
    BY <1>2 DEF Typed, TypedReports
  <1>4. newest \in Holders => Agrees(schedule_list', copies[newest])
    BY <1>1 DEF Faithful, Agrees, Same
  <1>5. Faithful'
    BY <1>2, <1>4 DEF Faithful
  <1> QED BY <1>3, <1>5

\* The same when the list is as it was.
LEMMA ReportsKept ==
    ASSUME Typed, Faithful, UNCHANGED <<schedule_list, reportVars>>
    PROVE  TypedReports' /\ Faithful'
  <1>1. UNCHANGED <<schedule_list, reporting, copies, newest, old>>
    BY DEF reportVars
  <1>2. TypedReports'
    BY <1>1 DEF Typed, TypedReports
  <1>3. newest \in Holders => Agrees(schedule_list, copies[newest])
    BY DEF Faithful
  <1>4. Faithful'
    BY <1>1, <1>3 DEF Faithful
  <1> QED BY <1>2, <1>4

\* A report is stored.  Flash holds the newest copy if this one was the newest.
LEMMA StoreReportKept ==
    ASSUME SInv, NEW t \in Tasks, StoreReport(t)
    PROVE  SInv' /\ (Counted => Counted')
  <1>1. /\ reporting' = reporting \ {t}
        /\ copies' = [copies EXCEPT !["flash"] = copies[t], ![t] = << >>]
        /\ old' = [old EXCEPT !["flash"] = old[t], ![t] = {}]
        /\ newest' = IF newest = t THEN "flash" ELSE IF newest = "flash" THEN "none" ELSE newest
        /\ UNCHANGED <<schedule_list, index, syncVars, clock, queue, acting, adds, fired>>
    BY DEF StoreReport
  <1>2. t \in Holders /\ "flash" \in Holders /\ t # "flash" /\ "none" \notin Holders
    BY DEF Holders, Tasks
  <1>3. /\ copies \in [Holders -> Seq(Records)] /\ old \in [Holders -> SUBSET Ids]
        /\ reporting \subseteq Tasks /\ newest \in Holders \cup {"none"}
    BY DEF SInv, Typed, TypedReports
  <1>4. << >> \in Seq(Records) /\ Len(<< >>) = 0 /\ DOMAIN << >> = {}
    OBVIOUS
  <1>5. /\ copies' \in [Holders -> Seq(Records)] /\ copies'["flash"] = copies[t]
        /\ copies'[t] = << >>
        /\ \A p \in Holders : p # t /\ p # "flash" => copies'[p] = copies[p]
    BY <1>1, <1>2, <1>3, <1>4
  <1>6. old' \in [Holders -> SUBSET Ids]
    BY <1>1, <1>2, <1>3
  <1>7. newest' \in Holders \cup {"none"} /\ reporting' \subseteq Tasks
    BY <1>1, <1>2, <1>3
  <1>8. Typed'
    BY <1>1, <1>5, <1>6, <1>7 DEF SInv, Typed, TypedReports, syncVars
  <1>9. Faithful'
    <2>1. \A p \in Holders : Len(copies'[p]) <= MAX_SCHEDULES /\ Distinct(copies'[p])
      <3>1. Len(<< >>) <= MAX_SCHEDULES /\ Distinct(<< >>)
        BY ListAssumption DEF Distinct
      <3> QED BY <1>2, <1>5, <3>1 DEF SInv, Faithful
    <2>2. ASSUME newest' \in Holders PROVE Agrees(schedule_list, copies'[newest'])
      <3>1. CASE newest = t
        BY <1>1, <1>2, <1>5, <3>1 DEF SInv, Faithful
      <3>2. CASE newest # t
        <4>1. newest' = newest /\ newest # "flash"
          BY <1>1, <1>2, <2>2, <3>2
        <4> QED BY <1>5, <2>2, <3>2, <4>1 DEF SInv, Faithful
      <3> QED BY <3>1, <3>2
    <2> QED BY <1>1, <2>1, <2>2 DEF Faithful
  <1>10. Indexed' /\ Traced' /\ Served'
    BY <1>1 DEF SInv, Indexed, Traced, Served, Waiting, Held, syncVars
  <1>11. ASSUME Counted PROVE Counted'
    <2>1. \A p \in Holders : \A k \in DOMAIN copies'[p] : Timed(copies'[p][k])
      BY <1>2, <1>4, <1>5, <1>11 DEF Counted
    <2> QED BY <1>1, <1>11, <2>1 DEF Counted
  <1> QED BY <1>8, <1>9, <1>10, <1>11 DEF SInv

\* A trigger that is added to the queue leaves the others there.
LEMMA QueueGrows ==
    ASSUME Typed, Traced, NEW w \in Works, w.index = w.born, Len(queue) < QueueFree,
           queue' = Append(queue, w), acting' = acting
    PROVE  /\ queue' \in Seq(Works) /\ Len(queue') <= QueueFree /\ Traced'
           /\ Held \subseteq Held'
           /\ w.index \in Held'
  <1>1. /\ queue \in Seq(Works) /\ queue' \in Seq(Works) /\ Len(queue') = Len(queue) + 1
        /\ \A q \in 1..Len(queue) : queue'[q] = queue[q]
        /\ queue'[Len(queue) + 1] = w
    BY AppendProperties DEF Typed
  <1>2. /\ Len(queue) \in Nat /\ DOMAIN queue = 1..Len(queue)
        /\ DOMAIN queue' = 1..(Len(queue) + 1)
    BY <1>1, Places
  <1>3. Len(queue') <= QueueFree
    BY <1>1, <1>2, ListAssumption
  <1>4. Traced'
    BY <1>1, <1>2 DEF Traced
  <1>5. Held \subseteq Held'
    BY <1>1, <1>2 DEF Held
  <1>6. w.index \in Held'
    BY <1>1, <1>2 DEF Held
  <1> QED BY <1>1, <1>3, <1>4, <1>5, <1>6

\* The first work is taken from the queue.
LEMMA QueueShrinks ==
    ASSUME Typed, Traced, queue # << >>, queue' = Tail(queue)
    PROVE  /\ Head(queue) \in Works /\ Head(queue).index = Head(queue).born
           /\ queue' \in Seq(Works) /\ Len(queue') <= QueueFree
           /\ \A q \in DOMAIN queue' : queue'[q].index = queue'[q].born
           /\ \A i : (\E q \in DOMAIN queue : queue[q].index = i)
                       => i = Head(queue).index \/ \E q \in DOMAIN queue' : queue'[q].index = i
  <1>1. /\ queue \in Seq(Works) /\ Head(queue) \in Works /\ queue' \in Seq(Works)
        /\ Len(queue') = Len(queue) - 1
        /\ \A q \in 1..Len(queue') : queue'[q] = queue[q + 1]
    BY HeadTailProperties DEF Typed
  <1>2. /\ Len(queue) \in Nat /\ Len(queue) # 0 /\ DOMAIN queue = 1..Len(queue)
        /\ DOMAIN queue' = 1..(Len(queue) - 1)
    BY <1>1, Places, EmptySeq
  <1>3. Head(queue) = queue[1]
    BY <1>1, <1>2
  <1>4. Head(queue).index = Head(queue).born
    BY <1>2, <1>3 DEF Traced
  <1>5. Len(queue') <= QueueFree
    BY <1>1, <1>2, ListAssumption DEF Typed
  <1>6. \A q \in DOMAIN queue' : queue'[q].index = queue'[q].born
    BY <1>1, <1>2 DEF Traced
  <1>7. ASSUME NEW q \in DOMAIN queue
        PROVE  q = 1 \/ (q - 1 \in DOMAIN queue' /\ queue'[q - 1] = queue[q])
    BY <1>1, <1>2, <1>7
  <1> QED BY <1>1, <1>3, <1>4, <1>5, <1>6, <1>7

\* A schedule triggers; a one-time schedule has then expired and its trigger is in
\* the queue, or was refused.
LEMMA TimerFiresKept ==
    ASSUME SInv, NEW k \in DOMAIN schedule_list, TimerFires(k)
    PROVE  SInv' /\ (Counted => Counted')
  <1> DEFINE s == schedule_list[k]
             w == [index |-> s.index, born |-> s.born]
             After(room) ==
                 IF s.kind = "repeat" THEN s
                 ELSE [s EXCEPT !.armed = FALSE, !.next_timestamp = "passed", !.lost = ~room]
  <1>1. PICK room \in BOOLEAN :
           /\ s.armed
           /\ room => Len(queue) < QueueFree
           /\ s.kind = "once" => fired[s.id] < MaxFired
           /\ queue' = IF room THEN Append(queue, w) ELSE queue
           /\ schedule_list' = [schedule_list EXCEPT ![k] = After(room)]
           /\ fired' = IF s.kind = "once" THEN [fired EXCEPT ![s.id] = @ + 1] ELSE fired
           /\ UNCHANGED <<index, syncVars, clock, acting, reportVars, adds>>
    BY DEF TimerFires
  <1> DEFINE r == After(room)
  <1>2. s \in Schedules /\ s.id \in Ids /\ s.kind \in {"once", "repeat"} /\ s.index \in Nat /\ s.born \in Nat
    BY Members, Fields DEF SInv
  <1>3. schedule_list' = [schedule_list EXCEPT ![k] = r]
    BY <1>1
  <1>4. /\ r \in Schedules /\ Same(r, s) /\ r.kind = s.kind /\ r.enabled = s.enabled
        /\ r.kind = "repeat" => r.armed
        /\ r.kind = "once" => ~r.armed /\ is_expired(r) /\ (r.lost = ~room)
    <2>1. CASE s.kind = "repeat"
      BY <1>1, <1>2, <2>1 DEF Same
    <2>2. CASE s.kind # "repeat"
      BY <1>2, <2>2 DEF Schedules, Stamps, Same, is_expired
    <2> QED BY <2>1, <2>2
  <1> HIDE DEF r, After
  <1>5. /\ schedule_list' \in Seq(Schedules) /\ Len(schedule_list') = Len(schedule_list)
        /\ DOMAIN schedule_list' = DOMAIN schedule_list
        /\ schedule_list'[k] = r
        /\ \A j \in DOMAIN schedule_list : j # k => schedule_list'[j] = schedule_list[j]
    BY <1>3, <1>4, ExceptFacts DEF SInv
  <1>6. /\ queue' \in Seq(Works) /\ Len(queue') <= QueueFree /\ Traced'
        /\ Held \subseteq Held'
        /\ room => s.index \in Held'
    <2>1. CASE room
      <3>1. w \in Works /\ w.index = w.born /\ w.index = s.index
        BY <1>2 DEF Works, SInv, Indexed
      <3> QED BY <1>1, <2>1, <3>1, QueueGrows DEF SInv
    <2>2. CASE ~room
      BY <1>1, <2>2 DEF SInv, Typed, Traced, Held
    <2> QED BY <2>1, <2>2
  <1>7. /\ fired' \in [Ids -> 0..MaxFired]
        /\ s.kind = "once" => fired'[s.id] = fired[s.id] + 1
        /\ s.kind # "once" => fired'[s.id] = fired[s.id]
        /\ \A i \in Ids : i # s.id => fired'[i] = fired[i]
    <2>1. MaxFired \in Nat /\ fired \in [Ids -> 0..MaxFired]
      BY Counts DEF SInv
    <2>2. CASE s.kind = "once"
      BY <1>1, <1>2, <2>1, <2>2
    <2>3. CASE s.kind # "once"
      BY <1>1, <2>1, <2>3
    <2> QED BY <2>2, <2>3
  <1>8. \A j \in DOMAIN schedule_list :
           /\ Same(schedule_list'[j], schedule_list[j])
           /\ schedule_list'[j].kind = schedule_list[j].kind
           /\ schedule_list'[j].enabled = schedule_list[j].enabled
    BY <1>4, <1>5 DEF Same
  <1>9. Indexed'
    BY <1>1, <1>5, <1>8, IndexedKept DEF SInv
  <1>10. TypedReports' /\ Faithful'
    BY <1>1, <1>5, <1>8, CopiesKept DEF SInv
  <1>11. Typed'
    BY <1>1, <1>5, <1>6, <1>7, <1>10 DEF SInv, Typed, syncVars
  <1>12. Served'
    <2>1. Waiting(r, Held')
      BY <1>2, <1>4, <1>6 DEF Waiting, is_expired, Same
    <2>2. \A j \in DOMAIN schedule_list : Waiting(schedule_list[j], Held) => Waiting(schedule_list'[j], Held')
      BY <1>5, <1>6, <2>1 DEF Waiting, is_expired
    <2> QED BY <1>1, <1>5, <1>8, <2>2 DEF SInv, Served, syncVars
  <1>13. ASSUME Counted PROVE Counted'
    <2>1. OnceOK(r, fired'[r.id])
      <3>1. OnceOK(s, fired[s.id]) /\ fired[s.id] \in Nat
        BY <1>2, <1>13, Counts DEF Counted, SInv
      <3> QED BY <1>1, <1>4, <1>7, <3>1 DEF OnceOK, is_expired, Same
    <2>2. ASSUME NEW j \in DOMAIN schedule_list, j # k
          PROVE  OnceOK(schedule_list'[j], fired'[schedule_list'[j].id])
      <3>1. schedule_list[j].id # s.id /\ schedule_list[j].id \in Ids
        BY <2>2, Members, Fields DEF SInv, Indexed
      <3> QED BY <1>5, <1>7, <1>13, <2>2, <3>1 DEF Counted
    <2>3. \A i \in Ids : fired'[i] <= 1
      <3>1. OnceOK(s, fired[s.id]) /\ fired[s.id] \in Nat
        BY <1>2, <1>13, Counts DEF Counted, SInv
      <3>2. fired'[s.id] <= 1
        BY <1>1, <1>2, <1>7, <1>13, <3>1 DEF Counted, OnceOK
      <3> QED BY <1>2, <1>7, <1>13, <3>2 DEF Counted
    <2>4. copies' = copies
      BY <1>1 DEF reportVars
    <2> QED BY <1>5, <1>13, <2>1, <2>2, <2>3, <2>4 DEF Counted
  <1> QED BY <1>6, <1>11, <1>9, <1>10, <1>12, <1>13 DEF SInv

\* A trigger is taken from the queue.  The schedule that waits for it is still found
\* by its index, and no other schedule is.
LEMMA WorkBeginsKept ==
    ASSUME SInv, WorkBegins
    PROVE  SInv' /\ (Counted => Counted')
  <1> DEFINE w == Head(queue)
             found == FromIndex(w.index)
  <1>1. /\ acting = NONE /\ queue # << >> /\ queue' = Tail(queue)
        /\ UNCHANGED <<schedule_list, index, syncVars, clock, reportVars, adds, fired>>
        /\ acting' = IF found = {} THEN NONE
                     ELSE [index |-> w.index, born |-> w.born,
                           found |-> schedule_list[CHOOSE k \in found : \A j \in found : k <= j].born]
    BY DEF WorkBegins, Idle
  <1>2. /\ w \in Works /\ w.index = w.born
        /\ queue' \in Seq(Works) /\ Len(queue') <= QueueFree
        /\ \A q \in DOMAIN queue' : queue'[q].index = queue'[q].born
        /\ \A i : (\E q \in DOMAIN queue : queue[q].index = i)
                    => i = w.index \/ \E q \in DOMAIN queue' : queue'[q].index = i
    BY <1>1, QueueShrinks DEF SInv
  <1>3. DOMAIN schedule_list = 1..Len(schedule_list)
        /\ \A k \in DOMAIN schedule_list : schedule_list[k].index \in Nat
    BY Members, Fields DEF SInv
  <1>4. w.index \in Int /\ w.born \in Int
    BY <1>2 DEF Works
  <1> HIDE DEF w
  <1>5. /\ acting' \in [index : Int, born : Int, found : Int]
        /\ acting'.index = acting'.born /\ acting'.found = acting'.born
        /\ found # {} => acting'.index = w.index
    <2>1. CASE found = {}
      BY <1>1, <2>1 DEF NONE
    <2>2. CASE found # {}
      <3>1. PICK m \in found : TRUE
        BY <2>2
      <3>2. m \in DOMAIN schedule_list /\ schedule_list[m].index = w.index
        BY DEF FromIndex
      <3>3. \A k \in found : k = m
        <4> SUFFICES ASSUME NEW k \in found, k # m PROVE FALSE
          OBVIOUS
        <4>1. k \in DOMAIN schedule_list /\ schedule_list[k].index = schedule_list[m].index
          BY <3>2 DEF FromIndex
        <4>2. k < m \/ m < k
          BY <1>3, <3>2, <4>1
        <4> QED BY <1>3, <3>2, <4>1, <4>2 DEF SInv, Indexed
      <3>4. m <= m
        BY <1>3, <3>2
      <3>5. (CHOOSE k \in found : \A j \in found : k <= j) = m
        BY <3>1, <3>3, <3>4
      <3>6. acting' = [index |-> w.index, born |-> w.born, found |-> schedule_list[m].born]
        BY <1>1, <2>2, <3>5
      <3>7. schedule_list[m].born = w.index
        BY <3>2 DEF SInv, Indexed
      <3> QED BY <1>2, <1>4, <3>6, <3>7
    <2> QED BY <2>1, <2>2
  <1>6. Typed' /\ Faithful'
    <2>1. TypedReports' /\ Faithful'
      BY <1>1, ReportsKept DEF SInv
    <2>2. Typed'
      BY <1>1, <1>2, <1>5, <2>1 DEF SInv, Typed, syncVars
    <2> QED BY <2>1, <2>2
  <1>7. Indexed' /\ Traced'
    BY <1>1, <1>2, <1>5 DEF SInv, Indexed, Traced
  <1>8. Served'
    <2>1. ASSUME NEW k \in DOMAIN schedule_list, schedule_list[k].index \in Held
          PROVE  schedule_list[k].index \in Held'
      <3>1. schedule_list[k].index # acting.index
        BY <1>1, <1>3 DEF NONE
      <3>2. \/ schedule_list[k].index = w.index
            \/ \E q \in DOMAIN queue' : queue'[q].index = schedule_list[k].index
        BY <1>2, <2>1, <3>1 DEF Held
      <3>3. CASE schedule_list[k].index = w.index
        <4>1. k \in found
          BY <3>3 DEF FromIndex
        <4> QED BY <1>5, <3>3, <4>1 DEF Held
      <3> QED BY <3>2, <3>3 DEF Held
    <2> QED BY <1>1, <2>1 DEF SInv, Served, Waiting, syncVars
  <1>9. Counted => Counted'
    BY <1>1 DEF Counted, reportVars
  <1> QED BY <1>6, <1>7, <1>8, <1>9 DEF SInv

\* The action has been executed; the schedule is disabled if that was its last time.
LEMMA WorkEndsKept ==
    ASSUME SInv, WorkEnds
    PROVE  SInv' /\ (Counted => Counted')
  <1> DEFINE n == Len(schedule_list)
             Done(s) == s.index = acting.index /\ is_expired(s)
             After(k) == IF Done(schedule_list[k]) THEN operation_disable(schedule_list[k])
                                                   ELSE schedule_list[k]
  <1>1. /\ acting' = NONE /\ UNCHANGED <<index, syncVars, clock, queue, adds>>
        /\ \/ /\ schedule_list' = [k \in DOMAIN schedule_list |-> After(k)]
              /\ report_params("work", {})
           \/ /\ UNCHANGED <<schedule_list, reportVars, fired>>
              /\ \A k \in DOMAIN schedule_list : ~Done(schedule_list[k])
    BY DEF WorkEnds
  <1>2. /\ n \in Nat /\ DOMAIN schedule_list = 1..n
        /\ \A k \in DOMAIN schedule_list : schedule_list[k] \in Schedules
        /\ schedule_list \in Seq(Schedules)
    BY Members DEF SInv, Typed
  <1>3. \A k \in DOMAIN schedule_list :
           /\ After(k) \in Schedules /\ Same(After(k), schedule_list[k])
           /\ After(k).kind = schedule_list[k].kind
           /\ After(k) = schedule_list[k] \/ (~After(k).enabled /\ ~After(k).armed)
    BY <1>2, DisableFacts DEF Same
  <1>4. /\ schedule_list' \in Seq(Schedules) /\ Len(schedule_list') = n
        /\ DOMAIN schedule_list' = 1..n
        /\ \A k \in DOMAIN schedule_list : schedule_list'[k] = After(k)
    <2>1. CASE schedule_list' = [k \in DOMAIN schedule_list |-> After(k)]
      <3>1. schedule_list' \in [1..n -> Schedules]
        BY <1>2, <1>3, <2>1
      <3> QED BY <1>2, <2>1, <3>1, SegmentIsSeq
    <2>2. CASE /\ UNCHANGED <<schedule_list, reportVars, fired>>
               /\ \A k \in DOMAIN schedule_list : ~Done(schedule_list[k])
      BY <1>2, <2>2
    <2> QED BY <1>1, <2>1, <2>2
  <1>5. Indexed'
    BY <1>1, <1>3, <1>4, IndexedKept DEF SInv
  <1>6. Traced'
    BY <1>1 DEF SInv, Traced, NONE
  <1>7. /\ TypedReports' /\ Faithful' /\ fired' \in [Ids -> 0..MaxFired]
        /\ \A i \in Ids : fired'[i] = fired[i]
    <2>1. CASE report_params("work", {})
      <3>1. PICK E \in SUBSET Ids : E = {}
        OBVIOUS
      <3>2. "work" \in Tasks /\ report_params("work", E)
        BY <2>1, <3>1 DEF Tasks
      <3>3. Typed /\ Faithful /\ Len(schedule_list') <= MAX_SCHEDULES /\ Distinct(schedule_list')
        BY <1>4, <1>5 DEF SInv, Typed, Indexed, Distinct
      <3>4. /\ TypedReports' /\ Faithful' /\ fired' \in [Ids -> 0..MaxFired]
            /\ \A i \in Ids : fired'[i] = IF i \in E THEN 0 ELSE fired[i]
        BY <1>4, <3>2, <3>3, JustReported
      <3> QED BY <3>1, <3>4
    <2>2. CASE UNCHANGED <<schedule_list, reportVars, fired>>
      <3>1. TypedReports' /\ Faithful'
        BY <2>2, ReportsKept DEF SInv
      <3> QED BY <2>2, <3>1 DEF SInv, Typed
    <2> QED BY <1>1, <2>1, <2>2
  <1>8. Typed'
    BY <1>1, <1>4, <1>7 DEF SInv, Typed, NONE, syncVars
  <1>9. Served'
    <2>1. ASSUME NEW k \in DOMAIN schedule_list, Waiting(schedule_list[k], Held)
          PROVE  Waiting(schedule_list'[k], Held')
      <3>1. CASE Done(schedule_list[k])
        BY <1>2, <1>4, <3>1, DisableFacts DEF Waiting
      <3>2. CASE ~Done(schedule_list[k])
        BY <1>1, <1>4, <2>1, <3>2 DEF Waiting, Held
      <3> QED BY <3>1, <3>2
    <2> HIDE DEF After
    <2>2. \A k \in DOMAIN schedule_list : ~schedule_list[k].enabled => ~schedule_list'[k].enabled
      BY <1>3, <1>4
    <2> QED BY <1>1, <1>2, <1>4, <2>1, <2>2 DEF SInv, Served, syncVars
  <1>10. ASSUME Counted PROVE Counted'
    <2> HIDE DEF After
    <2>1. \A k \in DOMAIN schedule_list : schedule_list[k].id \in Ids
      BY <1>2, Fields
    <2>2. \A k \in DOMAIN schedule_list' : OnceOK(schedule_list'[k], fired'[schedule_list'[k].id])
      BY <1>2, <1>3, <1>4, <1>7, <1>10, <2>1 DEF Counted, OnceOK, Same
    <2>3. CASE report_params("work", {})
      <3>1. PICK E \in SUBSET Ids : E = {}
        OBVIOUS
      <3>2. "work" \in Tasks /\ report_params("work", E)
        BY <2>3, <3>1 DEF Tasks
      <3> QED BY <1>4, <1>10, <2>2, <3>2, JustTimed DEF SInv
    <2>4. CASE UNCHANGED <<schedule_list, reportVars, fired>>
      BY <1>10, <2>4 DEF Counted, reportVars
    <2> QED BY <1>1, <2>3, <2>4
  <1> QED BY <1>7, <1>5, <1>6, <1>8, <1>9, <1>10 DEF SInv

\* The clock's timer asks for its work; the clock is set.
LEMMA ClockKept ==
    ASSUME SInv, timesync_timer_cb \/ ClockIsSet \/ UNCHANGED vars
    PROVE  SInv' /\ (Counted => Counted')
  <1>1. UNCHANGED <<schedule_list, index, time_sync_state, acting, reportVars, adds, fired>>
    BY DEF timesync_timer_cb, ClockIsSet, vars, syncVars
  <1>2. Counted => Counted'
    BY <1>1 DEF Counted, reportVars
  <1>3. /\ queue' \in Seq(Works) /\ Len(queue') <= QueueFree /\ Traced' /\ Held \subseteq Held'
    <2>1. CASE queue' = queue
      BY <1>1, <2>1 DEF SInv, Typed, Traced, Held
    <2>2. CASE Len(queue) < QueueFree /\ queue' = Append(queue, SYNC)
      <3>1. SYNC \in Works /\ SYNC.index = SYNC.born
        BY DEF SYNC, Works
      <3> QED BY <1>1, <2>2, <3>1, QueueGrows DEF SInv
    <2> QED BY <2>1, <2>2 DEF timesync_timer_cb, ClockIsSet, vars
  <1>4. time_sync_timer' \in BOOLEAN /\ refused' \in BOOLEAN /\ clock' \in BOOLEAN
    BY DEF timesync_timer_cb, ClockIsSet, vars, syncVars, SInv, Typed
  <1>5. Typed' /\ Faithful'
    <2>1. TypedReports' /\ Faithful'
      BY <1>1, ReportsKept DEF SInv
    <2> QED BY <1>1, <1>3, <1>4, <2>1 DEF SInv, Typed
  <1>6. Indexed'
    BY <1>1 DEF SInv, Indexed
  <1>7. Served'
    BY <1>1, <1>3 DEF SInv, Served, Waiting
  <1> QED BY <1>2, <1>3, <1>5, <1>6, <1>7 DEF SInv

\* The clock is set at last: every schedule that waited is armed or found expired.
LEMMA TimesyncWorkKept ==
    ASSUME SInv, timesync_timer_work_cb
    PROVE  SInv' /\ (Counted => Counted')
  <1> DEFINE n == Len(schedule_list)
             Waits(k) == schedule_list[k].enabled
             After(k) == IF Waits(k) THEN operation_enable(schedule_list[k], "DONE")
                                     ELSE schedule_list[k]
             expired == {k \in DOMAIN schedule_list : Waits(k) /\ is_expired(schedule_list[k])}
             Told == [k \in DOMAIN schedule_list |->
                        IF \E j \in expired : k <= j THEN After(k) ELSE schedule_list[k]]
  <1>1. /\ acting = NONE /\ queue # << >> /\ Head(queue) = SYNC /\ queue' = Tail(queue)
        /\ UNCHANGED <<index, refused, clock, acting, adds>>
    BY DEF timesync_timer_work_cb, Idle
  <1>2. /\ queue' \in Seq(Works) /\ Len(queue') <= QueueFree
        /\ \A q \in DOMAIN queue' : queue'[q].index = queue'[q].born
        /\ \A i : (\E q \in DOMAIN queue : queue[q].index = i)
                    => i = Head(queue).index \/ \E q \in DOMAIN queue' : queue'[q].index = i
    BY <1>1, QueueShrinks DEF SInv
  <1>3. Traced'
    BY <1>1, <1>2 DEF SInv, Traced
  <1>4. /\ n \in Nat /\ DOMAIN schedule_list = 1..n
        /\ \A k \in DOMAIN schedule_list : schedule_list[k] \in Schedules
        /\ schedule_list \in Seq(Schedules)
    BY Members DEF SInv, Typed
  <1>5. CASE ~clock
    <2>1. time_sync_timer' = TRUE /\ UNCHANGED <<time_sync_state, schedule_list, reportVars, fired>>
      BY <1>5 DEF timesync_timer_work_cb
    <2>2. Typed' /\ Faithful'
      <3>1. TypedReports' /\ Faithful'
        BY <2>1, ReportsKept DEF SInv
      <3> QED BY <1>1, <1>2, <2>1, <3>1 DEF SInv, Typed
    <2>3. Indexed'
      BY <1>1, <2>1 DEF SInv, Indexed
    <2>4. Served'
      <3>1. ASSUME NEW k \in DOMAIN schedule_list, schedule_list[k].index \in Held
            PROVE  schedule_list[k].index \in Held'
        <4>1. schedule_list[k].index \in Nat
          BY <1>4, Fields
        <4>2. Head(queue).index = -1
          BY <1>1 DEF SYNC
        <4>3. CASE schedule_list[k].index = acting.index
          BY <1>1, <4>3 DEF Held
        <4>4. CASE \E q \in DOMAIN queue : queue[q].index = schedule_list[k].index
          <5>1. \E q \in DOMAIN queue' : queue'[q].index = schedule_list[k].index
            BY <1>2, <4>1, <4>2, <4>4
          <5> QED BY <5>1 DEF Held
        <4> QED BY <3>1, <4>3, <4>4 DEF Held
      <3> QED BY <2>1, <3>1 DEF SInv, Served, Waiting
    <2>5. Counted => Counted'
      BY <1>1, <2>1 DEF Counted, reportVars
    <2> QED BY <1>3, <2>2, <2>3, <2>4, <2>5 DEF SInv
  <1>6. CASE clock
    <2>1. /\ time_sync_state' = "DONE" /\ UNCHANGED time_sync_timer
          /\ schedule_list' = [k \in DOMAIN schedule_list |-> After(k)]
          /\ IF expired = {} THEN UNCHANGED <<reportVars, fired>> ELSE Copied("work", Told, {})
      BY <1>6 DEF timesync_timer_work_cb
    <2>2. \A k \in DOMAIN schedule_list :
             /\ After(k) \in Schedules /\ Same(After(k), schedule_list[k])
             /\ After(k).kind = schedule_list[k].kind
             /\ ~Waits(k) => After(k) = schedule_list[k]
             /\ k \in expired => ~After(k).enabled /\ ~After(k).armed
             /\ Waits(k) /\ k \notin expired =>
                   /\ After(k).enabled /\ After(k).armed
                   /\ After(k).kind = "once" => After(k).next_timestamp = "ahead"
      BY <1>4, EnableFacts DEF Same
    <2>3. \A k \in expired : k \in DOMAIN schedule_list /\ Waits(k) /\ schedule_list[k].kind = "once"
                               /\ schedule_list[k].next_timestamp = "passed"
      BY DEF is_expired
    <2>4. \A k \in DOMAIN schedule_list : Waits(k) /\ k \notin expired =>
             ~(schedule_list[k].kind = "once" /\ schedule_list[k].next_timestamp = "passed")
      BY DEF is_expired
    <2> HIDE DEF After, expired
    <2>5. /\ schedule_list' \in Seq(Schedules) /\ Len(schedule_list') = n
          /\ DOMAIN schedule_list' = 1..n
          /\ \A k \in DOMAIN schedule_list : schedule_list'[k] = After(k)
      <3>1. schedule_list' \in [1..n -> Schedules]
        BY <1>4, <2>1, <2>2
      <3> QED BY <1>4, <2>1, <3>1, SegmentIsSeq
    <2>6. /\ Told \in Seq(Schedules) /\ Len(Told) = n /\ DOMAIN Told = 1..n
          /\ \A k \in 1..n : \/ Told[k] = After(k)
                             \/ Told[k] = schedule_list[k] /\ k \notin expired
      <3>1. Told \in [1..n -> Schedules]
        BY <1>4, <2>2
      <3>2. \A k \in 1..n : k \in expired => \E j \in expired : k <= j
        BY <1>4
      <3>3. \A k \in 1..n : \/ Told[k] = After(k)
                            \/ Told[k] = schedule_list[k] /\ k \notin expired
        BY <1>4, <3>2
      <3> QED BY <1>4, <3>1, <3>3, SegmentIsSeq
    <2> HIDE DEF Told
    <2>7. Indexed'
      BY <1>1, <2>2, <2>5, IndexedKept DEF SInv
    <2>8. \A k \in 1..n :
             /\ schedule_list'[k].id = schedule_list[k].id /\ schedule_list'[k].kind = schedule_list[k].kind
             /\ schedule_list'[k].enabled => schedule_list[k].enabled
             /\ schedule_list[k].kind = "repeat" => (schedule_list'[k].enabled <=> schedule_list[k].enabled)
             /\ k \notin expired => (schedule_list'[k].enabled <=> schedule_list[k].enabled)
      BY <1>4, <2>2, <2>3, <2>5 DEF Same
    <2>9. /\ TypedReports' /\ Faithful' /\ fired' \in [Ids -> 0..MaxFired]
          /\ \A i \in Ids : fired'[i] = fired[i]
      <3>1. CASE expired = {}
        <4>1. UNCHANGED <<reportVars, fired>>
          BY <2>1, <3>1
        <4>2. \A k \in DOMAIN schedule_list :
                 /\ Same(schedule_list'[k], schedule_list[k])
                 /\ schedule_list'[k].kind = schedule_list[k].kind
                 /\ schedule_list'[k].enabled => schedule_list[k].enabled
                 /\ schedule_list[k].kind = "repeat" =>
                       schedule_list'[k].enabled = schedule_list[k].enabled
          <5>1. \A k \in 1..n : Same(schedule_list'[k], schedule_list[k])
            BY <1>4, <2>2, <2>5
          <5>2. \A k \in 1..n : schedule_list'[k].enabled \in BOOLEAN /\ schedule_list[k].enabled \in BOOLEAN
            BY <1>4, <2>2, <2>5, Fields
          <5>3. \A k \in 1..n : schedule_list[k].kind = "repeat" =>
                                   schedule_list'[k].enabled = schedule_list[k].enabled
            BY <2>8, <5>2
          <5> QED BY <1>4, <2>8, <5>1, <5>3
        <4>3. TypedReports' /\ Faithful'
          BY <2>5, <4>1, <4>2, CopiesKept DEF SInv
        <4> QED BY <4>1, <4>3 DEF SInv, Typed
      <3>2. CASE expired # {}
        <4>1. PICK E \in SUBSET Ids : E = {}
          OBVIOUS
        <4>2. PICK list \in Seq(Schedules) : list = Told
          BY <2>6
        <4>3. "work" \in Tasks /\ Copied("work", list, E)
          BY <2>1, <3>2, <4>1, <4>2 DEF Tasks
        <4>4. \A k \in 1..n : list[k].id = schedule_list'[k].id /\ list[k].kind = schedule_list'[k].kind
                              /\ (k \notin expired => (schedule_list'[k].enabled <=> list[k].enabled))
                              /\ (schedule_list'[k].enabled => list[k].enabled)
                              /\ (schedule_list'[k].kind = "repeat" =>
                                    (schedule_list'[k].enabled <=> list[k].enabled))
          BY <1>4, <2>5, <2>6, <2>8, <4>2
        <4>5. Agrees(schedule_list', list)
          BY <2>5, <2>6, <4>2, <4>4 DEF Agrees
        <4>6. Distinct(list) /\ Len(list) <= MAX_SCHEDULES
          BY <2>5, <2>6, <2>7, <4>2, <4>4 DEF Distinct, Indexed, SInv, Typed
        <4>7. /\ TypedReports' /\ Faithful' /\ fired' \in [Ids -> 0..MaxFired]
              /\ \A i \in Ids : fired'[i] = IF i \in E THEN 0 ELSE fired[i]
          BY <2>5, <4>3, <4>5, <4>6, Reported DEF SInv
        <4> QED BY <4>1, <4>7
      <3> QED BY <3>1, <3>2
    <2>10. Typed'
      BY <1>1, <1>2, <2>1, <2>5, <2>9 DEF SInv, Typed
    <2>11. Served'
      <3>1. \A k \in DOMAIN schedule_list' : Waiting(schedule_list'[k], Held')
        BY <1>4, <2>2, <2>5 DEF Waiting
      <3> QED BY <2>1, <3>1 DEF Served
    <2>12. ASSUME Counted PROVE Counted'
      <3>1. ASSUME NEW k \in 1..n
            PROVE  OnceOK(After(k), fired'[After(k).id])
        <4>1. OnceOK(schedule_list[k], fired[schedule_list[k].id]) /\ After(k).id = schedule_list[k].id
          BY <1>4, <2>2, <2>12 DEF Counted, Same
        <4>2. /\ fired[schedule_list[k].id] \in Nat
              /\ fired'[schedule_list[k].id] = fired[schedule_list[k].id]
          BY <1>4, <2>9, Fields, Counts DEF SInv
        <4>3. CASE ~Waits(k)
          BY <1>4, <2>2, <4>1, <4>2, <4>3
        <4>4. CASE k \in expired
          BY <1>4, <2>2, <4>1, <4>2, <4>4 DEF OnceOK
        <4>5. CASE Waits(k) /\ k \notin expired
          BY <1>4, <2>2, <2>4, <4>1, <4>2, <4>5 DEF OnceOK
        <4> QED BY <4>3, <4>4, <4>5
      <3>2. \A k \in 1..n : Timed(After(k)) /\ Timed(schedule_list[k])
        BY <1>4, <2>12, <3>1 DEF Counted, OnceOK, Timed
      <3>3. \A k \in DOMAIN schedule_list' : OnceOK(schedule_list'[k], fired'[schedule_list'[k].id])
        BY <1>4, <2>5, <3>1
      <3>4. CASE expired = {}
        <4>1. copies' = copies /\ fired' = fired
          BY <2>1, <3>4 DEF reportVars
        <4> QED BY <2>12, <3>3, <4>1 DEF Counted
      <3>5. CASE expired # {}
        <4>1. PICK E \in SUBSET Ids : E = {}
          OBVIOUS
        <4>2. PICK list \in Seq(Schedules) : list = Told
          BY <2>6
        <4>3. "work" \in Tasks /\ Copied("work", list, E)
          BY <2>1, <3>5, <4>1, <4>2 DEF Tasks
        <4>4. \A k \in DOMAIN list : Timed(list[k])
          BY <2>6, <3>2, <4>2
        <4>5. /\ \A i \in Ids : fired'[i] <= 1
              /\ \A p \in Holders : \A k \in DOMAIN copies'[p] : Timed(copies'[p][k])
          BY <2>12, <4>3, <4>4, ReportTimed DEF SInv
        <4> QED BY <3>3, <4>5 DEF Counted
      <3> QED BY <3>4, <3>5
    <2> QED BY <1>3, <2>7, <2>9, <2>11, <2>12, <2>10 DEF SInv
  <1> QED BY <1>5, <1>6 DEF SInv, Typed

-----------------------------------------------------------------------------
(* Restarts. *)

\* A schedule as it is loaded, before it is enabled.
AsLoaded(s, i) == [NewSchedule(s.id, s.kind, i, i) EXCEPT !.next_timestamp = s.next_timestamp]

\* Loading keeps the identity, the kind and the time, and starts nothing.
LEMMA LoadedFacts ==
    ASSUME NEW s \in Records, NEW i \in Nat
    PROVE  /\ AsLoaded(s, i) \in Schedules
           /\ AsLoaded(s, i).id = s.id /\ AsLoaded(s, i).kind = s.kind
           /\ AsLoaded(s, i).index = i /\ AsLoaded(s, i).born = i
           /\ ~AsLoaded(s, i).armed /\ ~AsLoaded(s, i).enabled
           /\ AsLoaded(s, i).next_timestamp = s.next_timestamp
  BY DEF Schedules, Records, AsLoaded, NewSchedule

\* A restart at any moment: the schedules in flash come back, numbered from 0.
LEMMA RestartKept ==
    ASSUME SInv, Restart
    PROVE  SInv' /\ (Counted => Counted')
  <1> DEFINE n == Len(stored)
             any == \E k \in DOMAIN stored : stored[k].enabled
             Loaded(k) == [NewSchedule(stored[k].id, stored[k].kind, k - 1, k - 1)
                              EXCEPT !.next_timestamp = stored'[k].next_timestamp]
             New(k) == IF stored[k].enabled THEN operation_enable(Loaded(k), time_sync_state')
                                            ELSE Loaded(k)
  <1>1. PICK passed \in SUBSET {k \in DOMAIN stored : stored[k].next_timestamp = "ahead"} :
          /\ \A k \in DOMAIN stored :
                /\ stored[k].next_timestamp = "ahead" /\ fired[stored[k].id] > 0
                /\ stored[k].id \notin old["flash"]
                => k \in passed
          /\ copies' = [p \in Holders |-> IF p # "flash" THEN << >> ELSE
                 [k \in DOMAIN stored |->
                    IF k \in passed THEN [stored[k] EXCEPT !.next_timestamp = "passed"] ELSE stored[k]]]
    BY DEF Restart
  <1>2. /\ clock' \in {clock, FALSE}
        /\ time_sync_state' = IF any THEN SyncState("NOT_STARTED", clock') ELSE "NOT_STARTED"
        /\ time_sync_timer' = (any /\ ~clock')
        /\ schedule_list' = [k \in DOMAIN stored |-> New(k)]
        /\ index' = n /\ adds' = n /\ queue' = << >> /\ acting' = NONE /\ refused' = FALSE
        /\ reporting' = {} /\ newest' = "flash" /\ old' = [p \in Holders |-> {}]
        /\ fired' = [i \in Ids |-> IF i \in old["flash"] THEN 0 ELSE fired[i]]
    BY DEF Restart
  <1>3. /\ n \in Nat /\ n <= MAX_SCHEDULES /\ DOMAIN stored = 1..n
        /\ \A k \in 1..n : stored[k] \in Records
        /\ \A j, k \in 1..n : stored[j].id = stored[k].id => j = k
    <2>1. Len(stored) <= MAX_SCHEDULES /\ Distinct(stored)
      BY DEF SInv, Faithful, Holders, stored
    <2> QED BY <2>1, Members DEF SInv, Distinct
  <1>4. /\ stored' = [k \in 1..n |->
               IF k \in passed THEN [stored[k] EXCEPT !.next_timestamp = "passed"] ELSE stored[k]]
        /\ \A p \in Holders : p # "flash" => copies'[p] = << >>
        /\ copies' = [p \in Holders |-> copies'[p]] /\ "flash" \in Holders
    <2>1. "flash" \in Holders /\ stored' = copies'["flash"]
      BY DEF Holders, stored
    <2> HIDE DEF stored
    <2> QED BY <1>1, <1>3, <2>1
  <1>5. \A k \in 1..n :
           /\ stored'[k] \in Records /\ stored'[k].id = stored[k].id
           /\ stored'[k].kind = stored[k].kind /\ stored'[k].enabled = stored[k].enabled
           /\ stored[k].next_timestamp = "none" <=> stored'[k].next_timestamp = "none"
           /\ stored[k].next_timestamp # "none" /\ fired'[stored[k].id] > 0
                 => stored'[k].next_timestamp = "passed"
    <2> SUFFICES ASSUME NEW k \in 1..n
                 PROVE  /\ stored'[k] \in Records /\ stored'[k].id = stored[k].id
                        /\ stored'[k].kind = stored[k].kind /\ stored'[k].enabled = stored[k].enabled
                        /\ stored[k].next_timestamp = "none" <=> stored'[k].next_timestamp = "none"
                        /\ stored[k].next_timestamp # "none" /\ fired'[stored[k].id] > 0
                              => stored'[k].next_timestamp = "passed"
      OBVIOUS
    <2>1. /\ stored[k] \in Records /\ stored[k].next_timestamp \in {"none", "ahead", "passed"}
          /\ stored[k].id \in Ids
      BY <1>3 DEF Records, Stamps
    <2>2. fired'[stored[k].id] > 0 => stored[k].id \notin old["flash"] /\ fired[stored[k].id] > 0
      BY <1>2, <2>1
    <2>3. CASE k \in passed
      <3>1. stored'[k] = [stored[k] EXCEPT !.next_timestamp = "passed"]
        BY <1>4, <2>3
      <3>2. stored[k].next_timestamp = "ahead"
        BY <1>1, <2>3
      <3> QED BY <2>1, <3>1, <3>2 DEF Records, Stamps
    <2>4. CASE k \notin passed
      <3>1. stored'[k] = stored[k]
        BY <1>4, <2>4
      <3> QED BY <1>1, <1>3, <2>1, <2>4, <2>2, <3>1
    <2> QED BY <2>3, <2>4
  <1>6. stored' \in Seq(Records) /\ Len(stored') = n /\ DOMAIN stored' = 1..n
    <2>1. DOMAIN stored' = 1..n /\ stored' = [k \in 1..n |-> stored'[k]]
      BY <1>4
    <2>2. stored' \in [1..n -> Records]
      BY <1>5, <2>1
    <2> QED BY <1>3, <2>2, SegmentIsSeq
  <1>7. \A k \in 1..n : /\ Loaded(k) \in Schedules
                        /\ Loaded(k).id = stored[k].id /\ Loaded(k).kind = stored[k].kind
                        /\ Loaded(k).index = k - 1 /\ Loaded(k).born = k - 1
                        /\ ~Loaded(k).armed /\ ~Loaded(k).enabled
                        /\ Loaded(k).next_timestamp = stored'[k].next_timestamp
    <2> TAKE k \in 1..n
    <2>1. k - 1 \in Nat /\ stored'[k] \in Records
      BY <1>3, <1>5
    <2>2. Loaded(k) = AsLoaded(stored'[k], k - 1)
      BY <1>5 DEF AsLoaded
    <2> HIDE DEF Loaded
    <2>3. /\ Loaded(k) \in Schedules
          /\ Loaded(k).id = stored'[k].id /\ Loaded(k).kind = stored'[k].kind
          /\ Loaded(k).index = k - 1 /\ Loaded(k).born = k - 1
          /\ ~Loaded(k).armed /\ ~Loaded(k).enabled
          /\ Loaded(k).next_timestamp = stored'[k].next_timestamp
      <3>1. PICK s \in Records : s = stored'[k]
        BY <2>1
      <3>2. PICK i \in Nat : i = k - 1
        BY <2>1
      <3>3. Loaded(k) = AsLoaded(s, i)
        BY <2>2, <3>1, <3>2
      <3>4. /\ AsLoaded(s, i) \in Schedules
            /\ AsLoaded(s, i).id = s.id /\ AsLoaded(s, i).kind = s.kind
            /\ AsLoaded(s, i).index = i /\ AsLoaded(s, i).born = i
            /\ ~AsLoaded(s, i).armed /\ ~AsLoaded(s, i).enabled
            /\ AsLoaded(s, i).next_timestamp = s.next_timestamp
        BY LoadedFacts
      <3> QED BY <3>1, <3>2, <3>3, <3>4
    <2> QED BY <1>5, <2>3
  <1> HIDE DEF Loaded
  <1>8. \A k \in 1..n :
           /\ New(k) \in Schedules /\ New(k).id = stored[k].id /\ New(k).kind = stored[k].kind
           /\ New(k).index = k - 1 /\ New(k).born = k - 1
           /\ ~stored[k].enabled => ~New(k).enabled /\ ~New(k).armed
           /\ stored[k].enabled /\ time_sync_state' # "DONE" =>
                 New(k).enabled /\ ~New(k).armed /\ New(k).next_timestamp = stored'[k].next_timestamp
           /\ stored[k].enabled /\ time_sync_state' = "DONE" /\ is_expired(Loaded(k)) =>
                 ~New(k).enabled /\ ~New(k).armed
           /\ stored[k].enabled /\ time_sync_state' = "DONE" /\ ~is_expired(Loaded(k)) =>
                 /\ New(k).enabled /\ New(k).armed
                 /\ New(k).kind = "once" => New(k).next_timestamp = "ahead"
    BY <1>7, EnableFacts DEF Same
  <1>9. \A k \in 1..n : is_expired(Loaded(k)) <=>
                           stored[k].kind = "once" /\ stored'[k].next_timestamp = "passed"
    BY <1>7 DEF is_expired
  <1> HIDE DEF New
  <1>10. /\ schedule_list' \in Seq(Schedules) /\ Len(schedule_list') = n
         /\ DOMAIN schedule_list' = 1..n
         /\ \A k \in 1..n : schedule_list'[k] = New(k)
    <2>1. schedule_list' \in [1..n -> Schedules]
      BY <1>2, <1>3, <1>8
    <2> QED BY <1>2, <1>3, <2>1, SegmentIsSeq
  <1>11. Typed'
    <2>1. /\ time_sync_state' \in {"NOT_STARTED", "STARTED", "DONE"} /\ time_sync_timer' \in BOOLEAN
          /\ clock' \in BOOLEAN
      BY <1>2 DEF SyncState, SInv, Typed
    <2>2. acting' \in [index : Int, born : Int, found : Int]
      BY <1>2 DEF NONE
    <2>3. queue' \in Seq(Works) /\ Len(queue') <= QueueFree
      BY <1>2, ListAssumption
    <2>4. /\ reporting' \subseteq Tasks /\ newest' \in Holders \cup {"none"}
          /\ old' \in [Holders -> SUBSET Ids] /\ refused' \in BOOLEAN
      BY <1>2, <1>4
    <2>5. copies' \in [Holders -> Seq(Records)]
      <3>1. \A p \in Holders : copies'[p] \in Seq(Records)
        <4>1. copies'["flash"] \in Seq(Records)
          BY <1>6 DEF stored
        <4>2. << >> \in Seq(Records)
          OBVIOUS
        <4> QED BY <1>4, <4>1, <4>2
      <3> QED BY <1>4, <3>1
    <2>6. TypedReports'
      BY <2>4, <2>5 DEF TypedReports
    <2>7. fired' \in [Ids -> 0..MaxFired]
      <3>1. old["flash"] \in SUBSET Ids
        BY <1>4 DEF SInv, Typed, TypedReports
      <3> QED BY <1>2, <3>1, Counts DEF SInv
    <2> QED BY <1>2, <1>3, <1>10, <2>1, <2>2, <2>3, <2>4, <2>6, <2>7 DEF SInv, Typed
  <1>12. Indexed'
    BY <1>2, <1>3, <1>8, <1>10 DEF Indexed
  <1>13. Traced'
    BY <1>2 DEF Traced, NONE
  <1>14. Faithful'
    <2>1. Agrees(schedule_list', stored')
      <3> SUFFICES ASSUME NEW k \in 1..n
                   PROVE  /\ New(k).id = stored'[k].id /\ New(k).kind = stored'[k].kind
                          /\ New(k).enabled => stored'[k].enabled
                          /\ New(k).kind = "repeat" => (New(k).enabled <=> stored'[k].enabled)
        BY <1>6, <1>10 DEF Agrees
      <3> QED BY <1>5, <1>8, <1>9
    <2>2. Len(stored') <= MAX_SCHEDULES /\ Distinct(stored')
      BY <1>3, <1>5, <1>6 DEF Distinct
    <2>3. Len(<< >>) <= MAX_SCHEDULES /\ Distinct(<< >>)
      BY ListAssumption DEF Distinct
    <2>4. stored' = copies'["flash"] /\ newest' = "flash"
      BY <1>2 DEF stored
    <2> HIDE DEF stored
    <2> QED BY <1>4, <2>1, <2>2, <2>3, <2>4 DEF Faithful
  <1>15. Served'
    <2>1. ASSUME time_sync_state' = "NOT_STARTED" PROVE ~any
      BY <1>2, <2>1 DEF SyncState
    <2>2. \A k \in 1..n : time_sync_state' = "DONE" => Waiting(New(k), Held')
      BY <1>8 DEF Waiting
    <2> QED BY <1>3, <1>8, <1>10, <2>1, <2>2 DEF Served
  <1>16. ASSUME Counted PROVE Counted'
    <2>1. /\ \A i \in Ids : fired'[i] \in Nat /\ fired'[i] <= 1
          /\ \A k \in 1..n : Timed(stored[k]) /\ stored[k].id \in Ids
      <3>1. \A i \in Ids : fired'[i] \in Nat /\ fired'[i] <= 1
        BY <1>2, <1>16, Counts DEF Counted, SInv
      <3>2. \A k \in 1..n : Timed(stored[k])
        BY <1>3, <1>16, <1>4 DEF Counted, stored
      <3>3. \A k \in 1..n : stored[k].id \in Ids
        BY <1>3 DEF Records
      <3> QED BY <3>1, <3>2, <3>3
    <2>2. ASSUME NEW k \in 1..n PROVE OnceOK(New(k), fired'[New(k).id])
      <3>1. Timed(stored[k]) /\ fired'[stored[k].id] \in Nat /\ fired'[stored[k].id] <= 1
        BY <2>1
      <3>2. New(k).id = stored[k].id /\ New(k).kind = stored[k].kind
        BY <1>8
      <3>3. stored[k].kind = "once" /\ stored[k].enabled => stored'[k].next_timestamp # "none"
        BY <1>5, <3>1 DEF Timed
      <3>4. stored[k].kind = "once" /\ stored[k].enabled /\ fired'[stored[k].id] > 0
               => stored'[k].next_timestamp = "passed"
        BY <1>5, <3>1 DEF Timed
      <3>5. CASE ~stored[k].enabled
        BY <1>8, <3>1, <3>2, <3>5 DEF OnceOK
      <3>6. CASE stored[k].enabled /\ time_sync_state' # "DONE"
        BY <1>8, <3>1, <3>2, <3>3, <3>4, <3>6 DEF OnceOK
      <3>7. CASE stored[k].enabled /\ time_sync_state' = "DONE" /\ is_expired(Loaded(k))
        BY <1>8, <3>1, <3>2, <3>7 DEF OnceOK
      <3>8. CASE stored[k].enabled /\ time_sync_state' = "DONE" /\ ~is_expired(Loaded(k))
        BY <1>8, <1>9, <3>1, <3>2, <3>4, <3>8 DEF OnceOK
      <3> QED BY <3>5, <3>6, <3>7, <3>8
    <2>3. \A k \in 1..n : Timed(stored'[k])
      BY <1>5, <2>1 DEF Timed
    <2>4. \A p \in Holders : \A k \in DOMAIN copies'[p] : Timed(copies'[p][k])
      <3>1. stored' = copies'["flash"] /\ DOMAIN << >> = {}
        BY DEF stored
      <3> HIDE DEF stored
      <3> QED BY <1>6, <1>4, <2>3, <3>1
    <2>5. \A k \in DOMAIN schedule_list' : OnceOK(schedule_list'[k], fired'[schedule_list'[k].id])
      BY <1>10, <2>2
    <2> QED BY <2>1, <2>4, <2>5 DEF Counted
  <1> QED BY <1>11, <1>12, <1>13, <1>14, <1>15, <1>16 DEF SInv

-----------------------------------------------------------------------------
(* The theorems. *)

LEMMA ListInit ==
    ASSUME Init
    PROVE  SInv /\ Counted
  <1>1. /\ schedule_list = << >> /\ queue = << >> /\ acting = NONE
        /\ reporting = {} /\ copies = [p \in Holders |-> << >>] /\ newest = "flash"
        /\ old = [p \in Holders |-> {}] /\ refused = FALSE
        /\ index = 0 /\ adds = 0 /\ time_sync_state = "NOT_STARTED" /\ time_sync_timer = FALSE
        /\ clock = FALSE /\ fired = [id \in Ids |-> 0]
    BY DEF Init
  <1>2. /\ << >> \in Seq(Schedules) /\ << >> \in Seq(Works) /\ << >> \in Seq(Records)
        /\ Len(<< >>) = 0 /\ DOMAIN << >> = {} /\ "flash" \in Holders
    BY DEF Holders
  <1>3. Typed
    <2>1. acting \in [index : Int, born : Int, found : Int]
      BY <1>1 DEF NONE
    <2>2. fired \in [Ids -> 0..MaxFired] /\ 0 <= MAX_SCHEDULES /\ 0 <= QueueFree
      BY <1>1, ListAssumption
    <2>3. TypedReports
      BY <1>1, <1>2 DEF TypedReports
    <2> QED BY <1>1, <1>2, <2>1, <2>2, <2>3 DEF Typed
  <1>4. Indexed /\ Served /\ Counted
    BY <1>1, <1>2 DEF Indexed, Served, Counted
  <1>5. Faithful
    <2>1. 0 <= MAX_SCHEDULES
      BY ListAssumption
    <2> QED BY <1>1, <1>2, <2>1 DEF Faithful, Agrees, Distinct
  <1>6. Traced
    BY <1>1, <1>2 DEF Traced, NONE
  <1> QED BY <1>3, <1>4, <1>6, <1>5 DEF SInv

\* Every step keeps the invariant.
LEMMA ListStep ==
    ASSUME SInv, [Next]_vars
    PROVE  SInv' /\ (~BeforeSync /\ Counted => Counted')
  BY AddKept, EditKept, RemoveKept, EnableKept, DisableKept, TimerFiresKept, WorkBeginsKept,
     WorkEndsKept, TimesyncWorkKept, StoreReportKept, ClockKept, RestartKept DEF Next, Cloud, Worker

\* The invariant in every state.
LEMMA ListInvariant == Spec => []SInv
  <1>1. Init => SInv
    BY ListInit
  <1>2. SInv /\ [Next]_vars => SInv'
    BY ListStep
  <1> QED BY <1>1, <1>2, PTL DEF Spec

\* Through any sequence of operations of the cloud, triggers, reports of the two tasks
\* that overlap as they may, restarts and settings of the clock: once the clock is set
\* and the queue is empty, every enabled schedule has its timer running or its trigger
\* was refused; and when the newest report is the one stored last, the list in flash
\* holds the same schedules in the same order, enabled if they are.
THEOREM ListStaysSound == Spec => []ListInv
  <1>1. SInv => ListInv
    <2> SUFFICES ASSUME SInv PROVE ListInv
      OBVIOUS
    <2>1. TypeOK
      BY DEF SInv, Typed, TypedReports, TypeOK, Schedules
    <2>2. StoredAgrees
      BY DEF SInv, Faithful, StoredAgrees, stored, Holders
    <2>3. AllEnabledArmed
      <3> SUFFICES ASSUME time_sync_state = "DONE", queue = << >>, acting = NONE,
                          NEW k \in DOMAIN schedule_list, schedule_list[k].enabled
                   PROVE  schedule_list[k].armed \/ schedule_list[k].lost
        BY DEF AllEnabledArmed
      <3>1. Waiting(schedule_list[k], Held)
        BY DEF SInv, Served
      <3>2. schedule_list[k].index \in Nat
        BY Members, Fields DEF SInv
      <3>3. schedule_list[k].index \notin Held
        BY <3>2 DEF Held, NONE
      <3> QED BY <3>1, <3>3 DEF Waiting
    <2> QED BY <2>1, <2>3, <2>2 DEF ListInv
  <1> QED BY <1>1, ListInvariant, PTL

\* The index that a trigger carries leads to the schedule that triggered or to none,
\* whatever was removed, added or edited since.
THEOREM TriggersFindTheirOwn == Spec => []NoStaleTrigger
  <1>1. SInv => NoStaleTrigger
    BY DEF SInv, Traced, NoStaleTrigger
  <1> QED BY <1>1, ListInvariant, PTL

\* If the cloud operates with the clock set, a one-time schedule triggers once for each
\* time it is enabled, restarts between the trigger and the disabling included.
THEOREM OnceIsOnce ==
    ASSUME BeforeSync = FALSE
    PROVE  Spec => []OnceTriggersOnce
  <1>1. Init => SInvOnce
    BY ListInit DEF SInvOnce
  <1>2. SInvOnce /\ [Next]_vars => SInvOnce'
    BY ListStep DEF SInvOnce
  <1>3. SInvOnce => OnceTriggersOnce
    BY DEF SInvOnce, Counted, OnceOK, OnceTriggersOnce
  <1> QED BY <1>1, <1>2, <1>3, PTL DEF Spec
=============================================================================
