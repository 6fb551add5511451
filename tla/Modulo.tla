------------------------------- MODULE Modulo -------------------------------
(***************************************************************************)
(* Arithmetic modulo m for the rings of the drivers: what the provers do   *)
(* not know when m is not a number.                                        *)
(***************************************************************************)
EXTENDS Integers, TLAPS

(* Every integer is a multiple of m and a remainder.                       *)
LEMMA ModSplit ==
  ASSUME NEW a \in Int, NEW m \in Nat \ {0}
  PROVE  /\ a % m \in 0 .. m - 1
         /\ \E q \in Int : a = q * m + (a % m)
<1>1. a % m \in 0 .. m - 1
  OBVIOUS
<1>2. a \div m \in Int /\ a = (a \div m) * m + (a % m)
  OBVIOUS
<1> QED
  BY <1>1, <1>2

(* There is one remainder only.                                            *)
LEMMA ModUnique ==
  ASSUME NEW m \in Nat \ {0}, NEW q \in Int, NEW p \in Int,
         NEW r \in 0 .. m - 1, NEW s \in 0 .. m - 1,
         q * m + r = p * m + s
  PROVE  r = s
<1>1. ASSUME q < p PROVE FALSE
  <2>1. p * m = q * m + m + (p - q - 1) * m
    OBVIOUS
  <2>2. (p - q - 1) * m >= 0
    BY <1>1
  <2> QED
    BY <2>1, <2>2
<1>2. ASSUME p < q PROVE FALSE
  <2>1. q * m = p * m + m + (q - p - 1) * m
    OBVIOUS
  <2>2. (q - p - 1) * m >= 0
    BY <1>2
  <2> QED
    BY <2>1, <2>2
<1>3. p = q => r = s
  OBVIOUS
<1> QED
  BY <1>1, <1>2, <1>3

(* So a remainder found is the remainder.                                  *)
LEMMA ModValue ==
  ASSUME NEW a \in Int, NEW m \in Nat \ {0}, NEW q \in Int, NEW r \in 0 .. m - 1,
         a = q * m + r
  PROVE  a % m = r
<1>1. PICK p \in Int : a = p * m + (a % m)
  BY ModSplit
<1>2. a % m \in 0 .. m - 1
  BY ModSplit
<1> QED
  BY <1>1, <1>2, ModUnique

(* Multiples of m do not matter.                                           *)
LEMMA ModShift ==
  ASSUME NEW m \in Nat \ {0}, NEW x \in Int, NEW y \in Int, NEW p \in Int,
         x = p * m + y
  PROVE  x % m = y % m
<1>1. PICK q \in Int : y = q * m + (y % m)
  BY ModSplit
<1>2. y % m \in 0 .. m - 1
  BY ModSplit
<1>3. \A r \in 0 .. m - 1 : y = q * m + r => x = (p + q) * m + r
  OBVIOUS
<1>4. p + q \in Int
  OBVIOUS
<1>5. \A r \in 0 .. m - 1, k \in Int : x = k * m + r => x % m = r
  BY ModValue
<1>6. x = (p + q) * m + (y % m)
  BY <1>1, <1>2, <1>3
<1> QED
  BY <1>2, <1>4, <1>5, <1>6, Zenon

(* A term of a sum may be reduced first.                                   *)
LEMMA ModAdd ==
  ASSUME NEW a \in Int, NEW b \in Int, NEW m \in Nat \ {0}
  PROVE  ((a % m) + b) % m = (a + b) % m
<1>1. PICK p \in Int : a = p * m + (a % m)
  BY ModSplit
<1>2. a % m \in Int
  BY ModSplit
<1>3. \A c \in Int : a = p * m + c => a + b = p * m + (c + b)
  OBVIOUS
<1>4. a + b = p * m + ((a % m) + b)
  BY <1>1, <1>2, <1>3, Zenon
<1>5. \A x, y \in Int : x = p * m + y => x % m = y % m
  BY ModShift
<1>6. a + b \in Int /\ (a % m) + b \in Int
  BY <1>2
<1> QED
  BY <1>4, <1>5, <1>6, Zenon
=============================================================================
