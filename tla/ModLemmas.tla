------------------------------ MODULE ModLemmas -----------------------------
(***************************************************************************)
(* Facts about a % m for every modulus m, which the provers know only for  *)
(* a modulus that is a number.                                             *)
(***************************************************************************)
EXTENDS Integers, TLAPS

\* A remainder is smaller than the modulus (sequence numbers fit uint32_t).
LEMMA ModRange ==
  ASSUME NEW a \in Nat, NEW m \in Nat \ {0}
  PROVE  a % m \in 0 .. m - 1
OBVIOUS

\* Quotient and remainder make up the number.
LEMMA ModDef ==
  ASSUME NEW a \in Nat, NEW m \in Nat \ {0}
  PROVE  /\ a \div m \in Int
         /\ a = m * (a \div m) + (a % m)
OBVIOUS

\* Different multiples of m are at least m apart.
LEMMA MulGap ==
  ASSUME NEW m \in Nat \ {0}, NEW x \in Int, NEW y \in Int, x < y
  PROVE  m * y >= m * x + m
OBVIOUS

\* The remainder is the only one of its size.
LEMMA ModUnique ==
  ASSUME NEW m \in Nat \ {0}, NEW a \in Nat, NEW q \in Int,
         NEW r \in 0 .. m - 1, a = m * q + r
  PROVE  a % m = r
<1> DEFINE x == a \div m
           s == a % m
<1>1. a = m * x + s /\ x \in Int /\ s \in 0 .. m - 1
  BY ModDef, ModRange
<1> SUFFICES s = r OBVIOUS
<1> HIDE DEF x, s
<1>2. CASE x = q
  BY <1>1, <1>2
<1>3. CASE x < q
  <2>1. m * q >= m * x + m
    BY <1>1, <1>3, MulGap
  <2> QED BY <1>1, <2>1
<1>4. CASE q < x
  <2>1. m * x >= m * q + m
    BY <1>1, <1>4, MulGap
  <2> QED BY <1>1, <2>1
<1> QED BY <1>1, <1>2, <1>3, <1>4

\* Two numbers with one remainder are a whole modulus apart: a sequence number
\* comes back only after a full cycle.
LEMMA ModGap ==
  ASSUME NEW a \in Nat, NEW b \in Nat, NEW m \in Nat \ {0},
         a < b, a % m = b % m
  PROVE  b >= a + m
<1> DEFINE x == a \div m
           y == b \div m
<1>1. a = m * x + (a % m) /\ b = m * y + (b % m) /\ x \in Int /\ y \in Int
  BY ModDef
<1>2. a % m \in Int
  BY ModRange
<1> HIDE DEF x, y
<1>3. x < y
  <2> SUFFICES ASSUME y <= x
               PROVE  FALSE
    BY <1>1
  <2>1. CASE x = y
    BY <1>1, <1>2, <2>1
  <2>2. CASE y < x
    <3>1. m * x >= m * y + m
      BY <1>1, <2>2, MulGap
    <3> QED BY <1>1, <1>2, <3>1
  <2> QED BY <1>1, <2>1, <2>2
<1>4. m * y >= m * x + m
  BY <1>1, <1>3, MulGap
<1> QED BY <1>1, <1>2, <1>4

\* Incrementing a remainder modulo m follows the increments of the number:
\* the uint32_t counter of move_next counts fragments.
LEMMA ModSucc ==
  ASSUME NEW a \in Nat, NEW m \in Nat \ {0}
  PROVE  ((a % m) + 1) % m = (a + 1) % m
<1> DEFINE x == a \div m
           s == a % m
<1>1. a = m * x + s /\ x \in Int /\ s \in 0 .. m - 1
  BY ModDef, ModRange
<1> SUFFICES (s + 1) % m = (a + 1) % m OBVIOUS
<1> HIDE DEF x, s
<1>2. CASE s + 1 < m
  <2>1. (a + 1) % m = s + 1
    <3>1. a + 1 = m * x + (s + 1)
      BY <1>1
    <3>2. s + 1 \in 0 .. m - 1
      BY <1>1, <1>2
    <3> QED BY <3>1, <3>2, <1>1, ModUnique
  <2>2. (s + 1) % m = s + 1
    BY <1>1, <1>2
  <2> QED BY <2>1, <2>2
<1>3. CASE s + 1 = m
  <2>1. (a + 1) % m = 0
    <3>1. a + 1 = m * (x + 1) + 0
      BY <1>1, <1>3
    <3> QED BY <3>1, <1>1, ModUnique
  <2>2. (s + 1) % m = 0
    BY <1>1, <1>3
  <2> QED BY <2>1, <2>2
<1> QED BY <1>1, <1>2, <1>3

\* A lap does not change the remainder: probing a table comes round.
LEMMA ModLap ==
  ASSUME NEW a \in Nat, NEW m \in Nat \ {0}
  PROVE  (a + m) % m = a % m
<1> DEFINE x == a \div m
           s == a % m
<1>1. a = m * x + s /\ x \in Int /\ s \in 0 .. m - 1
  BY ModDef, ModRange
<1> SUFFICES (a + m) % m = s OBVIOUS
<1> HIDE DEF x, s
<1>2. a + m = m * (x + 1) + s
  BY <1>1
<1> QED BY <1>1, <1>2, ModUnique

-----------------------------------------------------------------------------
(* The same of negative numbers: a distance taken backwards round a list     *)

\* A remainder is smaller than the modulus.
LEMMA IntModRange ==
  ASSUME NEW a \in Int, NEW m \in Nat \ {0}
  PROVE  a % m \in 0 .. m - 1
OBVIOUS

\* Quotient and remainder make up the number.
LEMMA IntModDef ==
  ASSUME NEW a \in Int, NEW m \in Nat \ {0}
  PROVE  /\ a \div m \in Int
         /\ a = m * (a \div m) + (a % m)
OBVIOUS

\* The remainder is the only one of its size.
LEMMA IntModUnique ==
  ASSUME NEW m \in Nat \ {0}, NEW a \in Int, NEW q \in Int,
         NEW r \in 0 .. m - 1, a = m * q + r
  PROVE  a % m = r
<1> DEFINE x == a \div m
           s == a % m
<1>1. a = m * x + s /\ x \in Int /\ s \in 0 .. m - 1
  BY IntModDef, IntModRange
<1> SUFFICES s = r OBVIOUS
<1> HIDE DEF x, s
<1>2. CASE x = q
  BY <1>1, <1>2
<1>3. CASE x < q
  <2>1. m * q >= m * x + m
    BY <1>1, <1>3, MulGap
  <2> QED BY <1>1, <2>1
<1>4. CASE q < x
  <2>1. m * x >= m * q + m
    BY <1>1, <1>4, MulGap
  <2> QED BY <1>1, <2>1
<1> QED BY <1>1, <1>2, <1>3, <1>4
=============================================================================
