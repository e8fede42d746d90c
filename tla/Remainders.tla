----------------------------- MODULE Remainders -----------------------------
(***************************************************************************)
(* Lemmas on quotients and remainders by a positive number that is not     *)
(* known: the places of the fifo's ring, the memory the bus sends an       *)
(* address to, and the ends of the quanta.                                 *)
(***************************************************************************)
EXTENDS Integers, TLAPS

\* A multiple by at least one is no smaller.
LEMMA MultipleAtLeast ==
    ASSUME NEW n \in Nat \ {0}, NEW d \in Int, d >= 1
    PROVE  n * d >= n
  OBVIOUS

\* Division with remainder.
LEMMA Division ==
    ASSUME NEW n \in Nat \ {0}, NEW a \in Nat
    PROVE  /\ a = n * (a \div n) + (a % n)
           /\ a \div n \in Nat
           /\ a % n \in 0 .. (n - 1)
  OBVIOUS

\* Numbers with the same remainder differ by a multiple.
LEMMA SameRemainder ==
    ASSUME NEW n \in Nat \ {0}, NEW a \in Int, NEW b \in Int, a % n = b % n
    PROVE  \E c \in Int : a = b + n * c
  <1>1. /\ a = n * (a \div n) + (a % n) /\ a \div n \in Int
        /\ b = n * (b \div n) + (b % n) /\ b \div n \in Int
    OBVIOUS
  <1> DEFINE q == a \div n   p == b \div n
  <1>2. q - p \in Int /\ n * (q - p) = n * q - n * p
    BY <1>1
  <1>3. a = b + n * (q - p)
    BY <1>1, <1>2
  <1> QED
    BY <1>2, <1>3

\* The remainder is the only one, and so is the quotient.
LEMMA RemainderUnique ==
    ASSUME NEW n \in Nat \ {0}, NEW q1 \in Int, NEW q2 \in Int,
           NEW r1 \in 0 .. (n - 1), NEW r2 \in 0 .. (n - 1),
           n * q1 + r1 = n * q2 + r2
    PROVE  r1 = r2
  <1>1. n * (q1 - q2) = r2 - r1 /\ n * (q2 - q1) = r1 - r2
    OBVIOUS
  <1>2. ~(q1 - q2 >= 1) /\ ~(q2 - q1 >= 1)
    BY <1>1, MultipleAtLeast
  <1> QED
    BY <1>2

LEMMA QuotientUnique ==
    ASSUME NEW n \in Nat \ {0}, NEW q1 \in Int, NEW q2 \in Int,
           NEW r1 \in 0 .. (n - 1), NEW r2 \in 0 .. (n - 1),
           n * q1 + r1 = n * q2 + r2
    PROVE  q1 = q2
  <1>1. n * (q1 - q2) = r2 - r1 /\ n * (q2 - q1) = r1 - r2
    OBVIOUS
  <1>2. ~(q1 - q2 >= 1) /\ ~(q2 - q1 >= 1)
    BY <1>1, MultipleAtLeast
  <1> QED
    BY <1>2

\* Adding commutes with taking the remainder.
LEMMA RemainderAdds ==
    ASSUME NEW n \in Nat \ {0}, NEW a \in Nat, NEW b \in Nat
    PROVE  ((a % n) + b) % n = (a + b) % n
  <1> DEFINE q == a \div n   r == a % n
             p == (r + b) \div n   s == (r + b) % n
             u == (a + b) \div n   v == (a + b) % n
  <1>1. a = n * q + r /\ q \in Nat /\ r \in 0 .. (n - 1)
    BY Division
  <1>2. r + b = n * p + s /\ p \in Nat /\ s \in 0 .. (n - 1)
    <2>1. r + b \in Nat
      BY <1>1
    <2> QED
      BY <2>1, Division
  <1>3. a + b = n * u + v /\ u \in Nat /\ v \in 0 .. (n - 1)
    BY Division, a + b \in Nat
  <1> HIDE DEF q, r, p, s, u, v
  <1>4. n * u + v = n * (q + p) + s
    BY <1>1, <1>2, <1>3
  <1>5. v = s
    <2>1. q + p \in Int /\ u \in Int
      BY <1>1, <1>2, <1>3
    <2> QED
      BY <2>1, <1>2, <1>3, <1>4, RemainderUnique
  <1> QED
    BY <1>5 DEF v, s, r

\* A number given by a quotient and a remainder has that quotient and remainder.
LEMMA QuotientOf ==
    ASSUME NEW n \in Nat \ {0}, NEW q \in Nat, NEW r \in 0 .. (n - 1)
    PROVE  /\ n * q + r \in Nat
           /\ (n * q + r) \div n = q
           /\ (n * q + r) % n = r
  <1>1. n * q \in Nat
    OBVIOUS
  <1> DEFINE a == n * q + r
  <1>2. a \in Nat
    BY <1>1
  <1> DEFINE p == a \div n   s == a % n
  <1>3. a = n * p + s /\ p \in Nat /\ s \in 0 .. (n - 1)
    BY <1>2, Division
  <1>4. n * p + s = n * q + r /\ p \in Int /\ q \in Int
    BY <1>3
  <1> HIDE DEF p, s
  <1>5. s = r
    BY <1>3, <1>4, RemainderUnique
  <1>6. p = q
    BY <1>3, <1>4, QuotientUnique
  <1> QED
    BY <1>2, <1>5, <1>6 DEF p, s

\* The quotient grows with the number, and a number below a multiple has a quotient
\* below it.
LEMMA QuotientBelow ==
    ASSUME NEW n \in Nat \ {0}, NEW a \in Nat, NEW k \in Nat, a < n * k
    PROVE  a \div n < k
  <1> DEFINE q == a \div n
  <1>1. n * q <= a /\ q \in Nat
    BY Division
  <1> HIDE DEF q
  <1>2. CASE q >= k
    <2>1. n * (q - k) = n * q - n * k
      BY <1>1
    <2>2. n * (q - k) >= 0
      BY <1>1, <1>2
    <2> QED
      BY <1>1, <2>1, <2>2
  <1> QED
    BY <1>1, <1>2 DEF q

LEMMA QuotientGrows ==
    ASSUME NEW n \in Nat \ {0}, NEW a \in Nat, NEW b \in Nat, a <= b
    PROVE  n * (a \div n) <= n * (b \div n)
  <1> DEFINE q == a \div n   p == b \div n
  <1>1. /\ a = n * q + (a % n) /\ q \in Nat /\ a % n \in 0 .. (n - 1)
        /\ b = n * p + (b % n) /\ p \in Nat /\ b % n \in 0 .. (n - 1)
    BY Division
  <1> HIDE DEF q, p
  <1>2. CASE q >= p + 1
    <2>1. n * (q - p) >= n
      BY <1>1, <1>2, MultipleAtLeast
    <2>2. n * (q - p) = n * q - n * p
      BY <1>1
    <2> QED
      BY <1>1, <2>1, <2>2
  <1>3. CASE q <= p
    <2>1. n * (p - q) >= 0
      BY <1>1, <1>3
    <2>2. n * (p - q) = n * p - n * q
      BY <1>1
    <2> QED
      BY <1>1, <2>1, <2>2 DEF q, p
  <1> QED
    BY <1>1, <1>2, <1>3
=============================================================================
